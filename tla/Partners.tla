-------------------------------- MODULE Partners --------------------------------
(***************************************************************************)
(* The partnerships of agents (agents/base/partners.py and agent.py; the    *)
(* requests lets-pair-up and partner-notification of requester.py and      *)
(* replier.py).  Both sides of a partnership have the other one among the   *)
(* partners in their descriptors, maybe with an allocation of resources    *)
(* that is held for it.  Handlers of partners take as long as they like    *)
(* and descriptors are saved one update after another.                     *)
(*                                                                         *)
(* The addresses of partners, which agents change when they move, are left  *)
(* out: a partner is known by its agent.                                   *)
(***************************************************************************)
EXTENDS Naturals, Sequences, FiniteSets

CONSTANTS
  Agents,
  Holders,       \* those whose partners allocate resources in initiate()
  MaxProposals,  \* bound: proposals
  MaxByes,       \* bound: goodbyes between two agents, each way
  MaxSlots,      \* bound: allocations made by each agent
  Scenes         \* who is there, and what they do: propose to each other at the
                 \* same time ("cross"), again to a partner ("double"), give up
                 \* early ("hasty"), break up ("breakup") even during proposals
                 \* ("fickle"), leave ("leave"), replace a partner ("substitute"),
                 \* announce a new address ("restarted"); and how many
                 \* allocations an agent has resources for

ASSUME PartnersBoundsAssumption == MaxProposals \in Nat /\ MaxByes \in Nat /\ MaxSlots \in Nat
ASSUME HoldersAssumption == IsFiniteSet(Agents) /\ Holders \subseteq Agents
ASSUME ScenesAssumption ==
  Scenes \subseteq
    [agents : SUBSET Agents,
     manners : SUBSET {"cross", "double", "hasty", "breakup", "fickle", "leave", "substitute",
                       "restarted"},
     room : Nat]

VARIABLES
  scene,    \* the one that is played
  present,  \* the agents that have not left
  pact,     \* the partners in the descriptor of each agent
  slots,    \* the allocations in it, and how many were made
  hooks,    \* handlers of partners that have been called
  todo,     \* updates of the descriptor: the first one is being saved
  prop,     \* the proposals (Propose and ProposalReceiver)
  bye,      \* the goodbyes between two agents
  odd       \* history: pairs for which something went wrong, by kind

partnerVars == <<scene, present, pact, slots, hooks, todo, prop, bye, odd>>

Manners == scene.manners
Room == scene.room
NoSlot == 0
Slots == 1..MaxSlots
Proposals == 1..MaxProposals
Partner(y, slot) == [peer |-> y, slot |-> slot]
Partnerships == [peer : Agents, slot : {NoSlot} \cup Slots]
NoPartner == [peer |-> "nobody", slot |-> NoSlot]

(* A job of an agent: what it is for, the number of the proposal or of the  *)
(* goodbye, the partner, and its next step.                                *)
Job(for, with, partner, old, step) ==
  [for |-> for, with |-> with, partner |-> partner, old |-> old, step |-> step]
Unasked ==
  [from |-> "nobody", to |-> "nobody", own |-> NoSlot, theirs |-> NoSlot, old |-> NoPartner,
   phase |-> "none", taken |-> FALSE, answer |-> "none"]
NoBye == [phase |-> "none", partner |-> NoPartner, count |-> 0]

PState ==
  [present |-> present, pact |-> pact, slots |-> slots, hooks |-> hooks, todo |-> todo,
   prop |-> prop, bye |-> bye, odd |-> odd]
Now(next) ==
  \E s \in {next} :
    /\ UNCHANGED scene /\ present' = s.present /\ pact' = s.pact
    /\ slots' = s.slots /\ hooks' = s.hooks
    /\ todo' = s.todo /\ prop' = s.prop /\ bye' = s.bye /\ odd' = s.odd

(* find() *)
Found(s, x, y) == {p \in s.pact[x] : p.peer = y}
Queue(s, x, job) == [s EXCEPT !.todo[x] = Append(@, job)]
Odd(s, x, y) == [s EXCEPT !.odd = @ \cup {{x, y}}]

-----------------------------------------------------------------------------
(* What becomes of a job                                                   *)

(* What _release_allocation() does when a proposal has failed.             *)
Declined(s, i) ==
  LET p == s.prop[i]
  IN  IF p.own = NoSlot \/ p.own \notin s.slots[p.from].held THEN s
      ELSE Queue(s, p.from, Job("release", i, Partner(p.to, p.own), NoPartner, "release"))

(* _send_reply(): a goodbye that was given up is not answered any more. *)
Replied(s, x, job, phase) ==
  LET y == job.partner.peer
  IN  IF s.bye[y][x].phase = "handled" /\ s.bye[y][x].count = job.with
      THEN [s EXCEPT !.bye[y][x].phase = phase] ELSE s

Done(s, x, job) ==
  CASE job.for = "propose" -> [s EXCEPT !.prop[job.with].phase = "done"]
    [] job.for = "receive" -> [s EXCEPT !.prop[job.with].answer = "ok"]
    [] job.for = "goodbye" -> Replied(s, x, job, "answered")
    [] OTHER -> s

(* A goodbye whose handling fails is answered with the failure.  When the  *)
(* proposer itself fails, the other side has a partner already.            *)
Failed(s, x, job) ==
  CASE job.for = "propose" -> Odd([s EXCEPT !.prop[job.with].phase = "done"], x, job.partner.peer)
    [] job.for = "receive" -> [s EXCEPT !.prop[job.with].answer = "fail"]
    [] job.for = "goodbye" -> Replied(s, x, job, "failure")
    [] OTHER -> s

(* create(): an agent that is a partner already is not created again. *)
Create(s, x, for, with, partner, old) ==
  LET job == Job(for, with, partner, old, "initiate")
  IN  IF Found(s, x, partner.peer) # {} THEN Done(s, x, job)
      ELSE IF partner.slot # NoSlot /\ partner.slot \notin s.slots[x].held THEN Failed(s, x, job)
      ELSE [s EXCEPT !.hooks[x] = @ \cup {job}]

(* The end of initiate(), which may allocate, and of on_restarted(). *)
HookEnds(x, job) ==
  LET c == [PState EXCEPT !.hooks[x] = @ \ {job}]
      n == c.slots[x].made + 1
  IN  /\ job \in hooks[x]
      /\ IF x \in Holders /\ job.step = "initiate" /\ job.partner.slot = NoSlot
         THEN IF Cardinality(c.slots[x].held) >= Room THEN Now(Failed(c, x, job))
              ELSE /\ n \in Slots
                   /\ Now(Queue([c EXCEPT !.slots[x].made = n], x,
                                [job EXCEPT !.step = "allocate", !.partner.slot = n]))
         ELSE Now(Queue(c, x, [job EXCEPT !.step = "update"]))

(* Mutant: a partner that is there already stays beside the new one. *)
AppendPartner(partners, partner) == partners \cup {partner}
(* _do_update_partner() *)
UpdatePartner(partners, partner) == {p \in partners : p.peer # partner.peer} \cup {partner}

(* remove() *)
RemovePartner(s, x, job) ==
  LET c == [s EXCEPT !.pact[x] = @ \ {job.partner}]
  IN  IF job.partner.slot = NoSlot THEN Done(c, x, job)
      ELSE IF job.partner.slot \in c.slots[x].held THEN Queue(c, x, [job EXCEPT !.step = "release"])
      ELSE Failed(c, x, job)

(* The update that is being saved is stored. *)
StoredUpdate(s, x, job) ==
  CASE job.step = "allocate" ->
         Queue([s EXCEPT !.slots[x].held = @ \cup {job.partner.slot}], x,
               [job EXCEPT !.step = "update"])
    [] job.step = "update" ->
         LET c == [s EXCEPT !.pact[x] = UpdatePartner(@ \ {job.old}, job.partner)]
         IN  Done(IF job.old \in s.pact[x] THEN Odd(c, x, job.old.peer) ELSE c, x, job)
    [] job.step = "remove" -> RemovePartner(s, x, job)
    [] job.step = "release" -> Done([s EXCEPT !.slots[x].held = @ \ {job.partner.slot}], x, job)

DescriptorSaved(x) ==
  /\ todo[x] # <<>>
  /\ Now(StoredUpdate([PState EXCEPT !.todo[x] = Tail(@)], x, Head(todo[x])))

-----------------------------------------------------------------------------
(* Proposals *)

Jobs(x) == hooks[x] \cup {todo[x][k] : k \in 1..Len(todo[x])}

Open(i) == prop[i].phase \in {"asked", "creating"}
Proposing(x, y) == \E i \in Proposals : Open(i) /\ prop[i].from = x /\ prop[i].to = y
Between(x, y) == Proposing(x, y) \/ Proposing(y, x)

Removes(x, y) ==
  \E j \in Jobs(x) : j.partner.peer = y /\ j.for \in {"goodbye", "breakup"}
Dividing(x, y) ==
  bye[x][y].phase # "none" \/ bye[y][x].phase # "none" \/ Removes(x, y) \/ Removes(y, x)

(* establish_partnership(), maybe with an allocation of its own and one    *)
(* that the other side has made for it, maybe in place of a partner.       *)
Establish(x, y) ==
  /\ x \in present /\ y \in present /\ x # y
  /\ Found(PState, x, y) = {} \/ "double" \in Manners
  /\ Proposing(x, y) => "double" \in Manners
  /\ Proposing(y, x) => "cross" \in Manners
  /\ Dividing(x, y) => "fickle" \in Manners
  /\ \E i \in Proposals :
       /\ prop[i].phase = "none" /\ \A k \in 1..(i - 1) : prop[k].phase # "none"
       /\ \E own, theirs \in BOOLEAN,
             old \in {NoPartner} \cup (IF "substitute" \in Manners THEN pact[x] ELSE {}) :
            /\ theirs => own \/ old # NoPartner
            /\ old # NoPartner => old.peer # y /\ ~own
            /\ own => slots[x].made < MaxSlots /\ Cardinality(slots[x].held) < Room
            /\ theirs => slots[y].made < MaxSlots /\ Cardinality(slots[y].held) < Room
            /\ LET a == IF old # NoPartner THEN old.slot
                        ELSE IF own THEN slots[x].made + 1 ELSE NoSlot
                   b == IF theirs THEN slots[y].made + 1 ELSE NoSlot
               IN  /\ slots' = [z \in Agents |->
                         CASE z = x /\ own -> [made |-> a, held |-> slots[x].held \cup {a}]
                           [] z = y /\ theirs -> [made |-> b, held |-> slots[y].held \cup {b}]
                           [] OTHER -> slots[z]]
                   /\ prop' = [prop EXCEPT ![i] =
                         [Unasked EXCEPT !.from = x, !.to = y, !.own = a, !.theirs = b,
                                         !.old = old, !.phase = "asked"]]
  /\ UNCHANGED <<scene, present, pact, hooks, todo, bye, odd>>

(* The same of a partner, unless it may be one twice: it fails, and the    *)
(* partner that was to be replaced is removed.                             *)
DoublePartnership(x, y) ==
  /\ "substitute" \in Manners
  /\ x \in present /\ Found(PState, x, y) # {}
  /\ \E old \in pact[x] :
       /\ old.peer # y /\ ~Dividing(x, old.peer)
       /\ Now(Odd(Queue(PState, x, Job("breakup", 0, old, NoPartner, "remove")), x, old.peer))

(* ProposalReceiver *)
ProposalRequested(i) ==
  LET p == prop[i]
  IN  /\ p.phase = "asked" /\ ~p.taken /\ p.to \in present
      /\ Now(Create([PState EXCEPT !.prop[i].taken = TRUE], p.to, "receive", i,
                    Partner(p.from, p.theirs), NoPartner))

(* got_reply() of Propose *)
GotReply(i) ==
  LET p == prop[i]
  IN  /\ p.phase = "asked" /\ p.answer # "none"
      /\ IF p.answer = "ok"
         THEN Now(Create([PState EXCEPT !.prop[i].phase = "creating"], p.from, "propose", i,
                         Partner(p.to, p.own), p.old))
         ELSE Now(Declined([PState EXCEPT !.prop[i].phase = "done"], i))

(* closed() of Propose: the proposal was not answered in time. *)
ProposalClosed(i) ==
  LET p == prop[i]
      s == Declined([PState EXCEPT !.prop[i].phase = "done"], i)
  IN  /\ p.phase = "asked" /\ (p.answer = "none" \/ p.to \notin present)
      /\ "hasty" \in Manners \/ p.to \notin present
      /\ Now(IF p.taken THEN Odd(s, p.from, p.to) ELSE s)

-----------------------------------------------------------------------------
(* The end of a partnership *)

SayGoodbye(s, x, partner) ==
  [s EXCEPT !.bye[x][partner.peer] = [phase |-> "sent", partner |-> partner, count |-> @.count + 1]]

Quits(x, p) == bye[x][p.peer].phase = "none" /\ bye[x][p.peer].count < MaxByes

Breakup(x) ==
  /\ "breakup" \in Manners /\ x \in present
  /\ \E p \in pact[x] :
       /\ Quits(x, p)
       /\ Between(x, p.peer) => "fickle" \in Manners
       /\ Now(SayGoodbye(PState, x, p))

(* Mutant: the partner is kept when it says goodbye. *)
GoodbyeOnlyAnswered(x, y) ==
  /\ bye[x][y].phase = "sent" /\ y \in present
  /\ Now([PState EXCEPT !.bye[x][y].phase = "answered"])

(* The goodbye reaches the other side: _on_goodbye(). *)
GoodbyeRequested(x, y) ==
  LET known == Found(PState, y, x)
      answered == [PState EXCEPT !.bye[x][y].phase = "answered"]
  IN  /\ bye[x][y].phase = "sent" /\ y \in present
      /\ IF known = {} THEN Now(IF Between(x, y) THEN Odd(answered, x, y) ELSE answered)
         ELSE \E p \in known :
                Now(Queue([PState EXCEPT !.bye[x][y].phase = "handled"], y,
                          Job("goodbye", bye[x][y].count, p, NoPartner, "remove")))

(* _do_breakup(), once the goodbye is answered or has expired.  A failure  *)
(* in the answer fails the breakup.                                        *)
DoBreakup(x, y) ==
  LET s == [PState EXCEPT !.bye[x][y].phase = "none", !.bye[x][y].partner = NoPartner]
      job == Job("breakup", 0, bye[x][y].partner, NoPartner, "remove")
  IN  /\ x \in present
      /\ \/ bye[x][y].phase = "answered" /\ Now(Queue(s, x, job))
         \/ bye[x][y].phase = "failure" /\ Now(Odd(s, x, y))
         \/ /\ bye[x][y].phase \in {"sent", "handled"}
            /\ "hasty" \in Manners \/ y \notin present
            /\ Now(Odd(Queue(s, x, job), x, y))

(* The agent terminates: its protocols are killed, and it says goodbye.    *)
Leave(x) ==
  /\ "leave" \in Manners /\ x \in present
  /\ \A y \in Agents : bye[x][y].phase = "none"
  /\ Now([PState EXCEPT
            !.present = @ \ {x}, !.pact[x] = {}, !.slots[x].held = {}, !.hooks[x] = {},
            !.todo[x] = <<>>,
            !.prop = [i \in Proposals |->
                        IF Open(i) /\ @[i].from = x THEN [@[i] EXCEPT !.phase = "done"] ELSE @[i]],
            !.bye[x] = [y \in Agents |->
                          IF Found(PState, x, y) # {} THEN [@[y] EXCEPT !.phase = "sent"] ELSE @[y]]])

(* A partner has a new address: _on_restarted(). *)
Restarted(x) ==
  /\ "restarted" \in Manners /\ x \in present
  /\ \E p \in pact[x] :
       /\ \A j \in Jobs(x) : j.for # "restarted"
       /\ Now([PState EXCEPT !.hooks[x] = @ \cup {Job("restarted", 0, p, NoPartner, "restart")}])

-----------------------------------------------------------------------------
PartnersInit ==
  /\ scene \in Scenes /\ present = scene.agents
  /\ pact = [x \in Agents |-> {}]
  /\ slots = [x \in Agents |-> [made |-> 0, held |-> {}]]
  /\ hooks = [x \in Agents |-> {}] /\ todo = [x \in Agents |-> <<>>]
  /\ prop = [i \in Proposals |-> Unasked]
  /\ bye = [x \in Agents |-> [y \in Agents |-> NoBye]]
  /\ odd = {}

PartnersNext ==
  \/ \E x \in Agents :
       \/ DescriptorSaved(x) \/ Breakup(x) \/ Leave(x) \/ Restarted(x)
       \/ \E job \in hooks[x] : HookEnds(x, job)
       \/ \E y \in Agents :
            \/ Establish(x, y) \/ DoublePartnership(x, y)
            \/ GoodbyeRequested(x, y) \/ DoBreakup(x, y)
  \/ \E i \in Proposals : ProposalRequested(i) \/ GotReply(i) \/ ProposalClosed(i)

PartnersSpec == PartnersInit /\ [][PartnersNext]_partnerVars

-----------------------------------------------------------------------------
PartnersTypeOK ==
  /\ present \subseteq Agents /\ pact \in [Agents -> SUBSET Partnerships]
  /\ slots \in [Agents -> [made : 0..MaxSlots, held : SUBSET Slots]]
  /\ \A i \in Proposals :
       /\ prop[i].phase \in {"none", "asked", "creating", "done"}
       /\ prop[i].answer \in {"none", "ok", "fail"}
  /\ \A x, y \in Agents :
       bye[x][y].phase \in {"none", "sent", "handled", "answered", "failure"}

(* find(): "More than one partner was matched by the recipient". *)
OnePartner == \A x \in Agents : \A p, q \in pact[x] : p.peer = q.peer => p = q

(* The allocation of a partner exists. *)
AllocationsExist ==
  \A x \in Agents : \A p \in pact[x] : p.slot # NoSlot => p.slot \in slots[x].held

(* Nothing is under way between two agents. *)
Quiet(x, y) ==
  /\ ~Between(x, y) /\ bye[x][y].phase = "none" /\ bye[y][x].phase = "none"
  /\ \A j \in Jobs(x) : j.partner.peer # y
  /\ \A j \in Jobs(y) : j.partner.peer # x

SidesAgree ==
  \A x, y \in present :
    Quiet(x, y) /\ {x, y} \notin odd => (Found(PState, x, y) # {} <=> Found(PState, y, x) # {})

Used(x) ==
  {p.slot : p \in pact[x]} \cup {j.partner.slot : j \in Jobs(x)}
    \cup {prop[i].own : i \in {k \in Proposals : Open(k) /\ prop[k].from = x}}
    \cup {prop[i].theirs : i \in {k \in Proposals : Open(k) /\ prop[k].to = x}}
NoAllocationLost == \A x \in Agents : slots[x].held \subseteq Used(x)

(* Both sides of a partnership know of it, once, and the allocations made  *)
(* for partners are held.                                                  *)
PartnersSafe == OnePartner /\ AllocationsExist /\ SidesAgree
=============================================================================
