------------------------------- MODULE Resources -------------------------------
(***************************************************************************)
(* The resources of an agent (agents/base/resource.py): allocations and    *)
(* changes of allocations are first promised for a while (preallocate(),   *)
(* premodify()), then confirmed, which saves them in the agent's           *)
(* descriptor.  The save goes through the queue of descriptor updates, so  *)
(* it ends later; the agent may be restarted at any time.                  *)
(*                                                                         *)
(* There is one Scalar resource and one Range of ports.  An allocation     *)
(* that does not name a resource has none of it.                           *)
(***************************************************************************)
EXTENDS Integers, Sequences, FiniteSets, Functions

CONSTANTS
  Total,     \* the total of the scalar
  Ports,     \* the values of the range
  MaxMade,   \* bound: allocations and changes generated
  MaxQueue,  \* bound: updates of the descriptor that wait
  ResourceEvents     \* what may happen: a save may fail, the agent may be restarted

ASSUME TotalAssumption == Total \in Nat
ASSUME PortsAssumption == Ports \subseteq Nat \ {0} /\ IsFiniteSet(Ports)
ASSUME ResourceBoundsAssumption == MaxMade \in Nat /\ MaxQueue \in Nat
ASSUME ResourceEventsAssumption == ResourceEvents \subseteq {"failure", "restart"}

VARIABLES
  conf,    \* the allocations in the descriptor, by id
  mods,    \* promised allocations and changes, by id (an ExpDict)
  queue,   \* updates of the descriptor; the first one is being saved
  nextId,  \* id_autoincrement
  made,    \* history: how many allocations and changes were generated
  held,    \* history: allocations that were confirmed and not released
  unseen,  \* history: the most of the scalar that waited to be saved when
           \*   something was granted
  unseenPorts  \* history: the ports that did

resourceVars == <<conf, mods, queue, nextId, made, held, unseen, unseenPorts>>

Ids == 1..MaxMade
None == [kind |-> "none"]

(* A change has negative values for what it releases.  The serial number   *)
(* tells apart allocations that have been given the same id.               *)
Allocation(k, a, ports) == [kind |-> "alloc", serial |-> k, a |-> a, ports |-> ports]
AllocationChange(of, a, ports) == [kind |-> "change", of |-> of, a |-> a, ports |-> ports]

Signed == Ports \cup {-p : p \in Ports}
Allocations == [kind : {"alloc"}, serial : Ids, a : 0..MaxMade * Total, ports : SUBSET Ports]
Changes == [kind : {"change"}, of : Ids, a : -Total..Total, ports : SUBSET Signed]
AllocationUpdates ==
  [op : {"append", "apply"}, id : Ids, by : Allocations \cup Changes]
    \cup [op : {"remove"}, id : Ids]

Confirmed == {i \in Ids : conf[i] # None}
Promised == {i \in Ids : mods[i] # None}

-----------------------------------------------------------------------------
(* Scalar.reduce(), of what _get_allocated() gives. *)
Positive(n) == IF n > 0 THEN n ELSE 0
Reduce ==
  SumFunction([i \in Confirmed |-> conf[i].a])
    + SumFunction([i \in Promised |-> Positive(mods[i].a)])

(* Mutant: promised changes are not counted. *)
ScalarFitsConfirmed(a) == SumFunction([i \in Confirmed |-> conf[i].a]) + a <= Total

ScalarFits(a) == Reduce + a <= Total

(* Range._value_free() *)
ValueFree(p) ==
  /\ \A i \in Confirmed : p \notin conf[i].ports
  /\ \A i \in Promised : p \notin mods[i].ports

(* Range._find_free_values(): the first n free ones, none if too few. *)
FindFreeValues(n) ==
  {s \in SUBSET {p \in Ports : ValueFree(p)} :
     Cardinality(s) = n /\ \A p \in s : \A q \in 1..p : q \in Ports /\ ValueFree(q) => q \in s}

(* Mutant: more may be released than there is. *)
AddUnchecked(alloc, c) ==
  {[alloc EXCEPT !.a = @ + c.a,
                 !.ports = (@ \ {-p : p \in c.ports}) \cup (c.ports \cap Ports)]}

(* Allocation.apply(), with the add() of the resources, which may raise. *)
Add(alloc, c) ==
  LET more == c.ports \cap Ports
      less == {-p : p \in c.ports \ Ports}
  IN  {n \in {[alloc EXCEPT !.a = @ + c.a, !.ports = (@ \ less) \cup more]} :
         n.a >= 0 /\ less \subseteq alloc.ports /\ more \cap alloc.ports = {}}

-----------------------------------------------------------------------------
(* How much of the scalar, and which ports, an allocation or a change of   *)
(* one takes, and what an update of the descriptor is going to take.       *)
Worth(r) == IF r = None THEN 0 ELSE Positive(r.a)
Wants(r) == IF r = None THEN {} ELSE r.ports \cap Ports
Owes(u) == IF u.op = "remove" THEN None ELSE u.by
Owed(q) == SumFunction([k \in 1..Len(q) |-> Worth(Owes(q[k]))])
OwedPorts(q) == UNION {Wants(Owes(q[k])) : k \in 1..Len(q)}

CanAsk == made < MaxMade /\ nextId \in Ids

(* Something is granted, by the descriptor and the promises: what has been *)
(* confirmed and waits to be saved is in neither of them.                  *)
NextId ==
  /\ nextId' = nextId + 1 /\ made' = made + 1
  /\ unseen' = IF Owed(queue) > unseen THEN Owed(queue) ELSE unseen
  /\ unseenPorts' = unseenPorts \cup OwedPorts(queue)

UnchangedHistory == UNCHANGED <<made, unseen, unseenPorts>>

EnqueueUpdate(u) == Len(queue) < MaxQueue /\ queue' = Append(queue, u)

(* _generate_allocation() for a of the scalar and n ports. *)
Generated(a, n) ==
  {Allocation(made + 1, a, s) : s \in {t \in FindFreeValues(n) : a > 0 => ScalarFits(a)}}

Preallocate(a, n) ==
  /\ CanAsk /\ NextId
  /\ \E x \in Generated(a, n) : mods' = [mods EXCEPT ![nextId] = x]
  /\ UNCHANGED <<conf, queue, held>>

Allocate(a, n) ==
  /\ CanAsk /\ NextId
  /\ \E x \in Generated(a, n) : EnqueueUpdate([op |-> "append", id |-> nextId, by |-> x])
  /\ UNCHANGED <<conf, mods, held>>

(* premodify(): the commands of Range.modify() are "add" for a number of   *)
(* ports, "add_specific" and "release" for a port.  The last two read the  *)
(* range of the allocation and raise if it has none.                       *)
Modified(i, cmd, arg) ==
  CASE cmd = "none" -> {{}}
    [] cmd = "add" -> FindFreeValues(arg)
    [] cmd = "add_specific" -> {s \in {{arg}} : ValueFree(arg) /\ conf[i].ports # {}}
    [] cmd = "release" -> {s \in {{-arg}} : arg \in conf[i].ports}

Premodify(i, a, cmd, arg) ==
  /\ CanAsk /\ NextId
  /\ i \in Confirmed /\ -a <= conf[i].a /\ (a # 0 => ScalarFits(a))
  /\ \E s \in Modified(i, cmd, arg) : mods' = [mods EXCEPT ![nextId] = AllocationChange(i, a, s)]
  /\ UNCHANGED <<conf, queue, held>>

(* The ExpDict forgets a promise after ALLOCATION_TIMEOUT. *)
Expire(i) ==
  /\ i \in Promised
  /\ mods' = [mods EXCEPT ![i] = None]
  /\ UNCHANGED <<conf, queue, nextId, held>> /\ UnchangedHistory

(* The promise is forgotten before it is in the descriptor. *)
Confirm(i) ==
  /\ i \in Promised
  /\ LET action == IF mods[i].kind = "alloc" THEN "append" ELSE "apply"
     IN  EnqueueUpdate([op |-> action, id |-> i, by |-> mods[i]])
  /\ mods' = [mods EXCEPT ![i] = None]
  /\ UNCHANGED <<conf, nextId, held>> /\ UnchangedHistory

Release(i) ==
  /\ IF i \in Confirmed
     THEN EnqueueUpdate([op |-> "remove", id |-> i]) /\ UNCHANGED mods
     ELSE i \in Promised /\ mods' = [mods EXCEPT ![i] = None] /\ UNCHANGED queue
  /\ UNCHANGED <<conf, nextId, held>> /\ UnchangedHistory

-----------------------------------------------------------------------------
Changed(u) == IF conf[u.by.of] = None THEN {} ELSE Add(conf[u.by.of], u.by)

(* What the update makes of the descriptor: nothing if it raises. *)
Applied(u) ==
  CASE u.op = "append" -> {[conf EXCEPT ![u.id] = u.by]}
    [] u.op = "apply" -> {[conf EXCEPT ![u.by.of] = n] : n \in Changed(u)}
    [] u.op = "remove" -> {[conf EXCEPT ![u.id] = None]}

(* update_descriptor() calls back. *)
AllocationSaved ==
  /\ queue # <<>>
  /\ LET u == Head(queue)
     IN  \E c \in IF Applied(u) = {} THEN {conf} ELSE Applied(u) :
           /\ conf' = c
           /\ held' = CASE u.op = "append" -> held \cup {u.by.serial}
                        [] u.op = "remove" /\ conf[u.id] # None -> held \ {conf[u.id].serial}
                        [] OTHER -> held
  /\ queue' = Tail(queue)
  /\ UNCHANGED <<mods, nextId>> /\ UnchangedHistory

AllocationSaveFails ==
  /\ "failure" \in ResourceEvents /\ queue # <<>>
  /\ queue' = Tail(queue)
  /\ UNCHANGED <<conf, mods, nextId, held>> /\ UnchangedHistory

(* A new instance of the agent loads the descriptor. *)
Restart ==
  /\ "restart" \in ResourceEvents
  /\ mods' = [i \in Ids |-> None] /\ queue' = <<>> /\ nextId' = 1
  /\ UNCHANGED <<conf, held>> /\ UnchangedHistory

ResourcesInit ==
  /\ conf = [i \in Ids |-> None] /\ mods = [i \in Ids |-> None]
  /\ queue = <<>> /\ nextId = 1 /\ made = 0 /\ held = {} /\ unseen = 0 /\ unseenPorts = {}

Commands == ({"add"} \X (1..2)) \cup ({"add_specific", "release"} \X Ports) \cup {<<"none", 0>>}

ResourcesNext ==
  \/ \E a \in 0..Total + 1, n \in 0..Cardinality(Ports) : Preallocate(a, n) \/ Allocate(a, n)
  \/ \E i \in Ids, a \in -Total..Total, c \in Commands : Premodify(i, a, c[1], c[2])
  \/ \E i \in Ids : Expire(i) \/ Confirm(i) \/ Release(i)
  \/ AllocationSaved \/ AllocationSaveFails \/ Restart

ResourcesSpec == ResourcesInit /\ [][ResourcesNext]_resourceVars

(* The state has its type; above all, changes that were promised one by    *)
(* one are never applied so that an allocation has less than nothing.      *)
ResourcesTypeOK ==
  /\ conf \in [Ids -> Allocations \cup {None}]
  /\ mods \in [Ids -> Allocations \cup Changes \cup {None}]
  /\ \A k \in 1..Len(queue) : queue[k] \in AllocationUpdates
  /\ Len(queue) <= MaxQueue
  /\ nextId \in 1..MaxMade + 1 /\ made \in 0..MaxMade /\ held \subseteq Ids
  /\ unseen \in Nat /\ unseenPorts \subseteq Ports

-----------------------------------------------------------------------------
(* The user guide: confirmed allocations are stored in the descriptor.  An *)
(* allocation whose confirm() has ended is there until it is released.     *)
ConfirmedKept == \A k \in held : \E i \in Confirmed : conf[i].serial = k

(* Which ports two allocations or promises may share. *)
Disjoint(shared) ==
  /\ \A i, j \in Confirmed : i # j => conf[i].ports \cap conf[j].ports \subseteq shared
  /\ \A i \in Confirmed, j \in Promised : conf[i].ports \cap mods[j].ports \subseteq shared
  /\ \A i, j \in Promised : i # j => mods[i].ports \cap mods[j].ports \cap Ports \subseteq shared

(* What is allocated and promised exceeds what there is by no more than    *)
(* what was confirmed and not yet saved when something was granted, and no *)
(* port is given twice but one that was: whatever is promised, confirmed,  *)
(* expires, fails to be saved or is forgotten by a restart.                *)
Fits == Reduce <= Total + unseen /\ Disjoint(unseenPorts)

-----------------------------------------------------------------------------
(* What the code says and does not do *)

(* resource.py, IResourceDefinition.allocate(): "This method should raise  *)
(* NotEnoughResource in case it cannot comply".  What is allocated and     *)
(* promised never exceeds what there is.                                   *)
NothingTwice == Reduce <= Total /\ Disjoint({})
=============================================================================
