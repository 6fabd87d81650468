----------------------------- MODULE PartnersProofs -----------------------------
(***************************************************************************)
(* An agent knows each of its partners once, the two sides of a partnership *)
(* agree on it when nothing is under way between them, and the allocations  *)
(* of partners are held, for any number of agents, proposals and goodbyes.  *)
(*                                                                         *)
(* The argument about the sides is about a pair of agents of which nothing  *)
(* went wrong: who has a partner that does not have it is leaving, or waits *)
(* for the other one to be created (PairFits), and each open proposal and   *)
(* each goodbye has at most one job (PairDistinct).  A step of an agent is  *)
(* about one pair (PairStep), so what is claimed of all others stays        *)
(* (OthersFit).                                                            *)
(*                                                                         *)
(* The argument about the allocations is about one agent: each allocation   *)
(* it made belongs to a proposal that was not answered, to a job that       *)
(* brings, moves or releases it, or to one of its partners (Account), so    *)
(* nobody releases what another one relies on.                             *)
(*                                                                         *)
(* The lemmas about the kinds of steps say that both claims stay, and the   *)
(* lemmas about the actions say of which kind each action is.              *)
(***************************************************************************)
EXTENDS Partners, TLAPS

-----------------------------------------------------------------------------
(* The jobs of an agent: a set of handlers and a queue of updates          *)

Peers == Agents \cup {"nobody"}
AnyPartner == [peer : Peers, slot : Nat]
KnownPartner == [peer : Agents, slot : Nat]
JobType ==
  [for : {"propose", "receive", "goodbye", "breakup", "restarted", "release"}, with : Nat,
   partner : KnownPartner, old : AnyPartner,
   step : {"initiate", "restart", "allocate", "update", "remove", "release"}]

Elems(q) == {q[k] : k \in 1..Len(q)}

(* A key gives each job a set of tokens, which no other job may have.      *)
Distinct(h, q, key) ==
  /\ \A j, l \in h : j # l => key[j] \cap key[l] = {}
  /\ \A j \in h : \A k \in 1..Len(q) : key[j] \cap key[q[k]] = {}
  /\ \A k, m \in 1..Len(q) : k # m => key[q[k]] \cap key[q[m]] = {}

LEMMA ElemsAppend ==
  ASSUME NEW q \in Seq(JobType), NEW j \in JobType
  PROVE  Append(q, j) \in Seq(JobType) /\ Elems(Append(q, j)) = Elems(q) \cup {j}
<1> DEFINE p == Append(q, j)
           n == Len(q)
<1>1. n \in Nat /\ p \in Seq(JobType) /\ Len(p) = n + 1 /\ p[n + 1] = j
      /\ \A k \in 1..n : p[k] = q[k]
  OBVIOUS
<1> HIDE DEF p
<1>2. \A k \in 1..(n + 1) : k = n + 1 \/ k \in 1..n BY <1>1
<1>3. \A k \in 1..n : k \in 1..(n + 1) BY <1>1
<1>4. n + 1 \in 1..(n + 1) BY <1>1
<1>5. Elems(p) \subseteq Elems(q) \cup {j} BY <1>1, <1>2 DEF Elems
<1>6. Elems(q) \subseteq Elems(p) BY <1>1, <1>3 DEF Elems
<1>7. j \in Elems(p) BY <1>1, <1>4 DEF Elems
<1> QED BY <1>1, <1>5, <1>6, <1>7 DEF p

LEMMA ElemsTail ==
  ASSUME NEW q \in Seq(JobType), q # <<>>
  PROVE  /\ Tail(q) \in Seq(JobType) /\ Head(q) \in JobType
         /\ Elems(q) = Elems(Tail(q)) \cup {Head(q)}
<1> DEFINE t == Tail(q)
           n == Len(t)
<1>1. n \in Nat /\ t \in Seq(JobType) /\ Len(q) = n + 1 /\ Head(q) = q[1] /\ q[1] \in JobType
      /\ \A k \in 1..n : t[k] = q[k + 1]
  OBVIOUS
<1> HIDE DEF t
<1>2. \A k \in 1..(n + 1) : k = 1 \/ (k - 1 \in 1..n /\ (k - 1) + 1 = k) BY <1>1
<1>3. \A k \in 1..n : k + 1 \in 1..(n + 1) BY <1>1
<1>4. 1 \in 1..(n + 1) BY <1>1
<1>5. Elems(q) \subseteq Elems(t) \cup {q[1]}
  <2> SUFFICES ASSUME NEW k \in 1..(n + 1), q[k] # q[1] PROVE q[k] \in Elems(t)
    BY <1>1 DEF Elems
  <2>1. k - 1 \in 1..n /\ (k - 1) + 1 = k BY <1>2
  <2>2. t[k - 1] = q[k] BY <1>1, <2>1
  <2> QED BY <2>1, <2>2 DEF Elems
<1>6. Elems(t) \subseteq Elems(q) BY <1>1, <1>3 DEF Elems
<1>7. q[1] \in Elems(q) BY <1>1, <1>4 DEF Elems
<1> QED BY <1>1, <1>5, <1>6, <1>7 DEF t

LEMMA DistinctAdd ==
  ASSUME NEW h, NEW q, NEW key, Distinct(h, q, key), NEW j,
         \A l \in (h \cup Elems(q)) \ {j} : key[j] \cap key[l] = {},
         j \in Elems(q) => key[j] = {}
  PROVE  Distinct(h \cup {j}, q, key)
<1>1. \A k \in 1..Len(q) : q[k] \in Elems(q) BY DEF Elems
<1>2. ASSUME NEW a \in h \cup {j}, NEW b \in h \cup {j}, a # b PROVE key[a] \cap key[b] = {}
  <2>1. CASE a = j BY <1>2, <2>1
  <2>2. CASE b = j BY <1>2, <2>2
  <2>3. CASE a \in h /\ b \in h BY <1>2, <2>3 DEF Distinct
  <2> QED BY <2>1, <2>2, <2>3
<1>3. ASSUME NEW a \in h \cup {j}, NEW k \in 1..Len(q) PROVE key[a] \cap key[q[k]] = {}
  <2>1. CASE a = j BY <1>1, <2>1
  <2>2. CASE a \in h BY <2>2 DEF Distinct
  <2> QED BY <2>1, <2>2
<1>4. \A k, m \in 1..Len(q) : k # m => key[q[k]] \cap key[q[m]] = {} BY DEF Distinct
<1> QED BY <1>2, <1>3, <1>4 DEF Distinct

LEMMA DistinctDrop ==
  ASSUME NEW h, NEW q, NEW key, Distinct(h, q, key), NEW j \in h
  PROVE  /\ Distinct(h \ {j}, q, key)
         /\ \A l \in (h \ {j}) \cup Elems(q) : key[j] \cap key[l] = {}
<1>1. Distinct(h \ {j}, q, key) BY DEF Distinct
<1>2. \A l \in h \ {j} : key[j] \cap key[l] = {} BY DEF Distinct
<1>3. \A l \in Elems(q) : key[j] \cap key[l] = {} BY DEF Distinct, Elems
<1> QED BY <1>1, <1>2, <1>3

LEMMA DistinctAppend ==
  ASSUME NEW h, NEW q \in Seq(JobType), NEW key, Distinct(h, q, key), NEW j \in JobType,
         \A l \in h \cup Elems(q) : key[j] \cap key[l] = {}
  PROVE  Distinct(h, Append(q, j), key)
<1> DEFINE p == Append(q, j)
           n == Len(q)
<1>1. n \in Nat /\ Len(p) = n + 1 /\ p[n + 1] = j /\ \A k \in 1..n : p[k] = q[k]
  OBVIOUS
<1> HIDE DEF p
<1>2. \A k \in 1..(n + 1) : k = n + 1 \/ k \in 1..n BY <1>1
<1>3. \A k \in 1..n : q[k] \in Elems(q) BY DEF Elems
<1>4. ASSUME NEW a \in h, NEW k \in 1..(n + 1) PROVE key[a] \cap key[p[k]] = {}
  <2>1. CASE k = n + 1 BY <1>1, <2>1
  <2>2. CASE k \in 1..n BY <1>1, <2>2 DEF Distinct
  <2> QED BY <1>2, <2>1, <2>2
<1>5. ASSUME NEW k \in 1..(n + 1), NEW m \in 1..(n + 1), k # m
      PROVE  key[p[k]] \cap key[p[m]] = {}
  <2>1. CASE k = n + 1 /\ m \in 1..n BY <1>1, <1>3, <2>1
  <2>2. CASE k \in 1..n /\ m = n + 1
    <3>1. key[j] \cap key[q[k]] = {} BY <1>3, <2>2
    <3> QED BY <1>1, <2>2, <3>1
  <2>3. CASE k \in 1..n /\ m \in 1..n BY <1>1, <1>5, <2>3 DEF Distinct
  <2> QED BY <1>2, <1>5, <2>1, <2>2, <2>3
<1>6. \A a, b \in h : a # b => key[a] \cap key[b] = {} BY DEF Distinct
<1>7. Distinct(h, p, key) BY <1>1, <1>4, <1>5, <1>6 DEF Distinct
<1> QED BY <1>7 DEF p

LEMMA DistinctTail ==
  ASSUME NEW h, NEW q \in Seq(JobType), NEW key, Distinct(h, q, key), q # <<>>
  PROVE  /\ Distinct(h, Tail(q), key)
         /\ \A l \in h \cup Elems(Tail(q)) : key[Head(q)] \cap key[l] = {}
<1> DEFINE t == Tail(q)
           n == Len(t)
<1>1. n \in Nat /\ Len(q) = n + 1 /\ Head(q) = q[1] /\ \A k \in 1..n : t[k] = q[k + 1]
  OBVIOUS
<1> HIDE DEF t
<1>2. /\ 1 \in 1..(n + 1) /\ \A k \in 1..n : k + 1 \in 1..(n + 1) /\ k + 1 # 1
      /\ \A k, m \in 1..n : k # m => k + 1 # m + 1
  BY <1>1
<1>3. \A a \in h : \A k \in 1..n : key[a] \cap key[t[k]] = {} BY <1>1, <1>2 DEF Distinct
<1>4. ASSUME NEW k \in 1..n, NEW m \in 1..n, k # m PROVE key[t[k]] \cap key[t[m]] = {}
  BY <1>1, <1>2, <1>4 DEF Distinct
<1>5. \A a, b \in h : a # b => key[a] \cap key[b] = {} BY DEF Distinct
<1>6. Distinct(h, t, key) BY <1>3, <1>4, <1>5 DEF Distinct
<1>7. \A l \in h : key[q[1]] \cap key[l] = {}
  <2> SUFFICES ASSUME NEW l \in h PROVE key[q[1]] \cap key[l] = {} OBVIOUS
  <2>1. key[l] \cap key[q[1]] = {} BY <1>1, <1>2 DEF Distinct
  <2> QED BY <2>1
<1>8. \A k \in 1..n : key[q[1]] \cap key[t[k]] = {} BY <1>1, <1>2 DEF Distinct
<1>9. \A l \in Elems(t) : key[q[1]] \cap key[l] = {} BY <1>8 DEF Elems
<1> QED BY <1>1, <1>6, <1>7, <1>9 DEF t

-----------------------------------------------------------------------------
(* The state as a record, and what always holds of it                      *)

ProposalType ==
  [from : Peers, to : Peers, own : Nat, theirs : Nat, old : AnyPartner,
   phase : {"none", "asked", "creating", "done"}, taken : BOOLEAN,
   answer : {"none", "ok", "fail"}]
ByeType ==
  [phase : {"none", "sent", "handled", "answered", "failure"}, partner : AnyPartner, count : Nat]
PartnersState ==
  [present : SUBSET Agents, pact : [Agents -> SUBSET KnownPartner],
   slots : [Agents -> [made : Nat, held : SUBSET Nat]],
   hooks : [Agents -> SUBSET JobType], todo : [Agents -> Seq(JobType)],
   prop : [Proposals -> ProposalType], bye : [Agents -> [Agents -> ByeType]],
   odd : SUBSET SUBSET Peers]

JobsOf(s, x) == s.hooks[x] \cup Elems(s.todo[x])

(* The steps of each kind of job, and the proposal it is for.              *)
JobOK(s, x, j) ==
  /\ j.for \in {"propose", "receive"} =>
       /\ j.step \in {"initiate", "allocate", "update"}
       /\ j.with \in Proposals /\ s.prop[j.with].phase # "none"
  /\ j.for = "propose" => s.prop[j.with].from = x /\ s.prop[j.with].to = j.partner.peer
  /\ j.for = "receive" =>
       s.prop[j.with].from = j.partner.peer /\ s.prop[j.with].to = x /\ s.prop[j.with].taken
  /\ j.for \in {"goodbye", "breakup"} => j.step \in {"remove", "release"}
  /\ j.for = "restarted" => j.step \in {"restart", "update"}
  /\ j.for = "release" => j.step = "release"

Updates == {"allocate", "update", "remove", "release"}

PartnersOK(s) ==
  /\ s \in PartnersState
  /\ \A x \in Agents : \A j \in JobsOf(s, x) : JobOK(s, x, j)
  /\ \A x \in Agents : \A j \in s.hooks[x] : j.for \in {"propose", "receive", "restarted"}
  /\ \A x \in Agents : \A j \in Elems(s.todo[x]) : j.step \in Updates
  /\ \A i \in Proposals :
       /\ s.prop[i].phase # "none" => s.prop[i].from \in Agents /\ s.prop[i].to \in Agents
       /\ s.prop[i].answer # "none" => s.prop[i].taken
  /\ \A x \in s.present : \A y \in Agents :
       s.bye[x][y].phase # "none" => s.bye[x][y].partner.peer = y
  /\ \A x \in Agents : \A p, q \in s.pact[x] : p.peer = q.peer => p = q

-----------------------------------------------------------------------------
(* What the operators do to the fields                                     *)

LEMMA OddFields ==
  ASSUME NEW s \in PartnersState, NEW x \in Peers, NEW y \in Peers
  PROVE  LET t == Odd(s, x, y)
         IN  /\ t \in PartnersState /\ t.odd = s.odd \cup {{x, y}}
             /\ t.present = s.present /\ t.pact = s.pact /\ t.slots = s.slots
             /\ t.hooks = s.hooks /\ t.todo = s.todo /\ t.prop = s.prop /\ t.bye = s.bye
<1>1. {x, y} \in SUBSET Peers OBVIOUS
<1> QED BY <1>1 DEF Odd, PartnersState

(* A proposal that reaches a phase or is answered.                         *)
LEMMA PropFields ==
  ASSUME NEW s \in PartnersState, NEW i \in Proposals, NEW p \in ProposalType
  PROVE  LET t == [s EXCEPT !.prop[i] = p]
         IN  /\ t \in PartnersState /\ t.prop = [s.prop EXCEPT ![i] = p]
             /\ t.present = s.present /\ t.pact = s.pact /\ t.slots = s.slots
             /\ t.hooks = s.hooks /\ t.todo = s.todo /\ t.bye = s.bye /\ t.odd = s.odd
BY DEF PartnersState

LEMMA ByeFields ==
  ASSUME NEW s \in PartnersState, NEW x \in Agents, NEW y \in Agents, NEW b \in ByeType
  PROVE  LET t == [s EXCEPT !.bye[x][y] = b]
         IN  /\ t \in PartnersState /\ t.bye = [s.bye EXCEPT ![x][y] = b]
             /\ t.present = s.present /\ t.pact = s.pact /\ t.slots = s.slots
             /\ t.hooks = s.hooks /\ t.todo = s.todo /\ t.prop = s.prop /\ t.odd = s.odd
BY DEF PartnersState

LEMMA HooksFields ==
  ASSUME NEW s \in PartnersState, NEW x \in Agents, NEW h \in SUBSET JobType
  PROVE  LET t == [s EXCEPT !.hooks[x] = h]
         IN  /\ t \in PartnersState /\ t.hooks = [s.hooks EXCEPT ![x] = h]
             /\ t.present = s.present /\ t.pact = s.pact /\ t.slots = s.slots
             /\ t.bye = s.bye /\ t.todo = s.todo /\ t.prop = s.prop /\ t.odd = s.odd
BY DEF PartnersState

LEMMA TodoFields ==
  ASSUME NEW s \in PartnersState, NEW x \in Agents, NEW q \in Seq(JobType)
  PROVE  LET t == [s EXCEPT !.todo[x] = q]
         IN  /\ t \in PartnersState /\ t.todo = [s.todo EXCEPT ![x] = q]
             /\ t.present = s.present /\ t.pact = s.pact /\ t.slots = s.slots
             /\ t.bye = s.bye /\ t.hooks = s.hooks /\ t.prop = s.prop /\ t.odd = s.odd
BY DEF PartnersState

LEMMA PactFields ==
  ASSUME NEW s \in PartnersState, NEW x \in Agents, NEW q \in SUBSET KnownPartner
  PROVE  LET t == [s EXCEPT !.pact[x] = q]
         IN  /\ t \in PartnersState /\ t.pact = [s.pact EXCEPT ![x] = q]
             /\ t.present = s.present /\ t.todo = s.todo /\ t.slots = s.slots
             /\ t.bye = s.bye /\ t.hooks = s.hooks /\ t.prop = s.prop /\ t.odd = s.odd
BY DEF PartnersState


LEMMA QueueFields ==
  ASSUME NEW s \in PartnersState, NEW x \in Agents, NEW j \in JobType
  PROVE  LET t == Queue(s, x, j)
         IN  /\ t \in PartnersState
             /\ t.todo = [s.todo EXCEPT ![x] = Append(@, j)]
             /\ t.present = s.present /\ t.pact = s.pact /\ t.slots = s.slots
             /\ t.hooks = s.hooks /\ t.prop = s.prop /\ t.bye = s.bye /\ t.odd = s.odd
<1>1. s.todo[x] \in Seq(JobType) BY DEF PartnersState
<1> DEFINE q == Append(s.todo[x], j)
<1>2. q \in Seq(JobType) BY <1>1
<1>3. Queue(s, x, j) = [s EXCEPT !.todo[x] = q] /\ [s.todo EXCEPT ![x] = Append(@, j)] = [s.todo EXCEPT ![x] = q]
  BY DEF Queue, PartnersState
<1> HIDE DEF q
<1> QED BY <1>2, <1>3, TodoFields

-----------------------------------------------------------------------------
(* How the jobs of x change: some end (D), some come (N), the others stay. *)

Moves(s, t, x, R, D, N) ==
  /\ JobsOf(s, x) = R \cup D /\ JobsOf(t, x) = R \cup N
  /\ \A z \in Agents \ {x} : t.hooks[z] = s.hooks[z] /\ t.todo[z] = s.todo[z]
  /\ \A key : Distinct(s.hooks[x], s.todo[x], key) =>
       /\ \A d \in D : \A l \in R : key[d] \cap key[l] = {}
       /\ (\A n \in N : \A l \in R : key[n] \cap key[l] = {})
            => Distinct(t.hooks[x], t.todo[x], key)

LEMMA MovesThen ==
  ASSUME NEW s, NEW t, NEW u, NEW x, NEW R, NEW D, NEW N,
         Moves(s, t, x, R, D, {}), Moves(t, u, x, R, {}, N)
  PROVE  Moves(s, u, x, R, D, N)
BY DEF Moves

LEMMA NoMove ==
  ASSUME NEW s \in PartnersState, NEW t \in PartnersState, NEW x \in Agents,
         t.hooks = s.hooks, t.todo = s.todo
  PROVE  Moves(s, t, x, JobsOf(s, x), {}, {})
BY DEF Moves, JobsOf

LEMMA HookDropped ==
  ASSUME NEW s \in PartnersState, NEW t \in PartnersState, NEW x \in Agents, NEW j \in s.hooks[x],
         t.hooks = [s.hooks EXCEPT ![x] = @ \ {j}], t.todo = s.todo
  PROVE  Moves(s, t, x, JobsOf(t, x), {j}, {})
<1>1. t.hooks[x] = s.hooks[x] \ {j} /\ t.todo[x] = s.todo[x]
      /\ \A z \in Agents \ {x} : t.hooks[z] = s.hooks[z] /\ t.todo[z] = s.todo[z]
  BY DEF PartnersState
<1>2. JobsOf(s, x) = JobsOf(t, x) \cup {j} BY <1>1 DEF JobsOf
<1>3. ASSUME NEW key, Distinct(s.hooks[x], s.todo[x], key)
      PROVE  Distinct(t.hooks[x], t.todo[x], key)
             /\ \A l \in JobsOf(t, x) : key[j] \cap key[l] = {}
  BY <1>1, <1>3, DistinctDrop DEF JobsOf
<1> QED BY <1>1, <1>2, <1>3 DEF Moves

LEMMA UpdateTaken ==
  ASSUME NEW s \in PartnersState, NEW t \in PartnersState, NEW x \in Agents, s.todo[x] # <<>>,
         t.todo = [s.todo EXCEPT ![x] = Tail(@)], t.hooks = s.hooks
  PROVE  Moves(s, t, x, JobsOf(t, x), {Head(s.todo[x])}, {})
<1> DEFINE j == Head(s.todo[x])
<1>1. t.hooks[x] = s.hooks[x] /\ t.todo[x] = Tail(s.todo[x])
      /\ \A z \in Agents \ {x} : t.hooks[z] = s.hooks[z] /\ t.todo[z] = s.todo[z]
  BY DEF PartnersState
<1>2. s.todo[x] \in Seq(JobType) BY DEF PartnersState
<1>3. Elems(s.todo[x]) = Elems(t.todo[x]) \cup {j} BY <1>1, <1>2, ElemsTail
<1>4. JobsOf(s, x) = JobsOf(t, x) \cup {j} BY <1>1, <1>3 DEF JobsOf
<1>5. ASSUME NEW key, Distinct(s.hooks[x], s.todo[x], key)
      PROVE  Distinct(t.hooks[x], t.todo[x], key)
             /\ \A l \in JobsOf(t, x) : key[j] \cap key[l] = {}
  <2>1. /\ Distinct(s.hooks[x], Tail(s.todo[x]), key)
        /\ \A l \in s.hooks[x] \cup Elems(Tail(s.todo[x])) : key[Head(s.todo[x])] \cap key[l] = {}
    BY <1>2, <1>5, DistinctTail
  <2> QED BY <1>1, <2>1 DEF JobsOf
<1> QED BY <1>1, <1>4, <1>5 DEF Moves

LEMMA HookAdded ==
  ASSUME NEW s \in PartnersState, NEW t \in PartnersState, NEW x \in Agents, NEW j,
         t.hooks = [s.hooks EXCEPT ![x] = @ \cup {j}], t.todo = s.todo
  PROVE  Moves(s, t, x, JobsOf(s, x), {}, {j})
<1>1. t.hooks[x] = s.hooks[x] \cup {j} /\ t.todo[x] = s.todo[x]
      /\ \A z \in Agents \ {x} : t.hooks[z] = s.hooks[z] /\ t.todo[z] = s.todo[z]
  BY DEF PartnersState
<1>2. JobsOf(t, x) = JobsOf(s, x) \cup {j} BY <1>1 DEF JobsOf
<1>3. ASSUME NEW key, Distinct(s.hooks[x], s.todo[x], key),
             \A l \in JobsOf(s, x) : key[j] \cap key[l] = {}
      PROVE  Distinct(t.hooks[x], t.todo[x], key)
  <2>1. \A l \in (s.hooks[x] \cup Elems(s.todo[x])) \ {j} : key[j] \cap key[l] = {}
    BY <1>3 DEF JobsOf
  <2>2. j \in Elems(s.todo[x]) => key[j] = {} BY <1>3 DEF JobsOf
  <2>3. Distinct(s.hooks[x] \cup {j}, s.todo[x], key) BY <1>3, <2>1, <2>2, DistinctAdd
  <2> QED BY <1>1, <2>3
<1> QED BY <1>1, <1>2, <1>3 DEF Moves

LEMMA UpdateQueued ==
  ASSUME NEW s \in PartnersState, NEW t \in PartnersState, NEW x \in Agents, NEW j \in JobType,
         t.todo = [s.todo EXCEPT ![x] = Append(@, j)], t.hooks = s.hooks
  PROVE  Moves(s, t, x, JobsOf(s, x), {}, {j})
<1>1. t.hooks[x] = s.hooks[x] /\ t.todo[x] = Append(s.todo[x], j)
      /\ \A z \in Agents \ {x} : t.hooks[z] = s.hooks[z] /\ t.todo[z] = s.todo[z]
  BY DEF PartnersState
<1>2. s.todo[x] \in Seq(JobType) BY DEF PartnersState
<1>3. Elems(t.todo[x]) = Elems(s.todo[x]) \cup {j} BY <1>1, <1>2, ElemsAppend
<1>4. JobsOf(t, x) = JobsOf(s, x) \cup {j} BY <1>1, <1>3 DEF JobsOf
<1>5. ASSUME NEW key, Distinct(s.hooks[x], s.todo[x], key),
             \A l \in JobsOf(s, x) : key[j] \cap key[l] = {}
      PROVE  Distinct(t.hooks[x], t.todo[x], key)
  BY <1>1, <1>2, <1>5, DistinctAppend DEF JobsOf
<1> QED BY <1>1, <1>4, <1>5 DEF Moves

LEMMA JobTyped ==
  ASSUME NEW s, PartnersOK(s), NEW x \in Agents, NEW j \in JobsOf(s, x)
  PROVE  j \in JobType
<1>1. s.hooks[x] \subseteq JobType /\ s.todo[x] \in Seq(JobType)
  BY DEF PartnersOK, PartnersState
<1>2. Elems(s.todo[x]) \subseteq JobType BY <1>1 DEF Elems
<1> QED BY <1>1, <1>2 DEF JobsOf

-----------------------------------------------------------------------------
(* What holds of two agents that are there, as long as nothing went wrong. *)

Knows(s, a, b) == Found(s, a, b) # {}
Tasks(s, a, b) == {j \in JobsOf(s, a) : j.partner.peer = b}
Path(s, i, a, b) ==
  s.prop[i].phase \in {"asked", "creating"} /\ s.prop[i].from = a /\ s.prop[i].to = b
Accepted(s, a, b) == \E i \in Proposals : Path(s, i, a, b) /\ s.prop[i].answer = "ok"
Middle(s, a, b) == \E i \in Proposals : Path(s, i, a, b) \/ Path(s, i, b, a)
Leaves(s, a, b) ==
  s.bye[a][b].phase # "none" \/ \E j \in Tasks(s, a, b) : j.for = "breakup" /\ j.step = "remove"
Removing(s, a, b) == \E j \in Tasks(s, a, b) : j.for \in {"goodbye", "breakup"}

TaskFits(s, a, b, j) ==
  /\ j.for = "receive" =>
       s.prop[j.with].phase = "asked" /\ s.prop[j.with].taken /\ s.prop[j.with].answer = "none"
  /\ j.for = "propose" => s.prop[j.with].phase = "creating" /\ s.prop[j.with].answer = "ok"
  /\ j.for = "goodbye" =>
       /\ s.bye[b][a].phase = "handled" /\ j.with = s.bye[b][a].count
       /\ j.step = "release" => ~Knows(s, a, b)
  /\ j.for = "breakup" => ~Knows(s, b, a)
  /\ j.step = "remove" => Found(s, a, b) \subseteq {j.partner}
  /\ j.for = "restarted" => Knows(s, a, b) /\ "restarted" \in Manners

(* A partner that is not known to the other side is leaving or coming; a   *)
(* pair that proposes does not divide, an answered goodbye is forgotten by *)
(* the one who answered.                                                   *)
PairFits(s, a, b) ==
  /\ Knows(s, a, b) /\ ~Knows(s, b, a) => Leaves(s, a, b) \/ Accepted(s, b, a)
  /\ Middle(s, a, b) \/ "restarted" \in Manners
       => s.bye[a][b].phase = "none" /\ ~Removing(s, a, b)
  /\ Accepted(s, a, b) => Knows(s, b, a)
  /\ s.bye[a][b].phase = "answered" => ~Knows(s, b, a)
  /\ s.bye[a][b].phase # "none" => Found(s, a, b) \subseteq {s.bye[a][b].partner}
  /\ \A j \in Tasks(s, a, b) : TaskFits(s, a, b, j)

(* One job for each proposal, and for each goodbye.                        *)
Tokens(b) ==
  [j \in JobType |-> IF j.partner.peer = b /\ j.for \in {"propose", "receive", "goodbye"}
                     THEN {<<j.for, j.with>>} ELSE {}]
PairDistinct(s, a, b) == Distinct(s.hooks[a], s.todo[a], Tokens(b))

Regular(s, a, b) == a \in s.present /\ b \in s.present /\ a # b /\ {a, b} \notin s.odd
PairsOK(s) ==
  \A a, b \in Agents : Regular(s, a, b) => PairFits(s, a, b) /\ PairDistinct(s, a, b)

-----------------------------------------------------------------------------
(* A step of x that is about y, and leaves other pairs alone.              *)

Ours(a, b, x, y) == (a = x /\ b = y) \/ (a = y /\ b = x)

Elsewhere(s, t, x, y) ==
  /\ t.present = s.present /\ s.odd \subseteq t.odd
  /\ \A z \in Agents \ {x} : t.pact[z] = s.pact[z]
  /\ \A z \in Agents \ {y} : {x, z} \notin t.odd => Found(t, x, z) = Found(s, x, z)
  /\ \A a, b \in Agents : ~Ours(a, b, x, y) => t.bye[a][b] = s.bye[a][b]
  /\ \A i \in Proposals :
       \/ t.prop[i] = s.prop[i]
       \/ /\ Ours(t.prop[i].from, t.prop[i].to, x, y)
          /\ \/ s.prop[i].phase = "none"
             \/ s.prop[i].from = t.prop[i].from /\ s.prop[i].to = t.prop[i].to

PairStep(s, t, x, y, R, D, N) ==
  /\ PartnersOK(s) /\ PartnersOK(t) /\ Moves(s, t, x, R, D, N) /\ Elsewhere(s, t, x, y)
  /\ \A j \in D \cup N : j.partner.peer = y

LEMMA OthersTasks ==
  ASSUME NEW s, NEW t, NEW x \in Agents, NEW y \in Agents, NEW R, NEW D, NEW N,
         PairStep(s, t, x, y, R, D, N),
         NEW a \in Agents, NEW b \in Agents, ~(a = x /\ b = y)
  PROVE  Tasks(t, a, b) = Tasks(s, a, b)
<1>1. CASE a = x BY <1>1 DEF Tasks, PairStep, Moves
<1>2. CASE a # x BY <1>2 DEF Tasks, PairStep, Moves, JobsOf
<1> QED BY <1>1, <1>2

LEMMA OthersFit ==
  ASSUME NEW s, NEW t, NEW x \in Agents, NEW y \in Agents, NEW R, NEW D, NEW N,
         PairStep(s, t, x, y, R, D, N),
         NEW a \in Agents, NEW b \in Agents, Regular(t, a, b), ~Ours(a, b, x, y),
         PairFits(s, a, b)
  PROVE  PairFits(t, a, b)
<1>1. Tasks(t, a, b) = Tasks(s, a, b) BY OthersTasks DEF Ours
<1>2. Found(t, a, b) = Found(s, a, b) /\ Found(t, b, a) = Found(s, b, a)
  <2>1. {a, b} = {b, a} OBVIOUS
  <2> QED BY <2>1 DEF Regular, PairStep, Elsewhere, Found, Ours
<1>3. t.bye[a][b] = s.bye[a][b] /\ t.bye[b][a] = s.bye[b][a]
  BY DEF PairStep, Elsewhere, Ours
<1>4. ASSUME NEW i \in Proposals,
             \/ Path(t, i, a, b) \/ Path(t, i, b, a) \/ Path(s, i, a, b) \/ Path(s, i, b, a)
      PROVE  t.prop[i] = s.prop[i]
  BY <1>4 DEF PairStep, Elsewhere, Ours, Path
<1>5. /\ Accepted(t, a, b) = Accepted(s, a, b) /\ Accepted(t, b, a) = Accepted(s, b, a)
      /\ Middle(t, a, b) = Middle(s, a, b)
  <2>1. \A i \in Proposals : Path(t, i, a, b) <=> Path(s, i, a, b) BY <1>4 DEF Path
  <2>2. \A i \in Proposals : Path(t, i, b, a) <=> Path(s, i, b, a) BY <1>4 DEF Path
  <2>3. Accepted(t, a, b) <=> Accepted(s, a, b) BY <1>4, <2>1 DEF Accepted
  <2>4. Accepted(t, b, a) <=> Accepted(s, b, a) BY <1>4, <2>2 DEF Accepted
  <2>5. Middle(t, a, b) <=> Middle(s, a, b) BY <2>1, <2>2 DEF Middle
  <2> QED BY <2>3, <2>4, <2>5 DEF Accepted, Middle
<1>6. ASSUME NEW j \in Tasks(s, a, b) PROVE TaskFits(t, a, b, j)
  <2>1. TaskFits(s, a, b, j) /\ JobOK(s, a, j) /\ j.partner.peer = b
    BY DEF PairFits, PairStep, PartnersOK, Tasks
  <2>2. j.for \in {"propose", "receive"} => t.prop[j.with] = s.prop[j.with]
    BY <2>1, <1>4 DEF JobOK, TaskFits, Path
  <2> QED BY <1>2, <1>3, <2>1, <2>2 DEF TaskFits, Knows
<1> QED
  BY <1>1, <1>2, <1>3, <1>5, <1>6 DEF PairFits, Knows, Leaves, Removing

LEMMA PairsStep ==
  ASSUME NEW s, NEW t, NEW x \in Agents, NEW y \in Agents, NEW R, NEW D, NEW N,
         PairStep(s, t, x, y, R, D, N), PairsOK(s),
         Regular(t, x, y) => PairFits(t, x, y) /\ PairFits(t, y, x),
         Regular(t, x, y) =>
           \A n \in N : \A l \in R : Tokens(y)[n] \cap Tokens(y)[l] = {}
  PROVE  PairsOK(t)
<1> SUFFICES ASSUME NEW a \in Agents, NEW b \in Agents, Regular(t, a, b)
             PROVE  PairFits(t, a, b) /\ PairDistinct(t, a, b)
  BY DEF PairsOK
<1>1. Regular(s, a, b) BY DEF Regular, PairStep, Elsewhere
<1>2. PairFits(s, a, b) /\ PairDistinct(s, a, b) BY <1>1 DEF PairsOK
<1>3. PairFits(t, a, b)
  <2>1. CASE a = x /\ b = y BY <2>1
  <2>2. CASE a = y /\ b = x
    <3>1. Regular(t, x, y)
      <4>1. {a, b} = {b, a} OBVIOUS
      <4> QED BY <2>2, <4>1 DEF Regular
    <3> QED BY <2>2, <3>1
  <2>3. CASE ~Ours(a, b, x, y) BY <1>2, <2>3, OthersFit
  <2> QED BY <2>1, <2>2, <2>3 DEF Ours
<1>4. PairDistinct(t, a, b)
  <2>1. CASE a # x BY <1>2, <2>1 DEF PairDistinct, PairStep, Moves
  <2>2. CASE a = x
    <3>1. ASSUME NEW n \in N, NEW l \in R PROVE Tokens(b)[n] \cap Tokens(b)[l] = {}
      <4>1. CASE b = y BY <2>2, <4>1
      <4>2. CASE b # y
        <5>1. n \in JobType BY JobTyped DEF PairStep, Moves
        <5>2. Tokens(b)[n] = {} BY <4>2, <5>1 DEF Tokens, PairStep
        <5> QED BY <5>2
      <4> QED BY <4>1, <4>2
    <3> QED BY <1>2, <2>2, <3>1 DEF PairDistinct, PairStep, Moves
  <2> QED BY <2>1, <2>2
<1> QED BY <1>3, <1>4

-----------------------------------------------------------------------------
(* What a step does to the pair it is about                                *)

LEMMA StepPair ==
  ASSUME NEW s, NEW t, NEW x \in Agents, NEW y \in Agents, NEW R, NEW D, NEW N,
         PairStep(s, t, x, y, R, D, N), PairsOK(s), Regular(t, x, y)
  PROVE  /\ x # y /\ PairFits(s, x, y) /\ PairFits(s, y, x)
         /\ Found(t, y, x) = Found(s, y, x) /\ Tasks(t, y, x) = Tasks(s, y, x)
<1>1. Regular(s, x, y) /\ Regular(s, y, x)
  <2>1. {x, y} = {y, x} OBVIOUS
  <2> QED BY <2>1 DEF Regular, PairStep, Elsewhere
<1>2. x # y BY DEF Regular
<1>3. PairFits(s, x, y) /\ PairFits(s, y, x) BY <1>1 DEF PairsOK
<1>4. Found(t, y, x) = Found(s, y, x) BY <1>2 DEF PairStep, Elsewhere, Found
<1>5. Tasks(t, y, x) = Tasks(s, y, x) BY <1>2, OthersTasks
<1> QED BY <1>2, <1>3, <1>4, <1>5

LEMMA StepTasks ==
  ASSUME NEW s, NEW t, NEW x, NEW y, NEW R, NEW D, NEW N,
         PairStep(s, t, x, y, R, D, N)
  PROVE  /\ \A j \in D : j \in Tasks(s, x, y)
         /\ \A j \in N : j \in Tasks(t, x, y)
         /\ \A j \in Tasks(t, x, y) : j \in N \/ (j \in R /\ j \in Tasks(s, x, y))
         /\ \A j \in Tasks(s, x, y) : j \in D \/ (j \in R /\ j \in Tasks(t, x, y))
<1>1. JobsOf(s, x) = R \cup D /\ JobsOf(t, x) = R \cup N /\ \A j \in D \cup N : j.partner.peer = y
  BY DEF PairStep, Moves
<1> QED BY <1>1 DEF Tasks

(* The job of a token is the only one.                                     *)
LEMMA OnlyToken ==
  ASSUME NEW s, NEW t, NEW x \in Agents, NEW y \in Agents, NEW R, NEW D, NEW N,
         PairStep(s, t, x, y, R, D, N), PairsOK(s), Regular(t, x, y),
         NEW d \in D, NEW l \in R
  PROVE  Tokens(y)[d] \cap Tokens(y)[l] = {}
<1>1. Regular(s, x, y) BY DEF Regular, PairStep, Elsewhere
<1>2. Distinct(s.hooks[x], s.todo[x], Tokens(y)) BY <1>1 DEF PairsOK, PairDistinct
<1> QED BY <1>2 DEF PairStep, Moves

LEMMA OnlyJob ==
  ASSUME NEW s, NEW t, NEW x \in Agents, NEW y \in Agents, NEW R, NEW D, NEW N,
         PairStep(s, t, x, y, R, D, N), PairsOK(s), Regular(t, x, y),
         NEW d \in D, NEW l \in R, d.for \in {"propose", "receive", "goodbye"},
         l.partner.peer = y, l.for = d.for, l.with = d.with
  PROVE  FALSE
<1>1. Tokens(y)[d] \cap Tokens(y)[l] = {} BY OnlyToken
<1>2. d \in JobType /\ l \in JobType BY JobTyped DEF PairStep, Moves
<1>3. d.partner.peer = y BY DEF PairStep
<1> QED BY <1>1, <1>2, <1>3 DEF Tokens

LEMMA SameToken ==
  ASSUME NEW s, NEW t, NEW x \in Agents, NEW y \in Agents, NEW R, NEW D, NEW N,
         PairStep(s, t, x, y, R, D, N), PairsOK(s), Regular(t, x, y),
         NEW d \in D, NEW n \in N, n.for = d.for, n.with = d.with, NEW l \in R
  PROVE  Tokens(y)[n] \cap Tokens(y)[l] = {}
<1>1. Tokens(y)[d] \cap Tokens(y)[l] = {} BY OnlyToken
<1>2. d \in JobType /\ n \in JobType BY JobTyped DEF PairStep, Moves
<1>3. Tokens(y)[n] = Tokens(y)[d] BY <1>2 DEF Tokens, PairStep
<1> QED BY <1>1, <1>3

(* Jobs that share a token are for the same thing.                         *)
LEMMA SharedToken ==
  ASSUME NEW y, NEW n \in JobType, NEW l \in JobType, Tokens(y)[n] \cap Tokens(y)[l] # {}
  PROVE  /\ n.for \in {"propose", "receive", "goodbye"} /\ l.partner.peer = y
         /\ l.for = n.for /\ l.with = n.with
BY DEF Tokens

LEMMA StepTyped ==
  ASSUME NEW s, NEW t, NEW x \in Agents, NEW y, NEW R, NEW D, NEW N,
         PairStep(s, t, x, y, R, D, N)
  PROVE  (\A j \in R : j \in JobType) /\ (\A j \in N : j \in JobType)
BY JobTyped DEF PairStep, Moves

(* The next step of a job that brings a partner.                           *)
LEMMA JobGoesOn ==
  ASSUME NEW s, NEW t, NEW x \in Agents, NEW y \in Agents, NEW R, NEW d, NEW n,
         PairStep(s, t, x, y, R, {d}, {n}), PairsOK(s),
         t.pact = s.pact, t.bye = s.bye, t.prop = s.prop,
         n.for = d.for, n.with = d.with, d.for \in {"propose", "receive", "restarted"}
  PROVE  PairsOK(t)
<1>1. ASSUME Regular(t, x, y) PROVE PairFits(t, x, y) /\ PairFits(t, y, x)
  <2>1. /\ x # y /\ PairFits(s, x, y) /\ PairFits(s, y, x)
        /\ Tasks(t, y, x) = Tasks(s, y, x)
        /\ d \in Tasks(s, x, y) /\ n \in Tasks(t, x, y)
        /\ \A j \in Tasks(t, x, y) : j = n \/ j \in Tasks(s, x, y)
        /\ \A j \in Tasks(s, x, y) : j = d \/ j \in Tasks(t, x, y)
    BY <1>1, StepPair, StepTasks
  <2>2. JobOK(t, x, n) BY DEF PairStep, PartnersOK, Moves
  <2>3. \A a, b : Found(t, a, b) = Found(s, a, b) /\ Accepted(t, a, b) = Accepted(s, a, b)
                  /\ Middle(t, a, b) = Middle(s, a, b)
    BY DEF Found, Accepted, Middle, Path
  <2>4. TaskFits(t, x, y, n)
    BY <2>1, <2>2, <2>3 DEF PairFits, TaskFits, JobOK, Knows
  <2>5. PairFits(t, x, y)
    BY <2>1, <2>3, <2>4 DEF PairFits, TaskFits, Knows, Leaves, Removing
  <2>6. PairFits(t, y, x)
    BY <2>1, <2>3 DEF PairFits, TaskFits, Knows, Leaves, Removing
  <2> QED BY <2>5, <2>6
<1>2. ASSUME Regular(t, x, y)
      PROVE  \A l \in R : Tokens(y)[n] \cap Tokens(y)[l] = {}
  BY <1>2, SameToken
<1> QED BY <1>1, <1>2, PairsStep

(* The end of a job that is nobody else's business.                        *)
LEMMA JobForgotten ==
  ASSUME NEW s, NEW t, NEW x \in Agents, NEW y \in Agents, NEW R, NEW d,
         PairStep(s, t, x, y, R, {d}, {}), PairsOK(s),
         t.pact = s.pact, t.bye = s.bye, t.prop = s.prop, d.step = "release",
         d.for \in {"breakup", "release"}
  PROVE  PairsOK(t)
<1>1. ASSUME Regular(t, x, y) PROVE PairFits(t, x, y) /\ PairFits(t, y, x)
  <2>1. /\ x # y /\ PairFits(s, x, y) /\ PairFits(s, y, x)
        /\ Tasks(t, y, x) = Tasks(s, y, x)
        /\ \A j \in Tasks(t, x, y) : j \in Tasks(s, x, y)
        /\ \A j \in Tasks(s, x, y) : j = d \/ j \in Tasks(t, x, y)
    BY <1>1, StepPair, StepTasks
  <2>2. \A a, b : Found(t, a, b) = Found(s, a, b) /\ Accepted(t, a, b) = Accepted(s, a, b)
                  /\ Middle(t, a, b) = Middle(s, a, b)
    BY DEF Found, Accepted, Middle, Path
  <2>3. PairFits(t, x, y)
    BY <2>1, <2>2 DEF PairFits, TaskFits, Knows, Leaves, Removing
  <2>4. PairFits(t, y, x)
    BY <2>1, <2>2 DEF PairFits, TaskFits, Knows, Leaves, Removing
  <2> QED BY <2>3, <2>4
<1> QED BY <1>1, PairsStep

(* The receiver's handler has ended, or was not called, and the proposal    *)
(* is answered.                                                            *)
LEMMA ProposalAnswered ==
  ASSUME NEW s, NEW t, NEW x \in Agents, NEW y \in Agents, NEW R, NEW D,
         PairStep(s, t, x, y, R, D, {}), PairsOK(s), NEW i \in Proposals,
         \/ D = {} /\ s.prop[i].phase = "asked" /\ ~s.prop[i].taken
         \/ \E d \in D : D = {d} /\ d.for = "receive" /\ d.with = i,
         s.prop[i].from = y, s.prop[i].to = x,
         t.bye = s.bye, NEW answer \in {"ok", "fail"},
         t.prop = [s.prop EXCEPT ![i] = [@ EXCEPT !.taken = TRUE, !.answer = answer]],
         Knows(s, x, y) => Knows(t, x, y),
         answer = "ok" => Knows(t, x, y),
         answer = "fail" => Found(t, x, y) = Found(s, x, y)
  PROVE  PairsOK(t)
<1>1. ASSUME Regular(t, x, y) PROVE PairFits(t, x, y) /\ PairFits(t, y, x)
  <2>1. /\ x # y /\ PairFits(s, x, y) /\ PairFits(s, y, x) /\ (\A j \in D : j \in Tasks(s, x, y))
        /\ Found(t, y, x) = Found(s, y, x) /\ Tasks(t, y, x) = Tasks(s, y, x)
        /\ \A j \in Tasks(t, x, y) : j \in R /\ j \in Tasks(s, x, y)
        /\ \A j \in Tasks(s, x, y) : j \in D \/ j \in Tasks(t, x, y)
    BY <1>1, StepPair, StepTasks
  <2>2. /\ s.prop[i].phase = "asked" /\ s.prop[i].answer = "none"
        /\ \A j \in Tasks(t, x, y) : ~(j.for = "receive" /\ j.with = i)
    <3>1. CASE D = {} /\ s.prop[i].phase = "asked" /\ ~s.prop[i].taken
      <4>1. s.prop[i].answer = "none" BY <3>1 DEF PairStep, PartnersOK
      <4> QED BY <2>1, <3>1, <4>1 DEF PairFits, TaskFits
    <3>2. ASSUME NEW d \in D, D = {d}, d.for = "receive", d.with = i
          PROVE  <2>2!1 /\ <2>2!2
      <4>1. TaskFits(s, x, y, d) BY <2>1 DEF PairFits
      <4>2. ASSUME NEW l \in R, l.partner.peer = y, l.for = d.for, l.with = d.with
            PROVE  FALSE
        BY <1>1, <3>2, <4>2, OnlyJob
      <4> QED BY <2>1, <3>2, <4>1, <4>2 DEF TaskFits, Tasks
    <3> QED BY <3>1, <3>2
  <2>3. /\ t.prop[i].phase = "asked" /\ t.prop[i].answer = answer
        /\ t.prop[i].from = y /\ t.prop[i].to = x
        /\ \A k \in Proposals \ {i} : t.prop[k] = s.prop[k]
    BY <2>2 DEF PairStep, PartnersOK, PartnersState, ProposalType
  <2>4. Path(s, i, y, x) BY <2>2 DEF Path
  <2>5. Middle(s, x, y) /\ Middle(s, y, x) BY <2>4 DEF Middle
  <2>6. \A k \in Proposals : /\ Path(t, k, x, y) <=> Path(s, k, x, y)
                             /\ Path(t, k, y, x) <=> Path(s, k, y, x)
    BY <2>2, <2>3 DEF Path
  <2>7. Accepted(t, x, y) <=> Accepted(s, x, y)
    BY <2>1, <2>3, <2>6 DEF Accepted, Path
  <2>8. Accepted(t, y, x) => Accepted(s, y, x) \/ answer = "ok"
    BY <2>3, <2>6 DEF Accepted
  <2>9. Accepted(s, y, x) => Accepted(t, y, x)
    BY <2>2, <2>3, <2>6 DEF Accepted
  <2>10. answer = "ok" => Accepted(t, y, x) BY <2>3, <2>4, <2>6 DEF Accepted
  <2>11. \A j \in Tasks(s, y, x) : JobOK(s, y, j) /\ j.partner.peer = x
    BY DEF PairStep, PartnersOK, Tasks
  <2>12. \A j \in Tasks(s, x, y) : JobOK(s, x, j) /\ j.partner.peer = y
    BY DEF PairStep, PartnersOK, Tasks
  <2>13. ~Removing(s, x, y) /\ ~Removing(s, y, x) /\ s.bye[x][y].phase = "none"
         /\ s.bye[y][x].phase = "none"
    BY <2>1, <2>5 DEF PairFits
  <2>14. ASSUME NEW j \in Tasks(t, x, y) PROVE TaskFits(t, x, y, j)
    <3>1. TaskFits(s, x, y, j) /\ JobOK(s, x, j) /\ ~(j.for = "receive" /\ j.with = i)
          /\ j.for \notin {"goodbye", "breakup"}
      BY <2>1, <2>2, <2>12, <2>13 DEF PairFits, Removing
    <3>2. j.for \in {"propose", "receive"} => j.with \in Proposals BY <3>1 DEF JobOK
    <3>3. j.step # "remove"
      <4>1. j \in JobType BY <2>1, JobTyped DEF PairStep, Tasks
      <4> QED BY <3>1, <4>1 DEF JobOK, JobType
    <3>4. j.for = "propose" => j.with # i BY <3>1, <2>2 DEF TaskFits
    <3> QED BY <2>3, <3>1, <3>2, <3>3, <3>4 DEF TaskFits
  <2>15. ASSUME NEW j \in Tasks(t, y, x) PROVE TaskFits(t, y, x, j)
    <3>1. TaskFits(s, y, x, j) /\ JobOK(s, y, j) /\ j.for \notin {"goodbye", "breakup"}
      BY <2>1, <2>11, <2>13 DEF PairFits, Removing
    <3>2. j.for \in {"propose", "receive"} => j.with \in Proposals /\ j.with # i
      BY <2>1, <2>2, <3>1 DEF JobOK, TaskFits
    <3> QED BY <2>1, <2>3, <3>1, <3>2 DEF TaskFits, Knows
  <2>16. PairFits(t, x, y)
    BY <2>1, <2>6, <2>7, <2>8, <2>9, <2>10, <2>13, <2>14
    DEF PairFits, Knows, Leaves, Removing
  <2>17. PairFits(t, y, x)
    BY <2>1, <2>6, <2>7, <2>8, <2>9, <2>10, <2>13, <2>15
    DEF PairFits, Knows, Leaves, Removing
  <2> QED BY <2>16, <2>17
<1> QED BY <1>1, PairsStep

(* What the jobs of a pair are, with their proposals.                      *)
LEMMA TaskFacts ==
  ASSUME NEW s, PartnersOK(s), NEW a \in Agents, NEW b \in Agents, PairFits(s, a, b),
         NEW j \in Tasks(s, a, b)
  PROVE  /\ j \in JobType /\ j.partner.peer = b /\ JobOK(s, a, j) /\ TaskFits(s, a, b, j)
         /\ j.for \in {"propose", "receive"} => j.with \in Proposals /\ j.step # "remove"
         /\ j.for = "receive" => Path(s, j.with, b, a)
         /\ j.for = "propose" => Path(s, j.with, a, b)
         /\ j.for = "restarted" => j.step # "remove"
<1>1. j \in JobType BY JobTyped DEF Tasks
<1>2. j.partner.peer = b /\ JobOK(s, a, j) /\ TaskFits(s, a, b, j)
  BY DEF Tasks, PartnersOK, PairFits
<1> QED BY <1>1, <1>2 DEF JobOK, TaskFits, Path

(* The proposer's handler has ended, or was not called.                    *)
LEMMA ProposalStored ==
  ASSUME NEW s, NEW t, NEW x \in Agents, NEW y \in Agents, NEW R, NEW D,
         PairStep(s, t, x, y, R, D, {}), PairsOK(s), NEW i \in Proposals,
         \/ D = {} /\ s.prop[i].phase = "asked" /\ s.prop[i].answer = "ok"
         \/ \E d \in D : D = {d} /\ d.for = "propose" /\ d.with = i,
         s.prop[i].from = x, s.prop[i].to = y,
         t.bye = s.bye, t.prop = [s.prop EXCEPT ![i] = [@ EXCEPT !.phase = "done"]],
         Knows(t, x, y)
  PROVE  PairsOK(t)
<1>1. ASSUME Regular(t, x, y) PROVE PairFits(t, x, y) /\ PairFits(t, y, x)
  <2>1. /\ x # y /\ PairFits(s, x, y) /\ PairFits(s, y, x) /\ (\A j \in D : j \in Tasks(s, x, y))
        /\ Found(t, y, x) = Found(s, y, x) /\ Tasks(t, y, x) = Tasks(s, y, x)
        /\ \A j \in Tasks(t, x, y) : j \in R /\ j \in Tasks(s, x, y)
        /\ \A j \in Tasks(s, x, y) : j \in D \/ j \in Tasks(t, x, y)
    BY <1>1, StepPair, StepTasks
  <2>2. /\ s.prop[i].phase \in {"asked", "creating"} /\ s.prop[i].answer = "ok"
        /\ \A j \in Tasks(t, x, y) : ~(j.for = "propose" /\ j.with = i)
    <3>1. CASE D = {} /\ s.prop[i].phase = "asked" /\ s.prop[i].answer = "ok"
      <4>1. \A j \in Tasks(s, x, y) : j.for = "propose" => s.prop[j.with].phase = "creating"
        BY <2>1 DEF PairFits, TaskFits
      <4> QED BY <2>1, <3>1, <4>1
    <3>2. ASSUME NEW d \in D, D = {d}, d.for = "propose", d.with = i
          PROVE  <2>2!1 /\ <2>2!2
      <4>1. TaskFits(s, x, y, d) BY <2>1 DEF PairFits
      <4>2. ASSUME NEW l \in R, l.partner.peer = y, l.for = d.for, l.with = d.with
            PROVE  FALSE
        BY <1>1, <3>2, <4>2, OnlyJob
      <4> QED BY <2>1, <3>2, <4>1, <4>2 DEF TaskFits, Tasks
    <3> QED BY <3>1, <3>2
  <2>3. /\ t.prop[i].phase = "done"
        /\ \A k \in Proposals \ {i} : t.prop[k] = s.prop[k]
    BY <2>2 DEF PairStep, PartnersOK, PartnersState, ProposalType
  <2>4. Path(s, i, x, y) /\ Accepted(s, x, y) BY <2>2 DEF Path, Accepted
  <2>5. Middle(s, x, y) /\ Middle(s, y, x) BY <2>4 DEF Middle
  <2>6. \A k \in Proposals : /\ Path(t, k, x, y) => Path(s, k, x, y)
                             /\ Path(t, k, y, x) <=> Path(s, k, y, x)
    BY <2>1, <2>3, <2>4 DEF Path
  <2>7. Accepted(t, x, y) => Accepted(s, x, y)
    BY <2>3, <2>6 DEF Accepted, Path
  <2>8. Accepted(t, y, x) => Accepted(s, y, x)
    BY <2>3, <2>6 DEF Accepted, Path
  <2>9. Knows(s, y, x) /\ Knows(t, y, x) BY <2>1, <2>4 DEF PairFits, Knows
  <2>13. ~Removing(s, x, y) /\ ~Removing(s, y, x) /\ s.bye[x][y].phase = "none"
         /\ s.bye[y][x].phase = "none"
    BY <2>1, <2>5 DEF PairFits
  <2>14. ASSUME NEW j \in Tasks(t, x, y) PROVE TaskFits(t, x, y, j)
    <3>1. j \in Tasks(s, x, y) /\ j.for \notin {"goodbye", "breakup"}
          /\ ~(j.for = "propose" /\ j.with = i)
      BY <2>1, <2>2, <2>13 DEF Removing
    <3>2. j.for = "receive" => j.with # i
      BY <2>1, <2>4, <3>1, TaskFacts DEF Path, PairStep
    <3>3. /\ j \in JobType /\ TaskFits(s, x, y, j)
          /\ j.for \in {"propose", "receive"} => j.with \in Proposals /\ j.step # "remove"
          /\ j.for = "restarted" => j.step # "remove"
          /\ j.for \in {"release"} => j.step # "remove"
      BY <2>1, <3>1, TaskFacts DEF PairStep, JobOK
    <3> QED BY <2>3, <3>1, <3>2, <3>3 DEF TaskFits, JobType
  <2>15. ASSUME NEW j \in Tasks(t, y, x) PROVE TaskFits(t, y, x, j)
    <3>1. j \in Tasks(s, y, x) /\ j.for \notin {"goodbye", "breakup"}
      BY <2>1, <2>13 DEF Removing
    <3>2. j.for = "propose" => j.with # i
      BY <2>1, <2>4, <3>1, TaskFacts DEF Path, PairStep
    <3>3. j.for = "receive" => j.with # i \/ s.prop[i].answer = "none"
      BY <2>1, <3>1 DEF PairFits, TaskFits
    <3>4. /\ TaskFits(s, y, x, j)
          /\ j.for \in {"propose", "receive"} => j.with \in Proposals
      BY <2>1, <3>1, TaskFacts DEF PairStep
    <3> QED BY <2>1, <2>2, <2>3, <3>1, <3>2, <3>3, <3>4 DEF TaskFits, Knows
  <2>16. PairFits(t, x, y)
    BY <2>1, <2>7, <2>9, <2>13, <2>14 DEF PairFits, Knows, Leaves, Removing
  <2>17. PairFits(t, y, x)
    BY <2>1, <2>8, <2>13, <2>15 DEF PairFits, Knows, Leaves, Removing
  <2> QED BY <2>16, <2>17
<1> QED BY <1>1, PairsStep

(* got_reply(): the proposer's handler is called.                          *)
LEMMA ProposerCalled ==
  ASSUME NEW s, NEW t, NEW x \in Agents, NEW y \in Agents, NEW R, NEW n,
         PairStep(s, t, x, y, R, {}, {n}), PairsOK(s), NEW i \in Proposals,
         s.prop[i].phase = "asked", s.prop[i].answer = "ok", s.prop[i].from = x, s.prop[i].to = y,
         t.bye = s.bye, t.pact = s.pact,
         t.prop = [s.prop EXCEPT ![i] = [@ EXCEPT !.phase = "creating"]],
         n.for = "propose", n.with = i, n.step = "initiate"
  PROVE  PairsOK(t)
<1>1. /\ t.prop[i].phase = "creating" /\ t.prop[i].answer = "ok"
      /\ t.prop[i].from = x /\ t.prop[i].to = y
      /\ \A k \in Proposals \ {i} : t.prop[k] = s.prop[k]
  BY DEF PairStep, PartnersOK, PartnersState, ProposalType
<1>2. ASSUME Regular(t, x, y)
      PROVE  /\ PairFits(t, x, y) /\ PairFits(t, y, x)
             /\ \A l \in R : Tokens(y)[n] \cap Tokens(y)[l] = {}
  <2>1. /\ x # y /\ PairFits(s, x, y) /\ PairFits(s, y, x)
        /\ Found(t, y, x) = Found(s, y, x) /\ Tasks(t, y, x) = Tasks(s, y, x)
        /\ n \in Tasks(t, x, y)
        /\ \A j \in Tasks(t, x, y) : j = n \/ j \in Tasks(s, x, y)
        /\ \A j \in Tasks(s, x, y) : j \in Tasks(t, x, y)
    BY <1>2, StepPair, StepTasks
  <2>2. \A a, b : Found(t, a, b) = Found(s, a, b) BY DEF Found
  <2>3. \A k \in Proposals : /\ Path(t, k, x, y) <=> Path(s, k, x, y)
                             /\ Path(t, k, y, x) <=> Path(s, k, y, x)
                             /\ t.prop[k].answer = s.prop[k].answer
    BY <1>1 DEF Path
  <2>4. /\ Accepted(t, x, y) <=> Accepted(s, x, y)
        /\ Accepted(t, y, x) <=> Accepted(s, y, x)
        /\ Middle(t, x, y) <=> Middle(s, x, y)
        /\ Middle(t, y, x) <=> Middle(s, y, x)
    BY <2>3 DEF Accepted, Middle
  <2>5. ASSUME NEW j \in Tasks(s, x, y) PROVE TaskFits(t, x, y, j) /\ ~(j.for = "propose" /\ j.with = i)
    <3>1. /\ TaskFits(s, x, y, j) /\ JobOK(s, x, j)
          /\ j.for \in {"propose", "receive"} => j.with \in Proposals
          /\ j.for = "receive" => Path(s, j.with, y, x)
      BY <2>1, TaskFacts DEF PairStep
    <3>2. ~(j.for = "propose" /\ j.with = i) /\ ~(j.for = "receive" /\ j.with = i)
      BY <2>1, <3>1 DEF TaskFits, Path
    <3> QED BY <1>1, <2>2, <3>1, <3>2 DEF TaskFits, Knows
  <2>6. ASSUME NEW j \in Tasks(s, y, x) PROVE TaskFits(t, y, x, j)
    <3>1. /\ TaskFits(s, y, x, j) /\ JobOK(s, y, j)
          /\ j.for \in {"propose", "receive"} => j.with \in Proposals
          /\ j.for = "propose" => Path(s, j.with, y, x)
      BY <2>1, TaskFacts DEF PairStep
    <3>2. ~(j.for = "propose" /\ j.with = i) /\ ~(j.for = "receive" /\ j.with = i)
      BY <2>1, <3>1 DEF TaskFits, Path
    <3> QED BY <1>1, <2>2, <3>1, <3>2 DEF TaskFits, Knows
  <2>7. TaskFits(t, x, y, n) BY <1>1 DEF TaskFits
  <2>8. PairFits(t, x, y)
    BY <2>1, <2>2, <2>4, <2>5, <2>7 DEF PairFits, Knows, Leaves, Removing
  <2>9. PairFits(t, y, x)
    BY <2>1, <2>2, <2>4, <2>6 DEF PairFits, Knows, Leaves, Removing
  <2>10. ASSUME NEW l \in R PROVE Tokens(y)[n] \cap Tokens(y)[l] = {}
    <3> SUFFICES ASSUME Tokens(y)[n] \cap Tokens(y)[l] # {} PROVE FALSE OBVIOUS
    <3>1. n \in JobType /\ l \in JobType BY StepTyped
    <3>2. l.partner.peer = y /\ l.for = n.for /\ l.with = n.with BY <3>1, SharedToken
    <3>3. l \in Tasks(s, x, y) BY <3>2 DEF PairStep, Moves, Tasks
    <3> QED BY <2>5, <3>2, <3>3
  <2> QED BY <2>8, <2>9, <2>10
<1>3. \A m \in {n} : m = n OBVIOUS
<1> QED BY <1>2, <1>3, PairsStep

(* The receiver's handler is called.                                       *)
LEMMA ReceiverCalled ==
  ASSUME NEW s, NEW t, NEW x \in Agents, NEW y \in Agents, NEW R, NEW n,
         PairStep(s, t, x, y, R, {}, {n}), PairsOK(s), NEW i \in Proposals,
         s.prop[i].phase = "asked", ~s.prop[i].taken, s.prop[i].from = y, s.prop[i].to = x,
         t.bye = s.bye, t.pact = s.pact,
         t.prop = [s.prop EXCEPT ![i] = [@ EXCEPT !.taken = TRUE]],
         n.for = "receive", n.with = i, n.step = "initiate"
  PROVE  PairsOK(t)
<1>1. /\ t.prop[i].phase = "asked" /\ s.prop[i].answer = "none" /\ t.prop[i].answer = "none"
      /\ t.prop[i].taken /\ t.prop[i].from = y /\ t.prop[i].to = x
      /\ \A k \in Proposals \ {i} : t.prop[k] = s.prop[k]
  BY DEF PairStep, PartnersOK, PartnersState, ProposalType
<1>2. ASSUME Regular(t, x, y)
      PROVE  /\ PairFits(t, x, y) /\ PairFits(t, y, x)
             /\ \A l \in R : Tokens(y)[n] \cap Tokens(y)[l] = {}
  <2>1. /\ x # y /\ PairFits(s, x, y) /\ PairFits(s, y, x)
        /\ Found(t, y, x) = Found(s, y, x) /\ Tasks(t, y, x) = Tasks(s, y, x)
        /\ n \in Tasks(t, x, y)
        /\ \A j \in Tasks(t, x, y) : j = n \/ j \in Tasks(s, x, y)
        /\ \A j \in Tasks(s, x, y) : j \in Tasks(t, x, y)
    BY <1>2, StepPair, StepTasks
  <2>2. \A a, b : Found(t, a, b) = Found(s, a, b) BY DEF Found
  <2>3. \A k \in Proposals : /\ Path(t, k, x, y) <=> Path(s, k, x, y)
                             /\ Path(t, k, y, x) <=> Path(s, k, y, x)
                             /\ t.prop[k].answer = s.prop[k].answer
    BY <1>1 DEF Path
  <2>4. /\ Accepted(t, x, y) <=> Accepted(s, x, y)
        /\ Accepted(t, y, x) <=> Accepted(s, y, x)
        /\ Middle(t, x, y) <=> Middle(s, x, y)
        /\ Middle(t, y, x) <=> Middle(s, y, x)
    BY <2>3 DEF Accepted, Middle
  <2>5. ASSUME NEW j \in Tasks(s, x, y) PROVE TaskFits(t, x, y, j) /\ ~(j.for = "receive" /\ j.with = i)
    <3>1. /\ TaskFits(s, x, y, j) /\ JobOK(s, x, j)
          /\ j.for \in {"propose", "receive"} => j.with \in Proposals
      BY <2>1, TaskFacts DEF PairStep
    <3>2. ~(j.for = "propose" /\ j.with = i) /\ ~(j.for = "receive" /\ j.with = i)
      BY <3>1 DEF TaskFits
    <3> QED BY <1>1, <2>2, <3>1, <3>2 DEF TaskFits, Knows
  <2>6. ASSUME NEW j \in Tasks(s, y, x) PROVE TaskFits(t, y, x, j)
    <3>1. /\ TaskFits(s, y, x, j) /\ JobOK(s, y, j)
          /\ j.for \in {"propose", "receive"} => j.with \in Proposals
      BY <2>1, TaskFacts DEF PairStep
    <3>2. ~(j.for = "propose" /\ j.with = i) /\ ~(j.for = "receive" /\ j.with = i)
      BY <3>1 DEF TaskFits
    <3> QED BY <1>1, <2>2, <3>1, <3>2 DEF TaskFits, Knows
  <2>7. TaskFits(t, x, y, n) BY <1>1 DEF TaskFits
  <2>8. PairFits(t, x, y)
    BY <2>1, <2>2, <2>4, <2>5, <2>7 DEF PairFits, Knows, Leaves, Removing
  <2>9. PairFits(t, y, x)
    BY <2>1, <2>2, <2>4, <2>6 DEF PairFits, Knows, Leaves, Removing
  <2>10. ASSUME NEW l \in R PROVE Tokens(y)[n] \cap Tokens(y)[l] = {}
    <3> SUFFICES ASSUME Tokens(y)[n] \cap Tokens(y)[l] # {} PROVE FALSE OBVIOUS
    <3>1. n \in JobType /\ l \in JobType BY StepTyped
    <3>2. l.partner.peer = y /\ l.for = n.for /\ l.with = n.with BY <3>1, SharedToken
    <3>3. l \in Tasks(s, x, y) BY <3>2 DEF PairStep, Moves, Tasks
    <3> QED BY <2>5, <3>2, <3>3
  <2> QED BY <2>8, <2>9, <2>10
<1>3. \A m \in {n} : m = n OBVIOUS
<1> QED BY <1>2, <1>3, PairsStep

(* The proposal fails, or was not answered and not received.               *)
LEMMA ProposalEnds ==
  ASSUME NEW s, NEW t, NEW x \in Agents, NEW y \in Agents, NEW R, NEW N,
         PairStep(s, t, x, y, R, {}, N), PairsOK(s), NEW i \in Proposals,
         s.prop[i].phase = "asked", s.prop[i].from = x, s.prop[i].to = y,
         s.prop[i].answer = "fail" \/ ~s.prop[i].taken,
         t.bye = s.bye, t.pact = s.pact,
         t.prop = [s.prop EXCEPT ![i] = [@ EXCEPT !.phase = "done"]],
         \A n \in N : n.for = "release" /\ n.step = "release"
  PROVE  PairsOK(t)
<1>1. /\ t.prop[i].phase = "done" /\ s.prop[i].answer # "ok"
      /\ \A k \in Proposals \ {i} : t.prop[k] = s.prop[k]
  BY DEF PairStep, PartnersOK, PartnersState, ProposalType
<1>2. ASSUME Regular(t, x, y)
      PROVE  PairFits(t, x, y) /\ PairFits(t, y, x)
  <2>1. /\ x # y /\ PairFits(s, x, y) /\ PairFits(s, y, x)
        /\ Found(t, y, x) = Found(s, y, x) /\ Tasks(t, y, x) = Tasks(s, y, x)
        /\ \A j \in Tasks(t, x, y) : j \in N \/ j \in Tasks(s, x, y)
        /\ \A j \in Tasks(s, x, y) : j \in Tasks(t, x, y)
    BY <1>2, StepPair, StepTasks
  <2>2. \A a, b : Found(t, a, b) = Found(s, a, b) BY DEF Found
  <2>3. \A k \in Proposals : /\ Path(t, k, x, y) => (Path(s, k, x, y) /\ k # i)
                             /\ Path(t, k, y, x) => (Path(s, k, y, x) /\ k # i)
    BY <1>1 DEF Path
  <2>4. \A k \in Proposals \ {i} : /\ Path(s, k, x, y) => Path(t, k, x, y)
                                   /\ Path(s, k, y, x) => Path(t, k, y, x)
    BY <1>1 DEF Path
  <2>5. /\ Accepted(t, x, y) <=> Accepted(s, x, y)
        /\ Accepted(t, y, x) <=> Accepted(s, y, x)
        /\ Middle(t, x, y) => Middle(s, x, y)
        /\ Middle(t, y, x) => Middle(s, y, x)
    BY <1>1, <2>3, <2>4 DEF Accepted, Middle
  <2>6. ASSUME NEW a \in Agents, NEW b \in Agents, (a = x /\ b = y) \/ (a = y /\ b = x),
               NEW j \in Tasks(s, a, b)
        PROVE  TaskFits(t, a, b, j)
    <3>1. /\ TaskFits(s, a, b, j)
          /\ j.for \in {"propose", "receive"} => j.with \in Proposals
      BY <2>1, <2>6, TaskFacts DEF PairStep
    <3>2. ~(j.for = "propose" /\ j.with = i) BY <3>1 DEF TaskFits
    <3>3. ~(j.for = "receive" /\ j.with = i) BY <3>1 DEF TaskFits
    <3> QED BY <1>1, <2>2, <3>1, <3>2, <3>3 DEF TaskFits, Knows
  <2>7. \A n \in N : TaskFits(t, x, y, n) BY DEF TaskFits
  <2>8. PairFits(t, x, y)
    BY <2>1, <2>2, <2>5, <2>6, <2>7 DEF PairFits, Knows, Leaves, Removing
  <2>9. PairFits(t, y, x)
    BY <2>1, <2>2, <2>5, <2>6 DEF PairFits, Knows, Leaves, Removing
  <2> QED BY <2>8, <2>9
<1>3. ASSUME NEW n \in N, NEW l \in R PROVE Tokens(y)[n] \cap Tokens(y)[l] = {}
  <2> SUFFICES ASSUME Tokens(y)[n] \cap Tokens(y)[l] # {} PROVE FALSE OBVIOUS
  <2>1. n \in JobType /\ l \in JobType BY <1>3, StepTyped
  <2>2. n.for \in {"propose", "receive", "goodbye"} BY <2>1, SharedToken
  <2> QED BY <2>2
<1> QED BY <1>2, <1>3, PairsStep

(* The new address of a partner is stored.                                 *)
LEMMA AddressStored ==
  ASSUME NEW s, NEW t, NEW x \in Agents, NEW y \in Agents, NEW R, NEW d,
         PairStep(s, t, x, y, R, {d}, {}), PairsOK(s), d.for = "restarted",
         t.bye = s.bye, t.prop = s.prop, Knows(t, x, y)
  PROVE  PairsOK(t)
<1>1. ASSUME Regular(t, x, y) PROVE PairFits(t, x, y) /\ PairFits(t, y, x)
  <2>1. /\ x # y /\ PairFits(s, x, y) /\ PairFits(s, y, x) /\ d \in Tasks(s, x, y)
        /\ Found(t, y, x) = Found(s, y, x) /\ Tasks(t, y, x) = Tasks(s, y, x)
        /\ \A j \in Tasks(t, x, y) : j \in Tasks(s, x, y)
    BY <1>1, StepPair, StepTasks
  <2>2. Knows(s, x, y) /\ "restarted" \in Manners BY <2>1 DEF PairFits, TaskFits
  <2>3. ~Removing(s, x, y) /\ ~Removing(s, y, x) /\ s.bye[x][y].phase = "none"
        /\ s.bye[y][x].phase = "none"
    BY <2>1, <2>2 DEF PairFits
  <2>4. /\ Accepted(t, x, y) <=> Accepted(s, x, y)
        /\ Accepted(t, y, x) <=> Accepted(s, y, x)
    BY DEF Accepted, Path
  <2>5. ASSUME NEW j \in Tasks(s, x, y) PROVE TaskFits(t, x, y, j)
    <3>1. j \in JobType /\ TaskFits(s, x, y, j) /\ JobOK(s, x, j)
          /\ j.for \notin {"goodbye", "breakup"}
      BY <2>1, <2>3, TaskFacts DEF PairStep, Removing
    <3> QED BY <2>2, <3>1 DEF TaskFits, JobOK, JobType
  <2>6. ASSUME NEW j \in Tasks(s, y, x) PROVE TaskFits(t, y, x, j)
    <3>1. TaskFits(s, y, x, j) /\ j.for \notin {"goodbye", "breakup"}
      BY <2>1, <2>3 DEF PairFits, Removing
    <3> QED BY <2>1, <3>1 DEF TaskFits, Knows
  <2>7. PairFits(t, x, y)
    BY <2>1, <2>2, <2>3, <2>4, <2>5 DEF PairFits, Knows, Leaves, Removing
  <2>8. PairFits(t, y, x)
    BY <2>1, <2>3, <2>4, <2>6 DEF PairFits, Knows, Leaves, Removing
  <2> QED BY <2>7, <2>8
<1> QED BY <1>1, PairsStep

(* remove(), and the end of a goodbye: the partner is not known any more.  *)
LEMMA PartnerGone ==
  ASSUME NEW s, NEW t, NEW x \in Agents, NEW y \in Agents, NEW R, NEW d, NEW N,
         PairStep(s, t, x, y, R, {d}, N), PairsOK(s),
         d.for = "goodbye" \/ (d.for = "breakup" /\ d.step = "remove"),
         t.prop = s.prop, \A a, b \in Agents : ~(a = y /\ b = x) => t.bye[a][b] = s.bye[a][b],
         d.for = "breakup" \/ N # {} => t.bye = s.bye,
         Regular(t, x, y) /\ d.for = "goodbye" /\ N = {} =>
           t.bye[y][x].phase \in {"answered", "failure"},
         t.bye[y][x].partner = s.bye[y][x].partner,
         \A n \in N : n.for = d.for /\ n.with = d.with /\ n.step = "release",
         Regular(t, x, y) => ~Knows(t, x, y)
  PROVE  PairsOK(t)
<1>1. ASSUME Regular(t, x, y) PROVE PairFits(t, x, y) /\ PairFits(t, y, x)
  <2>1. /\ x # y /\ PairFits(s, x, y) /\ PairFits(s, y, x) /\ d \in Tasks(s, x, y)
        /\ Found(t, y, x) = Found(s, y, x) /\ Tasks(t, y, x) = Tasks(s, y, x)
        /\ (\A j \in N : j \in Tasks(t, x, y))
        /\ \A j \in Tasks(t, x, y) : j \in N \/ (j \in R /\ j \in Tasks(s, x, y))
    BY <1>1, StepPair, StepTasks
  <2>2. Found(t, x, y) = {} BY <1>1 DEF Knows
  <2>3. TaskFits(s, x, y, d) /\ JobOK(s, x, d) /\ Removing(s, x, y)
    BY <2>1, TaskFacts DEF Removing, PairStep
  <2>4. /\ "restarted" \notin Manners /\ ~Middle(s, x, y) /\ ~Middle(s, y, x)
    BY <2>1, <2>3 DEF PairFits, Middle
  <2>5. /\ t.bye[x][y] = s.bye[x][y]
        /\ ~Middle(t, x, y) /\ ~Middle(t, y, x)
        /\ ~Accepted(t, x, y) /\ ~Accepted(t, y, x)
    BY <2>1, <2>4 DEF Accepted, Middle, Path
  <2>6. d.for = "breakup" => ~Knows(s, y, x) BY <2>3 DEF TaskFits
  <2>7. d.for = "goodbye" => s.bye[y][x].phase = "handled" BY <2>3 DEF TaskFits
  <2>8. \/ t.bye[y][x] = s.bye[y][x]
        \/ d.for = "goodbye" /\ N = {} /\ t.bye[y][x].phase \in {"answered", "failure"}
             /\ t.bye[y][x].partner = s.bye[y][x].partner
    BY <1>1
  <2>9. ASSUME NEW j \in Tasks(t, x, y) PROVE TaskFits(t, x, y, j)
    <3>1. CASE j \in N
      <4>1. N # {} BY <3>1
      <4> QED BY <2>1, <2>2, <2>3, <2>8, <3>1, <4>1 DEF TaskFits, Knows
    <3>2. CASE j \notin N
      <4>1. j \in R /\ j \in Tasks(s, x, y) BY <2>1, <3>2
      <4>2. j \in JobType /\ j.partner.peer = y /\ TaskFits(s, x, y, j) /\ JobOK(s, x, j)
        BY <2>1, <4>1, TaskFacts DEF PairStep
      <4>3. j.for # "restarted" BY <2>4, <4>2 DEF TaskFits
      <4>4. ASSUME d.for = "goodbye", j.for = "goodbye" PROVE FALSE
        <5>1. j.with = d.with
          BY <2>3, <4>2, <4>4 DEF TaskFits
        <5>2. d \in {d} OBVIOUS
        <5> QED BY <1>1, <4>1, <4>2, <4>4, <5>1, <5>2, OnlyJob
      <4>5. j.for = "goodbye" => t.bye[y][x] = s.bye[y][x] BY <2>8, <4>4
      <4> QED BY <2>1, <2>2, <4>2, <4>3, <4>5 DEF TaskFits, Knows
    <3> QED BY <3>1, <3>2
  <2>10. ASSUME NEW j \in Tasks(s, y, x) PROVE TaskFits(t, y, x, j)
    <3>1. TaskFits(s, y, x, j) BY <2>1 DEF PairFits
    <3> QED BY <2>1, <2>2, <2>5, <3>1 DEF TaskFits, Knows
  <2>11. PairFits(t, x, y)
    BY <2>1, <2>2, <2>4, <2>5, <2>9 DEF PairFits, Knows, Leaves
  <2>12. Leaves(t, y, x) \/ ~Knows(t, y, x)
    <3>1. CASE d.for = "breakup" BY <2>1, <2>6, <3>1 DEF Knows
    <3>2. CASE d.for = "goodbye" BY <2>7, <2>8, <3>2 DEF Leaves
    <3> QED BY <3>1, <3>2
  <2>13. t.bye[y][x].phase # "none" => Found(t, y, x) \subseteq {t.bye[y][x].partner}
    <3>1. CASE t.bye[y][x] = s.bye[y][x] BY <2>1, <3>1 DEF PairFits
    <3>2. CASE d.for = "goodbye" /\ t.bye[y][x].partner = s.bye[y][x].partner
      BY <2>1, <2>7, <3>2 DEF PairFits
    <3> QED BY <2>8, <3>1, <3>2
  <2>14. PairFits(t, y, x)
    BY <2>1, <2>2, <2>4, <2>5, <2>10, <2>12, <2>13 DEF PairFits, Knows
  <2> QED BY <2>11, <2>14
<1>2. ASSUME Regular(t, x, y), NEW n \in N, NEW l \in R
      PROVE  Tokens(y)[n] \cap Tokens(y)[l] = {}
  <2>1. d \in {d} /\ n.for = d.for /\ n.with = d.with OBVIOUS
  <2> QED BY <1>2, <2>1, SameToken
<1> QED BY <1>1, <1>2, PairsStep

(* The goodbye of y reaches x, which has it for a partner, ...             *)
LEMMA GoodbyeArrives ==
  ASSUME NEW s, NEW t, NEW x \in Agents, NEW y \in Agents, NEW R, NEW n,
         PairStep(s, t, x, y, R, {}, {n}), PairsOK(s), t.prop = s.prop, t.pact = s.pact,
         \A a, b \in Agents : ~(a = y /\ b = x) => t.bye[a][b] = s.bye[a][b],
         s.bye[y][x].phase = "sent", t.bye[y][x].phase = "handled",
         t.bye[y][x].partner = s.bye[y][x].partner,
         n.for = "goodbye", n.with = t.bye[y][x].count, n.step = "remove", n.partner \in s.pact[x]
  PROVE  PairsOK(t)
<1>1. ASSUME Regular(t, x, y)
      PROVE  /\ PairFits(t, x, y) /\ PairFits(t, y, x)
             /\ \A l \in R : Tokens(y)[n] \cap Tokens(y)[l] = {}
  <2>1. /\ x # y /\ PairFits(s, x, y) /\ PairFits(s, y, x)
        /\ Tasks(t, y, x) = Tasks(s, y, x) /\ n \in Tasks(t, x, y)
        /\ \A j \in Tasks(t, x, y) : j = n \/ j \in Tasks(s, x, y)
        /\ \A j \in Tasks(s, x, y) : j \in Tasks(t, x, y)
    BY <1>1, StepPair, StepTasks
  <2>2. Found(t, x, y) = Found(s, x, y) /\ Found(t, y, x) = Found(s, y, x) BY DEF Found
  <2>3. "restarted" \notin Manners /\ ~Middle(s, x, y) /\ ~Middle(s, y, x)
    BY <2>1 DEF PairFits, Middle
  <2>4. /\ t.bye[x][y] = s.bye[x][y]
        /\ ~Middle(t, x, y) /\ ~Middle(t, y, x)
        /\ ~Accepted(t, x, y) /\ ~Accepted(t, y, x) /\ ~Accepted(s, y, x)
    BY <2>1, <2>3 DEF Accepted, Middle, Path
  <2>5. Found(s, x, y) \subseteq {n.partner}
    BY DEF PairStep, PartnersOK, Found
  <2>6. ASSUME NEW j \in Tasks(s, x, y) PROVE TaskFits(t, x, y, j) /\ j.for # "goodbye"
    <3>1. TaskFits(s, x, y, j) BY <2>1 DEF PairFits
    <3> QED BY <2>2, <3>1 DEF TaskFits, Knows
  <2>7. ASSUME NEW j \in Tasks(s, y, x) PROVE TaskFits(t, y, x, j)
    <3>1. TaskFits(s, y, x, j) BY <2>1 DEF PairFits
    <3> QED BY <2>2, <2>4, <3>1 DEF TaskFits, Knows
  <2>8. TaskFits(t, x, y, n) BY <2>2, <2>5 DEF TaskFits
  <2>9. Leaves(s, x, y) => Leaves(t, x, y) BY <2>1, <2>4 DEF Leaves
  <2>10. \A j \in Tasks(t, x, y) : TaskFits(t, x, y, j) BY <2>1, <2>6, <2>8
  <2>11. ASSUME NEW l \in R PROVE Tokens(y)[n] \cap Tokens(y)[l] = {}
    <3> SUFFICES ASSUME Tokens(y)[n] \cap Tokens(y)[l] # {} PROVE FALSE OBVIOUS
    <3>1. n \in JobType /\ l \in JobType BY StepTyped
    <3>2. l.partner.peer = y /\ l.for = n.for /\ l.with = n.with BY <3>1, SharedToken
    <3>3. l \in Tasks(s, x, y) BY <3>2 DEF PairStep, Moves, Tasks
    <3> QED BY <2>6, <3>2, <3>3
  <2>12. PairFits(t, x, y)
    BY <2>1, <2>2, <2>3, <2>4, <2>9, <2>10 DEF PairFits, Knows
  <2>13. PairFits(t, y, x)
    BY <2>1, <2>2, <2>3, <2>4, <2>7 DEF PairFits, Knows, Leaves
  <2> QED BY <2>11, <2>12, <2>13
<1>2. \A m \in {n} : m = n OBVIOUS
<1> QED BY <1>1, <1>2, PairsStep

(* ... or does not.                                                        *)
LEMMA GoodbyeUnknown ==
  ASSUME NEW s, NEW t, NEW x \in Agents, NEW y \in Agents, NEW R,
         PairStep(s, t, x, y, R, {}, {}), PairsOK(s), t.prop = s.prop, t.pact = s.pact,
         \A a, b \in Agents : ~(a = y /\ b = x) => t.bye[a][b] = s.bye[a][b],
         s.bye[y][x].phase = "sent", t.bye[y][x].phase = "answered",
         t.bye[y][x].partner = s.bye[y][x].partner, ~Knows(s, x, y)
  PROVE  PairsOK(t)
<1>1. ASSUME Regular(t, x, y)
      PROVE  PairFits(t, x, y) /\ PairFits(t, y, x)
  <2>1. /\ x # y /\ PairFits(s, x, y) /\ PairFits(s, y, x)
        /\ Tasks(t, y, x) = Tasks(s, y, x)
        /\ \A j \in Tasks(t, x, y) : j \in Tasks(s, x, y)
    BY <1>1, StepPair, StepTasks
  <2>2. Found(t, x, y) = Found(s, x, y) /\ Found(t, y, x) = Found(s, y, x) BY DEF Found
  <2>3. "restarted" \notin Manners /\ ~Middle(s, x, y) /\ ~Middle(s, y, x)
    BY <2>1 DEF PairFits, Middle
  <2>4. /\ t.bye[x][y] = s.bye[x][y]
        /\ ~Middle(t, x, y) /\ ~Middle(t, y, x)
        /\ ~Accepted(t, x, y) /\ ~Accepted(t, y, x)
    BY <2>1, <2>3 DEF Accepted, Middle, Path
  <2>5. ASSUME NEW j \in Tasks(s, x, y) PROVE TaskFits(t, x, y, j)
    <3>1. TaskFits(s, x, y, j) BY <2>1 DEF PairFits
    <3> QED BY <2>2, <3>1 DEF TaskFits, Knows
  <2>6. ASSUME NEW j \in Tasks(s, y, x) PROVE TaskFits(t, y, x, j)
    <3>1. TaskFits(s, y, x, j) BY <2>1 DEF PairFits
    <3> QED BY <2>2, <2>4, <3>1 DEF TaskFits, Knows
  <2>7. PairFits(t, x, y)
    BY <2>1, <2>2, <2>3, <2>4, <2>5 DEF PairFits, Knows
  <2>8. PairFits(t, y, x)
    BY <2>1, <2>2, <2>3, <2>4, <2>6 DEF PairFits, Knows, Leaves
  <2> QED BY <2>7, <2>8
<1> QED BY <1>1, PairsStep

(* _do_breakup() after the answer.                                         *)
LEMMA DivisionStarts ==
  ASSUME NEW s, NEW t, NEW x \in Agents, NEW y \in Agents, NEW R, NEW n,
         PairStep(s, t, x, y, R, {}, {n}), PairsOK(s), t.prop = s.prop, t.pact = s.pact,
         \A a, b \in Agents : ~(a = x /\ b = y) => t.bye[a][b] = s.bye[a][b],
         s.bye[x][y].phase = "answered", t.bye[x][y].phase = "none",
         n.for = "breakup", n.step = "remove", n.partner = s.bye[x][y].partner
  PROVE  PairsOK(t)
<1>1. ASSUME Regular(t, x, y)
      PROVE  PairFits(t, x, y) /\ PairFits(t, y, x)
  <2>1. /\ x # y /\ PairFits(s, x, y) /\ PairFits(s, y, x)
        /\ Tasks(t, y, x) = Tasks(s, y, x) /\ n \in Tasks(t, x, y)
        /\ \A j \in Tasks(t, x, y) : j = n \/ j \in Tasks(s, x, y)
        /\ \A j \in Tasks(s, x, y) : j \in Tasks(t, x, y)
    BY <1>1, StepPair, StepTasks
  <2>2. Found(t, x, y) = Found(s, x, y) /\ Found(t, y, x) = Found(s, y, x) BY DEF Found
  <2>3. "restarted" \notin Manners /\ ~Middle(s, x, y) /\ ~Middle(s, y, x)
    BY <2>1 DEF PairFits, Middle
  <2>4. /\ t.bye[y][x] = s.bye[y][x]
        /\ ~Middle(t, x, y) /\ ~Middle(t, y, x)
        /\ ~Accepted(t, x, y) /\ ~Accepted(t, y, x)
    BY <2>1, <2>3 DEF Accepted, Middle, Path
  <2>5. ~Knows(s, y, x) /\ Found(s, x, y) \subseteq {n.partner} BY <2>1 DEF PairFits
  <2>6. ASSUME NEW j \in Tasks(s, x, y) PROVE TaskFits(t, x, y, j)
    <3>1. TaskFits(s, x, y, j) BY <2>1 DEF PairFits
    <3> QED BY <2>2, <2>4, <3>1 DEF TaskFits, Knows
  <2>7. ASSUME NEW j \in Tasks(s, y, x) PROVE TaskFits(t, y, x, j)
    <3>1. TaskFits(s, y, x, j) BY <2>1 DEF PairFits
    <3> QED BY <2>2, <3>1 DEF TaskFits, Knows
  <2>8. TaskFits(t, x, y, n) BY <2>2, <2>5 DEF TaskFits, Knows
  <2>9. PairFits(t, x, y)
    BY <2>1, <2>2, <2>3, <2>4, <2>6, <2>8 DEF PairFits, Knows, Leaves
  <2>10. PairFits(t, y, x)
    BY <2>1, <2>2, <2>3, <2>4, <2>5, <2>7 DEF PairFits, Knows, Leaves
  <2> QED BY <2>9, <2>10
<1>2. ASSUME NEW l \in R PROVE Tokens(y)[n] \cap Tokens(y)[l] = {}
  <2> SUFFICES ASSUME Tokens(y)[n] \cap Tokens(y)[l] # {} PROVE FALSE OBVIOUS
  <2>1. n \in JobType /\ l \in JobType BY StepTyped
  <2>2. n.for \in {"propose", "receive", "goodbye"} BY <2>1, SharedToken
  <2> QED BY <2>2
<1>3. \A m \in {n} : m = n OBVIOUS
<1> QED BY <1>1, <1>2, <1>3, PairsStep

(* breakup(): x says goodbye to y.                                         *)
LEMMA GoodbyeSaid ==
  ASSUME NEW s, NEW t, NEW x \in Agents, NEW y \in Agents, NEW R,
         PairStep(s, t, x, y, R, {}, {}), PairsOK(s), t.prop = s.prop, t.pact = s.pact,
         \A a, b \in Agents : ~(a = x /\ b = y) => t.bye[a][b] = s.bye[a][b],
         s.bye[x][y].phase = "none", t.bye[x][y].phase = "sent",
         t.bye[x][y].partner \in s.pact[x], ~Middle(s, x, y), "restarted" \notin Manners
  PROVE  PairsOK(t)
<1>1. ASSUME Regular(t, x, y)
      PROVE  PairFits(t, x, y) /\ PairFits(t, y, x)
  <2>1. /\ x # y /\ PairFits(s, x, y) /\ PairFits(s, y, x)
        /\ Tasks(t, y, x) = Tasks(s, y, x)
        /\ \A j \in Tasks(t, x, y) : j \in Tasks(s, x, y)
        /\ \A j \in Tasks(s, x, y) : j \in Tasks(t, x, y)
    BY <1>1, StepPair, StepTasks
  <2>2. Found(t, x, y) = Found(s, x, y) /\ Found(t, y, x) = Found(s, y, x) BY DEF Found
  <2>3. /\ t.bye[y][x] = s.bye[y][x]
        /\ ~Middle(t, x, y) /\ ~Middle(t, y, x)
        /\ ~Accepted(t, x, y) /\ ~Accepted(t, y, x) /\ ~Accepted(s, x, y)
    BY <2>1 DEF Accepted, Middle, Path
  <2>4. t.bye[x][y].partner.peer = y BY <1>1 DEF Regular, PairStep, PartnersOK
  <2>5. Found(s, x, y) \subseteq {t.bye[x][y].partner}
    BY <2>4 DEF PairStep, PartnersOK, Found
  <2>6. ASSUME NEW j \in Tasks(s, x, y) PROVE TaskFits(t, x, y, j)
    <3>1. TaskFits(s, x, y, j) BY <2>1 DEF PairFits
    <3> QED BY <2>2, <2>3, <3>1 DEF TaskFits, Knows
  <2>7. ASSUME NEW j \in Tasks(s, y, x) PROVE TaskFits(t, y, x, j)
    <3>1. TaskFits(s, y, x, j) BY <2>1 DEF PairFits
    <3> QED BY <2>2, <3>1 DEF TaskFits, Knows
  <2>8. PairFits(t, x, y)
    BY <2>1, <2>2, <2>3, <2>5, <2>6 DEF PairFits, Knows, Leaves
  <2>9. Leaves(s, y, x) => Leaves(t, y, x) BY <2>1, <2>3 DEF Leaves
  <2>10. PairFits(t, y, x)
    BY <2>1, <2>2, <2>3, <2>7, <2>9 DEF PairFits, Knows
  <2> QED BY <2>8, <2>10
<1> QED BY <1>1, PairsStep

(* establish_partnership() of two agents that do not divide.               *)
LEMMA Proposed ==
  ASSUME NEW s, NEW t, NEW x \in Agents, NEW y \in Agents, NEW R,
         PairStep(s, t, x, y, R, {}, {}), PairsOK(s), t.bye = s.bye, t.pact = s.pact,
         NEW i \in Proposals, s.prop[i].phase = "none",
         t.prop[i].from = x, t.prop[i].to = y, t.prop[i].answer = "none",
         \A k \in Proposals \ {i} : t.prop[k] = s.prop[k],
         s.bye[x][y].phase = "none", s.bye[y][x].phase = "none",
         ~Removing(s, x, y), ~Removing(s, y, x)
  PROVE  PairsOK(t)
<1>1. ASSUME Regular(t, x, y)
      PROVE  PairFits(t, x, y) /\ PairFits(t, y, x)
  <2>1. /\ x # y /\ PairFits(s, x, y) /\ PairFits(s, y, x)
        /\ Tasks(t, y, x) = Tasks(s, y, x)
        /\ \A j \in Tasks(t, x, y) : j \in Tasks(s, x, y)
        /\ \A j \in Tasks(s, x, y) : j \in Tasks(t, x, y)
    BY <1>1, StepPair, StepTasks
  <2>2. Found(t, x, y) = Found(s, x, y) /\ Found(t, y, x) = Found(s, y, x) BY DEF Found
  <2>3. \A k \in Proposals : t.prop[k].answer = "ok" =>
          /\ Path(t, k, x, y) <=> Path(s, k, x, y)
          /\ Path(t, k, y, x) <=> Path(s, k, y, x)
    BY <2>1 DEF Path
  <2>4. \A k \in Proposals : s.prop[k].answer = "ok" /\ k # i => t.prop[k].answer = "ok"
    OBVIOUS
  <2>5. ~Path(s, i, x, y) /\ ~Path(s, i, y, x) BY DEF Path
  <2>6. /\ Accepted(t, x, y) <=> Accepted(s, x, y)
        /\ Accepted(t, y, x) <=> Accepted(s, y, x)
    BY <2>3, <2>4, <2>5 DEF Accepted
  <2>7. ASSUME NEW a \in Agents, NEW b \in Agents, (a = x /\ b = y) \/ (a = y /\ b = x),
               NEW j \in Tasks(s, a, b)
        PROVE  TaskFits(t, a, b, j)
    <3>1. /\ TaskFits(s, a, b, j)
          /\ j.for \in {"propose", "receive"} => j.with \in Proposals
      BY <2>1, <2>7, TaskFacts DEF PairStep
    <3>2. j.for = "propose" => j.with # i BY <3>1 DEF TaskFits
    <3>3. j.for = "receive" => j.with # i BY <3>1 DEF TaskFits
    <3> QED BY <2>2, <2>7, <3>1, <3>2, <3>3 DEF TaskFits, Knows
  <2>8. PairFits(t, x, y)
    BY <2>1, <2>2, <2>6, <2>7 DEF PairFits, Knows, Leaves, Removing
  <2>9. PairFits(t, y, x)
    BY <2>1, <2>2, <2>6, <2>7 DEF PairFits, Knows, Leaves, Removing
  <2> QED BY <2>8, <2>9
<1> QED BY <1>1, PairsStep

(* _on_restarted() of a partner.                                           *)
LEMMA RestartNoticed ==
  ASSUME NEW s, NEW t, NEW x \in Agents, NEW y \in Agents, NEW R, NEW n,
         PairStep(s, t, x, y, R, {}, {n}), PairsOK(s),
         t.bye = s.bye, t.pact = s.pact, t.prop = s.prop,
         n.for = "restarted", n.step # "remove", "restarted" \in Manners, Knows(s, x, y)
  PROVE  PairsOK(t)
<1>1. ASSUME Regular(t, x, y)
      PROVE  PairFits(t, x, y) /\ PairFits(t, y, x)
  <2>1. /\ x # y /\ PairFits(s, x, y) /\ PairFits(s, y, x)
        /\ Tasks(t, y, x) = Tasks(s, y, x)
        /\ \A j \in Tasks(t, x, y) : j = n \/ j \in Tasks(s, x, y)
        /\ \A j \in Tasks(s, x, y) : j \in Tasks(t, x, y)
    BY <1>1, StepPair, StepTasks
  <2>2. Found(t, x, y) = Found(s, x, y) /\ Found(t, y, x) = Found(s, y, x) BY DEF Found
  <2>3. /\ Accepted(t, x, y) <=> Accepted(s, x, y)
        /\ Accepted(t, y, x) <=> Accepted(s, y, x)
        /\ Middle(t, x, y) <=> Middle(s, x, y)
        /\ Middle(t, y, x) <=> Middle(s, y, x)
    BY DEF Accepted, Middle, Path
  <2>4. TaskFits(t, x, y, n) BY <2>2 DEF TaskFits, Knows
  <2>5. \A j \in Tasks(t, x, y) : TaskFits(t, x, y, j)
    BY <2>1, <2>2, <2>4 DEF PairFits, TaskFits, Knows
  <2>6. \A j \in Tasks(t, y, x) : TaskFits(t, y, x, j)
    BY <2>1, <2>2 DEF PairFits, TaskFits, Knows
  <2>7. PairFits(t, x, y)
    BY <2>1, <2>2, <2>3, <2>5 DEF PairFits, Knows, Leaves, Removing
  <2>8. PairFits(t, y, x)
    BY <2>1, <2>2, <2>3, <2>6 DEF PairFits, Knows, Leaves, Removing
  <2> QED BY <2>7, <2>8
<1>2. ASSUME NEW l \in R PROVE Tokens(y)[n] \cap Tokens(y)[l] = {}
  <2> SUFFICES ASSUME Tokens(y)[n] \cap Tokens(y)[l] # {} PROVE FALSE OBVIOUS
  <2>1. n \in JobType /\ l \in JobType BY StepTyped
  <2>2. n.for \in {"propose", "receive", "goodbye"} BY <2>1, SharedToken
  <2> QED BY <2>2
<1>3. \A m \in {n} : m = n OBVIOUS
<1> QED BY <1>1, <1>2, <1>3, PairsStep

(* A step after which nothing is claimed of the pair.                      *)
LEMMA PairSpoilt ==
  ASSUME NEW s, NEW t, NEW x \in Agents, NEW y \in Agents, NEW R, NEW D, NEW N,
         PairStep(s, t, x, y, R, D, N), PairsOK(s), ~Regular(t, x, y)
  PROVE  PairsOK(t)
BY PairsStep

-----------------------------------------------------------------------------
(* The steps keep what always holds                                        *)

LEMMA NowIs ==
  ASSUME PState \in PartnersState, NEW t \in PartnersState, Now(t)
  PROVE  PState' = t /\ scene' = scene
<1>1. PState' = [present |-> t.present, pact |-> t.pact, slots |-> t.slots, hooks |-> t.hooks,
                 todo |-> t.todo, prop |-> t.prop, bye |-> t.bye, odd |-> t.odd]
  BY DEF Now, PState
<1>2. t = [present |-> t.present, pact |-> t.pact, slots |-> t.slots, hooks |-> t.hooks,
           todo |-> t.todo, prop |-> t.prop, bye |-> t.bye, odd |-> t.odd]
  BY DEF PartnersState
<1>3. scene' = scene BY DEF Now
<1> QED BY <1>1, <1>2, <1>3

(* The goodbye is still waiting for the end of the job.                    *)
Awaited(s, x, j) ==
  LET b == s.bye[j.partner.peer][x] IN b.phase = "handled" /\ b.count = j.with

LEMMA DoneFields ==
  ASSUME NEW s \in PartnersState, NEW x \in Agents, NEW j \in JobType,
         j.for \in {"propose", "receive"} => j.with \in Proposals
  PROVE  LET t == Done(s, x, j)
             i == j.with
         IN  /\ t \in PartnersState
             /\ t.present = s.present /\ t.pact = s.pact /\ t.slots = s.slots
             /\ t.hooks = s.hooks /\ t.todo = s.todo /\ t.odd = s.odd
             /\ j.for \notin {"propose", "receive"} => t.prop = s.prop
             /\ j.for = "propose" => t.prop = [s.prop EXCEPT ![i] = [@ EXCEPT !.phase = "done"]]
             /\ j.for = "receive" => t.prop = [s.prop EXCEPT ![i] = [@ EXCEPT !.answer = "ok"]]
             /\ j.for = "goodbye" /\ Awaited(s, x, j) =>
                  t.bye = [s.bye EXCEPT ![j.partner.peer][x] = [@ EXCEPT !.phase = "answered"]]
             /\ ~(j.for = "goodbye" /\ Awaited(s, x, j)) => t.bye = s.bye
<1> DEFINE i == j.with
           y == j.partner.peer
<1>1. y \in Agents BY DEF JobType, KnownPartner
<1>2. CASE j.for = "propose"
  <2> DEFINE p == [s.prop[i] EXCEPT !.phase = "done"]
  <2>0. s.prop[i] \in ProposalType BY <1>2 DEF PartnersState
  <2>1. p \in ProposalType BY <2>0 DEF ProposalType
  <2>2. Done(s, x, j) = [s EXCEPT !.prop[i] = p]
        /\ [s.prop EXCEPT ![i] = [@ EXCEPT !.phase = "done"]] = [s.prop EXCEPT ![i] = p]
    BY <1>2 DEF Done, PartnersState
  <2> HIDE DEF p
  <2> QED BY <1>2, <2>1, <2>2, PropFields
<1>3. CASE j.for = "receive"
  <2> DEFINE p == [s.prop[i] EXCEPT !.answer = "ok"]
  <2>0. s.prop[i] \in ProposalType BY <1>3 DEF PartnersState
  <2>1. p \in ProposalType BY <2>0 DEF ProposalType
  <2>2. Done(s, x, j) = [s EXCEPT !.prop[i] = p]
        /\ [s.prop EXCEPT ![i] = [@ EXCEPT !.answer = "ok"]] = [s.prop EXCEPT ![i] = p]
    BY <1>3 DEF Done, PartnersState
  <2> HIDE DEF p
  <2> QED BY <1>3, <2>1, <2>2, PropFields
<1>4. CASE j.for = "goodbye" /\ Awaited(s, x, j)
  <2> DEFINE b == [s.bye[y][x] EXCEPT !.phase = "answered"]
  <2>0. s.bye[y][x] \in ByeType BY <1>1 DEF PartnersState
  <2>1. b \in ByeType BY <2>0 DEF ByeType
  <2>2. Done(s, x, j) = [s EXCEPT !.bye[y][x] = b]
        /\ [s.bye EXCEPT ![y][x] = [@ EXCEPT !.phase = "answered"]] = [s.bye EXCEPT ![y][x] = b]
    BY <1>1, <1>4 DEF Done, Replied, Awaited, PartnersState
  <2> HIDE DEF b
  <2> QED BY <1>1, <1>4, <2>1, <2>2, ByeFields
<1>5. CASE /\ j.for \notin {"propose", "receive"} /\ ~(j.for = "goodbye" /\ Awaited(s, x, j))
  BY <1>5 DEF Done, Replied, Awaited
<1> QED BY <1>2, <1>3, <1>4, <1>5

LEMMA FailedFields ==
  ASSUME NEW s \in PartnersState, NEW x \in Agents, NEW j \in JobType,
         j.for \in {"propose", "receive"} => j.with \in Proposals
  PROVE  LET t == Failed(s, x, j)
             i == j.with
         IN  /\ t \in PartnersState
             /\ t.present = s.present /\ t.pact = s.pact /\ t.slots = s.slots
             /\ t.hooks = s.hooks /\ t.todo = s.todo
             /\ j.for \notin {"propose", "receive"} => t.prop = s.prop
             /\ j.for = "propose" => t.prop = [s.prop EXCEPT ![i] = [@ EXCEPT !.phase = "done"]]
             /\ j.for = "propose" => t.odd = s.odd \cup {{x, j.partner.peer}}
             /\ j.for # "propose" => t.odd = s.odd
             /\ j.for = "receive" => t.prop = [s.prop EXCEPT ![i] = [@ EXCEPT !.answer = "fail"]]
             /\ j.for = "goodbye" /\ Awaited(s, x, j) =>
                  t.bye = [s.bye EXCEPT ![j.partner.peer][x] = [@ EXCEPT !.phase = "failure"]]
             /\ ~(j.for = "goodbye" /\ Awaited(s, x, j)) => t.bye = s.bye
<1> DEFINE i == j.with
           y == j.partner.peer
<1>1. y \in Agents BY DEF JobType, KnownPartner
<1>2. CASE j.for = "propose"
  <2> DEFINE p == [s.prop[i] EXCEPT !.phase = "done"]
             u == [s EXCEPT !.prop[i] = p]
  <2>0. s.prop[i] \in ProposalType BY <1>2 DEF PartnersState
  <2>1. p \in ProposalType BY <2>0 DEF ProposalType
  <2>2. Failed(s, x, j) = Odd(u, x, y)
        /\ [s.prop EXCEPT ![i] = [@ EXCEPT !.phase = "done"]] = [s.prop EXCEPT ![i] = p]
    BY <1>2 DEF Failed, PartnersState
  <2> HIDE DEF p
  <2>3. /\ u \in PartnersState /\ u.prop = [s.prop EXCEPT ![i] = p]
        /\ u.present = s.present /\ u.pact = s.pact /\ u.slots = s.slots
        /\ u.hooks = s.hooks /\ u.todo = s.todo /\ u.bye = s.bye /\ u.odd = s.odd
    BY <1>2, <2>1, PropFields
  <2> HIDE DEF u
  <2>4. x \in Peers /\ y \in Peers BY <1>1 DEF Peers
  <2>5. LET t == Odd(u, x, y)
        IN  /\ t \in PartnersState /\ t.odd = u.odd \cup {{x, y}}
            /\ t.present = u.present /\ t.pact = u.pact /\ t.slots = u.slots
            /\ t.hooks = u.hooks /\ t.todo = u.todo /\ t.prop = u.prop /\ t.bye = u.bye
    BY <2>3, <2>4, OddFields
  <2> QED BY <1>2, <2>2, <2>3, <2>5
<1>3. CASE j.for = "receive"
  <2> DEFINE p == [s.prop[i] EXCEPT !.answer = "fail"]
  <2>0. s.prop[i] \in ProposalType BY <1>3 DEF PartnersState
  <2>1. p \in ProposalType BY <2>0 DEF ProposalType
  <2>2. Failed(s, x, j) = [s EXCEPT !.prop[i] = p]
        /\ [s.prop EXCEPT ![i] = [@ EXCEPT !.answer = "fail"]] = [s.prop EXCEPT ![i] = p]
    BY <1>3 DEF Failed, PartnersState
  <2> HIDE DEF p
  <2> QED BY <1>3, <2>1, <2>2, PropFields
<1>4. CASE j.for = "goodbye" /\ Awaited(s, x, j)
  <2> DEFINE b == [s.bye[y][x] EXCEPT !.phase = "failure"]
  <2>0. s.bye[y][x] \in ByeType BY <1>1 DEF PartnersState
  <2>1. b \in ByeType BY <2>0 DEF ByeType
  <2>2. Failed(s, x, j) = [s EXCEPT !.bye[y][x] = b]
        /\ [s.bye EXCEPT ![y][x] = [@ EXCEPT !.phase = "failure"]] = [s.bye EXCEPT ![y][x] = b]
    BY <1>1, <1>4 DEF Failed, Replied, Awaited, PartnersState
  <2> HIDE DEF b
  <2> QED BY <1>1, <1>4, <2>1, <2>2, ByeFields
<1>5. CASE /\ j.for \notin {"propose", "receive"} /\ ~(j.for = "goodbye" /\ Awaited(s, x, j))
  BY <1>5 DEF Failed, Replied, Awaited
<1> QED BY <1>2, <1>3, <1>4, <1>5

(* What a step must show of the proposals, the goodbyes and the partners.  *)
LEMMA StillOK ==
  ASSUME NEW s, PartnersOK(s), NEW t \in PartnersState, NEW x \in Agents, NEW R, NEW D, NEW N,
         Moves(s, t, x, R, D, N), t.present \subseteq s.present,
         \A j \in t.hooks[x] : j.for \in {"propose", "receive", "restarted"},
         \A j \in Elems(t.todo[x]) : j.step \in Updates,
         \A j \in N : JobOK(t, x, j),
         \A i \in Proposals : s.prop[i].phase # "none" =>
           /\ t.prop[i].phase # "none"
           /\ s.prop[i].taken => t.prop[i].taken
           /\ t.prop[i].from = s.prop[i].from /\ t.prop[i].to = s.prop[i].to,
         \A i \in Proposals :
           /\ t.prop[i].phase # "none" => t.prop[i].from \in Agents /\ t.prop[i].to \in Agents
           /\ t.prop[i].answer # "none" => t.prop[i].taken,
         \A a \in t.present : \A b \in Agents :
           t.bye[a][b].phase # "none" => t.bye[a][b].partner.peer = b,
         \A p, q \in t.pact[x] : p.peer = q.peer => p = q,
         \A z \in Agents \ {x} : t.pact[z] = s.pact[z]
  PROVE  PartnersOK(t)
<1>1. ASSUME NEW a \in Agents, NEW j \in JobsOf(t, a) PROVE JobOK(t, a, j)
  <2>1. CASE a = x /\ j \in N BY <2>1
  <2>2. CASE j \in JobsOf(s, a)
    <3>1. JobOK(s, a, j) BY <2>2 DEF PartnersOK
    <3> QED BY <3>1 DEF JobOK
  <2>3. j \in JobsOf(s, a) \/ (a = x /\ j \in N)
    <3>1. CASE a = x BY <3>1 DEF Moves
    <3>2. CASE a # x BY <3>2 DEF Moves, JobsOf
    <3> QED BY <3>1, <3>2
  <2> QED BY <2>1, <2>2, <2>3
<1>2. ASSUME NEW a \in Agents, NEW j \in t.hooks[a]
      PROVE  j.for \in {"propose", "receive", "restarted"}
  BY <1>2 DEF PartnersOK, Moves
<1>3. ASSUME NEW a \in Agents, NEW p \in t.pact[a], NEW q \in t.pact[a], p.peer = q.peer
      PROVE  p = q
  BY <1>3 DEF PartnersOK
<1>4. ASSUME NEW a \in Agents, NEW j \in Elems(t.todo[a])
      PROVE  j.step \in Updates
  BY <1>4 DEF PartnersOK, Moves
<1> QED BY <1>1, <1>2, <1>3, <1>4 DEF PartnersOK

-----------------------------------------------------------------------------
(* The allocations of an agent: m were made and those in H are held, for    *)
(* the partners P; N are the partners that may be removed or stored again,   *)
(* C the allocations of partners that are coming (R of them are held), K    *)
(* those of partners with a new address, G those that are to be released     *)
(* and O those of proposals that were not answered.                        *)

AccountOK(m, H, P, N, C, R, K, G, O) ==
  /\ m \in Nat /\ H \subseteq 1..m /\ C \subseteq 1..m /\ G \subseteq 1..m /\ O \subseteq 1..m
  /\ \A p \in N : p.slot \in 0..m
  /\ P \subseteq N /\ \A p \in P : p.slot \in H \cup {NoSlot}
  /\ \A p, q \in N : p.slot = q.slot /\ p.slot # NoSlot => p = q
  /\ \A p \in N : p.slot \notin C /\ p.slot \notin O
  /\ C \cap O = {} /\ R \subseteq C /\ R \subseteq H
  /\ K \subseteq H /\ K \cap C = {} /\ K \cap O = {}
  /\ G \cap C = {} /\ G \cap O = {} /\ G \cap K = {} /\ \A p \in P : p.slot \notin G

LEMMA AccountShrinks ==
  ASSUME NEW m, NEW H, NEW P, NEW N, NEW C, NEW R, NEW K, NEW G, NEW O,
         AccountOK(m, H, P, N, C, R, K, G, O),
         NEW P1, P1 \subseteq P, NEW N1, N1 \subseteq N \cup {NoPartner}, P1 \subseteq N1,
         NEW C1, C1 \subseteq C, NEW R1, R1 \subseteq R, R1 \subseteq C1, NEW K1, K1 \subseteq K,
         NEW G1, G1 \subseteq G, NEW O1, O1 \subseteq O
  PROVE  AccountOK(m, H, P1, N1, C1, R1, K1, G1, O1)
<1>1. NoPartner.slot = NoSlot /\ NoSlot = 0 BY DEF NoPartner, NoSlot
<1>2. 0 \in 0..m /\ 0 \notin 1..m BY DEF AccountOK
<1>3. \A p \in N1 : p \in N \/ p.slot = NoSlot BY <1>1
<1>4. (\A p \in N1 : p.slot \in 0..m) /\ (\A p \in P1 : p.slot \in H \cup {NoSlot})
      /\ \A p \in P1 : p.slot \notin G1
  BY <1>1, <1>2, <1>3 DEF AccountOK
<1>5. \A p, q \in N1 : p.slot = q.slot /\ p.slot # NoSlot => p = q BY <1>3 DEF AccountOK
<1>6. \A p \in N1 : p.slot \notin C1 /\ p.slot \notin O1 BY <1>1, <1>2, <1>3 DEF AccountOK
<1> QED BY <1>4, <1>5, <1>6 DEF AccountOK

(* The allocation n of a proposal comes with a partner, ...                *)
LEMMA AccountArrives ==
  ASSUME NEW m, NEW H, NEW P, NEW N, NEW C, NEW R, NEW K, NEW G, NEW O,
         AccountOK(m, H, P, N, C, R, K, G, O), NEW O1, O1 \subseteq O, NEW n \in O \ O1, n \in H
  PROVE  AccountOK(m, H, P, N, C \cup {n}, R \cup {n}, K, G, O1)
BY DEF AccountOK

(* ... or is to be released.                                               *)
LEMMA AccountDeclines ==
  ASSUME NEW m, NEW H, NEW P, NEW N, NEW C, NEW R, NEW K, NEW G, NEW O,
         AccountOK(m, H, P, N, C, R, K, G, O), NEW O1, O1 \subseteq O, NEW n \in O \ O1
  PROVE  AccountOK(m, H, P, N, C, R, K, G \cup {n}, O1)
BY DEF AccountOK

(* An allocation is made for a partner that is coming, ...                 *)
LEMMA AccountAllocates ==
  ASSUME NEW m, NEW H, NEW P, NEW N, NEW C, NEW R, NEW K, NEW G, NEW O,
         AccountOK(m, H, P, N, C, R, K, G, O)
  PROVE  AccountOK(m + 1, H, P, N, C \cup {m + 1}, R, K, G, O)
<1>1. m \in Nat /\ m + 1 \notin 0..m /\ m + 1 \in 1..(m + 1) /\ 1..m \subseteq 1..(m + 1)
      /\ 0..m \subseteq 0..(m + 1) /\ 1..m \subseteq 0..m
  BY DEF AccountOK
<1>2. m + 1 \notin H /\ m + 1 \notin O /\ m + 1 \notin K /\ m + 1 \notin G BY <1>1 DEF AccountOK
<1>3. \A p \in N : p.slot # m + 1 BY <1>1 DEF AccountOK
<1> QED BY <1>1, <1>2, <1>3 DEF AccountOK

(* ... and is held.                                                        *)
LEMMA AccountHolds ==
  ASSUME NEW m, NEW H, NEW P, NEW N, NEW C, NEW R, NEW K, NEW G, NEW O,
         AccountOK(m, H, P, N, C, R, K, G, O), NEW n \in C
  PROVE  AccountOK(m, H \cup {n}, P, N, C, R \cup {n}, K, G, O)
BY DEF AccountOK

(* The partner p is stored, in place of others.                            *)
LEMMA AccountJoins ==
  ASSUME NEW m, NEW H, NEW P, NEW N, NEW C, NEW R, NEW K, NEW G, NEW O,
         AccountOK(m, H, P, N, C, R, K, G, O), NEW p, p.slot \in R \cup {NoSlot},
         NEW P1, P1 \subseteq P \cup {p}, NEW C1, C1 \subseteq C \ {p.slot}, NEW R1, R1 \subseteq R,
         R1 \subseteq C1
  PROVE  AccountOK(m, H, P1, N \cup {p}, C1, R1, K, G, O)
<1>1. 0 \in 0..m /\ 0 \notin 1..m /\ 1..m \subseteq 0..m BY DEF AccountOK
<1>2. p.slot \in 0..m /\ p.slot \in H \cup {NoSlot} /\ p.slot \notin C1 /\ p.slot \notin O
      /\ p.slot \notin G
  <2>1. CASE p.slot \in R
    <3>1. p.slot \in C /\ p.slot \in H BY <2>1 DEF AccountOK
    <3> QED BY <1>1, <3>1 DEF AccountOK
  <2>2. CASE p.slot = 0 BY <1>1, <2>2 DEF AccountOK, NoSlot
  <2> QED BY <2>1, <2>2 DEF NoSlot
<1>3. \A q \in N : q.slot = p.slot => p.slot = NoSlot BY DEF AccountOK
<1>4. \A q, r \in N \cup {p} : q.slot = r.slot /\ q.slot # NoSlot => q = r
  BY <1>3 DEF AccountOK
<1>5. /\ \A q \in N \cup {p} : q.slot \in 0..m /\ q.slot \notin C1 /\ q.slot \notin O
      /\ P1 \subseteq N \cup {p} /\ \A q \in P1 : q.slot \in H \cup {NoSlot} /\ q.slot \notin G
  BY <1>2 DEF AccountOK
<1> QED BY <1>4, <1>5 DEF AccountOK

(* The partner p, which has a new address, is stored again.                *)
LEMMA AccountRejoins ==
  ASSUME NEW m, NEW H, NEW P, NEW N, NEW C, NEW R, NEW K, NEW G, NEW O,
         AccountOK(m, H, P, N, C, R, K, G, O), NEW p \in N, p.slot \in K \cup {NoSlot},
         NEW P1, P1 \subseteq P \cup {p}
  PROVE  AccountOK(m, H, P1, N, C, R, K, G, O)
<1>1. 0 \notin 1..m BY DEF AccountOK
<1>2. p.slot \in H \cup {NoSlot} /\ p.slot \notin G BY <1>1 DEF AccountOK, NoSlot
<1> QED BY <1>2 DEF AccountOK

(* The partner p is removed, and its allocation is to be released.         *)
LEMMA AccountParts ==
  ASSUME NEW m, NEW H, NEW P, NEW N, NEW C, NEW R, NEW G, NEW O,
         AccountOK(m, H, P, N, C, R, {}, G, O), NEW p \in N, p.slot # NoSlot
  PROVE  AccountOK(m, H, P \ {p}, N, C, R, {}, G \cup {p.slot}, O)
<1>1. p.slot \in 1..m BY DEF AccountOK, NoSlot
<1>2. \A q \in P \ {p} : q.slot # p.slot BY DEF AccountOK
<1>3. p.slot \notin C /\ p.slot \notin O BY DEF AccountOK
<1>5. G \subseteq 1..m /\ G \cap C = {} /\ G \cap O = {} /\ \A q \in P : q.slot \notin G
  BY DEF AccountOK
<1>4. /\ G \cup {p.slot} \subseteq 1..m
      /\ (G \cup {p.slot}) \cap C = {} /\ (G \cup {p.slot}) \cap O = {}
      /\ \A q \in P \ {p} : q.slot \notin G \cup {p.slot}
  BY <1>1, <1>2, <1>3, <1>5
<1> QED BY <1>4 DEF AccountOK

LEMMA AccountReleases ==
  ASSUME NEW m, NEW H, NEW P, NEW N, NEW C, NEW R, NEW K, NEW G, NEW O,
         AccountOK(m, H, P, N, C, R, K, G, O), NEW n \in G \cup {NoSlot}
  PROVE  AccountOK(m, H \ {n}, P, N, C, R, K, G, O)
<1>1. 0 \notin 1..m BY DEF AccountOK
<1>2. n \notin R /\ n \notin K BY <1>1 DEF AccountOK, NoSlot
<1>3. \A p \in P : p.slot \in (H \ {n}) \cup {NoSlot} BY DEF AccountOK
<1> QED BY <1>2, <1>3 DEF AccountOK

(* A partner p has a new address.                                          *)
LEMMA AccountNotices ==
  ASSUME NEW m, NEW H, NEW P, NEW N, NEW C, NEW R, NEW K, NEW G, NEW O,
         AccountOK(m, H, P, N, C, R, K, G, O), NEW p \in P
  PROVE  AccountOK(m, H, P, N, C, R, K \cup ({p.slot} \ {NoSlot}), G, O)
<1> DEFINE K1 == K \cup ({p.slot} \ {NoSlot})
<1>1. p \in N /\ p.slot \in H \cup {NoSlot} /\ p.slot \notin C /\ p.slot \notin O /\ p.slot \notin G
  BY DEF AccountOK
<1>4. K \subseteq H /\ K \cap C = {} /\ K \cap O = {} /\ G \cap K = {} BY DEF AccountOK
<1>2. K1 \subseteq H /\ K1 \cap C = {} /\ K1 \cap O = {} /\ G \cap K1 = {}
  BY <1>1, <1>4
<1> HIDE DEF K1
<1>3. AccountOK(m, H, P, N, C, R, K1, G, O) BY <1>2 DEF AccountOK
<1> QED BY <1>3 DEF K1

(* An allocation is made for a proposal.                                   *)
LEMMA AccountPledges ==
  ASSUME NEW m, NEW H, NEW P, NEW N, NEW C, NEW R, NEW K, NEW G, NEW O,
         AccountOK(m, H, P, N, C, R, K, G, O)
  PROVE  AccountOK(m + 1, H \cup {m + 1}, P, N, C, R, K, G, O \cup {m + 1})
<1>1. m \in Nat /\ m + 1 \notin 0..m /\ m + 1 \in 1..(m + 1) /\ 1..m \subseteq 1..(m + 1)
      /\ 0..m \subseteq 0..(m + 1) /\ 1..m \subseteq 0..m
  BY DEF AccountOK
<1>2. m + 1 \notin C /\ m + 1 \notin K /\ m + 1 \notin G BY <1>1 DEF AccountOK
<1>3. \A p \in N : p.slot # m + 1 BY <1>1 DEF AccountOK
<1> QED BY <1>1, <1>2, <1>3 DEF AccountOK

(* The agent has left.                                                     *)
LEMMA AccountEmptied ==
  ASSUME NEW m, NEW H, NEW P, NEW N, NEW C, NEW R, NEW K, NEW G, NEW O,
         AccountOK(m, H, P, N, C, R, K, G, O), NEW N1, N1 \subseteq N, NEW O1, O1 \subseteq O
  PROVE  AccountOK(m, {}, {}, N1, {}, {}, {}, {}, O1)
BY DEF AccountOK

-----------------------------------------------------------------------------
(* The allocations that the jobs of an agent are about                     *)

SlotsOf(J) == {j.partner.slot : j \in J} \ {NoSlot}
Brings(j) == j.for \in {"propose", "receive"}
Coming(J) == SlotsOf({j \in J : Brings(j)})
Ready(J) == SlotsOf({j \in J : Brings(j) /\ j.step # "allocate"})
Moving(J) == SlotsOf({j \in J : j.for = "restarted"})
Going(J) == SlotsOf({j \in J : j.step = "release"})
Parting(J) == {j.partner : j \in {k \in J : k.for = "restarted" \/ k.step = "remove"}}

(* The allocations of x for the proposal i, while nobody has used them.    *)
Pledges(s, x, i) ==
  {n \in Nat \ {NoSlot} :
     /\ s.prop[i].phase = "asked"
     /\ \/ s.prop[i].from = x /\ n = s.prop[i].own
        \/ s.prop[i].to = x /\ ~s.prop[i].taken /\ n = s.prop[i].theirs}
Pledged(s, x) == UNION {Pledges(s, x, i) : i \in Proposals}
Farewells(s, x) == {s.bye[x][y].partner : y \in Agents}

Account(s, x, J) ==
  AccountOK(s.slots[x].made, s.slots[x].held, s.pact[x],
            s.pact[x] \cup Parting(J) \cup Farewells(s, x),
            Coming(J), Ready(J), Moving(J), Going(J), Pledged(s, x))

SlotKey ==
  [j \in JobType |-> IF Brings(j) THEN {j.partner.slot} \ {NoSlot} ELSE {}]

(* Partners are not replaced, and addresses do not change while partner-    *)
(* ships end.                                                              *)
Careful ==
  /\ "substitute" \notin Manners
  /\ "restarted" \in Manners => "breakup" \notin Manners /\ "leave" \notin Manners

JobSound(j) ==
  /\ j.step = "allocate" => j.partner.slot # NoSlot
  /\ j.for = "restarted" => "restarted" \in Manners
  /\ j.step = "remove" => "restarted" \notin Manners

SlotsOK(s) ==
  /\ \A x \in Agents : Account(s, x, JobsOf(s, x)) /\ Distinct(s.hooks[x], s.todo[x], SlotKey)
  /\ \A x \in Agents : \A j \in JobsOf(s, x) : JobSound(j)
  /\ \A x \in Agents : \A j \in s.hooks[x] : j.step # "allocate"
  /\ \A x \in Agents : \A i, k \in Proposals :
       i # k => Pledges(s, x, i) \cap Pledges(s, x, k) = {}
  /\ \A i \in Proposals : s.prop[i].phase # "none" => s.prop[i].from # s.prop[i].to
  /\ \A x, y \in Agents : s.bye[x][y].phase # "none" => "restarted" \notin Manners

(* One more job has its own allocation.                                    *)
Adds(R) ==
  \A j : /\ Coming(R \cup {j}) = Coming(R) \cup Coming({j})
         /\ Ready(R \cup {j}) = Ready(R) \cup Ready({j})
         /\ Moving(R \cup {j}) = Moving(R) \cup Moving({j})
         /\ Going(R \cup {j}) = Going(R) \cup Going({j})
         /\ Parting(R \cup {j}) = Parting(R) \cup Parting({j})

LEMMA SlotsAdd ==
  ASSUME NEW R
  PROVE  Adds(R)
BY DEF Adds, Coming, Ready, Moving, Going, Parting, SlotsOf

LEMMA SlotsOfNone ==
  Coming({}) = {} /\ Ready({}) = {} /\ Moving({}) = {} /\ Going({}) = {} /\ Parting({}) = {}
BY DEF Coming, Ready, Moving, Going, Parting, SlotsOf

LEMMA SlotsOfOne ==
  ASSUME NEW j
  PROVE  /\ Coming({j}) = IF Brings(j) THEN {j.partner.slot} \ {NoSlot} ELSE {}
         /\ Ready({j}) = IF Brings(j) /\ j.step # "allocate" THEN {j.partner.slot} \ {NoSlot} ELSE {}
         /\ Moving({j}) = IF j.for = "restarted" THEN {j.partner.slot} \ {NoSlot} ELSE {}
         /\ Going({j}) = IF j.step = "release" THEN {j.partner.slot} \ {NoSlot} ELSE {}
         /\ Parting({j}) = IF j.for = "restarted" \/ j.step = "remove" THEN {j.partner} ELSE {}
<1>1. \A J : SlotsOf(J) = {l.partner.slot : l \in J} \ {NoSlot} BY DEF SlotsOf
<1>2. Coming({j}) = IF Brings(j) THEN {j.partner.slot} \ {NoSlot} ELSE {}
  BY <1>1 DEF Coming
<1>3. Ready({j}) = IF Brings(j) /\ j.step # "allocate" THEN {j.partner.slot} \ {NoSlot} ELSE {}
  BY <1>1 DEF Ready
<1>4. Moving({j}) = IF j.for = "restarted" THEN {j.partner.slot} \ {NoSlot} ELSE {}
  BY <1>1 DEF Moving
<1>5. Going({j}) = IF j.step = "release" THEN {j.partner.slot} \ {NoSlot} ELSE {}
  BY <1>1 DEF Going
<1>6. Parting({j}) = IF j.for = "restarted" \/ j.step = "remove" THEN {j.partner} ELSE {}
  BY DEF Parting
<1> QED BY <1>2, <1>3, <1>4, <1>5, <1>6

(* A job has at most the one allocation of its key.                        *)
LEMMA KeysApart ==
  ASSUME NEW R \in SUBSET JobType, NEW j \in JobType,
         \A l \in R : SlotKey[j] \cap SlotKey[l] = {}, Brings(j)
  PROVE  j.partner.slot \notin Coming(R)
BY DEF SlotKey, Coming, SlotsOf

LEMMA KeysFresh ==
  ASSUME NEW R \in SUBSET JobType, NEW j \in JobType,
         Brings(j) => j.partner.slot = NoSlot \/ j.partner.slot \notin Coming(R)
  PROVE  \A l \in R : SlotKey[j] \cap SlotKey[l] = {}
BY DEF SlotKey, Coming, SlotsOf

LEMMA ReadyComing ==
  ASSUME NEW J
  PROVE  Ready(J) \subseteq Coming(J)
BY DEF Coming, Ready, SlotsOf

-----------------------------------------------------------------------------
(* A step of x does not touch the allocations of others                    *)

PropLess(s, t) ==
  \A i \in Proposals :
    /\ t.prop[i].from = s.prop[i].from /\ t.prop[i].to = s.prop[i].to
    /\ t.prop[i].own = s.prop[i].own /\ t.prop[i].theirs = s.prop[i].theirs
    /\ s.prop[i].taken => t.prop[i].taken
    /\ t.prop[i].phase = "asked" => s.prop[i].phase = "asked"
    /\ t.prop[i].phase # "none" => s.prop[i].phase # "none"

Aside(s, t, x) ==
  /\ \A z \in Agents \ {x} : t.slots[z] = s.slots[z] /\ t.pact[z] = s.pact[z]
  /\ \A z \in Agents \ {x} : \A y \in Agents : t.bye[z][y].partner = s.bye[z][y].partner
  /\ \A z, y \in Agents :
       t.bye[z][y].phase # "none" => s.bye[z][y].phase # "none" \/ "restarted" \notin Manners
  /\ PropLess(s, t)

LEMMA PledgesLess ==
  ASSUME NEW s, NEW t, PropLess(s, t), NEW x
  PROVE  /\ \A i \in Proposals : Pledges(t, x, i) \subseteq Pledges(s, x, i)
         /\ Pledged(t, x) \subseteq Pledged(s, x)
<1>1. \A i \in Proposals : Pledges(t, x, i) \subseteq Pledges(s, x, i) BY DEF PropLess, Pledges
<1> QED BY <1>1 DEF Pledged

LEMMA AccountLess ==
  ASSUME NEW s, NEW t, NEW x, NEW J, NEW L, Account(s, x, J),
         t.slots[x] = s.slots[x], t.pact[x] \subseteq s.pact[x],
         Pledged(t, x) \subseteq Pledged(s, x),
         Farewells(t, x) \cup Parting(L)
           \subseteq s.pact[x] \cup Parting(J) \cup Farewells(s, x) \cup {NoPartner},
         Coming(L) \subseteq Coming(J), Ready(L) \subseteq Ready(J),
         Moving(L) \subseteq Moving(J), Going(L) \subseteq Going(J)
  PROVE  Account(t, x, L)
<1> DEFINE N == s.pact[x] \cup Parting(J) \cup Farewells(s, x)
           N1 == t.pact[x] \cup Parting(L) \cup Farewells(t, x)
<1>1. AccountOK(s.slots[x].made, s.slots[x].held, s.pact[x], N, Coming(J), Ready(J), Moving(J),
                Going(J), Pledged(s, x))
  BY DEF Account
<1>2. N1 \subseteq N \cup {NoPartner} /\ t.pact[x] \subseteq N1 OBVIOUS
<1> HIDE DEF N, N1
<1>3. AccountOK(s.slots[x].made, s.slots[x].held, t.pact[x], N1, Coming(L), Ready(L), Moving(L),
                Going(L), Pledged(t, x))
  BY <1>1, <1>2, ReadyComing, AccountShrinks
<1> QED BY <1>3 DEF Account, N1

LEMMA AccountOfOther ==
  ASSUME NEW s, NEW t, NEW x \in Agents, Aside(s, t, x), NEW z \in Agents \ {x}, NEW J,
         Account(s, z, J)
  PROVE  Account(t, z, J)
<1>1. Pledged(t, z) \subseteq Pledged(s, z) BY PledgesLess DEF Aside
<1>2. Farewells(t, z) = Farewells(s, z) BY DEF Farewells, Aside
<1>3. t.slots[z] = s.slots[z] /\ t.pact[z] = s.pact[z] BY DEF Aside
<1>4. Farewells(t, z) \cup Parting(J)
        \subseteq s.pact[z] \cup Parting(J) \cup Farewells(s, z) \cup {NoPartner}
  BY <1>2
<1> QED BY <1>1, <1>3, <1>4, AccountLess

LEMMA SlotsStep ==
  ASSUME NEW s, NEW t, NEW x \in Agents, NEW R, NEW D, NEW N,
         Moves(s, t, x, R, D, N), SlotsOK(s), Aside(s, t, x),
         \A n \in N : JobSound(n),
         \A j \in t.hooks[x] : j \in s.hooks[x] \/ j.step # "allocate",
         \A n \in N : \A l \in R : SlotKey[n] \cap SlotKey[l] = {},
         Account(t, x, R \cup N)
  PROVE  SlotsOK(t)
<1>1. ASSUME NEW z \in Agents
      PROVE  Account(t, z, JobsOf(t, z)) /\ Distinct(t.hooks[z], t.todo[z], SlotKey)
             /\ (\A j \in JobsOf(t, z) : JobSound(j)) /\ \A j \in t.hooks[z] : j.step # "allocate"
  <2>0. /\ Account(s, z, JobsOf(s, z)) /\ Distinct(s.hooks[z], s.todo[z], SlotKey)
        /\ (\A j \in JobsOf(s, z) : JobSound(j)) /\ \A j \in s.hooks[z] : j.step # "allocate"
    BY DEF SlotsOK
  <2>1. CASE z = x
    <3>1. JobsOf(t, z) = R \cup N /\ JobsOf(s, z) = R \cup D BY <2>1 DEF Moves
    <3>2. Distinct(t.hooks[z], t.todo[z], SlotKey) BY <2>0, <2>1 DEF Moves
    <3> QED BY <2>0, <2>1, <3>1, <3>2
  <2>2. CASE z # x
    <3>1. t.hooks[z] = s.hooks[z] /\ t.todo[z] = s.todo[z] BY <2>2 DEF Moves
    <3>2. JobsOf(t, z) = JobsOf(s, z) BY <3>1 DEF JobsOf
    <3>3. Account(t, z, JobsOf(s, z)) BY <2>0, <2>2, AccountOfOther
    <3> QED BY <2>0, <3>1, <3>2, <3>3
  <2> QED BY <2>1, <2>2
<1>2. PropLess(s, t) BY DEF Aside
<1>3. ASSUME NEW z \in Agents, NEW i \in Proposals, NEW k \in Proposals, i # k
      PROVE  Pledges(t, z, i) \cap Pledges(t, z, k) = {}
  <2>1. Pledges(s, z, i) \cap Pledges(s, z, k) = {} BY <1>3 DEF SlotsOK
  <2>2. Pledges(t, z, i) \subseteq Pledges(s, z, i) /\ Pledges(t, z, k) \subseteq Pledges(s, z, k)
    BY <1>2, PledgesLess
  <2> QED BY <2>1, <2>2
<1>4. \A i \in Proposals : t.prop[i].phase # "none" => t.prop[i].from # t.prop[i].to
  BY <1>2 DEF PropLess, SlotsOK
<1>5. \A z, y \in Agents : t.bye[z][y].phase # "none" => "restarted" \notin Manners
  BY DEF Aside, SlotsOK
<1> QED BY <1>1, <1>3, <1>4, <1>5 DEF SlotsOK

-----------------------------------------------------------------------------
(* What kinds of steps make of the allocations                             *)

SlotsKept(s, t) == Careful /\ SlotsOK(s) => SlotsOK(t)

(* c is s without the job j of x, and the account of x is in order.        *)
Settled(s, c, x) ==
  /\ \A z \in Agents \ {x} : c.slots[z] = s.slots[z]
  /\ Careful /\ SlotsOK(s) => Account(c, x, JobsOf(c, x))

(* The next step n of the job j has the same key.                          *)
LEMMA SameKey ==
  ASSUME NEW s, NEW c, NEW x, NEW R, NEW j \in JobType, NEW n \in JobType,
         Moves(s, c, x, R, {j}, {}), Distinct(s.hooks[x], s.todo[x], SlotKey),
         n.partner = j.partner, n.for = j.for
  PROVE  \A l \in R : SlotKey[n] \cap SlotKey[l] = {}
<1>1. \A l \in R : SlotKey[j] \cap SlotKey[l] = {} BY DEF Moves
<1>2. SlotKey[n] = SlotKey[j] BY DEF SlotKey, Brings
<1> QED BY <1>1, <1>2

(* The job n goes on with an allocation that it had.                       *)
LEMMA AccountGoesOn ==
  ASSUME NEW s, NEW x, NEW R, NEW j, NEW n, Account(s, x, R \cup {j}),
         n.partner = j.partner, n.for = j.for, n.step = "update", j.step # "allocate"
  PROVE  Account(s, x, R \cup {n})
<1>a. Adds(R) BY SlotsAdd
<1>1. /\ Coming({n}) \subseteq Coming({j}) /\ Ready({n}) \subseteq Ready({j})
      /\ Moving({n}) \subseteq Moving({j}) /\ Going({n}) \subseteq Going({j})
      /\ Parting({n}) \subseteq Parting({j})
  BY SlotsOfOne DEF Brings
<1>2. /\ Coming(R \cup {n}) \subseteq Coming(R \cup {j})
      /\ Ready(R \cup {n}) \subseteq Ready(R \cup {j})
      /\ Moving(R \cup {n}) \subseteq Moving(R \cup {j})
      /\ Going(R \cup {n}) \subseteq Going(R \cup {j})
      /\ Parting(R \cup {n}) \subseteq Parting(R \cup {j})
  BY <1>1, <1>a DEF Adds
<1>3. Farewells(s, x) \cup Parting(R \cup {n})
        \subseteq s.pact[x] \cup Parting(R \cup {j}) \cup Farewells(s, x) \cup {NoPartner}
  BY <1>2
<1> QED BY <1>2, <1>3, AccountLess

(* It has made an allocation, ...                                          *)
LEMMA AccountMakes ==
  ASSUME NEW s, NEW t, NEW x, NEW R, NEW n, Account(s, x, R), Brings(n), n.step = "allocate",
         n.partner.slot = s.slots[x].made + 1,
         t.slots[x].made = s.slots[x].made + 1, t.slots[x].held = s.slots[x].held,
         t.pact[x] = s.pact[x], Farewells(t, x) = Farewells(s, x), Pledged(t, x) = Pledged(s, x)
  PROVE  Account(t, x, R \cup {n})
<1>a. Adds(R) BY SlotsAdd
<1> DEFINE m == s.slots[x].made
           N == s.pact[x] \cup Parting(R) \cup Farewells(s, x)
<1>1. AccountOK(m, s.slots[x].held, s.pact[x], N, Coming(R), Ready(R), Moving(R), Going(R),
                Pledged(s, x))
  BY DEF Account
<1>2. m \in Nat BY <1>1 DEF AccountOK
<1>3. {m + 1} \ {NoSlot} = {m + 1} BY <1>2 DEF NoSlot
<1>4. n.for # "restarted" /\ n.step # "release" /\ n.step # "remove" BY DEF Brings
<1> HIDE DEF m, N
<1>5. AccountOK(m + 1, s.slots[x].held, s.pact[x], N, Coming(R) \cup {m + 1}, Ready(R), Moving(R),
                Going(R), Pledged(s, x))
  BY <1>1, AccountAllocates
<1>6. /\ Coming({n}) = {m + 1} /\ Ready({n}) = {} /\ Moving({n}) = {} /\ Going({n}) = {}
      /\ Parting({n}) = {}
  BY <1>3, <1>4, SlotsOfOne DEF m
<1>7. /\ Coming(R \cup {n}) = Coming(R) \cup {m + 1} /\ Ready(R \cup {n}) = Ready(R)
      /\ Moving(R \cup {n}) = Moving(R) /\ Going(R \cup {n}) = Going(R)
      /\ Parting(R \cup {n}) = Parting(R)
  <2>1. /\ Coming(R \cup {n}) = Coming(R) \cup Coming({n})
        /\ Ready(R \cup {n}) = Ready(R) \cup Ready({n})
        /\ Moving(R \cup {n}) = Moving(R) \cup Moving({n})
        /\ Going(R \cup {n}) = Going(R) \cup Going({n})
        /\ Parting(R \cup {n}) = Parting(R) \cup Parting({n})
    BY <1>a DEF Adds
  <2> QED BY <1>6, <2>1
<1> QED BY <1>5, <1>7 DEF Account, m, N

(* ... which is held.                                                      *)
LEMMA AccountHeld ==
  ASSUME NEW s, NEW t, NEW x, NEW R, NEW j, NEW n, Account(s, x, R \cup {j}), Brings(j),
         n.partner = j.partner, n.for = j.for, n.step = "update", j.partner.slot # NoSlot,
         j.step # "release", j.step # "remove",
         t.slots[x].made = s.slots[x].made,
         t.slots[x].held = s.slots[x].held \cup {j.partner.slot},
         t.pact[x] = s.pact[x], Farewells(t, x) = Farewells(s, x), Pledged(t, x) = Pledged(s, x)
  PROVE  Account(t, x, R \cup {n})
<1>a. Adds(R) BY SlotsAdd
<1> DEFINE e == j.partner.slot
           J == R \cup {j}
           L == R \cup {n}
           N == s.pact[x] \cup Parting(J) \cup Farewells(s, x)
<1>1. AccountOK(s.slots[x].made, s.slots[x].held, s.pact[x], N, Coming(J), Ready(J), Moving(J),
                Going(J), Pledged(s, x))
  BY DEF Account
<1>2. /\ Coming({j}) = {e} /\ Coming({n}) = {e} /\ Ready({n}) = {e} /\ Ready({j}) \subseteq {e}
      /\ Moving({n}) = Moving({j}) /\ Going({n}) = Going({j}) /\ Parting({n}) = Parting({j})
  BY SlotsOfOne DEF Brings
<1>3. /\ Coming(L) = Coming(J) /\ e \in Coming(J) /\ Ready(L) = Ready(J) \cup {e}
      /\ Moving(L) = Moving(J) /\ Going(L) = Going(J) /\ Parting(L) = Parting(J)
  <2>1. /\ Coming(J) = Coming(R) \cup Coming({j}) /\ Coming(L) = Coming(R) \cup Coming({n})
        /\ Ready(J) = Ready(R) \cup Ready({j}) /\ Ready(L) = Ready(R) \cup Ready({n})
        /\ Moving(J) = Moving(R) \cup Moving({j}) /\ Moving(L) = Moving(R) \cup Moving({n})
        /\ Going(J) = Going(R) \cup Going({j}) /\ Going(L) = Going(R) \cup Going({n})
        /\ Parting(J) = Parting(R) \cup Parting({j}) /\ Parting(L) = Parting(R) \cup Parting({n})
    BY <1>a DEF Adds
  <2> HIDE DEF J, L, N
  <2> QED BY <1>2, <2>1
<1> HIDE DEF e, N, J, L
<1>4. AccountOK(s.slots[x].made, s.slots[x].held \cup {e}, s.pact[x], N, Coming(J),
                Ready(J) \cup {e}, Moving(J), Going(J), Pledged(s, x))
  BY <1>1, <1>3, AccountHolds
<1>5. Account(t, x, L) BY <1>3, <1>4 DEF Account, e, N
<1> QED BY <1>5 DEF L

(* The partner of the job j is stored.                                     *)
LEMMA AccountStored ==
  ASSUME NEW s, NEW t, NEW x, NEW R \in SUBSET JobType, NEW j \in JobType,
         Account(s, x, R \cup {j}), j.step = "update", Brings(j) \/ j.for = "restarted",
         \A l \in R : SlotKey[j] \cap SlotKey[l] = {},
         t.slots[x] = s.slots[x], t.pact[x] \subseteq s.pact[x] \cup {j.partner},
         Farewells(t, x) = Farewells(s, x), Pledged(t, x) = Pledged(s, x)
  PROVE  Account(t, x, R)
<1>a. Adds(R) BY SlotsAdd
<1> DEFINE p == j.partner
           J == R \cup {j}
           N == s.pact[x] \cup Parting(J) \cup Farewells(s, x)
           N1 == t.pact[x] \cup Parting(R) \cup Farewells(t, x)
<1>1. AccountOK(s.slots[x].made, s.slots[x].held, s.pact[x], N, Coming(J), Ready(J), Moving(J),
                Going(J), Pledged(s, x))
  BY DEF Account
<1>2. /\ Coming(R) \subseteq Coming(J) /\ Ready(R) \subseteq Ready(J) /\ Ready(R) \subseteq Coming(R)
      /\ Moving(R) \subseteq Moving(J) /\ Going(R) \subseteq Going(J)
      /\ Parting(R) \subseteq Parting(J)
  BY <1>a, ReadyComing DEF Adds
<1>3. t.pact[x] \subseteq N1 /\ N1 \subseteq N \cup {p} BY <1>2
<1>4. CASE Brings(j)
  <2>1. p.slot \in Ready(J) \cup {NoSlot}
    <3>1. Ready({j}) = {p.slot} \ {NoSlot} BY <1>4, SlotsOfOne
    <3> QED BY <3>1, <1>a DEF Adds
  <2>2. Coming(R) \subseteq Coming(J) \ {p.slot} BY <1>2, <1>4, KeysApart
  <2> HIDE DEF N, N1, J, p
  <2>3. AccountOK(s.slots[x].made, s.slots[x].held, t.pact[x], N \cup {p}, Coming(R), Ready(R),
                  Moving(J), Going(J), Pledged(s, x))
    BY <1>1, <1>2, <2>1, <2>2, AccountJoins DEF p
  <2>4. N1 \subseteq (N \cup {p}) \cup {NoPartner} BY <1>3
  <2>5. AccountOK(s.slots[x].made, s.slots[x].held, t.pact[x], N1, Coming(R), Ready(R),
                  Moving(R), Going(R), Pledged(s, x))
    BY <1>2, <1>3, <2>3, <2>4, AccountShrinks
  <2> QED BY <2>5 DEF Account, N1
<1>5. CASE j.for = "restarted"
  <2>1. p \in N /\ p.slot \in Moving(J) \cup {NoSlot}
    <3>1. Moving({j}) = {p.slot} \ {NoSlot} /\ Parting({j}) = {p} BY <1>5, SlotsOfOne
    <3> QED BY <3>1, <1>a DEF Adds
  <2> HIDE DEF N, N1, J, p
  <2>2. AccountOK(s.slots[x].made, s.slots[x].held, t.pact[x], N, Coming(J), Ready(J), Moving(J),
                  Going(J), Pledged(s, x))
    BY <1>1, <2>1, AccountRejoins DEF p
  <2>3. N1 \subseteq N \cup {NoPartner} BY <1>3, <2>1
  <2>4. AccountOK(s.slots[x].made, s.slots[x].held, t.pact[x], N1, Coming(R), Ready(R),
                  Moving(R), Going(R), Pledged(s, x))
    BY <1>2, <1>3, <2>2, <2>3, AccountShrinks
  <2> QED BY <2>4 DEF Account, N1
<1> QED BY <1>4, <1>5

(* The partner of the job j is removed; its allocation will be released,   *)
LEMMA AccountParted ==
  ASSUME NEW s, NEW t, NEW x, NEW R, NEW j, NEW n, Account(s, x, R \cup {j}),
         \A l \in R \cup {j} : l.for # "restarted", j.step = "remove", ~Brings(j),
         n.partner = j.partner, n.for = j.for, n.step = "release", j.partner.slot # NoSlot,
         t.slots[x] = s.slots[x], t.pact[x] = s.pact[x] \ {j.partner},
         Farewells(t, x) = Farewells(s, x), Pledged(t, x) = Pledged(s, x)
  PROVE  Account(t, x, R \cup {n})
<1>a. Adds(R) BY SlotsAdd
<1> DEFINE p == j.partner
           J == R \cup {j}
           L == R \cup {n}
           N == s.pact[x] \cup Parting(J) \cup Farewells(s, x)
           N1 == t.pact[x] \cup Parting(L) \cup Farewells(t, x)
<1>1. AccountOK(s.slots[x].made, s.slots[x].held, s.pact[x], N, Coming(J), Ready(J), Moving(J),
                Going(J), Pledged(s, x))
  BY DEF Account
<1>2. Moving(J) = {} /\ Moving(L) = {} BY DEF Moving, SlotsOf
<1>3. /\ Coming({j}) = {} /\ Coming({n}) = {} /\ Ready({n}) = {} /\ Ready({j}) = {}
      /\ Going({n}) = {p.slot} /\ Parting({n}) = {} /\ Parting({j}) = {p}
  BY SlotsOfOne DEF Brings
<1>4. /\ Coming(L) = Coming(J) /\ Ready(L) = Ready(J) /\ Going(L) \subseteq Going(J) \cup {p.slot}
      /\ Parting(L) \subseteq Parting(J) /\ p \in Parting(J)
  <2>1. /\ Coming(J) = Coming(R) \cup Coming({j}) /\ Coming(L) = Coming(R) \cup Coming({n})
        /\ Ready(J) = Ready(R) \cup Ready({j}) /\ Ready(L) = Ready(R) \cup Ready({n})
        /\ Moving(J) = Moving(R) \cup Moving({j}) /\ Moving(L) = Moving(R) \cup Moving({n})
        /\ Going(J) = Going(R) \cup Going({j}) /\ Going(L) = Going(R) \cup Going({n})
        /\ Parting(J) = Parting(R) \cup Parting({j}) /\ Parting(L) = Parting(R) \cup Parting({n})
    BY <1>a DEF Adds
  <2> HIDE DEF J, L, N, N1
  <2> QED BY <1>3, <2>1
<1>5. p \in N /\ t.pact[x] \subseteq N1 /\ N1 \subseteq N \cup {NoPartner} BY <1>4
<1> HIDE DEF N, N1, J, L, p
<1>6. AccountOK(s.slots[x].made, s.slots[x].held, s.pact[x] \ {p}, N, Coming(J), Ready(J), {},
                Going(J) \cup {p.slot}, Pledged(s, x))
  BY <1>1, <1>2, <1>5, AccountParts DEF p
<1>7. t.pact[x] = s.pact[x] \ {p} BY DEF p
<1>8. AccountOK(s.slots[x].made, s.slots[x].held, t.pact[x], N1, Coming(L), Ready(L), {},
                Going(L), Pledged(s, x))
  BY <1>4, <1>5, <1>6, <1>7, ReadyComing, AccountShrinks
<1>9. Account(t, x, L) BY <1>2, <1>8 DEF Account, N1
<1> QED BY <1>9 DEF L

(* ... and is.                                                             *)
LEMMA AccountReleased ==
  ASSUME NEW s, NEW t, NEW x, NEW R, NEW j, Account(s, x, R \cup {j}), j.step = "release",
         t.slots[x].made = s.slots[x].made,
         t.slots[x].held = s.slots[x].held \ {j.partner.slot},
         t.pact[x] = s.pact[x], Farewells(t, x) = Farewells(s, x), Pledged(t, x) = Pledged(s, x)
  PROVE  Account(t, x, R)
<1>a. Adds(R) BY SlotsAdd
<1> DEFINE e == j.partner.slot
           J == R \cup {j}
           N == s.pact[x] \cup Parting(J) \cup Farewells(s, x)
           N1 == t.pact[x] \cup Parting(R) \cup Farewells(t, x)
<1>1. AccountOK(s.slots[x].made, s.slots[x].held, s.pact[x], N, Coming(J), Ready(J), Moving(J),
                Going(J), Pledged(s, x))
  BY DEF Account
<1>2. /\ Coming(R) \subseteq Coming(J) /\ Ready(R) \subseteq Ready(J) /\ Ready(R) \subseteq Coming(R)
      /\ Moving(R) \subseteq Moving(J) /\ Going(R) \subseteq Going(J)
      /\ Parting(R) \subseteq Parting(J)
  BY <1>a, ReadyComing DEF Adds
<1>3. e \in Going(J) \cup {NoSlot}
  <2>1. Going({j}) = {e} \ {NoSlot} BY SlotsOfOne
  <2> QED BY <2>1, <1>a DEF Adds
<1>4. s.pact[x] \subseteq N1 /\ N1 \subseteq N \cup {NoPartner} BY <1>2
<1> HIDE DEF N, N1, J, e
<1>5. AccountOK(s.slots[x].made, s.slots[x].held \ {e}, s.pact[x], N, Coming(J), Ready(J),
                Moving(J), Going(J), Pledged(s, x))
  BY <1>1, <1>3, AccountReleases
<1>6. AccountOK(s.slots[x].made, s.slots[x].held \ {e}, s.pact[x], N1, Coming(R), Ready(R),
                Moving(R), Going(R), Pledged(s, x))
  BY <1>2, <1>4, <1>5, AccountShrinks
<1> QED BY <1>6 DEF Account, N1, e

-----------------------------------------------------------------------------
(* The end of a job                                                        *)

Orderly == "fickle" \notin Manners /\ ("restarted" \in Manners => "breakup" \notin Manners)

SidesKept(s, t) == PartnersOK(t) /\ (Orderly /\ PairsOK(s) => PairsOK(t))

(* c is s without the job j of x, which may have changed the partners of x. *)
Dropped(s, c, x, j) ==
  /\ PartnersOK(s) /\ c \in PartnersState /\ j \in JobsOf(s, x)
  /\ Moves(s, c, x, JobsOf(c, x), {j}, {}) /\ c.hooks[x] \subseteq s.hooks[x]
  /\ Elems(c.todo[x]) \subseteq Elems(s.todo[x])
  /\ c.present = s.present /\ c.prop = s.prop /\ c.bye = s.bye /\ s.odd \subseteq c.odd
  /\ \A z \in Agents \ {x} : c.pact[z] = s.pact[z]
  /\ \A p, q \in c.pact[x] : p.peer = q.peer => p = q
  /\ \A z \in Agents \ {j.partner.peer} :
       {x, z} \notin c.odd => Found(c, x, z) = Found(s, x, z)

LEMMA DroppedFacts ==
  ASSUME NEW s, NEW c, NEW x \in Agents, NEW j, Dropped(s, c, x, j)
  PROVE  /\ j \in JobType /\ j.partner.peer \in Agents /\ JobOK(s, x, j)
         /\ j.for \in {"propose", "receive"} => j.with \in Proposals
         /\ PartnersOK(s) /\ s \in PartnersState /\ c \in PartnersState
BY JobTyped DEF Dropped, PartnersOK, JobOK, JobType, KnownPartner

(* What follows of the state after it is a step of the pair.               *)
LEMMA AfterDrop ==
  ASSUME NEW s, NEW c, NEW x \in Agents, NEW j, Dropped(s, c, x, j), NEW t \in PartnersState,
         NEW N, Moves(c, t, x, JobsOf(c, x), {}, N),
         t.hooks[x] = c.hooks[x],
         \A k \in Elems(t.todo[x]) : k \in Elems(c.todo[x]) \/ k.step \in Updates,
         \A n \in N : JobOK(t, x, n) /\ n.partner.peer = j.partner.peer,
         t.present = c.present, t.pact = c.pact, c.odd \subseteq t.odd,
         \A a, b \in Agents : ~(a = j.partner.peer /\ b = x) => t.bye[a][b] = c.bye[a][b],
         t.bye[j.partner.peer][x].phase # "none" =>
           /\ c.bye[j.partner.peer][x].phase # "none" \/ j.partner.peer \notin s.present
           /\ t.bye[j.partner.peer][x].partner = c.bye[j.partner.peer][x].partner,
         \A i \in Proposals :
           \/ t.prop[i] = c.prop[i]
           \/ /\ j.for \in {"propose", "receive"} /\ i = j.with
              /\ t.prop[i].from = c.prop[i].from /\ t.prop[i].to = c.prop[i].to
              /\ t.prop[i].taken = c.prop[i].taken
              /\ t.prop[i].answer # "none" => t.prop[i].taken
              /\ t.prop[i].phase # "none"
  PROVE  PartnersOK(t) /\ PairStep(s, t, x, j.partner.peer, JobsOf(c, x), {j}, N)
<1> DEFINE y == j.partner.peer
<1>1. y \in Agents /\ JobOK(s, x, j) /\ PartnersOK(s) BY DroppedFacts
<1>2. Moves(s, t, x, JobsOf(c, x), {j}, N) BY MovesThen DEF Dropped
<1>3. PartnersOK(t)
  <2>1. \A k \in t.hooks[x] : k.for \in {"propose", "receive", "restarted"}
    BY <1>1 DEF PartnersOK, Dropped
  <2>0. \A k \in Elems(t.todo[x]) : k.step \in Updates
    BY <1>1 DEF PartnersOK, Dropped
  <2>2. \A i \in Proposals : s.prop[i].phase # "none" =>
           /\ t.prop[i].phase # "none"
           /\ s.prop[i].taken => t.prop[i].taken
           /\ t.prop[i].from = s.prop[i].from /\ t.prop[i].to = s.prop[i].to
    BY DEF Dropped
  <2>3. \A i \in Proposals :
           /\ t.prop[i].phase # "none" => t.prop[i].from \in Agents /\ t.prop[i].to \in Agents
           /\ t.prop[i].answer # "none" => t.prop[i].taken
    <3> SUFFICES ASSUME NEW i \in Proposals
                 PROVE  /\ t.prop[i].phase # "none"
                             => t.prop[i].from \in Agents /\ t.prop[i].to \in Agents
                        /\ t.prop[i].answer # "none" => t.prop[i].taken
      OBVIOUS
    <3>1. CASE t.prop[i] = c.prop[i] BY <1>1, <3>1 DEF PartnersOK, Dropped
    <3>2. CASE t.prop[i] # c.prop[i]
      <4>1. s.prop[i].phase # "none" BY <1>1, <3>2 DEF JobOK
      <4> QED BY <1>1, <3>2, <4>1 DEF PartnersOK, Dropped
    <3> QED BY <3>1, <3>2
  <2>4. \A a \in t.present : \A b \in Agents :
           t.bye[a][b].phase # "none" => t.bye[a][b].partner.peer = b
    <3> SUFFICES ASSUME NEW a \in t.present, NEW b \in Agents, t.bye[a][b].phase # "none"
                 PROVE  t.bye[a][b].partner.peer = b
      OBVIOUS
    <3>1. a \in s.present /\ a \in Agents BY <1>1 DEF Dropped, PartnersOK, PartnersState
    <3>2. CASE a = y /\ b = x BY <1>1, <3>1, <3>2 DEF Dropped, PartnersOK
    <3>3. CASE ~(a = y /\ b = x) BY <1>1, <3>1, <3>3 DEF Dropped, PartnersOK
    <3> QED BY <3>2, <3>3
  <2>5. \A p, q \in t.pact[x] : p.peer = q.peer => p = q BY DEF Dropped
  <2>6. \A z \in Agents \ {x} : t.pact[z] = s.pact[z] BY DEF Dropped
  <2>7. t.present \subseteq s.present /\ \A n \in N : JobOK(t, x, n) BY DEF Dropped
  <2> QED BY <1>1, <1>2, <2>0, <2>1, <2>2, <2>3, <2>4, <2>5, <2>6, <2>7, StillOK
<1>4. Elsewhere(s, t, x, y)
  <2>1. t.present = s.present /\ s.odd \subseteq t.odd BY DEF Dropped
  <2>2. \A z \in Agents \ {x} : t.pact[z] = s.pact[z] BY DEF Dropped
  <2>3. \A z \in Agents \ {y} : {x, z} \notin t.odd => Found(t, x, z) = Found(s, x, z)
    BY DEF Dropped, Found
  <2>4. \A a, b \in Agents : ~Ours(a, b, x, y) => t.bye[a][b] = s.bye[a][b]
    BY DEF Dropped, Ours
  <2>5. ASSUME NEW i \in Proposals
        PROVE  \/ t.prop[i] = s.prop[i]
               \/ /\ Ours(t.prop[i].from, t.prop[i].to, x, y)
                  /\ \/ s.prop[i].phase = "none"
                     \/ s.prop[i].from = t.prop[i].from /\ s.prop[i].to = t.prop[i].to
    BY <1>1 DEF Dropped, Ours, JobOK
  <2> QED BY <2>1, <2>2, <2>3, <2>4, <2>5 DEF Elsewhere
<1> QED BY <1>1, <1>2, <1>3, <1>4 DEF PairStep
(* A job ends with an answer, to a proposal or to a goodbye.               *)
LEMMA JobEnds ==
  ASSUME NEW s, NEW c, NEW x \in Agents, NEW j, Dropped(s, c, x, j),
         NEW t \in PartnersState, NEW answer \in {"ok", "fail"},
         NEW phase \in {"answered", "failure"},
         t.present = c.present, t.pact = c.pact, t.hooks = c.hooks, t.todo = c.todo,
         c.odd \subseteq t.odd,
         j.for \notin {"propose", "receive"} => t.prop = c.prop,
         j.for = "propose" => t.prop = [c.prop EXCEPT ![j.with] = [@ EXCEPT !.phase = "done"]],
         j.for = "receive" => t.prop = [c.prop EXCEPT ![j.with] = [@ EXCEPT !.answer = answer]],
         j.for = "goodbye" /\ Awaited(c, x, j) =>
           t.bye = [c.bye EXCEPT ![j.partner.peer][x] = [@ EXCEPT !.phase = phase]],
         ~(j.for = "goodbye" /\ Awaited(c, x, j)) => t.bye = c.bye,
         j.for = "propose" => Knows(c, x, j.partner.peer) \/ {x, j.partner.peer} \in t.odd,
         j.for = "receive" /\ answer = "ok" => Knows(c, x, j.partner.peer),
         j.for = "receive" /\ answer = "fail" =>
           Found(c, x, j.partner.peer) = Found(s, x, j.partner.peer),
         j.for = "restarted" => Knows(c, x, j.partner.peer),
         j.step = "remove" => c.pact[x] = s.pact[x] \ {j.partner},
         j.step = "release" => c.pact = s.pact
  PROVE  SidesKept(s, t)
<1> DEFINE y == j.partner.peer
           i == j.with
<1>1. /\ j \in JobType /\ y \in Agents /\ JobOK(s, x, j) /\ PartnersOK(s)
      /\ j.for \in {"propose", "receive"} => i \in Proposals
      /\ s \in PartnersState /\ c \in PartnersState
  BY DroppedFacts
<1>2. /\ j.for \notin {"propose", "receive"} => t.prop = c.prop
      /\ j.for = "propose" => t.prop = [c.prop EXCEPT ![i] = [@ EXCEPT !.phase = "done"]]
      /\ j.for = "receive" => t.prop = [c.prop EXCEPT ![i] = [@ EXCEPT !.answer = answer]]
      /\ j.for = "goodbye" /\ Awaited(c, x, j) =>
           t.bye = [c.bye EXCEPT ![y][x] = [@ EXCEPT !.phase = phase]]
      /\ ~(j.for = "goodbye" /\ Awaited(c, x, j)) => t.bye = c.bye
  OBVIOUS
<1>3. c.prop = s.prop /\ c.bye = s.bye BY DEF Dropped
<1>4. Moves(c, t, x, JobsOf(c, x), {}, {}) BY <1>1, NoMove
<1>5. /\ \A a, b \in Agents : ~(a = y /\ b = x) => t.bye[a][b] = c.bye[a][b]
      /\ t.bye[y][x].partner = c.bye[y][x].partner
      /\ j.for = "goodbye" /\ Awaited(c, x, j) => t.bye[y][x].phase = phase
      /\ t.bye[y][x].phase # "none" => c.bye[y][x].phase # "none" \/ y \notin s.present
  <2>1. c.bye \in [Agents -> [Agents -> ByeType]] /\ c.bye[y][x] \in ByeType
    BY <1>1 DEF PartnersState
  <2>2. CASE j.for = "goodbye" /\ Awaited(c, x, j)
    <3>0. t.bye = [c.bye EXCEPT ![y][x] = [@ EXCEPT !.phase = phase]] BY <1>2, <2>2
    <3>1. t.bye[y][x] = [c.bye[y][x] EXCEPT !.phase = phase]
          /\ \A a, b \in Agents : ~(a = y /\ b = x) => t.bye[a][b] = c.bye[a][b]
      BY ONLY <1>1, <2>1, <3>0
    <3>2. c.bye[y][x].phase = "handled" BY <2>2 DEF Awaited
    <3> QED BY <2>1, <3>1, <3>2 DEF ByeType
  <2>3. CASE ~(j.for = "goodbye" /\ Awaited(c, x, j)) BY <1>2, <2>3
  <2> QED BY <2>2, <2>3
<1>6. ASSUME NEW k \in Proposals
      PROVE  \/ t.prop[k] = c.prop[k]
             \/ /\ j.for \in {"propose", "receive"} /\ k = j.with
                /\ t.prop[k].from = c.prop[k].from /\ t.prop[k].to = c.prop[k].to
                /\ t.prop[k].taken = c.prop[k].taken
                /\ t.prop[k].answer # "none" => t.prop[k].taken
                /\ t.prop[k].phase # "none"
  <2>1. c.prop[k] \in ProposalType /\ c.prop \in [Proposals -> ProposalType]
    BY <1>1 DEF PartnersState
  <2>2. CASE j.for = "propose" /\ k = i
    <3>1. t.prop[k] = [c.prop[k] EXCEPT !.phase = "done"] BY <1>2, <2>1, <2>2
    <3>2. c.prop[k].answer # "none" => c.prop[k].taken BY <1>1, <1>3 DEF PartnersOK
    <3> QED BY <2>1, <2>2, <3>1, <3>2 DEF ProposalType
  <2>3. CASE j.for = "receive" /\ k = i
    <3>1. t.prop[k] = [c.prop[k] EXCEPT !.answer = answer] BY <1>2, <2>1, <2>3
    <3>2. c.prop[k].taken /\ c.prop[k].phase # "none" BY <1>1, <1>3, <2>3 DEF JobOK
    <3> QED BY <2>1, <2>3, <3>1, <3>2 DEF ProposalType
  <2>4. CASE ~(j.for \in {"propose", "receive"} /\ k = i) BY <1>1, <1>2, <2>1, <2>4
  <2> QED BY <2>2, <2>3, <2>4
<1>7. PartnersOK(t) /\ PairStep(s, t, x, y, JobsOf(c, x), {j}, {})
  <2>1. \A k \in Elems(t.todo[x]) : k \in Elems(c.todo[x]) \/ k.step \in Updates OBVIOUS
  <2> QED BY <2>1, <1>1, <1>2, <1>4, <1>5, <1>6, AfterDrop
<1>8. ASSUME PairsOK(s), Regular(t, x, y)
      PROVE  TaskFits(s, x, y, j) /\ (j.step = "remove" => ~Knows(t, x, y))
  <2>1. PairFits(s, x, y) /\ j \in Tasks(s, x, y)
    BY <1>1, <1>7, <1>8, StepPair, StepTasks
  <2>2. TaskFits(s, x, y, j) BY <2>1 DEF PairFits
  <2> QED BY <2>2 DEF TaskFits, Knows, Found
<1>9. ASSUME PairsOK(s) PROVE PairsOK(t)
  <2>1. CASE j.for = "propose" /\ {x, y} \notin t.odd
    <3>1. Knows(t, x, y) BY <2>1 DEF Knows, Found
    <3>2. t.bye = s.bye /\ t.prop = [s.prop EXCEPT ![i] = [@ EXCEPT !.phase = "done"]]
          /\ s.prop[i].from = x /\ s.prop[i].to = y /\ i \in Proposals
      BY <1>1, <1>2, <1>3, <2>1 DEF JobOK
    <3>3. \E d \in {j} : {j} = {d} /\ d.for = "propose" /\ d.with = i BY <2>1
    <3> QED BY <1>1, <1>7, <1>9, <3>1, <3>2, <3>3, ProposalStored
  <2>2. CASE j.for = "receive"
    <3>1. answer = "ok" => Knows(t, x, y) BY <2>2 DEF Knows, Found
    <3>5. answer = "fail" => Found(t, x, y) = Found(s, x, y) BY <2>2 DEF Found
    <3>6. Knows(s, x, y) => Knows(t, x, y) BY <3>1, <3>5 DEF Knows
    <3>2. /\ t.bye = s.bye /\ s.prop[i].from = y /\ s.prop[i].to = x
          /\ s.prop[i].taken /\ i \in Proposals
      BY <1>1, <1>2, <1>3, <2>2 DEF JobOK
    <3>3. t.prop = [s.prop EXCEPT ![i] = [@ EXCEPT !.taken = TRUE, !.answer = answer]]
      <4>1. s.prop[i] \in ProposalType BY <1>1, <3>2 DEF PartnersState
      <4>2. [s.prop[i] EXCEPT !.answer = answer] = [s.prop[i] EXCEPT !.taken = TRUE, !.answer = answer]
        BY <3>2, <4>1 DEF ProposalType
      <4> QED BY <1>2, <1>3, <2>2, <4>2
    <3>4. \E d \in {j} : {j} = {d} /\ d.for = "receive" /\ d.with = i BY <2>2
    <3>7. PairStep(s, t, x, y, JobsOf(c, x), {j}, {}) /\ PairsOK(s) /\ answer \in {"ok", "fail"}
      BY <1>7, <1>9
    <3>8. CASE answer = "ok"
      <4> QED
        BY ONLY <1>1, <3>1, <3>2, <3>3, <3>4, <3>6, <3>7, <3>8, ProposalAnswered
    <3>9. CASE answer = "fail"
      <4> QED
        BY ONLY <1>1, <3>2, <3>3, <3>4, <3>5, <3>6, <3>7, <3>9, ProposalAnswered
    <3> QED BY <3>8, <3>9
  <2>3. CASE j.for = "restarted"
    <3>1. Knows(t, x, y) BY <1>2, <2>3 DEF Knows, Found
    <3> QED BY <1>1, <1>2, <1>3, <1>7, <1>9, <2>3, <3>1, AddressStored
  <2>4. CASE j.for = "goodbye"
    <3>1. t.prop = s.prop BY <1>2, <1>3, <2>4
    <3>2. ASSUME Regular(t, x, y)
          PROVE  /\ Awaited(c, x, j) /\ ~Knows(t, x, y)
                 /\ t.bye[y][x].partner = s.bye[y][x].partner
      <4>1. TaskFits(s, x, y, j) BY <1>9, <1>8, <3>2
      <4>2. Awaited(c, x, j) BY <1>3, <2>4, <4>1 DEF TaskFits, Awaited
      <4>3. j.step = "release" => ~Knows(t, x, y)
        BY <2>4, <4>1 DEF TaskFits, Knows, Found
      <4>4. j.step = "remove" => ~Knows(t, x, y) BY <1>9, <1>8, <3>2
      <4> QED BY <1>1, <1>3, <1>5, <2>4, <4>2, <4>3, <4>4 DEF JobOK
    <3>3. Regular(t, x, y) => t.bye[y][x].phase \in {"answered", "failure"}
      BY <1>5, <2>4, <3>2
    <3>4. Regular(t, x, y) => ~Knows(t, x, y) BY <3>2
    <3>5. t.bye[y][x].partner = s.bye[y][x].partner BY <1>3, <1>5
    <3>6. \A a, b \in Agents : ~(a = y /\ b = x) => t.bye[a][b] = s.bye[a][b] BY <1>3, <1>5
    <3>7. \A n \in {} : n.for = j.for /\ n.with = j.with /\ n.step = "release" OBVIOUS
    <3>8. PairStep(s, t, x, y, JobsOf(c, x), {j}, {}) /\ PairsOK(s) BY <1>7, <1>9
    <3>9. j.for = "goodbye" \/ (j.for = "breakup" /\ j.step = "remove") BY <2>4
    <3>10. j.for = "breakup" \/ {} # {} => t.bye = s.bye
      <4>1. j.for # "breakup" BY <2>4
      <4> QED BY <4>1
    <3> QED BY ONLY <1>1, <2>4, <3>1, <3>3, <3>4, <3>5, <3>6, <3>7, <3>8, <3>9, <3>10, PartnerGone
  <2>5. CASE j.for = "breakup" /\ j.step = "remove"
    <3>1. Regular(t, x, y) => ~Knows(t, x, y) BY <1>9, <1>8, <2>5
    <3>2. t.prop = s.prop /\ t.bye = s.bye BY <1>2, <1>3, <2>5
    <3> QED BY <1>1, <1>7, <1>9, <2>5, <3>1, <3>2, PartnerGone
  <2>6. CASE j.for \in {"breakup", "release"} /\ j.step = "release"
    BY <1>1, <1>2, <1>3, <1>7, <1>9, <2>6, JobForgotten
  <2>7. CASE {x, y} \in t.odd
    <3>1. ~Regular(t, x, y) BY <2>7 DEF Regular
    <3> QED BY <1>1, <1>7, <1>9, <3>1, PairSpoilt
  <2> QED BY <1>1, <2>7, <2>1, <2>2, <2>3, <2>4, <2>5, <2>6 DEF JobType, JobOK
<1> QED BY <1>7, <1>9 DEF SidesKept

LEMMA DoneKept ==
  ASSUME NEW s, NEW c, NEW x \in Agents, NEW j, Dropped(s, c, x, j),
         j.for \in {"propose", "receive", "restarted"} => Knows(c, x, j.partner.peer),
         j.step = "remove" => c.pact[x] = s.pact[x] \ {j.partner},
         j.step = "release" => c.pact = s.pact
  PROVE  SidesKept(s, Done(c, x, j))
<1> DEFINE t == Done(c, x, j)
<1>1. /\ j \in JobType /\ c \in PartnersState
      /\ j.for \in {"propose", "receive"} => j.with \in Proposals
  BY DroppedFacts
<1>2. /\ t \in PartnersState
      /\ t.present = c.present /\ t.pact = c.pact /\ t.slots = c.slots
      /\ t.hooks = c.hooks /\ t.todo = c.todo /\ t.odd = c.odd
      /\ j.for \notin {"propose", "receive"} => t.prop = c.prop
      /\ j.for = "propose" => t.prop = [c.prop EXCEPT ![j.with] = [@ EXCEPT !.phase = "done"]]
      /\ j.for = "receive" => t.prop = [c.prop EXCEPT ![j.with] = [@ EXCEPT !.answer = "ok"]]
      /\ j.for = "goodbye" /\ Awaited(c, x, j) =>
           t.bye = [c.bye EXCEPT ![j.partner.peer][x] = [@ EXCEPT !.phase = "answered"]]
      /\ ~(j.for = "goodbye" /\ Awaited(c, x, j)) => t.bye = c.bye
  BY <1>1, DoneFields
<1> HIDE DEF t
<1>3. "ok" \in {"ok", "fail"} /\ "answered" \in {"answered", "failure"} /\ "ok" # "fail"
  OBVIOUS
<1>4. /\ c.odd \subseteq t.odd
      /\ j.for = "propose" => Knows(c, x, j.partner.peer) \/ {x, j.partner.peer} \in t.odd
      /\ j.for = "receive" /\ "ok" = "ok" => Knows(c, x, j.partner.peer)
      /\ j.for = "receive" /\ "ok" = "fail" =>
           Found(c, x, j.partner.peer) = Found(s, x, j.partner.peer)
      /\ j.for = "restarted" => Knows(c, x, j.partner.peer)
  BY <1>2
<1>5. SidesKept(s, t) BY <1>2, <1>3, <1>4, JobEnds
<1> QED BY <1>5 DEF t

LEMMA FailedKept ==
  ASSUME NEW s, NEW c, NEW x \in Agents, NEW j, Dropped(s, c, x, j),
         \/ j.for \in {"propose", "receive"} /\ c.pact = s.pact
         \/ /\ j.for \in {"goodbye", "breakup"} /\ j.step = "remove"
            /\ c.pact[x] = s.pact[x] \ {j.partner}
  PROVE  SidesKept(s, Failed(c, x, j))
<1> DEFINE t == Failed(c, x, j)
<1>1. /\ j \in JobType /\ c \in PartnersState
      /\ j.for \in {"propose", "receive"} => j.with \in Proposals
  BY DroppedFacts
<1>2. /\ t \in PartnersState
      /\ t.present = c.present /\ t.pact = c.pact /\ t.slots = c.slots
      /\ t.hooks = c.hooks /\ t.todo = c.todo
      /\ j.for \notin {"propose", "receive"} => t.prop = c.prop
      /\ j.for = "propose" => t.prop = [c.prop EXCEPT ![j.with] = [@ EXCEPT !.phase = "done"]]
      /\ j.for = "propose" => t.odd = c.odd \cup {{x, j.partner.peer}}
      /\ j.for # "propose" => t.odd = c.odd
      /\ j.for = "receive" => t.prop = [c.prop EXCEPT ![j.with] = [@ EXCEPT !.answer = "fail"]]
      /\ j.for = "goodbye" /\ Awaited(c, x, j) =>
           t.bye = [c.bye EXCEPT ![j.partner.peer][x] = [@ EXCEPT !.phase = "failure"]]
      /\ ~(j.for = "goodbye" /\ Awaited(c, x, j)) => t.bye = c.bye
  BY <1>1, FailedFields
<1> HIDE DEF t
<1>3. Found(c, x, j.partner.peer) = Found(s, x, j.partner.peer) \/ j.for \notin {"propose", "receive"}
  BY DEF Found
<1>4. /\ j.step = "release" => c.pact = s.pact
      /\ j.for # "restarted"
  OBVIOUS
<1>5. /\ c.odd \subseteq t.odd
      /\ j.for = "propose" => Knows(c, x, j.partner.peer) \/ {x, j.partner.peer} \in t.odd
      /\ j.for = "receive" /\ "fail" = "fail" =>
           Found(c, x, j.partner.peer) = Found(s, x, j.partner.peer)
      /\ "fail" \in {"ok", "fail"} /\ "failure" \in {"answered", "failure"} /\ "fail" # "ok"
  BY <1>2, <1>3
<1>6. j.step = "remove" => c.pact[x] = s.pact[x] \ {j.partner}
  <2>1. JobOK(s, x, j) BY DroppedFacts
  <2> QED BY <2>1 DEF JobOK
<1>7. SidesKept(s, t) BY <1>2, <1>4, <1>5, <1>6, JobEnds
<1> QED BY <1>7 DEF t

(* The next step of a job.                                                 *)
LEMMA GoesOnKept ==
  ASSUME NEW s, NEW c, NEW x \in Agents, NEW j, Dropped(s, c, x, j),
         NEW u \in PartnersState, u.present = c.present, u.pact = c.pact, u.hooks = c.hooks,
         u.todo = c.todo, u.prop = c.prop, u.bye = c.bye, u.odd = c.odd,
         NEW n \in JobType, n.for = j.for, n.with = j.with, n.partner.peer = j.partner.peer,
         \/ /\ j.for \in {"propose", "receive"} /\ c.pact = s.pact
            /\ n.step \in {"allocate", "update"}
         \/ j.for = "restarted" /\ c.pact = s.pact /\ n.step = "update"
         \/ /\ j.step = "remove" /\ c.pact[x] = s.pact[x] \ {j.partner}
            /\ n.step = "release"
  PROVE  SidesKept(s, Queue(u, x, n))
<1> DEFINE t == Queue(u, x, n)
           y == j.partner.peer
<1>1. /\ j \in JobType /\ y \in Agents /\ JobOK(s, x, j) /\ PartnersOK(s)
      /\ s \in PartnersState /\ c \in PartnersState
  BY DroppedFacts
<1>2. /\ t \in PartnersState
      /\ t.todo = [c.todo EXCEPT ![x] = Append(@, n)]
      /\ t.present = c.present /\ t.pact = c.pact /\ t.hooks = c.hooks
      /\ t.prop = c.prop /\ t.bye = c.bye /\ t.odd = c.odd
  BY QueueFields
<1> HIDE DEF t
<1>3. /\ t.prop = s.prop /\ t.bye = s.bye /\ c.prop = s.prop /\ c.bye = s.bye
      /\ s.odd \subseteq t.odd
  BY <1>2 DEF Dropped
<1>4. Moves(c, t, x, JobsOf(c, x), {}, {n}) BY <1>1, <1>2, UpdateQueued
<1>5. JobOK(t, x, n) BY <1>1, <1>3 DEF JobOK
<1>6. PartnersOK(t) /\ PairStep(s, t, x, y, JobsOf(c, x), {j}, {n})
  <2>1. \A m \in {n} : JobOK(t, x, m) /\ m.partner.peer = y BY <1>5
  <2>2. /\ \A a, b \in Agents : ~(a = y /\ b = x) => t.bye[a][b] = c.bye[a][b]
        /\ t.bye[y][x].phase # "none" =>
             /\ c.bye[y][x].phase # "none" \/ y \notin s.present
             /\ t.bye[y][x].partner = c.bye[y][x].partner
        /\ \A i \in Proposals : t.prop[i] = c.prop[i]
        /\ c.odd \subseteq t.odd
    BY <1>2
  <2>3. \A k \in Elems(t.todo[x]) : k \in Elems(c.todo[x]) \/ k.step \in Updates
    <3>1. c.todo[x] \in Seq(JobType) /\ t.todo[x] = Append(c.todo[x], n)
      BY <1>1, <1>2 DEF PartnersState
    <3>2. Elems(t.todo[x]) = Elems(c.todo[x]) \cup {n} BY <3>1, ElemsAppend
    <3> QED BY <3>2 DEF Updates
  <2> QED BY <1>2, <1>4, <2>1, <2>2, <2>3, AfterDrop
<1>7. ASSUME PairsOK(s) PROVE PairsOK(t)
  <2>1. CASE j.for \in {"propose", "receive", "restarted"} /\ c.pact = s.pact
    BY <1>1, <1>2, <1>3, <1>6, <1>7, <2>1, JobGoesOn
  <2>2. CASE /\ j.step = "remove" /\ c.pact[x] = s.pact[x] \ {j.partner}
             /\ n.step = "release"
    <3>1. j.for \in {"goodbye", "breakup"} BY <1>1, <2>2 DEF JobOK, JobType
    <3>2. ASSUME Regular(t, x, y) PROVE ~Knows(t, x, y)
      <4>1. PairFits(s, x, y) /\ j \in Tasks(s, x, y)
        BY <1>1, <1>6, <1>7, <3>2, StepPair, StepTasks
      <4>2. TaskFits(s, x, y, j) BY <4>1 DEF PairFits
      <4> QED BY <1>2, <2>2, <4>2 DEF TaskFits, Knows, Found
    <3>3. Regular(t, x, y) => ~Knows(t, x, y) BY <3>2
    <3>4. /\ \A m \in {n} : m.for = j.for /\ m.with = j.with /\ m.step = "release"
          /\ {n} # {}
          /\ j.for = "goodbye" \/ (j.for = "breakup" /\ j.step = "remove")
      BY <2>2, <3>1
    <3>5. PairStep(s, t, x, y, JobsOf(c, x), {j}, {n}) /\ PairsOK(s) BY <1>6, <1>7
    <3>6. \A a, b \in Agents : ~(a = y /\ b = x) => t.bye[a][b] = s.bye[a][b] BY <1>3
    <3> QED BY ONLY <1>1, <1>3, <3>3, <3>4, <3>5, <3>6, PartnerGone
  <2> QED BY <2>1, <2>2
<1>8. SidesKept(s, t) BY <1>6, <1>7 DEF SidesKept
<1> QED BY <1>8 DEF t

-----------------------------------------------------------------------------
(* The end of a job, and its next step                                     *)

LEMMA AccountSame ==
  ASSUME NEW s, NEW t, NEW x, NEW J, Account(s, x, J), t.slots[x] = s.slots[x],
         t.pact[x] = s.pact[x], t.bye = s.bye, t.prop = s.prop
  PROVE  Account(t, x, J)
<1>1. Farewells(t, x) = Farewells(s, x) BY DEF Farewells
<1>2. Pledged(t, x) = Pledged(s, x) BY DEF Pledged, Pledges
<1> QED BY <1>1, <1>2 DEF Account

LEMMA DropKeeps ==
  ASSUME NEW s, NEW c, NEW x \in Agents, NEW j, Dropped(s, c, x, j)
  PROVE  /\ Pledged(c, x) = Pledged(s, x) /\ Farewells(c, x) = Farewells(s, x)
         /\ JobsOf(s, x) = JobsOf(c, x) \cup {j} /\ JobsOf(c, x) \in SUBSET JobType
         /\ SlotsOK(s) =>
              /\ Account(s, x, JobsOf(c, x) \cup {j}) /\ JobSound(j)
              /\ \A l \in JobsOf(c, x) : JobSound(l)
              /\ Distinct(s.hooks[x], s.todo[x], SlotKey)
              /\ \A l \in JobsOf(c, x) : SlotKey[j] \cap SlotKey[l] = {}
<1>1. c.prop = s.prop /\ c.bye = s.bye /\ Moves(s, c, x, JobsOf(c, x), {j}, {}) /\ PartnersOK(s)
  BY DEF Dropped
<1>2. Pledged(c, x) = Pledged(s, x) /\ Farewells(c, x) = Farewells(s, x)
  BY <1>1 DEF Pledged, Pledges, Farewells
<1>3. JobsOf(s, x) = JobsOf(c, x) \cup {j} BY <1>1 DEF Moves
<1>4. JobsOf(c, x) \in SUBSET JobType BY <1>1, <1>3, JobTyped
<1>5. ASSUME SlotsOK(s)
      PROVE  /\ Account(s, x, JobsOf(c, x) \cup {j}) /\ JobSound(j)
             /\ \A l \in JobsOf(c, x) : JobSound(l)
             /\ Distinct(s.hooks[x], s.todo[x], SlotKey)
             /\ \A l \in JobsOf(c, x) : SlotKey[j] \cap SlotKey[l] = {}
  <2>1. /\ Account(s, x, JobsOf(s, x)) /\ Distinct(s.hooks[x], s.todo[x], SlotKey)
        /\ \A l \in JobsOf(s, x) : JobSound(l)
    BY <1>5 DEF SlotsOK
  <2>2. \A l \in JobsOf(c, x) : SlotKey[j] \cap SlotKey[l] = {} BY <1>1, <2>1 DEF Moves
  <2>3. Account(s, x, JobsOf(c, x) \cup {j}) BY <1>3, <2>1
  <2> QED BY <1>3, <2>1, <2>2, <2>3
<1> QED BY <1>2, <1>3, <1>4, <1>5

LEMMA StillSettled ==
  ASSUME NEW s, NEW c, NEW x \in Agents, NEW j, Dropped(s, c, x, j),
         c.slots = s.slots, c.pact[x] \subseteq s.pact[x]
  PROVE  Settled(s, c, x)
<1> DEFINE R == JobsOf(c, x)
<1>1. SUFFICES ASSUME SlotsOK(s) PROVE Account(c, x, R) BY DEF Settled
<1>2. /\ Pledged(c, x) = Pledged(s, x) /\ Farewells(c, x) = Farewells(s, x)
      /\ Account(s, x, R \cup {j})
  BY <1>1, DropKeeps
<1> HIDE DEF R
<1>3. Adds(R) BY SlotsAdd
<1>4. /\ Coming(R) \subseteq Coming(R \cup {j}) /\ Ready(R) \subseteq Ready(R \cup {j})
      /\ Moving(R) \subseteq Moving(R \cup {j}) /\ Going(R) \subseteq Going(R \cup {j})
      /\ Parting(R) \subseteq Parting(R \cup {j})
  BY <1>3 DEF Adds
<1>5. Farewells(c, x) \cup Parting(R)
        \subseteq s.pact[x] \cup Parting(R \cup {j}) \cup Farewells(s, x) \cup {NoPartner}
  BY <1>2, <1>4
<1> QED BY <1>2, <1>4, <1>5, AccountLess

LEMMA SlotsAfter ==
  ASSUME NEW s, NEW c, NEW x \in Agents, NEW j, Dropped(s, c, x, j), Settled(s, c, x),
         NEW t \in PartnersState, t.slots = c.slots, t.pact = c.pact, t.hooks = c.hooks,
         t.todo = c.todo, PropLess(c, t),
         \A a, b \in Agents :
           /\ t.bye[a][b].partner = c.bye[a][b].partner
           /\ t.bye[a][b].phase # "none" => c.bye[a][b].phase # "none"
  PROVE  SlotsKept(s, t)
<1> DEFINE R == JobsOf(c, x)
<1>1. SUFFICES ASSUME Careful, SlotsOK(s) PROVE SlotsOK(t) BY DEF SlotsKept
<1>2. c \in PartnersState /\ Moves(s, c, x, R, {j}, {}) BY DEF Dropped
<1>3. Moves(s, t, x, R, {j}, {})
  <2>1. Moves(c, t, x, R, {}, {}) BY <1>2, NoMove
  <2> QED BY <1>2, <2>1, MovesThen
<1>4. Aside(s, t, x)
  <2>1. PropLess(s, t) BY DEF Dropped, PropLess
  <2> QED BY <2>1 DEF Dropped, Settled, Aside
<1>5. Account(t, x, R \cup {})
  <2>1. Account(c, x, R) BY <1>1 DEF Settled
  <2>2. Pledged(t, x) \subseteq Pledged(c, x) BY PledgesLess
  <2>3. Farewells(t, x) = Farewells(c, x) BY DEF Farewells
  <2>4. Farewells(t, x) \cup Parting(R)
          \subseteq c.pact[x] \cup Parting(R) \cup Farewells(c, x) \cup {NoPartner}
    BY <2>3
  <2>5. t.slots[x] = c.slots[x] /\ t.pact[x] = c.pact[x] OBVIOUS
  <2>6. Account(t, x, R) BY <2>1, <2>2, <2>4, <2>5, AccountLess
  <2>7. R \cup {} = R OBVIOUS
  <2> QED BY <2>6, <2>7
<1>6. \A l \in t.hooks[x] : l \in s.hooks[x] \/ l.step # "allocate" BY DEF Dropped
<1> HIDE DEF R
<1>7. (\A n \in {} : JobSound(n)) /\ \A n \in {} : \A l \in R : SlotKey[n] \cap SlotKey[l] = {}
  OBVIOUS
<1> QED BY <1>1, <1>3, <1>4, <1>5, <1>6, <1>7, SlotsStep

(* The fields that an answer changes.                                      *)
LEMMA OneAnswered ==
  ASSUME NEW c \in PartnersState, NEW t \in PartnersState, NEW i, NEW answer,
         i \in Proposals \/ t.prop = c.prop,
         \/ t.prop = c.prop
         \/ /\ t.prop = [c.prop EXCEPT ![i] = [@ EXCEPT !.phase = "done"]]
            /\ c.prop[i].phase # "none"
         \/ t.prop = [c.prop EXCEPT ![i] = [@ EXCEPT !.answer = answer]]
  PROVE  PropLess(c, t)
<1>1. c.prop \in [Proposals -> ProposalType] BY DEF PartnersState
<1> SUFFICES ASSUME NEW k \in Proposals
             PROVE  /\ t.prop[k].from = c.prop[k].from /\ t.prop[k].to = c.prop[k].to
                    /\ t.prop[k].own = c.prop[k].own /\ t.prop[k].theirs = c.prop[k].theirs
                    /\ c.prop[k].taken => t.prop[k].taken
                    /\ t.prop[k].phase = "asked" => c.prop[k].phase = "asked"
                    /\ t.prop[k].phase # "none" => c.prop[k].phase # "none"
  BY DEF PropLess
<1>2. c.prop[k] \in ProposalType BY <1>1
<1>3. CASE t.prop = c.prop BY <1>3
<1>4. CASE t.prop = [c.prop EXCEPT ![i] = [@ EXCEPT !.phase = "done"]] /\ c.prop[i].phase # "none"
  <2>1. CASE k = i
    <3>1. t.prop[k] = [c.prop[k] EXCEPT !.phase = "done"] BY <1>1, <1>4, <2>1
    <3> QED BY <1>2, <1>4, <2>1, <3>1 DEF ProposalType
  <2>2. CASE k # i BY <1>1, <1>4, <2>2
  <2> QED BY <2>1, <2>2
<1>5. CASE t.prop = [c.prop EXCEPT ![i] = [@ EXCEPT !.answer = answer]]
  <2>1. CASE k = i
    <3>1. t.prop[k] = [c.prop[k] EXCEPT !.answer = answer] BY <1>1, <1>5, <2>1
    <3> QED BY <1>2, <3>1 DEF ProposalType
  <2>2. CASE k # i BY <1>1, <1>5, <2>2
  <2> QED BY <2>1, <2>2
<1> QED BY <1>3, <1>4, <1>5

LEMMA OneReplied ==
  ASSUME NEW c \in PartnersState, NEW t \in PartnersState, NEW y \in Agents, NEW x \in Agents,
         NEW phase,
         \/ t.bye = c.bye
         \/ /\ t.bye = [c.bye EXCEPT ![y][x] = [@ EXCEPT !.phase = phase]]
            /\ c.bye[y][x].phase # "none"
  PROVE  \A a, b \in Agents :
           /\ t.bye[a][b].partner = c.bye[a][b].partner
           /\ t.bye[a][b].phase # "none" => c.bye[a][b].phase # "none"
<1>1. c.bye \in [Agents -> [Agents -> ByeType]] BY DEF PartnersState
<1> SUFFICES ASSUME NEW a \in Agents, NEW b \in Agents
             PROVE  /\ t.bye[a][b].partner = c.bye[a][b].partner
                    /\ t.bye[a][b].phase # "none" => c.bye[a][b].phase # "none"
  OBVIOUS
<1>2. c.bye[a][b] \in ByeType BY <1>1
<1>3. CASE t.bye = c.bye BY <1>3
<1>4. CASE /\ t.bye = [c.bye EXCEPT ![y][x] = [@ EXCEPT !.phase = phase]]
           /\ c.bye[y][x].phase # "none"
  <2>1. CASE a = y /\ b = x
    <3>1. t.bye[a][b] = [c.bye[a][b] EXCEPT !.phase = phase] BY <1>1, <1>4, <2>1
    <3> QED BY <1>2, <1>4, <2>1, <3>1 DEF ByeType
  <2>2. CASE ~(a = y /\ b = x)
    <3>1. t.bye[a][b] = c.bye[a][b] BY <1>1, <1>4, <2>2
    <3> QED BY <3>1
  <2> QED BY <2>1, <2>2
<1> QED BY <1>3, <1>4

LEMMA DoneSlots ==
  ASSUME NEW s, NEW c, NEW x \in Agents, NEW j, Dropped(s, c, x, j), Settled(s, c, x)
  PROVE  SlotsKept(s, Done(c, x, j))
<1> DEFINE t == Done(c, x, j)
<1>1. /\ j \in JobType /\ c \in PartnersState 
      /\ j.for \in {"propose", "receive"} => j.with \in Proposals
  BY DroppedFacts
<1>2. /\ t \in PartnersState
      /\ t.pact = c.pact /\ t.slots = c.slots /\ t.hooks = c.hooks /\ t.todo = c.todo
      /\ j.for \notin {"propose", "receive"} => t.prop = c.prop
      /\ j.for = "propose" => t.prop = [c.prop EXCEPT ![j.with] = [@ EXCEPT !.phase = "done"]]
      /\ j.for = "receive" => t.prop = [c.prop EXCEPT ![j.with] = [@ EXCEPT !.answer = "ok"]]
      /\ j.for = "goodbye" /\ Awaited(c, x, j) =>
           t.bye = [c.bye EXCEPT ![j.partner.peer][x] = [@ EXCEPT !.phase = "answered"]]
      /\ ~(j.for = "goodbye" /\ Awaited(c, x, j)) => t.bye = c.bye
  BY <1>1, DoneFields
<1> HIDE DEF t
<1>3. PropLess(c, t)
  <2>1. CASE j.for = "propose"
    <3>1. j.with \in Proposals /\ c.prop[j.with].phase # "none"
      BY <1>1, <2>1, DroppedFacts DEF Dropped, JobOK
    <3>2. t.prop = [c.prop EXCEPT ![j.with] = [@ EXCEPT !.phase = "done"]] BY <1>2, <2>1
    <3>3. c \in PartnersState /\ t \in PartnersState BY <1>1, <1>2
    <3> QED BY ONLY <3>1, <3>2, <3>3, OneAnswered
  <2>2. CASE j.for = "receive"
    <3>1. t.prop = [c.prop EXCEPT ![j.with] = [@ EXCEPT !.answer = "ok"]] BY <1>2, <2>2
    <3>2. c \in PartnersState /\ t \in PartnersState /\ j.with \in Proposals BY <1>1, <1>2, <2>2
    <3> QED BY ONLY <3>1, <3>2, OneAnswered
  <2>3. CASE j.for \notin {"propose", "receive"}
    <3>1. t.prop = c.prop /\ c \in PartnersState /\ t \in PartnersState BY <1>1, <1>2, <2>3
    <3> QED BY <3>1 DEF PropLess
  <2> QED BY <2>1, <2>2, <2>3
<1>4. \A a, b \in Agents :
        /\ t.bye[a][b].partner = c.bye[a][b].partner
        /\ t.bye[a][b].phase # "none" => c.bye[a][b].phase # "none"
  <2>1. c \in PartnersState /\ t \in PartnersState /\ j.partner.peer \in Agents
    BY <1>1, <1>2, DroppedFacts
  <2>2. CASE j.for = "goodbye" /\ Awaited(c, x, j)
    <3>1. c.bye[j.partner.peer][x].phase # "none" BY <2>2 DEF Awaited
    <3>2. t.bye = [c.bye EXCEPT ![j.partner.peer][x] = [@ EXCEPT !.phase = "answered"]] BY <1>2, <2>2
    <3> QED BY ONLY <2>1, <3>1, <3>2, OneReplied
  <2>3. CASE ~(j.for = "goodbye" /\ Awaited(c, x, j))
    <3>1. t.bye = c.bye BY <1>2, <2>3
    <3> QED BY <3>1
  <2> QED BY <2>2, <2>3
<1>5. SlotsKept(s, t) BY <1>2, <1>3, <1>4, SlotsAfter
<1> QED BY <1>5 DEF t

LEMMA FailedSlots ==
  ASSUME NEW s, NEW c, NEW x \in Agents, NEW j, Dropped(s, c, x, j), Settled(s, c, x)
  PROVE  SlotsKept(s, Failed(c, x, j))
<1> DEFINE t == Failed(c, x, j)
<1>1. /\ j \in JobType /\ c \in PartnersState 
      /\ j.for \in {"propose", "receive"} => j.with \in Proposals
  BY DroppedFacts
<1>2. /\ t \in PartnersState
      /\ t.pact = c.pact /\ t.slots = c.slots /\ t.hooks = c.hooks /\ t.todo = c.todo
      /\ j.for \notin {"propose", "receive"} => t.prop = c.prop
      /\ j.for = "propose" => t.prop = [c.prop EXCEPT ![j.with] = [@ EXCEPT !.phase = "done"]]
      /\ j.for = "receive" => t.prop = [c.prop EXCEPT ![j.with] = [@ EXCEPT !.answer = "fail"]]
      /\ j.for = "goodbye" /\ Awaited(c, x, j) =>
           t.bye = [c.bye EXCEPT ![j.partner.peer][x] = [@ EXCEPT !.phase = "failure"]]
      /\ ~(j.for = "goodbye" /\ Awaited(c, x, j)) => t.bye = c.bye
  BY <1>1, FailedFields
<1> HIDE DEF t
<1>3. PropLess(c, t)
  <2>1. CASE j.for = "propose"
    <3>1. j.with \in Proposals /\ c.prop[j.with].phase # "none"
      BY <1>1, <2>1, DroppedFacts DEF Dropped, JobOK
    <3>2. t.prop = [c.prop EXCEPT ![j.with] = [@ EXCEPT !.phase = "done"]] BY <1>2, <2>1
    <3>3. c \in PartnersState /\ t \in PartnersState BY <1>1, <1>2
    <3> QED BY ONLY <3>1, <3>2, <3>3, OneAnswered
  <2>2. CASE j.for = "receive"
    <3>1. t.prop = [c.prop EXCEPT ![j.with] = [@ EXCEPT !.answer = "fail"]] BY <1>2, <2>2
    <3>2. c \in PartnersState /\ t \in PartnersState /\ j.with \in Proposals BY <1>1, <1>2, <2>2
    <3> QED BY ONLY <3>1, <3>2, OneAnswered
  <2>3. CASE j.for \notin {"propose", "receive"}
    <3>1. t.prop = c.prop /\ c \in PartnersState /\ t \in PartnersState BY <1>1, <1>2, <2>3
    <3> QED BY <3>1 DEF PropLess
  <2> QED BY <2>1, <2>2, <2>3
<1>4. \A a, b \in Agents :
        /\ t.bye[a][b].partner = c.bye[a][b].partner
        /\ t.bye[a][b].phase # "none" => c.bye[a][b].phase # "none"
  <2>1. c \in PartnersState /\ t \in PartnersState /\ j.partner.peer \in Agents
    BY <1>1, <1>2, DroppedFacts
  <2>2. CASE j.for = "goodbye" /\ Awaited(c, x, j)
    <3>1. c.bye[j.partner.peer][x].phase # "none" BY <2>2 DEF Awaited
    <3>2. t.bye = [c.bye EXCEPT ![j.partner.peer][x] = [@ EXCEPT !.phase = "failure"]] BY <1>2, <2>2
    <3> QED BY ONLY <2>1, <3>1, <3>2, OneReplied
  <2>3. CASE ~(j.for = "goodbye" /\ Awaited(c, x, j))
    <3>1. t.bye = c.bye BY <1>2, <2>3
    <3> QED BY <3>1
  <2> QED BY <2>2, <2>3
<1>5. SlotsKept(s, t) BY <1>2, <1>3, <1>4, SlotsAfter
<1> QED BY <1>5 DEF t

LEMMA GoesOnSlots ==
  ASSUME NEW s, NEW c, NEW x \in Agents, NEW j, Dropped(s, c, x, j),
         NEW u \in PartnersState, u.pact = c.pact, u.hooks = c.hooks, u.todo = c.todo,
         u.prop = c.prop, u.bye = c.bye, \A z \in Agents \ {x} : u.slots[z] = s.slots[z],
         NEW n \in JobType,
         Careful /\ SlotsOK(s) =>
           /\ Account(u, x, JobsOf(c, x) \cup {n}) /\ JobSound(n)
           /\ \A l \in JobsOf(c, x) : SlotKey[n] \cap SlotKey[l] = {}
  PROVE  SlotsKept(s, Queue(u, x, n))
<1> DEFINE t == Queue(u, x, n)
           R == JobsOf(c, x)
<1>1. SUFFICES ASSUME Careful, SlotsOK(s) PROVE SlotsOK(t) BY DEF SlotsKept
<1>2. c \in PartnersState /\ Moves(s, c, x, R, {j}, {}) BY DEF Dropped
<1>3. /\ t \in PartnersState /\ t.todo = [u.todo EXCEPT ![x] = Append(@, n)]
      /\ t.pact = u.pact /\ t.slots = u.slots /\ t.hooks = u.hooks /\ t.prop = u.prop
      /\ t.bye = u.bye
  BY QueueFields
<1> HIDE DEF t
<1>4. Moves(s, t, x, R, {j}, {n})
  <2>1. Moves(c, t, x, R, {}, {n}) BY <1>2, <1>3, UpdateQueued
  <2> QED BY <1>2, <2>1, MovesThen
<1>5. Aside(s, t, x)
  <2>1. PropLess(s, t) BY <1>3 DEF Dropped, PropLess
  <2> QED BY <1>3, <2>1 DEF Dropped, Aside
<1>6. Account(t, x, R \cup {n}) /\ JobSound(n)
  <2>1. Account(u, x, R \cup {n}) /\ JobSound(n) BY <1>1
  <2> HIDE DEF R
  <2> QED BY <1>3, <2>1, AccountSame
<1>7. \A l \in t.hooks[x] : l \in s.hooks[x] \/ l.step # "allocate" BY <1>3 DEF Dropped
<1>8. \A m \in {n} : \A l \in R : SlotKey[m] \cap SlotKey[l] = {} BY <1>1
<1> HIDE DEF R
<1>9. SlotsOK(t)
  <2>1. \A m \in {n} : JobSound(m) BY <1>6
  <2> QED BY <1>1, <1>4, <1>5, <1>6, <1>7, <1>8, <2>1, SlotsStep
<1> QED BY <1>9

-----------------------------------------------------------------------------
(* A proposal uses the allocation that was made for it                     *)

LEMMA SlotsStill ==
  ASSUME NEW s \in PartnersState, NEW t \in PartnersState, t.slots = s.slots, t.pact = s.pact,
         t.hooks = s.hooks, t.todo = s.todo, PropLess(s, t), NEW x \in Agents,
         \A a, b \in Agents :
           /\ t.bye[a][b].partner = s.bye[a][b].partner
           /\ t.bye[a][b].phase # "none" => s.bye[a][b].phase # "none" \/ "restarted" \notin Manners
  PROVE  SlotsKept(s, t)
<1> DEFINE R == JobsOf(s, x)
<1>1. SUFFICES ASSUME Careful, SlotsOK(s) PROVE SlotsOK(t) BY DEF SlotsKept
<1>2. Moves(s, t, x, R, {}, {}) BY NoMove
<1>3. Aside(s, t, x) BY DEF Aside
<1>4. Account(t, x, R)
  <2>1. Account(s, x, R) BY <1>1 DEF SlotsOK
  <2>2. Pledged(t, x) \subseteq Pledged(s, x) BY PledgesLess
  <2>3. Farewells(t, x) = Farewells(s, x) BY DEF Farewells
  <2>4. Farewells(t, x) \cup Parting(R)
          \subseteq s.pact[x] \cup Parting(R) \cup Farewells(s, x) \cup {NoPartner}
    BY <2>3
  <2> QED BY <2>1, <2>2, <2>4, AccountLess
<1>5. R \cup {} = R OBVIOUS
<1> HIDE DEF R
<1>6. /\ \A n \in {} : JobSound(n)
      /\ \A n \in {} : \A l \in R : SlotKey[n] \cap SlotKey[l] = {}
      /\ \A l \in t.hooks[x] : l \in s.hooks[x] \/ l.step # "allocate"
      /\ Account(t, x, R \cup {})
  BY <1>4, <1>5
<1> QED BY <1>1, <1>2, <1>3, <1>6, SlotsStep

(* One job is added, and what the proposals and the goodbyes say is as      *)
(* before or less.                                                         *)
LEMMA SlotsAdded ==
  ASSUME NEW s \in PartnersState, NEW t \in PartnersState, t.slots = s.slots, t.pact = s.pact,
         NEW x \in Agents, NEW n, Moves(s, t, x, JobsOf(s, x), {}, {n}), PropLess(s, t),
         \A l \in t.hooks[x] : l \in s.hooks[x] \/ l.step # "allocate",
         \A a, b \in Agents :
           /\ a # x => t.bye[a][b].partner = s.bye[a][b].partner
           /\ t.bye[a][b].phase # "none" => s.bye[a][b].phase # "none" \/ "restarted" \notin Manners,
         Careful /\ SlotsOK(s) =>
           /\ Account(t, x, JobsOf(s, x) \cup {n}) /\ JobSound(n)
           /\ \A l \in JobsOf(s, x) : SlotKey[n] \cap SlotKey[l] = {}
  PROVE  SlotsKept(s, t)
<1> DEFINE R == JobsOf(s, x)
<1>1. SUFFICES ASSUME Careful, SlotsOK(s) PROVE SlotsOK(t) BY DEF SlotsKept
<1>2. Aside(s, t, x) BY DEF Aside
<1>3. /\ Account(t, x, R \cup {n}) /\ \A m \in {n} : JobSound(m)
      /\ \A m \in {n} : \A l \in R : SlotKey[m] \cap SlotKey[l] = {}
      /\ Moves(s, t, x, R, {}, {n})
  BY <1>1
<1> HIDE DEF R
<1> QED BY <1>1, <1>2, <1>3, SlotsStep

LEMMA ProposalLess ==
  ASSUME NEW s \in PartnersState, NEW t, NEW i \in Proposals, NEW q,
         t.prop = [s.prop EXCEPT ![i] = q],
         q.from = s.prop[i].from, q.to = s.prop[i].to, q.own = s.prop[i].own,
         q.theirs = s.prop[i].theirs, s.prop[i].taken => q.taken, s.prop[i].phase = "asked"
  PROVE  PropLess(s, t)
<1>1. s.prop \in [Proposals -> ProposalType] BY DEF PartnersState
<1>2. t.prop[i] = q /\ \A k \in Proposals \ {i} : t.prop[k] = s.prop[k] BY <1>1
<1> QED BY <1>2 DEF PropLess

LEMMA PledgeUsed ==
  ASSUME NEW s, NEW t, NEW x \in Agents, NEW i \in Proposals, SlotsOK(s), PropLess(s, t),
         NEW e \in Pledges(s, x, i), Pledges(t, x, i) = {}
  PROVE  e \in Pledged(s, x) \ Pledged(t, x) /\ Pledged(t, x) \subseteq Pledged(s, x)
<1>1. /\ \A k \in Proposals : Pledges(t, x, k) \subseteq Pledges(s, x, k)
      /\ Pledged(t, x) \subseteq Pledged(s, x)
  BY PledgesLess
<1>2. \A k \in Proposals : k # i => Pledges(s, x, i) \cap Pledges(s, x, k) = {} BY DEF SlotsOK
<1>3. \A k \in Proposals : e \notin Pledges(t, x, k) BY <1>1, <1>2
<1>4. e \in Pledged(s, x) BY DEF Pledged
<1> QED BY <1>1, <1>3, <1>4 DEF Pledged

(* Accounts of x after a job was added.                                    *)
LEMMA AccountArrived ==
  ASSUME NEW s, NEW t, NEW x \in Agents, NEW R, NEW i \in Proposals, NEW n, SlotsOK(s),
         Account(s, x, R), PropLess(s, t), Brings(n), n.step # "release", n.step # "remove",
         \/ n.partner.slot = NoSlot
         \/ n.partner.slot \in Pledges(s, x, i) /\ n.partner.slot \in s.slots[x].held,
         Pledges(t, x, i) = {}, t.slots = s.slots, t.pact = s.pact, t.bye = s.bye
  PROVE  /\ Account(t, x, R \cup {n})
         /\ n.partner.slot = NoSlot \/ n.partner.slot \notin Coming(R)
<1> DEFINE e == n.partner.slot
           L == R \cup {n}
           N == s.pact[x] \cup Parting(R) \cup Farewells(s, x)
<1>1. AccountOK(s.slots[x].made, s.slots[x].held, s.pact[x], N, Coming(R), Ready(R), Moving(R),
                Going(R), Pledged(s, x))
  BY DEF Account
<1>2. Farewells(t, x) = Farewells(s, x) BY DEF Farewells
<1>3. Pledged(t, x) \subseteq Pledged(s, x) BY PledgesLess
<1>4. /\ Coming({n}) \subseteq {e} \ {NoSlot} /\ Ready({n}) \subseteq {e} \ {NoSlot}
      /\ {e} \ {NoSlot} \subseteq Coming({n}) /\ (n.step # "allocate" => Ready({n}) = Coming({n}))
      /\ Moving({n}) = {} /\ Going({n}) = {} /\ Parting({n}) = {}
  BY SlotsOfOne DEF Brings
<1>5. /\ Coming(L) = Coming(R) \cup Coming({n}) /\ Ready(L) = Ready(R) \cup Ready({n})
      /\ Moving(L) = Moving(R) /\ Going(L) = Going(R) /\ Parting(L) = Parting(R)
  <2>1. Adds(R) BY SlotsAdd
  <2>2. /\ Coming(L) = Coming(R) \cup Coming({n}) /\ Ready(L) = Ready(R) \cup Ready({n})
        /\ Moving(L) = Moving(R) \cup Moving({n}) /\ Going(L) = Going(R) \cup Going({n})
        /\ Parting(L) = Parting(R) \cup Parting({n})
    BY <2>1 DEF Adds
  <2> HIDE DEF L
  <2> QED BY <1>4, <2>2
<1> HIDE DEF e, L
<1>6. CASE e = NoSlot
  <2>1. Coming(L) = Coming(R) /\ Ready(L) = Ready(R) BY <1>4, <1>5, <1>6
  <2>2. Farewells(t, x) \cup Parting(L)
          \subseteq s.pact[x] \cup Parting(R) \cup Farewells(s, x) \cup {NoPartner}
    BY <1>2, <1>5
  <2>3. Account(t, x, L) BY <1>3, <1>5, <2>1, <2>2, AccountLess
  <2> QED BY <1>6, <2>3 DEF e, L
<1>7. CASE e # NoSlot
  <2>0. e \in Pledges(s, x, i) /\ e \in s.slots[x].held BY <1>7 DEF e
  <2>1. e \in Pledged(s, x) \ Pledged(t, x) /\ e \in s.slots[x].held BY <2>0, PledgeUsed
  <2>2. Coming(L) = Coming(R) \cup {e} /\ Ready(L) \subseteq Ready(R) \cup {e}
    BY <1>4, <1>5, <1>7
  <2> DEFINE C == Coming(R) \cup {e}
             Q == Ready(R) \cup {e}
  <2> HIDE DEF N
  <2>3. AccountOK(s.slots[x].made, s.slots[x].held, s.pact[x], N, C, Q, Moving(R), Going(R),
                  Pledged(t, x))
    BY <1>1, <1>3, <2>1, AccountArrives
  <2>4. /\ N \subseteq N \cup {NoPartner} /\ s.pact[x] \subseteq N /\ Ready(L) \subseteq Coming(L)
        /\ Coming(L) \subseteq C /\ Ready(L) \subseteq Q
        /\ Moving(L) \subseteq Moving(R) /\ Going(L) \subseteq Going(R)
        /\ Pledged(t, x) \subseteq Pledged(t, x) /\ s.pact[x] \subseteq s.pact[x]
    BY <1>5, <2>2, ReadyComing DEF N
  <2> HIDE DEF C, Q
  <2>5. AccountOK(s.slots[x].made, s.slots[x].held, s.pact[x], N, Coming(L),
                  Ready(L), Moving(L), Going(L), Pledged(t, x))
    BY ONLY <2>3, <2>4, AccountShrinks
  <2>6. Account(t, x, L) BY <1>2, <1>5, <2>5 DEF Account, N
  <2>7. e \notin Coming(R) BY <1>1, <2>1 DEF AccountOK
  <2> QED BY <2>6, <2>7 DEF e, L
<1> QED BY <1>6, <1>7

LEMMA AccountDeclined ==
  ASSUME NEW s, NEW t, NEW x \in Agents, NEW R, NEW i \in Proposals, NEW n, SlotsOK(s),
         Account(s, x, R), PropLess(s, t), n.for = "release", n.step = "release",
         n.partner.slot \in Pledges(s, x, i),
         Pledges(t, x, i) = {}, t.slots = s.slots, t.pact = s.pact, t.bye = s.bye
  PROVE  Account(t, x, R \cup {n})
<1> DEFINE e == n.partner.slot
           L == R \cup {n}
           N == s.pact[x] \cup Parting(R) \cup Farewells(s, x)
<1>1. AccountOK(s.slots[x].made, s.slots[x].held, s.pact[x], N, Coming(R), Ready(R), Moving(R),
                Going(R), Pledged(s, x))
  BY DEF Account
<1>2. Farewells(t, x) = Farewells(s, x) BY DEF Farewells
<1>3. e \in Pledged(s, x) \ Pledged(t, x) /\ Pledged(t, x) \subseteq Pledged(s, x)
  <2>1. e \in Pledges(s, x, i) OBVIOUS
  <2> HIDE DEF e
  <2> QED BY <2>1, PledgeUsed
<1>4. /\ Coming({n}) = {} /\ Ready({n}) = {} /\ Moving({n}) = {} /\ Parting({n}) = {}
      /\ Going({n}) \subseteq {e}
  BY SlotsOfOne DEF Brings
<1>5. /\ Coming(L) = Coming(R) /\ Ready(L) = Ready(R) /\ Moving(L) = Moving(R)
      /\ Parting(L) = Parting(R) /\ Going(L) \subseteq Going(R) \cup {e}
  <2>1. Adds(R) BY SlotsAdd
  <2>2. /\ Coming(L) = Coming(R) \cup Coming({n}) /\ Ready(L) = Ready(R) \cup Ready({n})
        /\ Moving(L) = Moving(R) \cup Moving({n}) /\ Going(L) = Going(R) \cup Going({n})
        /\ Parting(L) = Parting(R) \cup Parting({n})
    BY <2>1 DEF Adds
  <2> HIDE DEF L
  <2> QED BY <1>4, <2>2
<1>6. N \subseteq N \cup {NoPartner} /\ s.pact[x] \subseteq N OBVIOUS
<1> HIDE DEF e, L, N
<1>7. AccountOK(s.slots[x].made, s.slots[x].held, s.pact[x], N, Coming(R), Ready(R), Moving(R),
                Going(R) \cup {e}, Pledged(t, x))
  BY <1>1, <1>3, AccountDeclines
<1>8. AccountOK(s.slots[x].made, s.slots[x].held, s.pact[x], N, Coming(L), Ready(L), Moving(L),
                Going(L), Pledged(t, x))
  BY <1>5, <1>6, <1>7, ReadyComing, AccountShrinks
<1>9. Account(t, x, L) BY <1>2, <1>5, <1>8 DEF Account, N
<1> QED BY <1>9 DEF L

(* A step keeps what is claimed of pairs, and of allocations.               *)
Kept(s, t) == SidesKept(s, t) /\ SlotsKept(s, t)

-----------------------------------------------------------------------------
(* The handlers and the updates that end                                   *)

LEMMA SlotsFields ==
  ASSUME NEW s \in PartnersState, NEW x \in Agents, NEW v \in [made : Nat, held : SUBSET Nat]
  PROVE  LET t == [s EXCEPT !.slots[x] = v]
         IN  /\ t \in PartnersState /\ t.slots = [s.slots EXCEPT ![x] = v]
             /\ t.present = s.present /\ t.pact = s.pact /\ t.todo = s.todo
             /\ t.hooks = s.hooks /\ t.prop = s.prop /\ t.bye = s.bye /\ t.odd = s.odd
BY DEF PartnersState

LEMMA JobsDropped ==
  ASSUME NEW s, PartnersOK(s), NEW c \in PartnersState, NEW x \in Agents, NEW j,
         \/ j \in s.hooks[x] /\ c.hooks = [s.hooks EXCEPT ![x] = @ \ {j}] /\ c.todo = s.todo
         \/ /\ s.todo[x] # <<>> /\ j = Head(s.todo[x]) /\ c.hooks = s.hooks
            /\ c.todo = [s.todo EXCEPT ![x] = Tail(@)]
  PROVE  /\ Moves(s, c, x, JobsOf(c, x), {j}, {}) /\ j \in JobsOf(s, x)
         /\ c.hooks[x] \subseteq s.hooks[x] /\ Elems(c.todo[x]) \subseteq Elems(s.todo[x])
<1>0. s \in PartnersState BY DEF PartnersOK
<1>1. CASE j \in s.hooks[x] /\ c.hooks = [s.hooks EXCEPT ![x] = @ \ {j}] /\ c.todo = s.todo
  <2>1. Moves(s, c, x, JobsOf(c, x), {j}, {}) BY <1>0, <1>1, HookDropped
  <2>2. c.hooks[x] = s.hooks[x] \ {j} BY <1>0, <1>1 DEF PartnersState
  <2> QED BY <1>1, <2>1, <2>2 DEF JobsOf
<1>2. CASE /\ s.todo[x] # <<>> /\ j = Head(s.todo[x]) /\ c.hooks = s.hooks
           /\ c.todo = [s.todo EXCEPT ![x] = Tail(@)]
  <2>1. Moves(s, c, x, JobsOf(c, x), {j}, {}) BY <1>0, <1>2, UpdateTaken
  <2>2. j \in JobsOf(s, x) BY <2>1 DEF Moves
  <2>3. s.todo[x] \in Seq(JobType) /\ c.todo[x] = Tail(s.todo[x])
    BY <1>0, <1>2 DEF PartnersState
  <2>4. Elems(c.todo[x]) \subseteq Elems(s.todo[x]) BY <1>2, <2>3, ElemsTail
  <2> QED BY <1>2, <2>1, <2>2, <2>4
<1> QED BY <1>1, <1>2

LEMMA HookEndsKept ==
  ASSUME PartnersOK(PState), NEW x \in Agents, NEW job \in hooks[x], HookEnds(x, job)
  PROVE  scene' = scene /\ Kept(PState, PState')
<1> DEFINE s == PState
           c == [s EXCEPT !.hooks[x] = @ \ {job}]
           n == c.slots[x].made + 1
           u == [c EXCEPT !.slots[x].made = n]
           ja == [job EXCEPT !.step = "allocate", !.partner.slot = n]
           ju == [job EXCEPT !.step = "update"]
<1>1. s \in PartnersState /\ s.hooks = hooks BY DEF PartnersOK, PState
<1>2. /\ job \in JobType /\ job.for \in {"propose", "receive", "restarted"} /\ JobOK(s, x, job)
      /\ job.partner \in KnownPartner
  <2>1. job \in JobsOf(s, x) BY <1>1 DEF JobsOf
  <2> QED BY <1>1, <2>1, JobTyped DEF PartnersOK, JobType
<1>3. \/ Now(Failed(c, x, job)) /\ job.step = "initiate"
      \/ Now(Queue(u, x, ja)) /\ job.step = "initiate"
      \/ Now(Queue(c, x, ju))
  BY DEF HookEnds
<1> HIDE DEF s
<1>4. /\ c \in PartnersState /\ c.hooks = [s.hooks EXCEPT ![x] = @ \ {job}]
      /\ c.present = s.present /\ c.pact = s.pact /\ c.slots = s.slots
      /\ c.todo = s.todo /\ c.prop = s.prop /\ c.bye = s.bye /\ c.odd = s.odd
  <2> DEFINE h == s.hooks[x] \ {job}
  <2>1. h \in SUBSET JobType BY <1>1 DEF PartnersState
  <2>2. c = [s EXCEPT !.hooks[x] = h] /\ [s.hooks EXCEPT ![x] = @ \ {job}] = [s.hooks EXCEPT ![x] = h]
    BY <1>1 DEF PartnersState
  <2>3. s \in PartnersState BY <1>1
  <2> HIDE DEF h, c
  <2> QED BY ONLY <2>1, <2>2, <2>3, HooksFields
<1>5. n \in Nat
  <2> HIDE DEF c
  <2> QED BY <1>4 DEF PartnersState
<1>6. /\ u \in PartnersState /\ u.hooks = c.hooks /\ u.present = c.present /\ u.pact = c.pact
      /\ u.todo = c.todo /\ u.prop = c.prop /\ u.bye = c.bye /\ u.odd = c.odd
      /\ u.slots[x].made = n /\ u.slots[x].held = c.slots[x].held
      /\ \A z \in Agents \ {x} : u.slots[z] = s.slots[z]
  <2> DEFINE v == [c.slots[x] EXCEPT !.made = n]
  <2>0. c.slots[x] \in [made : Nat, held : SUBSET Nat]
    <3> HIDE DEF c
    <3> QED BY <1>4 DEF PartnersState
  <2>1. v \in [made : Nat, held : SUBSET Nat]
    <3> HIDE DEF n, c
    <3> QED BY <1>5, <2>0
  <2>2. u = [c EXCEPT !.slots[x] = v] BY <1>4 DEF PartnersState
  <2>3. v.made = n /\ v.held = c.slots[x].held BY <2>0
  <2>4. c.slots \in [Agents -> [made : Nat, held : SUBSET Nat]]
    <3> HIDE DEF c
    <3> QED BY <1>4 DEF PartnersState
  <2> HIDE DEF u, v, n, c
  <2>5. /\ u \in PartnersState /\ u.slots = [c.slots EXCEPT ![x] = v]
        /\ u.present = c.present /\ u.pact = c.pact /\ u.todo = c.todo
        /\ u.hooks = c.hooks /\ u.prop = c.prop /\ u.bye = c.bye /\ u.odd = c.odd
    BY <1>4, <2>1, <2>2, SlotsFields
  <2>6. u.slots[x] = v /\ \A z \in Agents \ {x} : u.slots[z] = c.slots[z] BY <2>4, <2>5
  <2> QED BY <1>4, <2>3, <2>5, <2>6
<1>7. /\ ja \in JobType /\ ja.for = job.for /\ ja.with = job.with /\ ja.step = "allocate"
      /\ ja.partner.peer = job.partner.peer /\ ja.partner.slot = n
  <2> HIDE DEF n
  <2> QED BY <1>2, <1>5 DEF JobType, KnownPartner
<1>8. /\ ju \in JobType /\ ju.for = job.for /\ ju.with = job.with /\ ju.step = "update"
      /\ ju.partner = job.partner
  BY <1>2 DEF JobType
<1> HIDE DEF ja, ju, u, n, c
<1>a. c.slots[x].made + 1 = n BY DEF n
<1>9. Dropped(s, c, x, job)
  <2>1. job \in s.hooks[x] BY <1>1
  <2>2. /\ Moves(s, c, x, JobsOf(c, x), {job}, {}) /\ job \in JobsOf(s, x)
        /\ c.hooks[x] \subseteq s.hooks[x] /\ Elems(c.todo[x]) \subseteq Elems(s.todo[x])
    BY <1>4, <2>1, JobsDropped DEF s
  <2>3. /\ \A z \in Agents \ {x} : c.pact[z] = s.pact[z]
        /\ \A p, q \in c.pact[x] : p.peer = q.peer => p = q
        /\ \A z \in Agents : Found(c, x, z) = Found(s, x, z)
    BY <1>4 DEF PartnersOK, Found, s
  <2> QED BY <1>4, <2>2, <2>3 DEF Dropped, s
<1> DEFINE R == JobsOf(c, x)
<1>b. Settled(s, c, x) /\ R \in SUBSET JobType /\ job \in s.hooks[x]
  <2>1. c.pact[x] \subseteq s.pact[x] BY <1>4
  <2> QED BY <1>1, <1>4, <1>9, <2>1, StillSettled, DropKeeps
<1>10. CASE Now(Failed(c, x, job)) /\ job.step = "initiate"
  <2>1. job.for \in {"propose", "receive"} BY <1>2, <1>10 DEF JobOK
  <2>2. Kept(s, Failed(c, x, job))
    BY <1>4, <1>9, <1>b, <2>1, FailedKept, FailedSlots DEF Kept
  <2>3. Failed(c, x, job) \in PartnersState BY <2>2 DEF Kept, SidesKept, PartnersOK
  <2> QED BY <1>1, <1>10, <2>2, <2>3, NowIs DEF s
<1>11. CASE Now(Queue(u, x, ja)) /\ job.step = "initiate"
  <2>1. job.for \in {"propose", "receive"} BY <1>2, <1>11 DEF JobOK
  <2>4. ja.step \in {"allocate", "update"} /\ c.pact = s.pact BY <1>4, <1>7
  <2>5. ASSUME Careful, SlotsOK(s)
        PROVE  /\ Account(u, x, R \cup {ja}) /\ JobSound(ja)
               /\ \A l \in R : SlotKey[ja] \cap SlotKey[l] = {}
    <3>1. Account(c, x, R) BY <1>b, <2>5 DEF Settled
    <3>2. Brings(ja) BY <1>7, <2>1 DEF Brings
    <3>3. Farewells(u, x) = Farewells(c, x) BY <1>6 DEF Farewells
    <3>4. Pledged(u, x) = Pledged(c, x) BY <1>6 DEF Pledged, Pledges
    <3>5. u.pact[x] = c.pact[x] /\ ja.partner.slot = c.slots[x].made + 1
          /\ u.slots[x].made = c.slots[x].made + 1
      BY <1>6, <1>7, <1>a
    <3> HIDE DEF R
    <3>6. Account(u, x, R \cup {ja})
      BY <1>6, <1>7, <3>1, <3>2, <3>3, <3>4, <3>5, AccountMakes
    <3>7. Coming(R) \subseteq 1..c.slots[x].made /\ c.slots[x].made \in Nat
      BY <3>1 DEF Account, AccountOK
    <3>8. n \notin Coming(R) /\ n # NoSlot BY <1>a, <3>7 DEF NoSlot
    <3>9. \A l \in R : SlotKey[ja] \cap SlotKey[l] = {} BY <1>7, <1>b, <3>8, KeysFresh
    <3>10. JobSound(ja) BY <1>7, <2>1, <3>8 DEF JobSound
    <3> QED BY <3>6, <3>9, <3>10
  <2>6. SlotsKept(s, Queue(u, x, ja)) BY <1>6, <1>7, <1>9, <2>5, GoesOnSlots
  <2>7. SidesKept(s, Queue(u, x, ja)) BY <1>6, <1>7, <1>9, <2>1, <2>4, GoesOnKept
  <2>2. Kept(s, Queue(u, x, ja)) BY <2>6, <2>7 DEF Kept
  <2>3. Queue(u, x, ja) \in PartnersState BY <2>7 DEF SidesKept, PartnersOK
  <2> QED BY <1>1, <1>11, <2>2, <2>3, NowIs DEF s
<1>12. CASE Now(Queue(c, x, ju))
  <2>1. SidesKept(s, Queue(c, x, ju)) BY <1>2, <1>4, <1>8, <1>9, GoesOnKept
  <2>2. Queue(c, x, ju) \in PartnersState BY <2>1 DEF SidesKept, PartnersOK
  <2>3. ASSUME Careful, SlotsOK(s)
        PROVE  /\ Account(c, x, R \cup {ju}) /\ JobSound(ju)
               /\ \A l \in R : SlotKey[ju] \cap SlotKey[l] = {}
    <3>1. /\ Account(s, x, R \cup {job}) /\ JobSound(job)
          /\ Distinct(s.hooks[x], s.todo[x], SlotKey) /\ job.step # "allocate"
      BY <1>9, <1>b, <2>3, DropKeeps DEF SlotsOK
    <3>2. Moves(s, c, x, R, {job}, {}) BY <1>9 DEF Dropped
    <3> HIDE DEF R
    <3>3. Account(s, x, R \cup {ju}) BY <1>8, <3>1, AccountGoesOn
    <3>4. Account(c, x, R \cup {ju}) BY <1>4, <3>3, AccountSame
    <3>5. \A l \in R : SlotKey[ju] \cap SlotKey[l] = {} BY <1>2, <1>8, <3>1, <3>2, SameKey
    <3>6. JobSound(ju) BY <1>8, <3>1 DEF JobSound
    <3> QED BY <3>4, <3>5, <3>6
  <2>4. SlotsKept(s, Queue(c, x, ju)) BY <1>4, <1>8, <1>9, <2>3, GoesOnSlots
  <2>5. Kept(s, Queue(c, x, ju)) BY <2>1, <2>4 DEF Kept
  <2> QED BY <1>1, <1>12, <2>2, <2>5, NowIs DEF s
<1> QED BY <1>3, <1>10, <1>11, <1>12

LEMMA PartnerUpdated ==
  ASSUME NEW P \in SUBSET KnownPartner, NEW p \in KnownPartner, NEW old,
         \A q, r \in P : q.peer = r.peer => q = r
  PROVE  LET Q == UpdatePartner(P \ {old}, p)
         IN  /\ Q \in SUBSET KnownPartner
             /\ \A q, r \in Q : q.peer = r.peer => q = r
             /\ {q \in Q : q.peer = p.peer} = {p}
             /\ \A z \in Agents : z # p.peer /\ (old \in P => old.peer # z)
                  => {q \in Q : q.peer = z} = {q \in P : q.peer = z}
BY DEF UpdatePartner

LEMMA StoredKept ==
  ASSUME NEW s, PartnersOK(s), NEW x \in Agents, s.todo[x] # <<>>
  PROVE  LET c == [s EXCEPT !.todo[x] = Tail(@)]
             job == Head(s.todo[x])
         IN  Kept(s, StoredUpdate(c, x, job))
<1> DEFINE c == [s EXCEPT !.todo[x] = Tail(@)]
           job == Head(s.todo[x])
           y == job.partner.peer
<1>1. s \in PartnersState /\ s.todo[x] \in Seq(JobType) BY DEF PartnersOK, PartnersState
<1>2. /\ Tail(s.todo[x]) \in Seq(JobType) /\ job \in JobType /\ job \in Elems(s.todo[x])
      /\ job.step \in Updates /\ JobOK(s, x, job)
  BY <1>1, ElemsTail DEF PartnersOK, JobsOf
<1>3. /\ c \in PartnersState /\ c.todo = [s.todo EXCEPT ![x] = Tail(@)]
      /\ c.present = s.present /\ c.pact = s.pact /\ c.slots = s.slots
      /\ c.hooks = s.hooks /\ c.prop = s.prop /\ c.bye = s.bye /\ c.odd = s.odd
  <2> DEFINE q == Tail(s.todo[x])
  <2>1. /\ c = [s EXCEPT !.todo[x] = q] /\ q \in Seq(JobType)
        /\ [s.todo EXCEPT ![x] = Tail(@)] = [s.todo EXCEPT ![x] = q]
    BY <1>1, <1>2 DEF PartnersState
  <2> HIDE DEF q, c
  <2> QED BY <1>1, <2>1, TodoFields
<1> HIDE DEF c, job
<1>4. /\ job.partner \in KnownPartner /\ y \in Agents
      /\ c.slots[x].held \in SUBSET Nat /\ c.slots[x].made \in Nat /\ c.pact[x] \in SUBSET KnownPartner
  BY <1>2, <1>3 DEF JobType, KnownPartner, PartnersState
<1>5. /\ Moves(s, c, x, JobsOf(c, x), {job}, {}) /\ job \in JobsOf(s, x)
      /\ c.hooks[x] \subseteq s.hooks[x] /\ Elems(c.todo[x]) \subseteq Elems(s.todo[x])
  BY <1>3, JobsDropped DEF job
(* Another state that differs from c in the partners of x only.            *)
<1>6. ASSUME NEW u \in PartnersState, u.todo = c.todo, u.hooks = c.hooks,
             u.present = c.present, u.prop = c.prop, u.bye = c.bye, c.odd \subseteq u.odd,
             \A z \in Agents \ {x} : u.pact[z] = s.pact[z],
             \A p, q \in u.pact[x] : p.peer = q.peer => p = q,
             \A z \in Agents \ {y} : {x, z} \notin u.odd => Found(u, x, z) = Found(s, x, z)
      PROVE  Dropped(s, u, x, job)
  <2>1. JobsOf(u, x) = JobsOf(c, x) BY <1>6 DEF JobsOf
  <2>2. Moves(s, u, x, JobsOf(u, x), {job}, {}) BY <1>5, <1>6, <2>1 DEF Moves
  <2>3. s.odd \subseteq u.odd BY <1>3, <1>6
  <2> QED BY <1>3, <1>5, <1>6, <2>2, <2>3 DEF Dropped
<1>7. \A p, q \in s.pact[x] : p.peer = q.peer => p = q BY DEF PartnersOK
<1> DEFINE Held(u, h) ==
             /\ u \in PartnersState /\ u.hooks = c.hooks /\ u.present = c.present
             /\ u.pact = c.pact /\ u.todo = c.todo /\ u.prop = c.prop /\ u.bye = c.bye
             /\ u.odd = c.odd /\ Dropped(s, u, x, job)
             /\ u.slots[x].made = s.slots[x].made /\ u.slots[x].held = h
             /\ \A z \in Agents \ {x} : u.slots[z] = s.slots[z]
<1>8. ASSUME NEW h \in SUBSET Nat, NEW u, u = [c EXCEPT !.slots[x].held = h]
      PROVE  Held(u, h)
  <2> DEFINE v == [c.slots[x] EXCEPT !.held = h]
  <2>0. c.slots \in [Agents -> [made : Nat, held : SUBSET Nat]] BY <1>3 DEF PartnersState
  <2>1. c.slots[x] \in [made : Nat, held : SUBSET Nat] BY <2>0
  <2>2. v \in [made : Nat, held : SUBSET Nat] /\ v.made = c.slots[x].made /\ v.held = h BY <2>1
  <2>3. u = [c EXCEPT !.slots[x] = v] BY <1>3, <1>8 DEF PartnersState
  <2> HIDE DEF v
  <2>4. /\ u \in PartnersState /\ u.hooks = c.hooks /\ u.present = c.present
        /\ u.pact = c.pact /\ u.todo = c.todo /\ u.prop = c.prop /\ u.bye = c.bye
        /\ u.odd = c.odd /\ u.slots = [c.slots EXCEPT ![x] = v]
    BY <1>3, <2>2, <2>3, SlotsFields
  <2>7. u.slots[x] = v /\ \A z \in Agents \ {x} : u.slots[z] = s.slots[z]
    BY <1>3, <2>0, <2>4
  <2>5. \A z : Found(u, x, z) = Found(s, x, z) BY <1>3, <2>4 DEF Found
  <2>6. c.odd \subseteq u.odd BY <2>4
  <2>8. Dropped(s, u, x, job) BY <1>3, <1>6, <1>7, <2>4, <2>5, <2>6
  <2> QED BY <1>3, <2>2, <2>4, <2>7, <2>8
<1> HIDE DEF Held
(* What the allocations of x are like then.                                *)
<1>b. ASSUME NEW u, Dropped(s, u, x, job)
      PROVE  /\ Pledged(u, x) = Pledged(s, x) /\ Farewells(u, x) = Farewells(s, x)
             /\ JobsOf(u, x) \in SUBSET JobType /\ Moves(s, u, x, JobsOf(u, x), {job}, {})
             /\ SlotsOK(s) =>
                  /\ Account(s, x, JobsOf(u, x) \cup {job}) /\ JobSound(job)
                  /\ \A l \in JobsOf(u, x) : JobSound(l)
                  /\ Distinct(s.hooks[x], s.todo[x], SlotKey)
                  /\ \A l \in JobsOf(u, x) : SlotKey[job] \cap SlotKey[l] = {}
  <2>1. Moves(s, u, x, JobsOf(u, x), {job}, {}) BY <1>b DEF Dropped
  <2> QED BY <1>b, <2>1, DropKeeps
<1>9. CASE job.step = "allocate"
  <2> DEFINE h == c.slots[x].held \cup {job.partner.slot}
             u == [c EXCEPT !.slots[x].held = h]
             n == [job EXCEPT !.step = "update"]
  <2>1. h \in SUBSET Nat BY <1>4 DEF KnownPartner
  <2>2. StoredUpdate(c, x, job) = Queue(u, x, n) BY <1>9 DEF StoredUpdate
  <2>3. /\ n \in JobType /\ n.for = job.for /\ n.with = job.with /\ n.step = "update"
        /\ n.partner = job.partner
    BY <1>2 DEF JobType
  <2>4. job.for \in {"propose", "receive"} BY <1>2, <1>9 DEF JobOK, JobType
  <2> HIDE DEF h
  <2>5. /\ u \in PartnersState /\ u.hooks = c.hooks /\ u.present = c.present
        /\ u.pact = c.pact /\ u.todo = c.todo /\ u.prop = c.prop /\ u.bye = c.bye
        /\ u.odd = c.odd /\ Dropped(s, u, x, job)
        /\ u.slots[x].made = s.slots[x].made /\ u.slots[x].held = h
        /\ \A z \in Agents \ {x} : u.slots[z] = s.slots[z]
    <3>1. Held(u, h) BY <1>8, <2>1
    <3> HIDE DEF u
    <3> QED BY <3>1 DEF Held
  <2> HIDE DEF u, n
  <2>6. u.pact = s.pact /\ n.step \in {"allocate", "update"} /\ n.partner.peer = job.partner.peer
    BY <1>3, <2>3, <2>5
  <2>7. SidesKept(s, Queue(u, x, n)) BY <2>3, <2>4, <2>5, <2>6, GoesOnKept
  <2>8. u.slots[x].held = s.slots[x].held \cup {job.partner.slot} BY <1>3, <2>5 DEF h
  <2> DEFINE R == JobsOf(u, x)
  <2>9. ASSUME Careful, SlotsOK(s)
        PROVE  /\ Account(u, x, R \cup {n}) /\ JobSound(n)
               /\ \A l \in R : SlotKey[n] \cap SlotKey[l] = {}
    <3>1. /\ Account(s, x, R \cup {job}) /\ JobSound(job)
          /\ Distinct(s.hooks[x], s.todo[x], SlotKey) /\ Moves(s, u, x, R, {job}, {})
          /\ Pledged(u, x) = Pledged(s, x) /\ Farewells(u, x) = Farewells(s, x)
      BY <1>b, <2>5, <2>9
    <3>2. Brings(job) /\ job.partner.slot # NoSlot /\ u.pact[x] = s.pact[x]
          /\ job.step # "release" /\ job.step # "remove"
      BY <1>9, <2>4, <2>6, <3>1 DEF Brings, JobSound
    <3> HIDE DEF R
    <3>3. Account(u, x, R \cup {n}) BY <2>3, <2>5, <2>8, <3>1, <3>2, AccountHeld
    <3>4. \A l \in R : SlotKey[n] \cap SlotKey[l] = {} BY <1>2, <2>3, <3>1, SameKey
    <3>5. JobSound(n) BY <2>3, <2>4 DEF JobSound
    <3> QED BY <3>3, <3>4, <3>5
  <2>10. SlotsKept(s, Queue(u, x, n)) BY <2>3, <2>5, <2>9, GoesOnSlots
  <2> QED BY <2>2, <2>7, <2>10 DEF Kept, c, job
<1>10. CASE job.step = "update"
  <2> DEFINE P == s.pact[x]
             Q == UpdatePartner(P \ {job.old}, job.partner)
             v == [c EXCEPT !.pact[x] = Q]
             u == IF job.old \in P THEN Odd(v, x, job.old.peer) ELSE v
  <2>1. StoredUpdate(c, x, job) = Done(u, x, job)
    <3>1. [c EXCEPT !.pact[x] = UpdatePartner(@ \ {job.old}, job.partner)] = v
      BY <1>1, <1>3 DEF PartnersState
    <3> QED BY <1>3, <1>10, <3>1 DEF StoredUpdate
  <2>2. P \in SUBSET KnownPartner BY <1>1 DEF PartnersState
  <2>3. /\ Q \in SUBSET KnownPartner
        /\ \A q, r \in Q : q.peer = r.peer => q = r
        /\ {q \in Q : q.peer = y} = {job.partner}
        /\ \A z \in Agents : z # y /\ (job.old \in P => job.old.peer # z)
             => {q \in Q : q.peer = z} = {q \in P : q.peer = z}
    BY <1>4, <1>7, <2>2, PartnerUpdated
  <2>a. Q \subseteq P \cup {job.partner} BY DEF UpdatePartner
  <2> HIDE DEF Q
  <2>4. /\ v \in PartnersState /\ v.pact = [c.pact EXCEPT ![x] = Q]
        /\ v.present = c.present /\ v.todo = c.todo /\ v.slots = c.slots
        /\ v.bye = c.bye /\ v.hooks = c.hooks /\ v.prop = c.prop /\ v.odd = c.odd
    <3>1. c \in PartnersState /\ Q \in SUBSET KnownPartner BY <1>3, <2>3
    <3> QED BY ONLY <3>1, PactFields
  <2> HIDE DEF v
  <2>5. job.old \in P => job.old.peer \in Peers /\ job.old.peer \in Agents
    BY <2>2 DEF KnownPartner, Peers
  <2>6. /\ u \in PartnersState /\ u.pact = v.pact
        /\ u.present = v.present /\ u.todo = v.todo /\ u.slots = v.slots
        /\ u.bye = v.bye /\ u.hooks = v.hooks /\ u.prop = v.prop
        /\ job.old \in P => u.odd = v.odd \cup {{x, job.old.peer}}
        /\ job.old \notin P => u.odd = v.odd
    <3>1. CASE job.old \in P
      <4>1. x \in Peers /\ job.old.peer \in Peers /\ v \in PartnersState
        BY <2>4, <2>5, <3>1 DEF Peers
      <4>2. u = Odd(v, x, job.old.peer) BY <3>1
      <4> HIDE DEF u
      <4>3. /\ u \in PartnersState /\ u.odd = v.odd \cup {{x, job.old.peer}}
            /\ u.present = v.present /\ u.pact = v.pact /\ u.slots = v.slots
            /\ u.hooks = v.hooks /\ u.todo = v.todo /\ u.prop = v.prop /\ u.bye = v.bye
        BY ONLY <4>1, <4>2, OddFields
      <4> QED BY <3>1, <4>3
    <3>2. CASE job.old \notin P BY <2>4, <3>2
    <3> QED BY <3>1, <3>2
  <2> HIDE DEF u
  <2>7. u.pact[x] = Q /\ \A z \in Agents \ {x} : u.pact[z] = s.pact[z]
    BY <1>1, <1>3, <2>4, <2>6 DEF PartnersState
  <2>8. c.odd \subseteq u.odd BY <2>4, <2>6
  <2>9. ASSUME NEW z \in Agents \ {y}, {x, z} \notin u.odd PROVE Found(u, x, z) = Found(s, x, z)
    <3>1. job.old \in P => job.old.peer # z BY <2>6, <2>9
    <3> QED BY <2>3, <2>7, <3>1 DEF Found
  <2>10. Dropped(s, u, x, job)
    <3>1. \A p, q \in u.pact[x] : p.peer = q.peer => p = q BY <2>3, <2>7
    <3>2. u.todo = c.todo /\ u.hooks = c.hooks /\ u.present = c.present /\ u.prop = c.prop
          /\ u.bye = c.bye
      BY <2>4, <2>6
    <3> QED BY <1>6, <2>6, <2>7, <2>8, <2>9, <3>1, <3>2
  <2>11. Knows(u, x, y) BY <2>3, <2>7 DEF Knows, Found
  <2>12. job.step # "release" /\ job.step # "remove" BY <1>10
  <2>13. SidesKept(s, Done(u, x, job)) BY <2>10, <2>11, <2>12, DoneKept
  <2>14. Settled(s, u, x)
    <3>1. u.slots = s.slots BY <1>3, <2>4, <2>6
    <3>2. ASSUME SlotsOK(s) PROVE Account(u, x, JobsOf(u, x))
      <4> DEFINE R == JobsOf(u, x)
      <4>1. /\ Account(s, x, R \cup {job}) /\ R \in SUBSET JobType
            /\ \A l \in R : SlotKey[job] \cap SlotKey[l] = {}
            /\ Pledged(u, x) = Pledged(s, x) /\ Farewells(u, x) = Farewells(s, x)
        BY <1>b, <2>10, <3>2
      <4>2. Brings(job) \/ job.for = "restarted" BY <1>2, <1>10 DEF JobOK, JobType, Brings
      <4>3. u.slots[x] = s.slots[x] /\ u.pact[x] \subseteq s.pact[x] \cup {job.partner}
        BY <2>7, <2>a, <3>1
      <4> HIDE DEF R
      <4>4. Account(u, x, R) BY <1>2, <1>10, <4>1, <4>2, <4>3, AccountStored
      <4> QED BY <4>4 DEF R
    <3> QED BY <3>1, <3>2 DEF Settled
  <2>15. SlotsKept(s, Done(u, x, job)) BY <2>10, <2>14, DoneSlots
  <2> QED BY <2>1, <2>13, <2>15 DEF Kept, c, job
<1>11. CASE job.step = "remove"
  <2> DEFINE P == s.pact[x] \ {job.partner}
             u == [c EXCEPT !.pact[x] = P]
             n == [job EXCEPT !.step = "release"]
  <2>1. \/ StoredUpdate(c, x, job) = Done(u, x, job)
        \/ StoredUpdate(c, x, job) = Queue(u, x, n) /\ job.partner.slot # NoSlot
        \/ StoredUpdate(c, x, job) = Failed(u, x, job)
    <3>1. [c EXCEPT !.pact[x] = @ \ {job.partner}] = u BY <1>1, <1>3 DEF PartnersState
    <3> QED BY <1>11, <3>1 DEF StoredUpdate, RemovePartner
  <2>2. P \in SUBSET KnownPartner BY <1>1 DEF PartnersState
  <2>3. \A p, q \in P : p.peer = q.peer => p = q BY <1>7
  <2>4. \A z : z # y => {q \in P : q.peer = z} = {q \in s.pact[x] : q.peer = z} OBVIOUS
  <2>5. P = s.pact[x] \ {job.partner} OBVIOUS
  <2> HIDE DEF P
  <2>6. /\ u \in PartnersState /\ u.pact = [c.pact EXCEPT ![x] = P]
        /\ u.present = c.present /\ u.todo = c.todo /\ u.slots = c.slots
        /\ u.bye = c.bye /\ u.hooks = c.hooks /\ u.prop = c.prop /\ u.odd = c.odd
    BY <1>3, <2>2, PactFields
  <2> HIDE DEF u
  <2>7. u.pact[x] = P /\ \A z \in Agents \ {x} : u.pact[z] = s.pact[z]
    BY <1>1, <1>3, <2>6 DEF PartnersState
  <2>8. c.odd \subseteq u.odd BY <2>6
  <2>9. \A z \in Agents \ {y} : Found(u, x, z) = Found(s, x, z) BY <2>4, <2>7 DEF Found
  <2>10. Dropped(s, u, x, job) BY <1>6, <2>3, <2>6, <2>7, <2>8, <2>9
  <2>11. /\ n \in JobType /\ n.for = job.for /\ n.with = job.with /\ n.step = "release"
         /\ n.partner = job.partner
    BY <1>2 DEF JobType
  <2>12. job.for \in {"goodbye", "breakup"} BY <1>2, <1>11 DEF JobOK, JobType
  <2> HIDE DEF n
  <2>13. SidesKept(s, Done(u, x, job)) BY <1>11, <2>5, <2>7, <2>10, <2>12, DoneKept
  <2>14. SidesKept(s, Failed(u, x, job)) BY <1>11, <2>5, <2>7, <2>10, <2>12, FailedKept
  <2>15. SidesKept(s, Queue(u, x, n))
    <3>1. /\ job.step = "remove" /\ u.pact[x] = s.pact[x] \ {job.partner}
          /\ n.step = "release" /\ n.partner.peer = job.partner.peer
      BY <1>11, <2>5, <2>7, <2>11
    <3> QED BY <2>6, <2>10, <2>11, <3>1, GoesOnKept
  <2>16. Settled(s, u, x)
    <3>1. u.slots = s.slots /\ u.pact[x] \subseteq s.pact[x] BY <1>3, <2>5, <2>6, <2>7
    <3> QED BY <2>10, <3>1, StillSettled
  <2>17. SlotsKept(s, Done(u, x, job)) /\ SlotsKept(s, Failed(u, x, job))
    BY <2>10, <2>16, DoneSlots, FailedSlots
  <2>18. ASSUME job.partner.slot # NoSlot PROVE SlotsKept(s, Queue(u, x, n))
    <3> DEFINE R == JobsOf(u, x)
    <3>1. ASSUME Careful, SlotsOK(s)
          PROVE  /\ Account(u, x, R \cup {n}) /\ JobSound(n)
                 /\ \A l \in R : SlotKey[n] \cap SlotKey[l] = {}
      <4>1. /\ Account(s, x, R \cup {job}) /\ JobSound(job) /\ \A l \in R : JobSound(l)
            /\ Distinct(s.hooks[x], s.todo[x], SlotKey) /\ Moves(s, u, x, R, {job}, {})
            /\ Pledged(u, x) = Pledged(s, x) /\ Farewells(u, x) = Farewells(s, x)
        BY <1>b, <2>10, <3>1
      <4> HIDE DEF R
      <4>2. \A l \in R \cup {job} : l.for # "restarted" BY <1>11, <4>1 DEF JobSound
      <4>3. ~Brings(job) BY <2>12 DEF Brings
      <4>4. u.slots[x] = s.slots[x] /\ u.pact[x] = s.pact[x] \ {job.partner}
        BY <1>3, <2>5, <2>6, <2>7
      <4>5. Account(u, x, R \cup {n})
        BY <1>11, <2>11, <2>18, <4>1, <4>2, <4>3, <4>4, AccountParted
      <4>6. \A l \in R : SlotKey[n] \cap SlotKey[l] = {} BY <1>2, <2>11, <4>1, SameKey
      <4>7. JobSound(n) BY <2>11, <2>12 DEF JobSound
      <4> QED BY <4>5, <4>6, <4>7
    <3>2. \A z \in Agents \ {x} : u.slots[z] = s.slots[z] BY <1>3, <2>6
    <3> QED BY <2>6, <2>10, <2>11, <3>1, <3>2, GoesOnSlots
  <2> QED BY <2>1, <2>13, <2>14, <2>15, <2>17, <2>18 DEF Kept, c, job
<1>12. CASE job.step = "release"
  <2> DEFINE h == c.slots[x].held \ {job.partner.slot}
             u == [c EXCEPT !.slots[x].held = h]
  <2>1. h \in SUBSET Nat BY <1>4
  <2>2. StoredUpdate(c, x, job) = Done(u, x, job) BY <1>12 DEF StoredUpdate
  <2> HIDE DEF h
  <2>3. /\ u.pact = c.pact /\ Dropped(s, u, x, job)
        /\ u.slots[x].made = s.slots[x].made /\ u.slots[x].held = h
        /\ \A z \in Agents \ {x} : u.slots[z] = s.slots[z]
    <3>1. Held(u, h) BY <1>8, <2>1
    <3> HIDE DEF u
    <3> QED BY <3>1 DEF Held
  <2> HIDE DEF u
  <2>4. u.pact = s.pact /\ job.for \notin {"propose", "receive", "restarted"}
    BY <1>2, <1>3, <1>12, <2>3 DEF JobOK
  <2>5. SidesKept(s, Done(u, x, job)) BY <1>12, <2>3, <2>4, DoneKept
  <2>6. u.slots[x].held = s.slots[x].held \ {job.partner.slot} BY <1>3, <2>3 DEF h
  <2>7. Settled(s, u, x)
    <3>1. ASSUME SlotsOK(s) PROVE Account(u, x, JobsOf(u, x))
      <4> DEFINE R == JobsOf(u, x)
      <4>1. /\ Account(s, x, R \cup {job}) /\ u.pact[x] = s.pact[x]
            /\ Pledged(u, x) = Pledged(s, x) /\ Farewells(u, x) = Farewells(s, x)
        BY <1>b, <2>3, <2>4, <3>1
      <4> HIDE DEF R
      <4>2. Account(u, x, R) BY <1>12, <2>3, <2>6, <4>1, AccountReleased
      <4> QED BY <4>2 DEF R
    <3> QED BY <2>3, <3>1 DEF Settled
  <2>8. SlotsKept(s, Done(u, x, job)) BY <2>3, <2>7, DoneSlots
  <2> QED BY <2>2, <2>5, <2>8 DEF Kept, c, job
<1> QED BY <1>2, <1>9, <1>10, <1>11, <1>12 DEF Updates, c, job

-----------------------------------------------------------------------------
(* The steps of a proposal                                                 *)

LEMMA ProposalStep ==
  ASSUME NEW s, PartnersOK(s), NEW t \in PartnersState, NEW x \in Agents, NEW y \in Agents, NEW N,
         NEW i \in Proposals, s.prop[i].phase # "none",
         Ours(s.prop[i].from, s.prop[i].to, x, y),
         t.present = s.present, t.pact = s.pact, t.bye = s.bye, s.odd \subseteq t.odd,
         NEW q \in ProposalType, t.prop = [s.prop EXCEPT ![i] = q],
         q.from = s.prop[i].from, q.to = s.prop[i].to, q.phase # "none",
         s.prop[i].taken => q.taken, q.answer # "none" => q.taken,
         Moves(s, t, x, JobsOf(s, x), {}, N),
         \A j \in t.hooks[x] : j \in s.hooks[x] \/ j.for \in {"propose", "receive"},
         \A j \in Elems(t.todo[x]) : j \in Elems(s.todo[x]) \/ j.step = "release",
         \A n \in N : JobOK(t, x, n) /\ n.partner.peer = y
  PROVE  PairStep(s, t, x, y, JobsOf(s, x), {}, N)
<1>1. /\ t.prop[i] = q /\ \A k \in Proposals \ {i} : t.prop[k] = s.prop[k]
  BY DEF PartnersOK, PartnersState
<1>2. PartnersOK(t)
  <2>1. \A j \in t.hooks[x] : j.for \in {"propose", "receive", "restarted"} BY DEF PartnersOK
  <2>2. \A j \in Elems(t.todo[x]) : j.step \in Updates BY DEF PartnersOK, Updates
  <2>3. \A k \in Proposals : s.prop[k].phase # "none" =>
          /\ t.prop[k].phase # "none"
          /\ s.prop[k].taken => t.prop[k].taken
          /\ t.prop[k].from = s.prop[k].from /\ t.prop[k].to = s.prop[k].to
    BY <1>1
  <2>4. \A k \in Proposals :
          /\ t.prop[k].phase # "none" => t.prop[k].from \in Agents /\ t.prop[k].to \in Agents
          /\ t.prop[k].answer # "none" => t.prop[k].taken
    BY <1>1 DEF PartnersOK
  <2>5. \A a \in t.present : \A b \in Agents :
           t.bye[a][b].phase # "none" => t.bye[a][b].partner.peer = b
    BY DEF PartnersOK
  <2>6. \A p, r \in t.pact[x] : p.peer = r.peer => p = r BY DEF PartnersOK
  <2>7. (\A z \in Agents \ {x} : t.pact[z] = s.pact[z]) /\ (\A n \in N : JobOK(t, x, n))
        /\ t.present \subseteq s.present
    OBVIOUS
  <2>8. Moves(s, t, x, JobsOf(s, x), {}, N) /\ PartnersOK(s) /\ t \in PartnersState OBVIOUS
  <2> QED BY ONLY <2>1, <2>2, <2>3, <2>4, <2>5, <2>6, <2>7, <2>8, StillOK
<1>3. Elsewhere(s, t, x, y)
  <2>1. \A z : Found(t, x, z) = Found(s, x, z) BY DEF Found
  <2>2. ASSUME NEW k \in Proposals, t.prop[k] # s.prop[k]
        PROVE  /\ Ours(t.prop[k].from, t.prop[k].to, x, y)
               /\ s.prop[k].from = t.prop[k].from /\ s.prop[k].to = t.prop[k].to
    BY <1>1, <2>2
  <2> QED BY <2>1, <2>2 DEF Elsewhere
<1> QED BY <1>2, <1>3 DEF PairStep

(* What create() does when it is called for a proposal.                    *)
LEMMA CreateMoves ==
  ASSUME NEW s \in PartnersState, NEW x \in Agents, NEW for \in {"propose", "receive"},
         NEW i \in Proposals, NEW partner \in KnownPartner, NEW old \in AnyPartner
  PROVE  LET job == Job(for, i, partner, old, "initiate")
             t == [s EXCEPT !.hooks[x] = @ \cup {job}]
         IN  /\ job \in JobType /\ job.for = for /\ job.with = i /\ job.partner = partner
             /\ job.step = "initiate"
             /\ \/ Create(s, x, for, i, partner, old) = Done(s, x, job) /\ Knows(s, x, partner.peer)
                \/ Create(s, x, for, i, partner, old) = Failed(s, x, job)
                \/ /\ Create(s, x, for, i, partner, old) = t
                   /\ t \in PartnersState /\ t.hooks = [s.hooks EXCEPT ![x] = @ \cup {job}]
                   /\ t.present = s.present /\ t.pact = s.pact /\ t.slots = s.slots
                   /\ t.bye = s.bye /\ t.todo = s.todo /\ t.prop = s.prop /\ t.odd = s.odd
                   /\ partner.slot = NoSlot \/ partner.slot \in s.slots[x].held
<1> DEFINE job == Job(for, i, partner, old, "initiate")
           h == s.hooks[x] \cup {job}
           t == [s EXCEPT !.hooks[x] = h]
<1>1. /\ job \in JobType /\ job.for = for /\ job.with = i /\ job.partner = partner
      /\ job.step = "initiate"
  BY PartnersBoundsAssumption DEF Job, JobType, Proposals
<1> HIDE DEF job
<1>2. h \in SUBSET JobType /\ [s EXCEPT !.hooks[x] = @ \cup {job}] = t
      /\ [s.hooks EXCEPT ![x] = @ \cup {job}] = [s.hooks EXCEPT ![x] = h]
  BY <1>1 DEF PartnersState
<1> HIDE DEF h
<1>3. /\ t \in PartnersState /\ t.hooks = [s.hooks EXCEPT ![x] = h]
      /\ t.present = s.present /\ t.pact = s.pact /\ t.slots = s.slots
      /\ t.bye = s.bye /\ t.todo = s.todo /\ t.prop = s.prop /\ t.odd = s.odd
  BY <1>2, HooksFields
<1> HIDE DEF t
<1>4. \/ Create(s, x, for, i, partner, old) = Done(s, x, job) /\ Knows(s, x, partner.peer)
      \/ Create(s, x, for, i, partner, old) = Failed(s, x, job)
      \/ /\ Create(s, x, for, i, partner, old) = t
         /\ partner.slot = NoSlot \/ partner.slot \in s.slots[x].held
  BY <1>2 DEF Create, Knows, job
<1> QED BY <1>1, <1>2, <1>3, <1>4 DEF job

LEMMA ReceiveDone ==
  ASSUME NEW s \in PartnersState, NEW x \in Agents, NEW j \in JobType, j.for = "receive",
         NEW i \in Proposals, j.with = i, NEW t, t = Done(s, x, j)
  PROVE  /\ t \in PartnersState /\ t.present = s.present /\ t.pact = s.pact
         /\ t.slots = s.slots /\ t.hooks = s.hooks /\ t.todo = s.todo /\ t.odd = s.odd
         /\ t.bye = s.bye /\ t.prop = [s.prop EXCEPT ![i] = [@ EXCEPT !.answer = "ok"]]
<1> DEFINE p == [s.prop[i] EXCEPT !.answer = "ok"]
<1>1. s.prop[i] \in ProposalType BY DEF PartnersState
<1>2. p \in ProposalType BY <1>1 DEF ProposalType
<1>3. /\ t = [s EXCEPT !.prop[i] = p]
      /\ [s.prop EXCEPT ![i] = [@ EXCEPT !.answer = "ok"]] = [s.prop EXCEPT ![i] = p]
  BY DEF Done, PartnersState
<1> HIDE DEF p
<1> QED BY <1>2, <1>3, PropFields

LEMMA ReceiveFailed ==
  ASSUME NEW s \in PartnersState, NEW x \in Agents, NEW j \in JobType, j.for = "receive",
         NEW i \in Proposals, j.with = i, NEW t, t = Failed(s, x, j)
  PROVE  /\ t \in PartnersState /\ t.present = s.present /\ t.pact = s.pact
         /\ t.slots = s.slots /\ t.hooks = s.hooks /\ t.todo = s.todo /\ t.odd = s.odd
         /\ t.bye = s.bye /\ t.prop = [s.prop EXCEPT ![i] = [@ EXCEPT !.answer = "fail"]]
<1> DEFINE p == [s.prop[i] EXCEPT !.answer = "fail"]
<1>1. s.prop[i] \in ProposalType BY DEF PartnersState
<1>2. p \in ProposalType BY <1>1 DEF ProposalType
<1>3. /\ t = [s EXCEPT !.prop[i] = p]
      /\ [s.prop EXCEPT ![i] = [@ EXCEPT !.answer = "fail"]] = [s.prop EXCEPT ![i] = p]
  BY DEF Failed, PartnersState
<1> HIDE DEF p
<1> QED BY <1>2, <1>3, PropFields

LEMMA AnsweredAtOnce ==
  ASSUME NEW s, NEW t, NEW x \in Agents, NEW y \in Agents, NEW R,
         PairStep(s, t, x, y, R, {}, {}), PairsOK(s), NEW i \in Proposals,
         s.prop[i].phase = "asked", ~s.prop[i].taken,
         s.prop[i].from = y, s.prop[i].to = x,
         t.bye = s.bye, NEW answer \in {"ok", "fail"},
         t.prop = [s.prop EXCEPT ![i] = [@ EXCEPT !.taken = TRUE, !.answer = answer]],
         t.pact = s.pact, answer = "ok" => Knows(s, x, y)
  PROVE  PairsOK(t)
<1> DEFINE D == {}
<1>1. D = {} /\ s.prop[i].phase = "asked" /\ ~s.prop[i].taken OBVIOUS
<1>2. PairStep(s, t, x, y, R, D, {}) OBVIOUS
<1>3. Found(t, x, y) = Found(s, x, y) BY DEF Found
<1>4. /\ PairsOK(s) /\ s.prop[i].from = y /\ s.prop[i].to = x /\ t.bye = s.bye
      /\ t.prop = [s.prop EXCEPT ![i] = [@ EXCEPT !.taken = TRUE, !.answer = answer]]
      /\ x \in Agents /\ y \in Agents /\ i \in Proposals /\ answer \in {"ok", "fail"}
  OBVIOUS
<1> HIDE DEF D
<1>5. CASE answer = "ok"
  <2>1. Knows(t, x, y) BY <1>3, <1>5 DEF Knows
  <2>2. /\ Knows(s, x, y) => Knows(t, x, y)
        /\ answer = "ok" => Knows(t, x, y)
        /\ answer = "fail" => Found(t, x, y) = Found(s, x, y)
    BY <1>3, <2>1
  <2> QED BY ONLY <1>1, <1>2, <1>4, <2>2, ProposalAnswered, ZenonT(60)
<1>6. CASE answer = "fail"
  <2>1. Knows(s, x, y) => Knows(t, x, y) BY <1>3 DEF Knows
  <2> QED BY ONLY <1>1, <1>2, <1>3, <1>4, <1>6, <2>1, ProposalAnswered
<1> QED BY <1>5, <1>6

LEMMA ReceivedKept ==
  ASSUME NEW s, PartnersOK(s), NEW i \in Proposals, s.prop[i].phase = "asked", ~s.prop[i].taken
  PROVE  LET p == s.prop[i]
         IN  Kept(s, Create([s EXCEPT !.prop[i].taken = TRUE], p.to, "receive", i,
                            Partner(p.from, p.theirs), NoPartner))
<1> DEFINE p == s.prop[i]
           x == p.to
           y == p.from
           u == [s EXCEPT !.prop[i].taken = TRUE]
           r == [p EXCEPT !.taken = TRUE]
           partner == Partner(y, p.theirs)
           job == Job("receive", i, partner, NoPartner, "initiate")
           t == Create(u, x, "receive", i, partner, NoPartner)
<1>1. s \in PartnersState /\ p \in ProposalType /\ x \in Agents /\ y \in Agents
  BY DEF PartnersOK, PartnersState
<1>2. /\ r \in ProposalType /\ r.taken /\ r.phase = "asked" /\ r.answer = p.answer
      /\ r.from = p.from /\ r.to = p.to /\ r.own = p.own /\ r.theirs = p.theirs
  BY <1>1 DEF ProposalType
<1>3. /\ partner \in KnownPartner /\ partner.peer = y /\ partner.slot = p.theirs
      /\ NoPartner \in AnyPartner
  BY <1>1 DEF Partner, KnownPartner, NoPartner, AnyPartner, Peers, ProposalType, NoSlot
<1>4. u = [s EXCEPT !.prop[i] = r] BY <1>1 DEF PartnersState
<1>0. p.from = y /\ p.to = x /\ s.prop[i] = p OBVIOUS
<1> HIDE DEF r, u, p, partner, x, y
<1>5. /\ u \in PartnersState /\ u.prop = [s.prop EXCEPT ![i] = r]
      /\ u.present = s.present /\ u.pact = s.pact /\ u.slots = s.slots
      /\ u.hooks = s.hooks /\ u.todo = s.todo /\ u.bye = s.bye /\ u.odd = s.odd
  BY <1>1, <1>2, <1>4, PropFields
<1>6. u.prop[i] = r BY <1>1, <1>5 DEF PartnersState
<1> DEFINE v == [u EXCEPT !.hooks[x] = @ \cup {job}]
<1>7. /\ job \in JobType /\ job.for = "receive" /\ job.with = i /\ job.partner = partner
      /\ job.step = "initiate"
      /\ \/ t = Done(u, x, job) /\ Knows(u, x, partner.peer)
         \/ t = Failed(u, x, job)
         \/ /\ t = v
            /\ v \in PartnersState /\ v.hooks = [u.hooks EXCEPT ![x] = @ \cup {job}]
            /\ v.present = u.present /\ v.pact = u.pact /\ v.slots = u.slots
            /\ v.bye = u.bye /\ v.todo = u.todo /\ v.prop = u.prop /\ v.odd = u.odd
            /\ partner.slot = NoSlot \/ partner.slot \in u.slots[x].held
  <2>1. /\ "receive" \in {"propose", "receive"} /\ u \in PartnersState /\ x \in Agents
        /\ i \in Proposals /\ partner \in KnownPartner /\ NoPartner \in AnyPartner
    BY <1>1, <1>3, <1>5
  <2> QED BY ONLY <2>1, CreateMoves
<1> HIDE DEF job, v, t
<1>8. Ours(s.prop[i].from, s.prop[i].to, x, y) /\ s.prop[i].phase # "none"
      /\ p.phase = "asked" /\ ~p.taken /\ p.answer = "none"
  BY <1>0 DEF Ours, PartnersOK
(* The proposal is answered at once.                                       *)
<1>9. ASSUME NEW answer \in {"ok", "fail"}, NEW w \in PartnersState,
             w.present = u.present, w.pact = u.pact, w.hooks = u.hooks, w.todo = u.todo,
             w.bye = u.bye, w.odd = u.odd, w.slots = u.slots,
             w.prop = [u.prop EXCEPT ![i] = [@ EXCEPT !.answer = answer]],
             answer = "ok" => Knows(u, x, y)
      PROVE  Kept(s, w)
  <2> DEFINE q == [p EXCEPT !.taken = TRUE, !.answer = answer]
  <2>1. /\ q \in ProposalType /\ q.from = p.from /\ q.to = p.to /\ q.phase = p.phase /\ q.taken
        /\ q.own = p.own /\ q.theirs = p.theirs
        /\ [r EXCEPT !.answer = answer] = q
    BY <1>1, <1>9 DEF ProposalType, r
  <2> HIDE DEF q
  <2>2. w.prop = [s.prop EXCEPT ![i] = q]
    BY <1>1, <1>5, <1>6, <1>9, <2>1 DEF PartnersState
  <2>3. w.prop = [s.prop EXCEPT ![i] = [@ EXCEPT !.taken = TRUE, !.answer = answer]]
    BY <1>1, <2>2 DEF q, p, PartnersState
  <2>4. Moves(s, w, x, JobsOf(s, x), {}, {}) BY <1>1, <1>5, <1>9, NoMove
  <2>5. /\ w.present = s.present /\ w.pact = s.pact /\ w.bye = s.bye /\ s.odd \subseteq w.odd
        /\ \A j \in w.hooks[x] : j \in s.hooks[x] \/ j.for \in {"propose", "receive"}
        /\ \A j \in Elems(w.todo[x]) : j \in Elems(s.todo[x]) \/ j.step = "release"
    BY <1>5, <1>9
  <2>6. PairStep(s, w, x, y, JobsOf(s, x), {}, {})
    BY <1>1, <1>8, <1>9, <2>1, <2>2, <2>4, <2>5, <1>0, ProposalStep
  <2>7. PartnersOK(w) BY <2>6 DEF PairStep
  <2>8. ASSUME PairsOK(s) PROVE PairsOK(w)
    <3>1. answer = "ok" => Knows(s, x, y) BY <1>5, <1>9 DEF Knows, Found
    <3>2. s.prop[i].from = y /\ s.prop[i].to = x /\ w.bye = s.bye /\ w.pact = s.pact
          /\ s.prop[i].phase = "asked" /\ ~s.prop[i].taken
      BY <1>0, <1>8, <2>5
    <3>3. x \in Agents /\ y \in Agents /\ i \in Proposals /\ answer \in {"ok", "fail"}
      BY <1>1, <1>9
    <3> QED BY ONLY <2>3, <2>6, <2>8, <3>1, <3>2, <3>3, AnsweredAtOnce
  <2>9. SlotsKept(s, w)
    <3>3. /\ q.from = s.prop[i].from /\ q.to = s.prop[i].to /\ q.own = s.prop[i].own
          /\ q.theirs = s.prop[i].theirs /\ (s.prop[i].taken => q.taken)
          /\ s.prop[i].phase = "asked"
      BY <1>0, <1>8, <2>1
    <3>1. PropLess(s, w) BY <1>1, <2>2, <3>3, ProposalLess
    <3>2. /\ w.slots = s.slots /\ w.pact = s.pact /\ w.hooks = s.hooks /\ w.todo = s.todo
          /\ w.bye = s.bye
      BY <1>5, <1>9
    <3> QED BY <1>1, <1>9, <3>1, <3>2, SlotsStill
  <2> QED BY <2>7, <2>8, <2>9 DEF Kept, SidesKept
<1>10. CASE t = Done(u, x, job) /\ Knows(u, x, partner.peer)
  <2>1. /\ t \in PartnersState
        /\ t.present = u.present /\ t.pact = u.pact /\ t.hooks = u.hooks /\ t.todo = u.todo
        /\ t.odd = u.odd /\ t.bye = u.bye /\ t.slots = u.slots
        /\ t.prop = [u.prop EXCEPT ![i] = [@ EXCEPT !.answer = "ok"]]
    <3>1. /\ u \in PartnersState /\ x \in Agents /\ job \in JobType /\ job.for = "receive"
          /\ job.with = i /\ i \in Proposals
      BY <1>1, <1>5, <1>7
    <3>2. t = Done(u, x, job) BY <1>10
    <3> QED BY ONLY <3>1, <3>2, ReceiveDone
  <2>2. Knows(u, x, y) /\ "ok" \in {"ok", "fail"} BY <1>3, <1>10
  <2> QED BY <1>9, <2>1, <2>2 DEF t, u, p, partner, x, y
<1>11. CASE t = Failed(u, x, job)
  <2>1. /\ t \in PartnersState
        /\ t.present = u.present /\ t.pact = u.pact /\ t.hooks = u.hooks /\ t.todo = u.todo
        /\ t.odd = u.odd /\ t.bye = u.bye /\ t.slots = u.slots
        /\ t.prop = [u.prop EXCEPT ![i] = [@ EXCEPT !.answer = "fail"]]
    <3>1. /\ u \in PartnersState /\ x \in Agents /\ job \in JobType /\ job.for = "receive"
          /\ job.with = i /\ i \in Proposals
      BY <1>1, <1>5, <1>7
    <3>2. t = Failed(u, x, job) BY <1>11
    <3> QED BY ONLY <3>1, <3>2, ReceiveFailed
  <2>2. "fail" # "ok" /\ "fail" \in {"ok", "fail"} OBVIOUS
  <2> QED BY <1>9, <2>1, <2>2 DEF t, u, p, partner, x, y
<1>12. CASE /\ t = v
            /\ v \in PartnersState /\ v.hooks = [u.hooks EXCEPT ![x] = @ \cup {job}]
            /\ v.present = u.present /\ v.pact = u.pact /\ v.slots = u.slots
            /\ v.bye = u.bye /\ v.todo = u.todo /\ v.prop = u.prop /\ v.odd = u.odd
            /\ partner.slot = NoSlot \/ partner.slot \in u.slots[x].held
  <2>1. /\ t.hooks = [s.hooks EXCEPT ![x] = @ \cup {job}] /\ t.todo = s.todo
        /\ t.present = s.present /\ t.pact = s.pact /\ t.bye = s.bye /\ s.odd \subseteq t.odd
        /\ t.prop = [s.prop EXCEPT ![i] = r] /\ t \in PartnersState /\ t.slots = s.slots
    BY <1>5, <1>12
  <2>2. Moves(s, t, x, JobsOf(s, x), {}, {job}) BY <1>1, <2>1, HookAdded
  <2>3. t.prop[i] = r BY <1>1, <2>1 DEF PartnersState
  <2>4. JobOK(t, x, job) /\ job.partner.peer = y
    BY <1>0, <1>2, <1>3, <1>7, <2>3 DEF JobOK
  <2>5. /\ \A j \in t.hooks[x] : j \in s.hooks[x] \/ j.for \in {"propose", "receive"}
        /\ \A j \in Elems(t.todo[x]) : j \in Elems(s.todo[x]) \/ j.step = "release"
    BY <1>1, <1>7, <2>1 DEF PartnersState
  <2>6. PairStep(s, t, x, y, JobsOf(s, x), {}, {job})
    <3>1. \A n \in {job} : JobOK(t, x, n) /\ n.partner.peer = y BY <2>4
    <3>2. /\ r.from = s.prop[i].from /\ r.to = s.prop[i].to /\ r.phase # "none"
          /\ s.prop[i].taken => r.taken
          /\ r.answer # "none" => r.taken
      BY <1>0, <1>2
    <3> QED BY <1>1, <1>2, <1>8, <2>1, <2>2, <2>5, <3>1, <3>2, ProposalStep
  <2>7. PartnersOK(t) BY <2>6 DEF PairStep
  <2>8. ASSUME PairsOK(s) PROVE PairsOK(t)
    <3>1. t.prop = [s.prop EXCEPT ![i] = [@ EXCEPT !.taken = TRUE]]
      BY <1>1, <2>1 DEF r, p, PartnersState
    <3> QED BY <1>1, <1>7, <2>1, <2>6, <2>8, <3>1, <1>0, ReceiverCalled
  <2>9. PropLess(s, t)
    <3>1. /\ r.from = s.prop[i].from /\ r.to = s.prop[i].to /\ r.own = s.prop[i].own
          /\ r.theirs = s.prop[i].theirs /\ (s.prop[i].taken => r.taken)
          /\ s.prop[i].phase = "asked"
      BY <1>0, <1>2, <1>8
    <3> QED BY <1>1, <2>1, <3>1, ProposalLess
  <2>10. ASSUME SlotsOK(s)
         PROVE  /\ Account(t, x, JobsOf(s, x) \cup {job}) /\ JobSound(job)
                /\ \A l \in JobsOf(s, x) : SlotKey[job] \cap SlotKey[l] = {}
    <3> DEFINE R == JobsOf(s, x)
    <3>1. Account(s, x, R) BY <1>1, <2>10 DEF SlotsOK
    <3>2. x # y BY <1>0, <1>1, <1>8, <2>10 DEF SlotsOK
    <3>3. Pledges(t, x, i) = {} BY <1>0, <1>2, <2>3, <3>2 DEF Pledges
    <3>4. job.partner.slot = NoSlot \/ job.partner.slot \in Pledges(s, x, i)
      <4>1. job.partner.slot = p.theirs /\ p.theirs \in Nat
        BY <1>1, <1>3, <1>7 DEF ProposalType
      <4> QED BY <1>0, <1>8, <4>1 DEF Pledges
    <3>5. job.partner.slot = NoSlot \/ job.partner.slot \in s.slots[x].held
      BY <1>5, <1>7, <1>12
    <3>6. Brings(job) /\ JobSound(job) BY <1>7 DEF Brings, JobSound
    <3>7. R \in SUBSET JobType BY JobTyped, <1>1
    <3> HIDE DEF R
    <3>8. /\ Account(t, x, R \cup {job})
          /\ job.partner.slot = NoSlot \/ job.partner.slot \notin Coming(R)
      BY <1>1, <1>7, <2>1, <2>9, <2>10, <3>1, <3>3, <3>4, <3>5, <3>6, AccountArrived
    <3>9. \A l \in R : SlotKey[job] \cap SlotKey[l] = {} BY <1>7, <3>7, <3>8, KeysFresh
    <3> QED BY <3>6, <3>8, <3>9 DEF R
  <2>11. SlotsKept(s, t)
    <3>1. \A l \in t.hooks[x] : l \in s.hooks[x] \/ l.step # "allocate"
      BY <1>1, <1>7, <2>1 DEF PartnersState
    <3>2. /\ t.slots = s.slots /\ t.pact = s.pact /\ t \in PartnersState /\ s \in PartnersState
          /\ x \in Agents
          /\ \A a, b \in Agents :
               /\ a # x => t.bye[a][b].partner = s.bye[a][b].partner
               /\ t.bye[a][b].phase # "none"
                    => s.bye[a][b].phase # "none" \/ "restarted" \notin Manners
      BY <1>1, <2>1
    <3>3. Careful /\ SlotsOK(s) =>
            /\ Account(t, x, JobsOf(s, x) \cup {job}) /\ JobSound(job)
            /\ \A l \in JobsOf(s, x) : SlotKey[job] \cap SlotKey[l] = {}
      BY <2>10
    <3> QED BY ONLY <2>2, <2>9, <3>1, <3>2, <3>3, SlotsAdded
  <2> QED BY <2>7, <2>8, <2>11 DEF Kept, SidesKept, t, u, p, partner, x, y
<1> QED BY <1>7, <1>10, <1>11, <1>12

LEMMA StoredAtOnce ==
  ASSUME NEW s, NEW t, NEW x \in Agents, NEW y \in Agents, NEW R,
         PairStep(s, t, x, y, R, {}, {}), PairsOK(s), NEW i \in Proposals,
         s.prop[i].phase = "asked", s.prop[i].answer = "ok",
         s.prop[i].from = x, s.prop[i].to = y,
         t.bye = s.bye, t.prop = [s.prop EXCEPT ![i] = [@ EXCEPT !.phase = "done"]],
         t.pact = s.pact, Knows(s, x, y)
  PROVE  PairsOK(t)
<1> DEFINE D == {}
<1>1. D = {} /\ s.prop[i].phase = "asked" /\ s.prop[i].answer = "ok" OBVIOUS
<1>2. PairStep(s, t, x, y, R, D, {}) OBVIOUS
<1>3. Knows(t, x, y) BY DEF Found, Knows
<1>4. /\ PairsOK(s) /\ s.prop[i].from = x /\ s.prop[i].to = y /\ t.bye = s.bye
      /\ t.prop = [s.prop EXCEPT ![i] = [@ EXCEPT !.phase = "done"]]
      /\ x \in Agents /\ y \in Agents /\ i \in Proposals
  OBVIOUS
<1> HIDE DEF D
<1> QED BY ONLY <1>1, <1>2, <1>3, <1>4, ProposalStored, ZenonT(60)

LEMMA ProposeDone ==
  ASSUME NEW s \in PartnersState, NEW x \in Agents, NEW j \in JobType, j.for = "propose",
         NEW i \in Proposals, j.with = i, NEW t, t = Done(s, x, j)
  PROVE  /\ t \in PartnersState /\ t.present = s.present /\ t.pact = s.pact
         /\ t.slots = s.slots /\ t.hooks = s.hooks /\ t.todo = s.todo /\ t.odd = s.odd
         /\ t.bye = s.bye /\ t.prop = [s.prop EXCEPT ![i] = [@ EXCEPT !.phase = "done"]]
<1> DEFINE p == [s.prop[i] EXCEPT !.phase = "done"]
<1>1. s.prop[i] \in ProposalType BY DEF PartnersState
<1>2. p \in ProposalType BY <1>1 DEF ProposalType
<1>3. /\ t = [s EXCEPT !.prop[i] = p]
      /\ [s.prop EXCEPT ![i] = [@ EXCEPT !.phase = "done"]] = [s.prop EXCEPT ![i] = p]
  BY DEF Done, PartnersState
<1> HIDE DEF p
<1> QED BY <1>2, <1>3, PropFields

LEMMA ProposeFailed ==
  ASSUME NEW s \in PartnersState, NEW x \in Agents, NEW j \in JobType, j.for = "propose",
         NEW i \in Proposals, j.with = i, NEW t, t = Failed(s, x, j)
  PROVE  /\ t \in PartnersState /\ t.present = s.present /\ t.pact = s.pact
         /\ t.slots = s.slots /\ t.hooks = s.hooks /\ t.todo = s.todo
         /\ t.odd = s.odd \cup {{x, j.partner.peer}}
         /\ t.bye = s.bye /\ t.prop = [s.prop EXCEPT ![i] = [@ EXCEPT !.phase = "done"]]
<1> DEFINE p == [s.prop[i] EXCEPT !.phase = "done"]
           u == [s EXCEPT !.prop[i] = p]
           y == j.partner.peer
<1>1. s.prop[i] \in ProposalType BY DEF PartnersState
<1>2. p \in ProposalType BY <1>1 DEF ProposalType
<1>3. /\ t = Odd(u, x, y)
      /\ [s.prop EXCEPT ![i] = [@ EXCEPT !.phase = "done"]] = [s.prop EXCEPT ![i] = p]
  BY DEF Failed, PartnersState
<1> HIDE DEF p
<1>4. /\ u \in PartnersState /\ u.prop = [s.prop EXCEPT ![i] = p]
      /\ u.present = s.present /\ u.pact = s.pact /\ u.slots = s.slots
      /\ u.hooks = s.hooks /\ u.todo = s.todo /\ u.bye = s.bye /\ u.odd = s.odd
  BY <1>2, PropFields
<1> HIDE DEF u
<1>5. x \in Peers /\ y \in Peers BY DEF Peers, JobType, KnownPartner
<1> HIDE DEF y
<1>6. LET w == Odd(u, x, y)
      IN  /\ w \in PartnersState /\ w.odd = u.odd \cup {{x, y}}
          /\ w.present = u.present /\ w.pact = u.pact /\ w.slots = u.slots
          /\ w.hooks = u.hooks /\ w.todo = u.todo /\ w.prop = u.prop /\ w.bye = u.bye
  BY <1>4, <1>5, OddFields
<1> QED BY <1>3, <1>4, <1>6 DEF y

LEMMA GotReplyKept ==
  ASSUME NEW s, PartnersOK(s), NEW i \in Proposals, s.prop[i].phase = "asked",
         s.prop[i].answer = "ok"
  PROVE  LET p == s.prop[i]
         IN  Kept(s, Create([s EXCEPT !.prop[i].phase = "creating"], p.from, "propose", i,
                            Partner(p.to, p.own), p.old))
<1> DEFINE p == s.prop[i]
           x == p.from
           y == p.to
           u == [s EXCEPT !.prop[i].phase = "creating"]
           r == [p EXCEPT !.phase = "creating"]
           partner == Partner(y, p.own)
           old == p.old
           job == Job("propose", i, partner, old, "initiate")
           t == Create(u, x, "propose", i, partner, old)
<1>1. s \in PartnersState /\ p \in ProposalType /\ x \in Agents /\ y \in Agents
  BY DEF PartnersOK, PartnersState
<1>2. /\ r \in ProposalType /\ r.taken = p.taken /\ r.phase = "creating" /\ r.answer = p.answer
      /\ r.from = p.from /\ r.to = p.to /\ r.own = p.own /\ r.theirs = p.theirs
  BY <1>1 DEF ProposalType
<1>3. /\ partner \in KnownPartner /\ partner.peer = y /\ partner.slot = p.own
      /\ old \in AnyPartner
  BY <1>1 DEF Partner, KnownPartner, ProposalType
<1>4. u = [s EXCEPT !.prop[i] = r] BY <1>1 DEF PartnersState
<1>0. p.from = x /\ p.to = y /\ s.prop[i] = p OBVIOUS
<1> HIDE DEF r, u, p, partner, x, y, old
<1>5. /\ u \in PartnersState /\ u.prop = [s.prop EXCEPT ![i] = r]
      /\ u.present = s.present /\ u.pact = s.pact /\ u.slots = s.slots
      /\ u.hooks = s.hooks /\ u.todo = s.todo /\ u.bye = s.bye /\ u.odd = s.odd
  BY <1>1, <1>2, <1>4, PropFields
<1>6. u.prop[i] = r BY <1>1, <1>5 DEF PartnersState
<1> DEFINE v == [u EXCEPT !.hooks[x] = @ \cup {job}]
<1>7. /\ job \in JobType /\ job.for = "propose" /\ job.with = i /\ job.partner = partner
      /\ job.step = "initiate"
      /\ \/ t = Done(u, x, job) /\ Knows(u, x, partner.peer)
         \/ t = Failed(u, x, job)
         \/ /\ t = v
            /\ v \in PartnersState /\ v.hooks = [u.hooks EXCEPT ![x] = @ \cup {job}]
            /\ v.present = u.present /\ v.pact = u.pact /\ v.slots = u.slots
            /\ v.bye = u.bye /\ v.todo = u.todo /\ v.prop = u.prop /\ v.odd = u.odd
            /\ partner.slot = NoSlot \/ partner.slot \in u.slots[x].held
  <2>1. /\ "propose" \in {"propose", "receive"} /\ u \in PartnersState /\ x \in Agents
        /\ i \in Proposals /\ partner \in KnownPartner /\ old \in AnyPartner
    BY <1>1, <1>3, <1>5
  <2> QED BY ONLY <2>1, CreateMoves
<1> HIDE DEF job, v, t
<1>8. /\ Ours(s.prop[i].from, s.prop[i].to, x, y) /\ s.prop[i].phase # "none"
      /\ p.phase = "asked" /\ p.taken /\ p.answer = "ok"
  BY <1>0 DEF Ours, PartnersOK
(* The proposal is done at once.                                           *)
<1>9. ASSUME NEW w \in PartnersState,
             w.present = u.present, w.pact = u.pact, w.hooks = u.hooks, w.todo = u.todo,
             w.bye = u.bye, u.odd \subseteq w.odd, w.slots = u.slots,
             w.prop = [u.prop EXCEPT ![i] = [@ EXCEPT !.phase = "done"]],
             Knows(u, x, y) \/ {x, y} \in w.odd
      PROVE  Kept(s, w)
  <2> DEFINE q == [p EXCEPT !.phase = "done"]
  <2>1. /\ q \in ProposalType /\ q.from = p.from /\ q.to = p.to /\ q.phase = "done"
        /\ q.taken = p.taken /\ q.own = p.own /\ q.theirs = p.theirs
        /\ [r EXCEPT !.phase = "done"] = q
    BY <1>1, <1>9 DEF ProposalType, r
  <2> HIDE DEF q
  <2>2. w.prop = [s.prop EXCEPT ![i] = q]
    BY <1>1, <1>5, <1>6, <1>9, <2>1 DEF PartnersState
  <2>3. w.prop = [s.prop EXCEPT ![i] = [@ EXCEPT !.phase = "done"]]
    BY <1>1, <2>2 DEF q, p, PartnersState
  <2>4. Moves(s, w, x, JobsOf(s, x), {}, {}) BY <1>1, <1>5, <1>9, NoMove
  <2>5. /\ w.present = s.present /\ w.pact = s.pact /\ w.bye = s.bye /\ s.odd \subseteq w.odd
        /\ \A j \in w.hooks[x] : j \in s.hooks[x] \/ j.for \in {"propose", "receive"}
        /\ \A j \in Elems(w.todo[x]) : j \in Elems(s.todo[x]) \/ j.step = "release"
    BY <1>5, <1>9
  <2>6. PairStep(s, w, x, y, JobsOf(s, x), {}, {})
    <3>1. \A n \in {} : JobOK(w, x, n) /\ n.partner.peer = y OBVIOUS
    <3>2. /\ q.from = s.prop[i].from /\ q.to = s.prop[i].to /\ q.phase # "none"
          /\ s.prop[i].taken => q.taken
          /\ q.answer # "none" => q.taken
      BY <1>0, <1>8, <2>1
    <3> QED BY <1>1, <1>8, <1>9, <2>1, <2>2, <2>4, <2>5, <3>1, <3>2, ProposalStep
  <2>7. PartnersOK(w) BY <2>6 DEF PairStep
  <2>8. ASSUME PairsOK(s) PROVE PairsOK(w)
    <3>2. s.prop[i].from = x /\ s.prop[i].to = y /\ w.bye = s.bye /\ w.pact = s.pact
          /\ s.prop[i].phase = "asked" /\ s.prop[i].answer = "ok"
      BY <1>0, <1>8, <2>5
    <3>3. x \in Agents /\ y \in Agents /\ i \in Proposals
      BY <1>1, <1>9
    <3>4. CASE Knows(u, x, y)
      <4>1. Knows(s, x, y) BY <1>5, <3>4 DEF Knows, Found
      <4> QED BY ONLY <2>3, <2>6, <2>8, <3>2, <3>3, <4>1, StoredAtOnce
    <3>5. CASE {x, y} \in w.odd
      <4>1. ~Regular(w, x, y) BY <3>5 DEF Regular
      <4> QED BY ONLY <2>6, <2>8, <3>3, <4>1, PairSpoilt
    <3> QED BY <1>9, <3>4, <3>5
  <2>9. SlotsKept(s, w)
    <3>3. /\ q.from = s.prop[i].from /\ q.to = s.prop[i].to /\ q.own = s.prop[i].own
          /\ q.theirs = s.prop[i].theirs /\ (s.prop[i].taken => q.taken)
          /\ s.prop[i].phase = "asked"
      BY <1>0, <1>8, <2>1
    <3>1. PropLess(s, w) BY <1>1, <2>2, <3>3, ProposalLess
    <3>2. /\ w.slots = s.slots /\ w.pact = s.pact /\ w.hooks = s.hooks /\ w.todo = s.todo
          /\ w.bye = s.bye
      BY <1>5, <1>9
    <3> QED BY <1>1, <1>9, <3>1, <3>2, SlotsStill
  <2> QED BY <2>7, <2>8, <2>9 DEF Kept, SidesKept
<1>10. CASE t = Done(u, x, job) /\ Knows(u, x, partner.peer)
  <2>1. /\ t \in PartnersState
        /\ t.present = u.present /\ t.pact = u.pact /\ t.hooks = u.hooks /\ t.todo = u.todo
        /\ t.odd = u.odd /\ t.bye = u.bye /\ t.slots = u.slots
        /\ t.prop = [u.prop EXCEPT ![i] = [@ EXCEPT !.phase = "done"]]
    <3>1. /\ u \in PartnersState /\ x \in Agents /\ job \in JobType /\ job.for = "propose"
          /\ job.with = i /\ i \in Proposals
      BY <1>1, <1>5, <1>7
    <3>2. t = Done(u, x, job) BY <1>10
    <3> QED BY ONLY <3>1, <3>2, ProposeDone
  <2>2. Knows(u, x, y) BY <1>3, <1>10
  <2>3. Kept(s, t) BY <1>9, <2>1, <2>2
  <2> QED BY <2>3 DEF t, u, p, partner, x, y, old
<1>11. CASE t = Failed(u, x, job)
  <2>1. /\ t \in PartnersState
        /\ t.present = u.present /\ t.pact = u.pact /\ t.hooks = u.hooks /\ t.todo = u.todo
        /\ t.odd = u.odd \cup {{x, job.partner.peer}} /\ t.bye = u.bye /\ t.slots = u.slots
        /\ t.prop = [u.prop EXCEPT ![i] = [@ EXCEPT !.phase = "done"]]
    <3>1. /\ u \in PartnersState /\ x \in Agents /\ job \in JobType /\ job.for = "propose"
          /\ job.with = i /\ i \in Proposals
      BY <1>1, <1>5, <1>7
    <3>2. t = Failed(u, x, job) BY <1>11
    <3> QED BY ONLY <3>1, <3>2, ProposeFailed
  <2>2. {x, y} \in t.odd /\ u.odd \subseteq t.odd BY <1>3, <1>7, <2>1
  <2>3. Kept(s, t) BY <1>9, <2>1, <2>2
  <2> QED BY <2>3 DEF t, u, p, partner, x, y, old
<1>12. CASE /\ t = v
            /\ v \in PartnersState /\ v.hooks = [u.hooks EXCEPT ![x] = @ \cup {job}]
            /\ v.present = u.present /\ v.pact = u.pact /\ v.slots = u.slots
            /\ v.bye = u.bye /\ v.todo = u.todo /\ v.prop = u.prop /\ v.odd = u.odd
            /\ partner.slot = NoSlot \/ partner.slot \in u.slots[x].held
  <2>1. /\ t.hooks = [s.hooks EXCEPT ![x] = @ \cup {job}] /\ t.todo = s.todo
        /\ t.present = s.present /\ t.pact = s.pact /\ t.bye = s.bye /\ s.odd \subseteq t.odd
        /\ t.prop = [s.prop EXCEPT ![i] = r] /\ t \in PartnersState /\ t.slots = s.slots
    BY <1>5, <1>12
  <2>2. Moves(s, t, x, JobsOf(s, x), {}, {job}) BY <1>1, <2>1, HookAdded
  <2>3. t.prop[i] = r BY <1>1, <2>1 DEF PartnersState
  <2>4. JobOK(t, x, job) /\ job.partner.peer = y
    BY <1>0, <1>2, <1>3, <1>7, <2>3 DEF JobOK
  <2>5. /\ \A j \in t.hooks[x] : j \in s.hooks[x] \/ j.for \in {"propose", "receive"}
        /\ \A j \in Elems(t.todo[x]) : j \in Elems(s.todo[x]) \/ j.step = "release"
    BY <1>1, <1>7, <2>1 DEF PartnersState
  <2>6. PairStep(s, t, x, y, JobsOf(s, x), {}, {job})
    <3>1. \A n \in {job} : JobOK(t, x, n) /\ n.partner.peer = y BY <2>4
    <3>2. /\ r.from = s.prop[i].from /\ r.to = s.prop[i].to /\ r.phase # "none"
          /\ s.prop[i].taken => r.taken
          /\ r.answer # "none" => r.taken
      BY <1>0, <1>2, <1>8
    <3> QED BY <1>1, <1>2, <1>8, <2>1, <2>2, <2>5, <3>1, <3>2, ProposalStep
  <2>7. PartnersOK(t) BY <2>6 DEF PairStep
  <2>8. ASSUME PairsOK(s) PROVE PairsOK(t)
    <3>1. t.prop = [s.prop EXCEPT ![i] = [@ EXCEPT !.phase = "creating"]]
      BY <1>1, <2>1 DEF r, p, PartnersState
    <3> QED BY <1>1, <1>7, <1>8, <2>1, <2>6, <2>8, <3>1, <1>0, ProposerCalled
  <2>9. PropLess(s, t)
    <3>1. /\ r.from = s.prop[i].from /\ r.to = s.prop[i].to /\ r.own = s.prop[i].own
          /\ r.theirs = s.prop[i].theirs /\ (s.prop[i].taken => r.taken)
          /\ s.prop[i].phase = "asked"
      BY <1>0, <1>2, <1>8
    <3> QED BY <1>1, <2>1, <3>1, ProposalLess
  <2>10. ASSUME SlotsOK(s)
         PROVE  /\ Account(t, x, JobsOf(s, x) \cup {job}) /\ JobSound(job)
                /\ \A l \in JobsOf(s, x) : SlotKey[job] \cap SlotKey[l] = {}
    <3> DEFINE R == JobsOf(s, x)
    <3>1. Account(s, x, R) BY <1>1, <2>10 DEF SlotsOK
    <3>2. x # y BY <1>0, <1>1, <1>8, <2>10 DEF SlotsOK
    <3>3. Pledges(t, x, i) = {} BY <1>0, <1>2, <2>3, <3>2 DEF Pledges
    <3>4. job.partner.slot = NoSlot \/ job.partner.slot \in Pledges(s, x, i)
      <4>1. job.partner.slot = p.own /\ p.own \in Nat
        BY <1>1, <1>3, <1>7 DEF ProposalType
      <4> QED BY <1>0, <1>8, <4>1 DEF Pledges
    <3>5. job.partner.slot = NoSlot \/ job.partner.slot \in s.slots[x].held
      BY <1>5, <1>7, <1>12
    <3>6. Brings(job) /\ JobSound(job) BY <1>7 DEF Brings, JobSound
    <3>7. R \in SUBSET JobType BY JobTyped, <1>1
    <3> HIDE DEF R
    <3>8. /\ Account(t, x, R \cup {job})
          /\ job.partner.slot = NoSlot \/ job.partner.slot \notin Coming(R)
      BY <1>1, <1>7, <2>1, <2>9, <2>10, <3>1, <3>3, <3>4, <3>5, <3>6, AccountArrived
    <3>9. \A l \in R : SlotKey[job] \cap SlotKey[l] = {} BY <1>7, <3>7, <3>8, KeysFresh
    <3> QED BY <3>6, <3>8, <3>9 DEF R
  <2>11. SlotsKept(s, t)
    <3>1. \A l \in t.hooks[x] : l \in s.hooks[x] \/ l.step # "allocate"
      BY <1>1, <1>7, <2>1 DEF PartnersState
    <3>2. /\ t.slots = s.slots /\ t.pact = s.pact /\ t \in PartnersState /\ s \in PartnersState
          /\ x \in Agents
          /\ \A a, b \in Agents :
               /\ a # x => t.bye[a][b].partner = s.bye[a][b].partner
               /\ t.bye[a][b].phase # "none"
                    => s.bye[a][b].phase # "none" \/ "restarted" \notin Manners
      BY <1>1, <2>1
    <3>3. Careful /\ SlotsOK(s) =>
            /\ Account(t, x, JobsOf(s, x) \cup {job}) /\ JobSound(job)
            /\ \A l \in JobsOf(s, x) : SlotKey[job] \cap SlotKey[l] = {}
      BY <2>10
    <3> QED BY ONLY <2>2, <2>9, <3>1, <3>2, <3>3, SlotsAdded
  <2> QED BY <2>7, <2>8, <2>11 DEF Kept, SidesKept, t, u, p, partner, x, y, old
<1> QED BY <1>7, <1>10, <1>11, <1>12

(* What _release_allocation() queues.                                      *)
OnlyOf(N, n) == N = {} \/ \E j : N = {j} /\ j.partner.slot = n /\ n # NoSlot

LEMMA DeclinedMoves ==
  ASSUME NEW u \in PartnersState, NEW i \in Proposals, NEW x \in Agents, NEW y \in Agents,
         u.prop[i].from = x, u.prop[i].to = y, NEW t, t = Declined(u, i)
  PROVE  /\ t \in PartnersState /\ t.present = u.present /\ t.pact = u.pact
         /\ t.hooks = u.hooks /\ t.prop = u.prop /\ t.bye = u.bye /\ t.odd = u.odd
         /\ t.slots = u.slots
         /\ \E N \in SUBSET JobType :
              /\ Moves(u, t, x, JobsOf(u, x), {}, N)
              /\ \A n \in N : n.for = "release" /\ n.step = "release" /\ n.partner.peer = y
              /\ OnlyOf(N, u.prop[i].own)
         /\ \A j \in Elems(t.todo[x]) : j \in Elems(u.todo[x]) \/ j.step = "release"
<1> DEFINE p == u.prop[i]
           job == Job("release", i, Partner(p.to, p.own), NoPartner, "release")
<1>1. p \in ProposalType BY DEF PartnersState
<1>2. /\ job \in JobType /\ job.for = "release" /\ job.step = "release"
      /\ job.partner.peer = y /\ job.partner.slot = p.own
  BY <1>1, PartnersBoundsAssumption
  DEF Job, JobType, Partner, KnownPartner, AnyPartner, NoPartner, Peers, NoSlot, ProposalType,
      Proposals
<1>3. CASE t = u
  <2>1. Moves(u, t, x, JobsOf(u, x), {}, {}) BY <1>3, NoMove
  <2>2. {} \in SUBSET JobType /\ \A n \in {} : n.for = "release" /\ n.step = "release"
                                              /\ n.partner.peer = y
    OBVIOUS
  <2> QED BY <1>3, <2>1, <2>2 DEF OnlyOf
<1>4. CASE t = Queue(u, x, job) /\ p.own # NoSlot
  <2>5. job.partner.slot = u.prop[i].own /\ u.prop[i].own # NoSlot BY <1>2, <1>4
  <2> HIDE DEF job, p
  <2>1. /\ t \in PartnersState /\ t.todo = [u.todo EXCEPT ![x] = Append(@, job)]
        /\ t.present = u.present /\ t.pact = u.pact /\ t.slots = u.slots
        /\ t.hooks = u.hooks /\ t.prop = u.prop /\ t.bye = u.bye /\ t.odd = u.odd
    BY <1>2, <1>4, QueueFields
  <2>2. Moves(u, t, x, JobsOf(u, x), {}, {job}) BY <1>2, <2>1, UpdateQueued
  <2>3. \A j \in Elems(t.todo[x]) : j \in Elems(u.todo[x]) \/ j.step = "release"
    <3>1. u.todo[x] \in Seq(JobType) /\ t.todo[x] = Append(u.todo[x], job)
      BY <2>1 DEF PartnersState
    <3>2. Elems(t.todo[x]) = Elems(u.todo[x]) \cup {job} BY <1>2, <3>1, ElemsAppend
    <3> QED BY <1>2, <3>2
  <2>4. {job} \in SUBSET JobType /\ \A n \in {job} : n.for = "release" /\ n.step = "release"
                                              /\ n.partner.peer = y
    BY <1>2
  <2> QED BY <2>1, <2>2, <2>3, <2>4, <2>5 DEF OnlyOf
<1>5. t = u \/ (t = Queue(u, x, job) /\ p.own # NoSlot) BY DEF Declined
<1> QED BY <1>3, <1>4, <1>5

(* A proposal fails, or is given up: t may differ in what went wrong.      *)
LEMMA ProposalOver ==
  ASSUME NEW s, PartnersOK(s), NEW i \in Proposals, s.prop[i].phase = "asked",
         NEW d, d = Declined([s EXCEPT !.prop[i].phase = "done"], i),
         NEW t \in PartnersState, t.present = d.present, t.pact = d.pact, t.hooks = d.hooks,
         t.todo = d.todo, t.prop = d.prop, t.bye = d.bye, d.odd \subseteq t.odd,
         t.slots = d.slots,
         \/ s.prop[i].answer = "fail" \/ ~s.prop[i].taken
         \/ {s.prop[i].from, s.prop[i].to} \in t.odd
  PROVE  Kept(s, t)
<1> DEFINE p == s.prop[i]
           x == p.from
           y == p.to
           u == [s EXCEPT !.prop[i].phase = "done"]
           q == [p EXCEPT !.phase = "done"]
<1>1. s \in PartnersState /\ p \in ProposalType /\ x \in Agents /\ y \in Agents
  BY DEF PartnersOK, PartnersState
<1>2. /\ q \in ProposalType /\ q.taken = p.taken /\ q.phase = "done" /\ q.answer = p.answer
      /\ q.from = p.from /\ q.to = p.to /\ q.own = p.own /\ q.theirs = p.theirs
  BY <1>1 DEF ProposalType
<1>3. u = [s EXCEPT !.prop[i] = q] BY <1>1 DEF PartnersState
<1>0. p.from = x /\ p.to = y /\ s.prop[i] = p /\ d = Declined(u, i) OBVIOUS
<1>14. t.prop = [s.prop EXCEPT ![i] = q] =>
         t.prop = [s.prop EXCEPT ![i] = [@ EXCEPT !.phase = "done"]]
  BY <1>1 DEF PartnersState
<1>13. p.answer = "fail" \/ ~p.taken \/ {x, y} \in t.odd OBVIOUS
<1> HIDE DEF q, u, p, x, y
<1>5. /\ u \in PartnersState /\ u.prop = [s.prop EXCEPT ![i] = q]
      /\ u.present = s.present /\ u.pact = s.pact /\ u.slots = s.slots
      /\ u.hooks = s.hooks /\ u.todo = s.todo /\ u.bye = s.bye /\ u.odd = s.odd
  BY <1>1, <1>2, <1>3, PropFields
<1>6. u.prop[i] = q /\ u.prop[i].from = x /\ u.prop[i].to = y
  BY <1>0, <1>1, <1>2, <1>5 DEF PartnersState
<1>15. /\ d \in PartnersState /\ d.present = u.present /\ d.pact = u.pact
       /\ d.hooks = u.hooks /\ d.prop = u.prop /\ d.bye = u.bye /\ d.odd = u.odd
       /\ d.slots = u.slots
       /\ \E N \in SUBSET JobType :
            /\ Moves(u, d, x, JobsOf(u, x), {}, N)
            /\ \A n \in N : n.for = "release" /\ n.step = "release" /\ n.partner.peer = y
            /\ OnlyOf(N, u.prop[i].own)
       /\ \A j \in Elems(d.todo[x]) : j \in Elems(u.todo[x]) \/ j.step = "release"
  <2>1. /\ d = Declined(u, i) /\ u \in PartnersState /\ x \in Agents /\ y \in Agents
        /\ u.prop[i].from = x /\ u.prop[i].to = y /\ i \in Proposals
    BY <1>0, <1>1, <1>5, <1>6
  <2> QED BY ONLY <2>1, DeclinedMoves
<1>7. PICK N \in SUBSET JobType :
        /\ Moves(u, d, x, JobsOf(u, x), {}, N)
        /\ \A n \in N : n.for = "release" /\ n.step = "release" /\ n.partner.peer = y
        /\ OnlyOf(N, u.prop[i].own)
  BY <1>15
<1>8. /\ d \in PartnersState /\ d.present = u.present /\ d.pact = u.pact
      /\ d.hooks = u.hooks /\ d.prop = u.prop /\ d.bye = u.bye /\ d.odd = u.odd
      /\ \A j \in Elems(d.todo[x]) : j \in Elems(u.todo[x]) \/ j.step = "release"
  BY <1>15
<1>9. Moves(s, t, x, JobsOf(s, x), {}, N)
  <2>1. JobsOf(u, x) = JobsOf(s, x) /\ JobsOf(d, x) = JobsOf(t, x) BY <1>5 DEF JobsOf
  <2> QED BY <1>5, <1>7, <2>1 DEF Moves
<1>10. PairStep(s, t, x, y, JobsOf(s, x), {}, N)
  <2>1. \A n \in N : JobOK(t, x, n) /\ n.partner.peer = y BY <1>7 DEF JobOK
  <2>2. /\ q.from = s.prop[i].from /\ q.to = s.prop[i].to /\ q.phase # "none"
        /\ s.prop[i].taken => q.taken
        /\ q.answer # "none" => q.taken
    BY <1>0, <1>2 DEF PartnersOK
  <2>3. Ours(s.prop[i].from, s.prop[i].to, x, y) /\ s.prop[i].phase # "none"
    BY <1>0 DEF Ours
  <2>4. /\ t.present = s.present /\ t.pact = s.pact /\ t.bye = s.bye /\ s.odd \subseteq t.odd
        /\ t.prop = [s.prop EXCEPT ![i] = q]
        /\ \A j \in t.hooks[x] : j \in s.hooks[x] \/ j.for \in {"propose", "receive"}
        /\ \A j \in Elems(t.todo[x]) : j \in Elems(s.todo[x]) \/ j.step = "release"
    BY <1>5, <1>8
  <2> QED BY <1>1, <1>2, <1>9, <2>1, <2>2, <2>3, <2>4, ProposalStep
<1>11. PartnersOK(t) BY <1>10 DEF PairStep
<1>12. ASSUME PairsOK(s) PROVE PairsOK(t)
  <2>1. CASE {x, y} \in t.odd
    <3>1. ~Regular(t, x, y) BY <2>1 DEF Regular
    <3> QED BY ONLY <1>1, <1>10, <1>12, <3>1, PairSpoilt
  <2>2. CASE p.answer = "fail" \/ ~p.taken
    <3>1. /\ s.prop[i].phase = "asked" /\ s.prop[i].from = x /\ s.prop[i].to = y
          /\ s.prop[i].answer = "fail" \/ ~s.prop[i].taken
          /\ t.bye = s.bye /\ t.pact = s.pact
          /\ t.prop = [s.prop EXCEPT ![i] = [@ EXCEPT !.phase = "done"]]
          /\ \A n \in N : n.for = "release" /\ n.step = "release"
      BY <1>0, <1>5, <1>7, <1>8, <1>14, <2>2
    <3> QED BY ONLY <1>1, <1>10, <1>12, <3>1, i \in Proposals, ProposalEnds
  <2> QED BY <1>13, <2>1, <2>2
<1>16. /\ t.slots = s.slots /\ t.pact = s.pact /\ t.hooks = s.hooks /\ t.bye = s.bye
       /\ t.prop = [s.prop EXCEPT ![i] = q]
  BY <1>5, <1>8, <1>15
<1>17. PropLess(s, t)
  <2>1. p.phase = "asked" BY <1>0
  <2> QED BY <1>0, <1>1, <1>2, <1>16, <2>1, ProposalLess
<1>18. SlotsKept(s, t)
  <2>1. CASE N = {}
    <3> DEFINE R == JobsOf(s, x)
    <3>1. Moves(s, t, x, R, {}, {}) BY <1>9, <2>1
    <3>2. SUFFICES ASSUME Careful, SlotsOK(s) PROVE SlotsOK(t) BY DEF SlotsKept
    <3>3. Aside(s, t, x) BY <1>16, <1>17 DEF Aside
    <3>4. Account(t, x, R)
      <4>1. Account(s, x, R) BY <1>1, <3>2 DEF SlotsOK
      <4>2. Pledged(t, x) \subseteq Pledged(s, x) BY <1>17, PledgesLess
      <4>3. Farewells(t, x) = Farewells(s, x) BY <1>16 DEF Farewells
      <4>4. Farewells(t, x) \cup Parting(R)
              \subseteq s.pact[x] \cup Parting(R) \cup Farewells(s, x) \cup {NoPartner}
        BY <4>3
      <4> HIDE DEF R
      <4> QED BY <1>16, <4>1, <4>2, <4>4, AccountLess
    <3>5. R \cup {} = R OBVIOUS
    <3> HIDE DEF R
    <3>6. /\ \A n \in {} : JobSound(n)
          /\ \A n \in {} : \A l \in R : SlotKey[n] \cap SlotKey[l] = {}
          /\ \A l \in t.hooks[x] : l \in s.hooks[x] \/ l.step # "allocate"
          /\ Account(t, x, R \cup {})
      BY <1>16, <3>4, <3>5
    <3> QED BY <1>1, <3>1, <3>2, <3>3, <3>6, SlotsStep
  <2>2. CASE N # {}
    <3>1. PICK n : N = {n} /\ n.partner.slot = u.prop[i].own /\ u.prop[i].own # NoSlot
      BY <1>7, <2>2 DEF OnlyOf
    <3>2. n \in JobType /\ n.for = "release" /\ n.step = "release" BY <1>7, <3>1
    <3>3. n.partner.slot = p.own /\ p.own \in Nat /\ p.own # NoSlot
      BY <1>1, <1>2, <1>6, <3>1 DEF ProposalType
    <3>4. ASSUME SlotsOK(s)
          PROVE  /\ Account(t, x, JobsOf(s, x) \cup {n}) /\ JobSound(n)
                 /\ \A l \in JobsOf(s, x) : SlotKey[n] \cap SlotKey[l] = {}
      <4> DEFINE R == JobsOf(s, x)
      <4>1. Account(s, x, R) BY <1>1, <3>4 DEF SlotsOK
      <4>2. t.prop[i] = q BY <1>1, <1>16 DEF PartnersState
      <4>3. Pledges(t, x, i) = {} BY <1>2, <4>2 DEF Pledges
      <4>4. n.partner.slot \in Pledges(s, x, i) BY <1>0, <3>3 DEF Pledges
      <4>5. R \in SUBSET JobType BY <1>1, JobTyped
      <4> HIDE DEF R
      <4>6. Account(t, x, R \cup {n})
        BY <1>1, <1>16, <1>17, <3>2, <3>4, <4>1, <4>3, <4>4, AccountDeclined
      <4>7. \A l \in R : SlotKey[n] \cap SlotKey[l] = {}
        <5>1. ~Brings(n) BY <3>2 DEF Brings
        <5> QED BY <3>2, <4>5, <5>1, KeysFresh
      <4>8. JobSound(n) BY <3>2 DEF JobSound
      <4> QED BY <4>6, <4>7, <4>8 DEF R
    <3>5. Moves(s, t, x, JobsOf(s, x), {}, {n}) BY <1>9, <3>1
    <3>6. /\ t \in PartnersState /\ s \in PartnersState /\ x \in Agents
          /\ t.slots = s.slots /\ t.pact = s.pact
          /\ \A a, b \in Agents :
               /\ a # x => t.bye[a][b].partner = s.bye[a][b].partner
               /\ t.bye[a][b].phase # "none"
                    => s.bye[a][b].phase # "none" \/ "restarted" \notin Manners
          /\ \A l \in t.hooks[x] : l \in s.hooks[x] \/ l.step # "allocate"
      BY <1>1, <1>16
    <3>7. Careful /\ SlotsOK(s) =>
            /\ Account(t, x, JobsOf(s, x) \cup {n}) /\ JobSound(n)
            /\ \A l \in JobsOf(s, x) : SlotKey[n] \cap SlotKey[l] = {}
      BY <3>4
    <3> QED BY ONLY <1>17, <3>5, <3>6, <3>7, SlotsAdded
  <2> QED BY <2>1, <2>2
<1> QED BY <1>11, <1>12, <1>18 DEF Kept, SidesKept

(* The action of the specification.                                        *)
LEMMA ActionKept ==
  ASSUME PartnersOK(PState), NEW t, Kept(PState, t), Now(t)
  PROVE  scene' = scene /\ Kept(PState, PState')
<1>1. PState \in PartnersState /\ t \in PartnersState BY DEF PartnersOK, Kept, SidesKept
<1>2. PState' = t /\ scene' = scene BY <1>1, NowIs
<1> QED BY <1>2

LEMMA DescriptorSavedKept ==
  ASSUME PartnersOK(PState), NEW x \in Agents, DescriptorSaved(x)
  PROVE  scene' = scene /\ Kept(PState, PState')
<1> DEFINE t == StoredUpdate([PState EXCEPT !.todo[x] = Tail(@)], x, Head(todo[x]))
<1>1. PState.todo = todo BY DEF PState
<1>2. todo[x] # <<>> /\ Now(t) BY DEF DescriptorSaved
<1>3. Kept(PState, t) BY <1>1, <1>2, StoredKept
<1> HIDE DEF t
<1> QED BY <1>2, <1>3, ActionKept

LEMMA ProposalRequestedKept ==
  ASSUME PartnersOK(PState), NEW i \in Proposals, ProposalRequested(i)
  PROVE  scene' = scene /\ Kept(PState, PState')
<1> DEFINE p == prop[i]
           t == Create([PState EXCEPT !.prop[i].taken = TRUE], p.to, "receive", i,
                       Partner(p.from, p.theirs), NoPartner)
<1>1. PState.prop = prop BY DEF PState
<1>2. p.phase = "asked" /\ ~p.taken /\ Now(t) BY DEF ProposalRequested
<1>3. Kept(PState, t) BY <1>1, <1>2, ReceivedKept
<1> HIDE DEF t
<1> QED BY <1>2, <1>3, ActionKept

LEMMA DeclinedState ==
  ASSUME NEW s, PartnersOK(s), NEW i \in Proposals, s.prop[i].phase = "asked"
  PROVE  Declined([s EXCEPT !.prop[i].phase = "done"], i) \in PartnersState
<1> DEFINE p == s.prop[i]
           q == [p EXCEPT !.phase = "done"]
           u == [s EXCEPT !.prop[i] = q]
           t == Declined(u, i)
<1>1. s \in PartnersState /\ p \in ProposalType /\ p.from \in Agents /\ p.to \in Agents
  BY DEF PartnersOK, PartnersState
<1>2. q \in ProposalType BY <1>1 DEF ProposalType
<1>3. [s EXCEPT !.prop[i].phase = "done"] = u BY <1>1 DEF PartnersState
<1>4. u \in PartnersState /\ u.prop = [s.prop EXCEPT ![i] = q] BY <1>1, <1>2, PropFields
<1>5. u.prop[i].from = p.from /\ u.prop[i].to = p.to
  BY <1>1, <1>4 DEF PartnersState, ProposalType
<1>6. t = Declined(u, i) OBVIOUS
<1> HIDE DEF u, t
<1>7. t \in PartnersState BY <1>1, <1>4, <1>5, <1>6, DeclinedMoves
<1> QED BY <1>3, <1>6, <1>7

LEMMA GotReplyStep ==
  ASSUME PartnersOK(PState), NEW i \in Proposals, GotReply(i)
  PROVE  scene' = scene /\ Kept(PState, PState')
<1> DEFINE p == prop[i]
<1>1. PState.prop = prop BY DEF PState
<1>2. p.phase = "asked" /\ p.answer # "none" BY DEF GotReply
<1>3. CASE p.answer = "ok"
  <2> DEFINE t == Create([PState EXCEPT !.prop[i].phase = "creating"], p.from, "propose", i,
                         Partner(p.to, p.own), p.old)
  <2>1. Now(t) BY <1>3 DEF GotReply
  <2>2. Kept(PState, t) BY <1>1, <1>2, <1>3, GotReplyKept
  <2> HIDE DEF t
  <2> QED BY <2>1, <2>2, ActionKept
<1>4. CASE p.answer # "ok"
  <2> DEFINE t == Declined([PState EXCEPT !.prop[i].phase = "done"], i)
  <2>1. Now(t) BY <1>4 DEF GotReply
  <2>2. p \in ProposalType BY <1>1 DEF PartnersOK, PartnersState
  <2>3. p.answer = "fail" BY <1>2, <1>4, <2>2 DEF ProposalType
  <2>4. t \in PartnersState BY <1>1, <1>2, DeclinedState
  <2>5. t.odd \subseteq t.odd /\ t.slots = t.slots OBVIOUS
  <2>6. Kept(PState, t) BY <1>1, <1>2, <2>3, <2>4, <2>5, ProposalOver
  <2> HIDE DEF t
  <2> QED BY <2>1, <2>6, ActionKept
<1> QED BY <1>3, <1>4

LEMMA ProposalClosedKept ==
  ASSUME PartnersOK(PState), NEW i \in Proposals, ProposalClosed(i)
  PROVE  scene' = scene /\ Kept(PState, PState')
<1> DEFINE p == prop[i]
           d == Declined([PState EXCEPT !.prop[i].phase = "done"], i)
           t == IF p.taken THEN Odd(d, p.from, p.to) ELSE d
<1>1. PState.prop = prop BY DEF PState
<1>2. p.phase = "asked" /\ Now(t) BY DEF ProposalClosed
<1>3. d \in PartnersState BY <1>1, <1>2, DeclinedState
<1>4. p.from \in Peers /\ p.to \in Peers
  BY <1>1 DEF PartnersOK, PartnersState, ProposalType
<1>5. Kept(PState, t)
  <2>1. CASE p.taken
    <3>1. /\ t \in PartnersState /\ t.odd = d.odd \cup {{p.from, p.to}}
          /\ t.present = d.present /\ t.pact = d.pact /\ t.slots = d.slots
          /\ t.hooks = d.hooks /\ t.todo = d.todo /\ t.prop = d.prop /\ t.bye = d.bye
      <4> HIDE DEF d
      <4> QED BY <1>3, <1>4, <2>1, OddFields
    <3>2. {p.from, p.to} \in t.odd /\ d.odd \subseteq t.odd BY <3>1
    <3> HIDE DEF t
    <3> QED BY <1>1, <1>2, <3>1, <3>2, ProposalOver
  <2>2. CASE ~p.taken
    <3>1. t = d /\ d.odd \subseteq d.odd /\ d.slots = d.slots BY <2>2
    <3>2. Kept(PState, d) BY <1>1, <1>2, <1>3, <2>2, <3>1, ProposalOver
    <3> QED BY <3>1, <3>2
  <2> QED BY <2>1, <2>2
<1> HIDE DEF t
<1> QED BY <1>2, <1>5, ActionKept
(* An allocation is made for a proposal, or none.                          *)
Grants(u, v, x, n) ==
  \/ n = NoSlot /\ v[x] = u[x]
  \/ n = u[x].made + 1 /\ v[x] = [made |-> n, held |-> u[x].held \cup {n}]

LEMMA AccountGranted ==
  ASSUME NEW s, NEW t, NEW z, NEW J, NEW n, Account(s, z, J), Grants(s.slots, t.slots, z, n),
         Pledged(t, z) = Pledged(s, z) \cup ({n} \ {NoSlot}),
         t.pact[z] = s.pact[z], Farewells(t, z) = Farewells(s, z)
  PROVE  Account(t, z, J)
<1> DEFINE N == s.pact[z] \cup Parting(J) \cup Farewells(s, z)
           m == s.slots[z].made
           H == s.slots[z].held
           O == Pledged(s, z)
<1>1. AccountOK(m, H, s.pact[z], N, Coming(J), Ready(J), Moving(J), Going(J), O)
  BY DEF Account
<1>2. CASE n = NoSlot /\ t.slots[z] = s.slots[z]
  <2>1. Pledged(t, z) = O BY <1>2
  <2> QED BY <1>1, <1>2, <2>1 DEF Account
<1>3. CASE n = m + 1 /\ t.slots[z] = [made |-> n, held |-> H \cup {n}]
  <2>1. m \in Nat BY <1>1 DEF AccountOK
  <2>2. Pledged(t, z) = O \cup {m + 1} BY <1>3, <2>1 DEF NoSlot
  <2>3. t.slots[z].made = m + 1 /\ t.slots[z].held = H \cup {m + 1} BY <1>3
  <2> HIDE DEF N, m, H, O
  <2>4. AccountOK(m + 1, H \cup {m + 1}, s.pact[z], N, Coming(J), Ready(J), Moving(J), Going(J),
                  O \cup {m + 1})
    BY <1>1, AccountPledges
  <2> QED BY <2>2, <2>3, <2>4 DEF Account, N
<1> QED BY <1>2, <1>3 DEF Grants

LEMMA ProposedSlots ==
  ASSUME NEW s \in PartnersState, NEW t \in PartnersState, NEW x \in Agents, NEW y \in Agents,
         x # y, NEW i \in Proposals, s.prop[i].phase = "none",
         t.prop[i].from = x, t.prop[i].to = y, t.prop[i].phase = "asked", ~t.prop[i].taken,
         Careful => /\ Grants(s.slots, t.slots, x, t.prop[i].own)
                    /\ Grants(s.slots, t.slots, y, t.prop[i].theirs),
         \A z \in Agents \ {x, y} : t.slots[z] = s.slots[z],
         \A k \in Proposals \ {i} : t.prop[k] = s.prop[k],
         t.pact = s.pact, t.hooks = s.hooks, t.todo = s.todo, t.bye = s.bye
  PROVE  SlotsKept(s, t)
<1>1. SUFFICES ASSUME Careful, SlotsOK(s) PROVE SlotsOK(t) BY DEF SlotsKept
<1>2. \A z \in Agents : \A k \in Proposals \ {i} : Pledges(t, z, k) = Pledges(s, z, k)
  BY DEF Pledges
<1>3. \A z \in Agents : Pledges(s, z, i) = {} BY DEF Pledges
<1>4. \A z \in Agents : Pledged(t, z) = Pledged(s, z) \cup Pledges(t, z, i)
  BY <1>2, <1>3 DEF Pledged
<1>5. t.prop[i].own \in Nat /\ t.prop[i].theirs \in Nat BY DEF PartnersState, ProposalType
<1>6. ASSUME NEW z \in Agents
      PROVE  \E n : Grants(s.slots, t.slots, z, n) /\ Pledges(t, z, i) = {n} \ {NoSlot}
  <2>1. CASE z = x
    <3>1. Pledges(t, z, i) = {t.prop[i].own} \ {NoSlot} BY <1>5, <2>1 DEF Pledges
    <3> QED BY <1>1, <2>1, <3>1
  <2>2. CASE z = y
    <3>1. Pledges(t, z, i) = {t.prop[i].theirs} \ {NoSlot} BY <1>5, <2>2 DEF Pledges
    <3> QED BY <1>1, <2>2, <3>1
  <2>3. CASE z \notin {x, y}
    <3>1. Pledges(t, z, i) = {} BY <2>3 DEF Pledges
    <3>2. Grants(s.slots, t.slots, z, NoSlot) BY <2>3 DEF Grants
    <3>3. Pledges(t, z, i) = {NoSlot} \ {NoSlot} BY <3>1
    <3> QED BY <3>2, <3>3
  <2> QED BY <2>1, <2>2, <2>3
<1>7. \A z \in Agents : JobsOf(t, z) = JobsOf(s, z) BY DEF JobsOf
<1>8. ASSUME NEW z \in Agents
      PROVE  /\ Account(t, z, JobsOf(t, z)) /\ Distinct(t.hooks[z], t.todo[z], SlotKey)
             /\ \A k \in Proposals \ {i} : Pledges(t, z, i) \cap Pledges(t, z, k) = {}
  <2>1. Account(s, z, JobsOf(s, z)) /\ Distinct(s.hooks[z], s.todo[z], SlotKey)
    BY <1>1 DEF SlotsOK
  <2>2. PICK n : Grants(s.slots, t.slots, z, n) /\ Pledges(t, z, i) = {n} \ {NoSlot} BY <1>6
  <2>3. Pledged(t, z) = Pledged(s, z) \cup ({n} \ {NoSlot}) BY <1>4, <2>2
  <2>4. Farewells(t, z) = Farewells(s, z) BY DEF Farewells
  <2>5. Account(t, z, JobsOf(s, z))
    <3> DEFINE J == JobsOf(s, z)
    <3>1. Account(s, z, J) BY <2>1
    <3> HIDE DEF J
    <3>2. Account(t, z, J) BY <2>2, <2>3, <2>4, <3>1, AccountGranted
    <3> QED BY <3>2 DEF J
  <2>6. Pledges(t, z, i) \cap Pledged(s, z) = {}
    <3>1. s.slots[z].made \in Nat /\ Pledged(s, z) \subseteq 1..s.slots[z].made
      BY <2>1 DEF Account, AccountOK
    <3>2. n = NoSlot \/ n = s.slots[z].made + 1 BY <2>2 DEF Grants
    <3> QED BY <2>2, <3>1, <3>2
  <2>7. \A k \in Proposals \ {i} : Pledges(t, z, k) \subseteq Pledged(s, z)
    BY <1>2 DEF Pledged
  <2> QED BY <1>7, <2>1, <2>5, <2>6, <2>7
<1>9. \A z \in Agents : \A k, l \in Proposals :
        k # l => Pledges(t, z, k) \cap Pledges(t, z, l) = {}
  <2> SUFFICES ASSUME NEW z \in Agents, NEW k \in Proposals, NEW l \in Proposals, k # l
               PROVE  Pledges(t, z, k) \cap Pledges(t, z, l) = {}
    OBVIOUS
  <2>1. CASE k = i BY <1>8, <2>1
  <2>2. CASE l = i BY <1>8, <2>2
  <2>3. CASE k # i /\ l # i
    <3>1. Pledges(s, z, k) \cap Pledges(s, z, l) = {} BY <1>1 DEF SlotsOK
    <3> QED BY <1>2, <2>3, <3>1
  <2> QED BY <2>1, <2>2, <2>3
<1>10. \A k \in Proposals : t.prop[k].phase # "none" => t.prop[k].from # t.prop[k].to
  BY <1>1 DEF SlotsOK
<1>11. /\ \A z \in Agents : \A j \in JobsOf(t, z) : JobSound(j)
       /\ \A z \in Agents : \A j \in t.hooks[z] : j.step # "allocate"
       /\ \A z, b \in Agents : t.bye[z][b].phase # "none" => "restarted" \notin Manners
  BY <1>1, <1>7 DEF SlotsOK
<1> QED BY <1>8, <1>9, <1>10, <1>11 DEF SlotsOK

(* establish_partnership()                                                 *)
LEMMA EstablishKept ==
  ASSUME PartnersOK(PState), NEW x \in Agents, NEW y \in Agents, Establish(x, y)
  PROVE  scene' = scene /\ Kept(PState, PState')
<1> DEFINE s == PState
           t == PState'
<1>1. /\ s \in PartnersState /\ s.present = present /\ s.pact = pact /\ s.slots = slots
      /\ s.hooks = hooks /\ s.todo = todo /\ s.prop = prop /\ s.bye = bye /\ s.odd = odd
  BY DEF PartnersOK, PState
<1>2. /\ t.present = present' /\ t.pact = pact' /\ t.slots = slots'
      /\ t.hooks = hooks' /\ t.todo = todo' /\ t.prop = prop' /\ t.bye = bye' /\ t.odd = odd'
      /\ t = [present |-> present', pact |-> pact', slots |-> slots', hooks |-> hooks',
              todo |-> todo', prop |-> prop', bye |-> bye', odd |-> odd']
  BY DEF PState
<1>3. PICK i \in Proposals :
        /\ prop[i].phase = "none"
        /\ \E a \in Nat, b \in Nat, old \in AnyPartner :
             /\ prop' = [prop EXCEPT ![i] =
                          [Unasked EXCEPT !.from = x, !.to = y, !.own = a, !.theirs = b,
                                          !.old = old, !.phase = "asked"]]
             /\ Careful => Grants(slots, slots', x, a) /\ Grants(slots, slots', y, b)
        /\ slots' \in [Agents -> [made : Nat, held : SUBSET Nat]]
        /\ \A z \in Agents \ {x, y} : slots'[z] = slots[z]
  <2>9. PICK i \in Proposals :
       /\ prop[i].phase = "none" /\ \A k \in 1..(i - 1) : prop[k].phase # "none"
       /\ \E own, theirs \in BOOLEAN,
             old \in {NoPartner} \cup (IF "substitute" \in Manners THEN pact[x] ELSE {}) :
            /\ theirs => own \/ old # NoPartner
            /\ old # NoPartner => old.peer # y /\ ~own
            /\ own => slots[x].made < MaxSlots /\ Cardinality(slots[x].held) < Room
            /\ theirs => slots[y].made < MaxSlots /\ Cardinality(slots[y].held) < Room
            /\ LET a == IF old # NoPartner THEN old.slot
                        ELSE IF own THEN slots[x].made + 1 ELSE NoSlot
                   b == IF theirs THEN slots[y].made + 1 ELSE NoSlot
               IN  /\ slots' = [z \in Agents |->
                         CASE z = x /\ own -> [made |-> a, held |-> slots[x].held \cup {a}]
                           [] z = y /\ theirs -> [made |-> b, held |-> slots[y].held \cup {b}]
                           [] OTHER -> slots[z]]
                   /\ prop' = [prop EXCEPT ![i] =
                         [Unasked EXCEPT !.from = x, !.to = y, !.own = a, !.theirs = b,
                                         !.old = old, !.phase = "asked"]]
    BY Zenon DEF Establish
  <2>0. PICK own, theirs \in BOOLEAN,
             old \in {NoPartner} \cup (IF "substitute" \in Manners THEN pact[x] ELSE {}) :
            /\ theirs => own \/ old # NoPartner
            /\ old # NoPartner => old.peer # y /\ ~own
            /\ own => slots[x].made < MaxSlots /\ Cardinality(slots[x].held) < Room
            /\ theirs => slots[y].made < MaxSlots /\ Cardinality(slots[y].held) < Room
            /\ LET a == IF old # NoPartner THEN old.slot
                        ELSE IF own THEN slots[x].made + 1 ELSE NoSlot
                   b == IF theirs THEN slots[y].made + 1 ELSE NoSlot
               IN  /\ slots' = [z \in Agents |->
                         CASE z = x /\ own -> [made |-> a, held |-> slots[x].held \cup {a}]
                           [] z = y /\ theirs -> [made |-> b, held |-> slots[y].held \cup {b}]
                           [] OTHER -> slots[z]]
                   /\ prop' = [prop EXCEPT ![i] =
                         [Unasked EXCEPT !.from = x, !.to = y, !.own = a, !.theirs = b,
                                         !.old = old, !.phase = "asked"]]
    BY ONLY <2>9, Zenon
  <2> DEFINE a == IF old # NoPartner THEN old.slot
                  ELSE IF own THEN slots[x].made + 1 ELSE NoSlot
             b == IF theirs THEN slots[y].made + 1 ELSE NoSlot
  <2>1. old \in AnyPartner /\ old.slot \in Nat
    BY <1>1 DEF PartnersState, KnownPartner, AnyPartner, NoPartner, NoSlot, Peers
  <2>2. slots \in [Agents -> [made : Nat, held : SUBSET Nat]]
    BY <1>1 DEF PartnersState
  <2>3. slots[x].made \in Nat /\ slots[y].made \in Nat BY <2>2
  <2>4. a \in Nat /\ b \in Nat BY <2>1, <2>3 DEF NoSlot
  <2>5. prop' = [prop EXCEPT ![i] =
                  [Unasked EXCEPT !.from = x, !.to = y, !.own = a, !.theirs = b,
                                  !.old = old, !.phase = "asked"]]
        /\ slots' = [z \in Agents |->
                       CASE z = x /\ own -> [made |-> a, held |-> slots[x].held \cup {a}]
                         [] z = y /\ theirs -> [made |-> b, held |-> slots[y].held \cup {b}]
                         [] OTHER -> slots[z]]
    BY <2>0
  <2>11. x # y BY DEF Establish
  <2>12. \A z \in Agents \ {x, y} : slots'[z] = slots[z] BY <2>5
  <2>13. ASSUME Careful PROVE Grants(slots, slots', x, a) /\ Grants(slots, slots', y, b)
    <3>1. old = NoPartner BY <2>13 DEF Careful
    <3>2. Grants(slots, slots', x, a) BY <2>5, <2>11, <3>1 DEF Grants
    <3>3. Grants(slots, slots', y, b) BY <2>5, <2>11 DEF Grants
    <3> QED BY <3>2, <3>3
  <2> HIDE DEF a, b
  <2>6. [made |-> a, held |-> slots[x].held \cup {a}] \in [made : Nat, held : SUBSET Nat]
    BY <2>2, <2>4
  <2>7. [made |-> b, held |-> slots[y].held \cup {b}] \in [made : Nat, held : SUBSET Nat]
    BY <2>2, <2>4
  <2>8. slots' \in [Agents -> [made : Nat, held : SUBSET Nat]]
    BY <2>2, <2>5, <2>6, <2>7
  <2>10. \E c \in Nat, d \in Nat, o \in AnyPartner :
           /\ prop' = [prop EXCEPT ![i] =
                        [Unasked EXCEPT !.from = x, !.to = y, !.own = c, !.theirs = d,
                                        !.old = o, !.phase = "asked"]]
           /\ Careful => Grants(slots, slots', x, c) /\ Grants(slots, slots', y, d)
    BY <2>1, <2>4, <2>5, <2>13
  <2> QED BY <2>9, <2>8, <2>10, <2>12, Zenon
<1>4. PICK p :
        /\ p \in ProposalType /\ prop' = [prop EXCEPT ![i] = p] /\ p.from = x /\ p.to = y
        /\ p.phase = "asked" /\ p.answer = "none" /\ ~p.taken
        /\ Careful => Grants(slots, slots', x, p.own) /\ Grants(slots, slots', y, p.theirs)
  <2>1. PICK a \in Nat, b \in Nat, old \in AnyPartner :
             /\ prop' = [prop EXCEPT ![i] =
                          [Unasked EXCEPT !.from = x, !.to = y, !.own = a, !.theirs = b,
                                          !.old = old, !.phase = "asked"]]
             /\ Careful => Grants(slots, slots', x, a) /\ Grants(slots, slots', y, b)
    BY <1>3
  <2> DEFINE q == [Unasked EXCEPT !.from = x, !.to = y, !.own = a, !.theirs = b,
                                  !.old = old, !.phase = "asked"]
  <2>2. /\ q \in ProposalType /\ q.from = x /\ q.to = y
        /\ q.phase = "asked" /\ q.answer = "none" /\ ~q.taken
        /\ q.own = a /\ q.theirs = b
    BY DEF Unasked, ProposalType, Peers
  <2> HIDE DEF q
  <2> QED BY <2>1, <2>2 DEF q
<1>5. UNCHANGED <<scene, present, pact, hooks, todo, bye, odd>> BY DEF Establish
<1>6. t \in PartnersState
  <2>1. prop' \in [Proposals -> ProposalType] BY <1>1, <1>4 DEF PartnersState
  <2>2. /\ present' \in SUBSET Agents /\ pact' \in [Agents -> SUBSET KnownPartner]
        /\ hooks' \in [Agents -> SUBSET JobType] /\ todo' \in [Agents -> Seq(JobType)]
        /\ bye' \in [Agents -> [Agents -> ByeType]] /\ odd' \in SUBSET SUBSET Peers
    BY <1>1, <1>5 DEF PartnersState
  <2> QED BY <1>2, <1>3, <2>1, <2>2 DEF PartnersState
<1>7. /\ t.present = s.present /\ t.pact = s.pact /\ t.hooks = s.hooks /\ t.todo = s.todo
      /\ t.bye = s.bye /\ t.odd = s.odd
      /\ t.prop[i] = p /\ \A k \in Proposals \ {i} : t.prop[k] = s.prop[k]
  BY <1>1, <1>2, <1>4, <1>5 DEF PartnersState
<1>8. Orderly => /\ bye[x][y].phase = "none" /\ bye[y][x].phase = "none"
                 /\ ~Removes(x, y) /\ ~Removes(y, x)
  BY DEF Establish, Dividing, Orderly
<1>9. s.prop[i].phase = "none" BY <1>1, <1>3
<1>10. \A a, b \in Agents : Removing(s, a, b) => Removes(a, b)
  BY <1>1 DEF Removing, Removes, Tasks, JobsOf, Jobs, Elems
<1> HIDE DEF s, t
<1>11. Moves(s, t, x, JobsOf(s, x), {}, {}) BY <1>1, <1>6, <1>7, NoMove
<1>12. PartnersOK(t)
  <2>1. PartnersOK(s) BY DEF s
  <2>2. \A j \in t.hooks[x] : j.for \in {"propose", "receive", "restarted"}
    BY <1>7, <2>1 DEF PartnersOK
  <2>3. \A j \in Elems(t.todo[x]) : j.step \in Updates BY <1>7, <2>1 DEF PartnersOK
  <2>4. \A k \in Proposals : s.prop[k].phase # "none" =>
          /\ t.prop[k].phase # "none"
          /\ s.prop[k].taken => t.prop[k].taken
          /\ t.prop[k].from = s.prop[k].from /\ t.prop[k].to = s.prop[k].to
    BY <1>7, <1>9
  <2>5. \A k \in Proposals :
          /\ t.prop[k].phase # "none" => t.prop[k].from \in Agents /\ t.prop[k].to \in Agents
          /\ t.prop[k].answer # "none" => t.prop[k].taken
    BY <1>4, <1>7, <2>1 DEF PartnersOK
  <2>6. \A a \in t.present : \A b \in Agents :
           t.bye[a][b].phase # "none" => t.bye[a][b].partner.peer = b
    BY <1>7, <2>1 DEF PartnersOK
  <2>7. /\ \A q, r \in t.pact[x] : q.peer = r.peer => q = r
        /\ \A z \in Agents \ {x} : t.pact[z] = s.pact[z]
        /\ t.present \subseteq s.present /\ \A j \in {} : JobOK(t, x, j)
    BY <1>7, <2>1 DEF PartnersOK
  <2> QED BY ONLY <1>6, <1>11, <2>1, <2>2, <2>3, <2>4, <2>5, <2>6, <2>7, x \in Agents, StillOK
<1>13. PairStep(s, t, x, y, JobsOf(s, x), {}, {})
  <2>1. \A z : Found(t, x, z) = Found(s, x, z) BY <1>7 DEF Found
  <2>2. Ours(t.prop[i].from, t.prop[i].to, x, y) BY <1>4, <1>7 DEF Ours
  <2>3. Elsewhere(s, t, x, y) BY <1>7, <1>9, <2>1, <2>2 DEF Elsewhere
  <2> QED BY <1>11, <1>12, <2>3 DEF PairStep, s
<1>14. ASSUME Orderly, PairsOK(s) PROVE PairsOK(t)
  <2>1. /\ t.prop[i].from = x /\ t.prop[i].to = y /\ t.prop[i].answer = "none"
        /\ s.bye[x][y].phase = "none" /\ s.bye[y][x].phase = "none"
        /\ ~Removing(s, x, y) /\ ~Removing(s, y, x)
    BY <1>1, <1>4, <1>7, <1>8, <1>10, <1>14
  <2> QED BY <1>7, <1>9, <1>13, <1>14, <2>1, Proposed
<1>15. SlotsKept(s, t)
  <2>1. /\ \A z \in Agents \ {x, y} : t.slots[z] = s.slots[z]
        /\ Careful => /\ Grants(s.slots, t.slots, x, t.prop[i].own)
                      /\ Grants(s.slots, t.slots, y, t.prop[i].theirs)
        /\ t.prop[i].from = x /\ t.prop[i].to = y /\ t.prop[i].phase = "asked"
        /\ ~t.prop[i].taken
    BY <1>1, <1>2, <1>3, <1>4, <1>7
  <2>2. x # y BY DEF Establish
  <2> QED BY <1>1, <1>6, <1>7, <1>9, <2>1, <2>2, ProposedSlots
<1> QED BY <1>5, <1>12, <1>14, <1>15 DEF Kept, SidesKept, s, t

-----------------------------------------------------------------------------
(* The steps of a goodbye                                                  *)

LEMMA GoodbyeStep ==
  ASSUME NEW s, PartnersOK(s), NEW t \in PartnersState, NEW x \in Agents, NEW y \in Agents, NEW N,
         t.present = s.present, t.pact = s.pact, t.prop = s.prop, s.odd \subseteq t.odd,
         \A a, b \in Agents : ~Ours(a, b, x, y) => t.bye[a][b] = s.bye[a][b],
         \A a \in s.present : \A b \in Agents :
           Ours(a, b, x, y) /\ t.bye[a][b].phase # "none" => t.bye[a][b].partner.peer = b,
         Moves(s, t, x, JobsOf(s, x), {}, N),
         \A j \in t.hooks[x] : j \in s.hooks[x] \/ j.for = "restarted",
         \A j \in Elems(t.todo[x]) : j \in Elems(s.todo[x]) \/ j.step = "remove",
         \A n \in N : JobOK(t, x, n) /\ n.partner.peer = y
  PROVE  PairStep(s, t, x, y, JobsOf(s, x), {}, N)
<1>1. PartnersOK(t)
  <2>1. \A j \in t.hooks[x] : j.for \in {"propose", "receive", "restarted"} BY DEF PartnersOK
  <2>2. \A j \in Elems(t.todo[x]) : j.step \in Updates BY DEF PartnersOK, Updates
  <2>3. \A k \in Proposals : s.prop[k].phase # "none" =>
          /\ t.prop[k].phase # "none"
          /\ s.prop[k].taken => t.prop[k].taken
          /\ t.prop[k].from = s.prop[k].from /\ t.prop[k].to = s.prop[k].to
    OBVIOUS
  <2>4. \A k \in Proposals :
          /\ t.prop[k].phase # "none" => t.prop[k].from \in Agents /\ t.prop[k].to \in Agents
          /\ t.prop[k].answer # "none" => t.prop[k].taken
    BY DEF PartnersOK
  <2>5. \A a \in t.present : \A b \in Agents :
           t.bye[a][b].phase # "none" => t.bye[a][b].partner.peer = b
    <3> SUFFICES ASSUME NEW a \in t.present, NEW b \in Agents, t.bye[a][b].phase # "none"
                 PROVE  t.bye[a][b].partner.peer = b
      OBVIOUS
    <3>1. a \in s.present /\ a \in Agents BY DEF PartnersState
    <3>2. CASE Ours(a, b, x, y) BY <3>1, <3>2
    <3>3. CASE ~Ours(a, b, x, y) BY <3>1, <3>3 DEF PartnersOK
    <3> QED BY <3>2, <3>3
  <2>6. \A p, r \in t.pact[x] : p.peer = r.peer => p = r BY DEF PartnersOK
  <2>7. (\A z \in Agents \ {x} : t.pact[z] = s.pact[z]) /\ (\A n \in N : JobOK(t, x, n))
        /\ t.present \subseteq s.present
    OBVIOUS
  <2>8. Moves(s, t, x, JobsOf(s, x), {}, N) /\ PartnersOK(s) /\ t \in PartnersState OBVIOUS
  <2> QED BY ONLY <2>1, <2>2, <2>3, <2>4, <2>5, <2>6, <2>7, <2>8, StillOK
<1>2. Elsewhere(s, t, x, y)
  <2>1. \A z : Found(t, x, z) = Found(s, x, z) BY DEF Found
  <2> QED BY <2>1 DEF Elsewhere
<1> QED BY <1>1, <1>2 DEF PairStep

(* An update is queued, and a goodbye may have changed.                    *)
LEMMA QueuedGoodbye ==
  ASSUME NEW s, PartnersOK(s), NEW t \in PartnersState, NEW x \in Agents, NEW y \in Agents,
         t.present = s.present, t.pact = s.pact, t.prop = s.prop, s.odd \subseteq t.odd,
         \A a, b \in Agents : ~Ours(a, b, x, y) => t.bye[a][b] = s.bye[a][b],
         \A a \in s.present : \A b \in Agents :
           Ours(a, b, x, y) /\ t.bye[a][b].phase # "none" => t.bye[a][b].partner.peer = b,
         NEW j \in JobType, j.for \in {"goodbye", "breakup"}, j.step = "remove",
         j.partner.peer = y,
         t.todo = [s.todo EXCEPT ![x] = Append(@, j)], t.hooks = s.hooks
  PROVE  PairStep(s, t, x, y, JobsOf(s, x), {}, {j})
<1>1. s \in PartnersState BY DEF PartnersOK
<1>2. Moves(s, t, x, JobsOf(s, x), {}, {j}) BY <1>1, UpdateQueued
<1>3. \A l \in Elems(t.todo[x]) : l \in Elems(s.todo[x]) \/ l.step = "remove"
  <2>1. s.todo[x] \in Seq(JobType) /\ t.todo[x] = Append(s.todo[x], j)
    BY <1>1 DEF PartnersState
  <2>2. Elems(t.todo[x]) = Elems(s.todo[x]) \cup {j} BY <2>1, ElemsAppend
  <2> QED BY <2>2
<1>4. \A l \in t.hooks[x] : l \in s.hooks[x] \/ l.for = "restarted" OBVIOUS
<1>5. \A n \in {j} : JobOK(t, x, n) /\ n.partner.peer = y BY DEF JobOK
<1> QED BY <1>2, <1>3, <1>4, <1>5, GoodbyeStep

(* A goodbye changes, or the job of one is queued: the partners that may    *)
(* still be removed have been partners before.                             *)
ByeMoves(s, t, x) ==
  /\ t.slots = s.slots /\ t.pact = s.pact /\ t.hooks = s.hooks /\ t.prop = s.prop
  /\ Farewells(t, x) \subseteq s.pact[x] \cup Farewells(s, x) \cup {NoPartner}
  /\ \A a, b \in Agents :
       /\ a # x => t.bye[a][b].partner = s.bye[a][b].partner
       /\ t.bye[a][b].phase # "none" =>
            s.bye[a][b].phase # "none" \/ (Careful => "restarted" \notin Manners)

Removals(s, x, N) ==
  /\ SlotsOK(s) /\ N # {} => "restarted" \notin Manners
  /\ \A n \in N : n \in JobType /\ n.step = "remove" /\ n.for \in {"goodbye", "breakup"}
                  /\ n.partner \in s.pact[x] \cup Farewells(s, x)

LEMMA NoRemovals ==
  ASSUME NEW s, NEW x
  PROVE  Removals(s, x, {})
BY DEF Removals

LEMMA OneRemoval ==
  ASSUME NEW s, NEW x, NEW n \in JobType, n.step = "remove", n.for \in {"goodbye", "breakup"},
         n.partner \in s.pact[x] \cup Farewells(s, x), SlotsOK(s) => "restarted" \notin Manners
  PROVE  Removals(s, x, {n})
BY DEF Removals

LEMMA ByeSlots ==
  ASSUME NEW s \in PartnersState, NEW t \in PartnersState, NEW x \in Agents, NEW N,
         Moves(s, t, x, JobsOf(s, x), {}, N), ByeMoves(s, t, x), Removals(s, x, N)
  PROVE  SlotsKept(s, t)
<1> DEFINE R == JobsOf(s, x)
<1>1. SUFFICES ASSUME Careful, SlotsOK(s) PROVE SlotsOK(t) BY DEF SlotsKept
<1>2. Aside(s, t, x) BY <1>1 DEF Aside, PropLess, ByeMoves
<1>3. \A n \in N : JobSound(n) /\ ~Brings(n) BY <1>1 DEF JobSound, Brings, Removals
<1>4. Account(s, x, R) BY <1>1 DEF SlotsOK
<1>5. Moves(s, t, x, R, {}, N) OBVIOUS
<1> HIDE DEF R
<1>6. Account(t, x, R \cup N)
  <2> DEFINE L == R \cup N
  <2>1. /\ \A n \in N : ~Brings(n) /\ n.for # "restarted" /\ n.step # "release"
        /\ \A l \in L : l \in R \/ l \in N
    BY <1>3 DEF Removals
  <2> HIDE DEF L
  <2>2. Coming(L) \subseteq Coming(R) BY <2>1 DEF Coming, SlotsOf
  <2>3. Ready(L) \subseteq Ready(R) BY <2>1 DEF Ready, SlotsOf
  <2>4. Moving(L) \subseteq Moving(R) BY <2>1 DEF Moving, SlotsOf
  <2>5. Going(L) \subseteq Going(R) BY <2>1 DEF Going, SlotsOf
  <2>6. Parting(L) \subseteq Parting(R) \cup s.pact[x] \cup Farewells(s, x)
    BY <2>1 DEF Parting, Removals
  <2>7. Pledged(t, x) \subseteq Pledged(s, x) BY DEF Pledged, Pledges, ByeMoves
  <2>8. Farewells(t, x) \cup Parting(L)
          \subseteq s.pact[x] \cup Parting(R) \cup Farewells(s, x) \cup {NoPartner}
    BY <2>6 DEF ByeMoves
  <2>9. Account(t, x, L)
    BY <1>4, <2>2, <2>3, <2>4, <2>5, <2>7, <2>8, AccountLess DEF ByeMoves
  <2> QED BY <2>9 DEF L
<1>7. \A n \in N : \A l \in R : SlotKey[n] \cap SlotKey[l] = {}
  BY <1>3 DEF SlotKey, Removals
<1> QED BY <1>1, <1>2, <1>3, <1>5, <1>6, <1>7, SlotsStep DEF ByeMoves

(* The partner of a goodbye of x.                                          *)
LEMMA FarewellsOf ==
  ASSUME NEW s, NEW t, NEW x \in Agents, NEW y \in Agents,
         \A d, e \in Agents : ~(d = x /\ e = y) => t.bye[d][e] = s.bye[d][e]
  PROVE  /\ s.bye[x][y].partner \in Farewells(s, x)
         /\ Farewells(t, x) \subseteq Farewells(s, x) \cup {t.bye[x][y].partner}
         /\ \A z \in Agents \ {x} : Farewells(t, z) = Farewells(s, z)
<1>1. Farewells(t, x) \subseteq Farewells(s, x) \cup {t.bye[x][y].partner}
  <2> SUFFICES ASSUME NEW e \in Agents, e # y PROVE t.bye[x][e].partner \in Farewells(s, x)
    BY DEF Farewells
  <2>1. t.bye[x][e] = s.bye[x][e] OBVIOUS
  <2> QED BY <2>1 DEF Farewells
<1>2. \A z \in Agents \ {x} : Farewells(t, z) = Farewells(s, z) BY DEF Farewells
<1> QED BY <1>1, <1>2 DEF Farewells

LEMMA DoublePartnershipKept ==
  ASSUME PartnersOK(PState), NEW x \in Agents, NEW y \in Agents, DoublePartnership(x, y)
  PROVE  scene' = scene /\ Kept(PState, PState')
<1> DEFINE s == PState
<1>1. PICK old \in pact[x] :
        Now(Odd(Queue(PState, x, Job("breakup", 0, old, NoPartner, "remove")), x, old.peer))
  BY DEF DoublePartnership
<1> DEFINE j == Job("breakup", 0, old, NoPartner, "remove")
           z == old.peer
           c == Queue(s, x, j)
           t == Odd(c, x, z)
<1>2. s \in PartnersState /\ old \in KnownPartner /\ z \in Agents
  BY DEF PartnersOK, PartnersState, PState, KnownPartner
<1>3. /\ j \in JobType /\ j.for \in {"goodbye", "breakup"} /\ j.step = "remove"
      /\ j.partner.peer = z
  BY <1>2 DEF Job, JobType, AnyPartner, NoPartner, Peers, NoSlot
<1>7. Now(t) BY <1>1
<1>11. PartnersOK(s) OBVIOUS
<1> HIDE DEF j, s, z, c
<1>4. /\ c \in PartnersState /\ c.todo = [s.todo EXCEPT ![x] = Append(@, j)]
      /\ c.present = s.present /\ c.pact = s.pact /\ c.slots = s.slots
      /\ c.hooks = s.hooks /\ c.prop = s.prop /\ c.bye = s.bye /\ c.odd = s.odd
  BY <1>2, <1>3, QueueFields DEF c
<1>5. /\ t \in PartnersState /\ t.odd = c.odd \cup {{x, z}}
      /\ t.present = c.present /\ t.pact = c.pact /\ t.slots = c.slots
      /\ t.hooks = c.hooks /\ t.todo = c.todo /\ t.prop = c.prop /\ t.bye = c.bye
  <2>1. x \in Peers /\ z \in Peers BY <1>2 DEF Peers
  <2> QED BY <1>4, <2>1, OddFields
<1> HIDE DEF t
<1>6. PairStep(s, t, x, z, JobsOf(s, x), {}, {j})
  <2>1. \A d \in s.present : \A e \in Agents :
          Ours(d, e, x, z) /\ t.bye[d][e].phase # "none" => t.bye[d][e].partner.peer = e
    BY <1>4, <1>5, <1>11 DEF PartnersOK
  <2>2. /\ t.present = s.present /\ t.pact = s.pact /\ t.prop = s.prop /\ s.odd \subseteq t.odd
        /\ t.todo = [s.todo EXCEPT ![x] = Append(@, j)] /\ t.hooks = s.hooks
        /\ \A a, b \in Agents : ~Ours(a, b, x, z) => t.bye[a][b] = s.bye[a][b]
    BY <1>4, <1>5
  <2> QED BY <1>2, <1>3, <1>5, <1>11, <2>1, <2>2, QueuedGoodbye
<1>8. ~Regular(t, x, z) BY <1>5 DEF Regular
<1>9. PairsOK(s) => PairsOK(t) BY <1>2, <1>6, <1>8, PairSpoilt
<1>12. SlotsKept(s, t) BY DEF SlotsKept, Careful, DoublePartnership
<1>10. Kept(s, t) BY <1>6, <1>9, <1>12 DEF Kept, SidesKept, PairStep
<1> QED BY <1>7, <1>10, ActionKept DEF s

LEMMA BreakupKept ==
  ASSUME PartnersOK(PState), NEW x \in Agents, Breakup(x)
  PROVE  scene' = scene /\ Kept(PState, PState')
<1> DEFINE s == PState
<1>1. PICK p \in pact[x] :
        /\ Quits(x, p) /\ (Between(x, p.peer) => "fickle" \in Manners)
        /\ Now(SayGoodbye(PState, x, p))
  BY DEF Breakup
<1> DEFINE y == p.peer
           q == [phase |-> "sent", partner |-> p, count |-> s.bye[x][y].count + 1]
           t == SayGoodbye(s, x, p)
           u == [s EXCEPT !.bye[x][y] = q]
<1>2. /\ s \in PartnersState /\ s.bye = bye /\ s.prop = prop /\ s.pact = pact
      /\ p \in KnownPartner /\ y \in Agents /\ p \in s.pact[x]
  BY DEF PartnersOK, PartnersState, PState, KnownPartner
<1>3. s.bye[x][y].count \in Nat BY <1>2 DEF PartnersState, ByeType
<1>4. q \in ByeType /\ q.phase = "sent" /\ q.partner = p /\ q.partner.peer = y
  BY <1>2, <1>3 DEF ByeType, AnyPartner, KnownPartner, Peers
<1>5. t = u BY <1>2 DEF SayGoodbye, PartnersState
<1>6. Now(t) /\ PartnersOK(s) BY <1>1
<1>7. /\ s.bye[x][y].phase = "none"
      /\ Orderly => ~Middle(s, x, y) /\ "restarted" \notin Manners
  <2>1. Middle(s, x, y) => Between(x, y)
    BY <1>2 DEF Middle, Path, Between, Proposing, Open
  <2>2. "breakup" \in Manners BY DEF Breakup
  <2> QED BY <1>1, <1>2, <2>1, <2>2 DEF Quits, Orderly
<1> HIDE DEF q, t, s, y
<1>8. /\ u \in PartnersState /\ u.bye = [s.bye EXCEPT ![x][y] = q]
      /\ u.present = s.present /\ u.pact = s.pact /\ u.slots = s.slots
      /\ u.hooks = s.hooks /\ u.todo = s.todo /\ u.prop = s.prop /\ u.odd = s.odd
  BY <1>2, <1>4, ByeFields
<1> HIDE DEF u
<1>9. /\ u.bye[x][y] = q
      /\ \A d, e \in Agents : ~(d = x /\ e = y) => u.bye[d][e] = s.bye[d][e]
  <2>1. s.bye \in [Agents -> [Agents -> ByeType]] /\ u.bye = [s.bye EXCEPT ![x][y] = q]
    BY <1>2, <1>8 DEF PartnersState
  <2>2. u.bye[x][y] = q BY <1>2, <2>1
  <2>3. ASSUME NEW d \in Agents, NEW e \in Agents, ~(d = x /\ e = y)
        PROVE  u.bye[d][e] = s.bye[d][e]
    <3>1. CASE d = x BY <2>1, <2>3, <3>1
    <3>2. CASE d # x BY <2>1, <3>2
    <3> QED BY <3>1, <3>2
  <2> QED BY <2>2, <2>3
<1>10. PairStep(s, u, x, y, JobsOf(s, x), {}, {})
  <2>1. \A d \in s.present : \A e \in Agents :
          Ours(d, e, x, y) /\ u.bye[d][e].phase # "none" => u.bye[d][e].partner.peer = e
    <3> SUFFICES ASSUME NEW d \in s.present, NEW e \in Agents, u.bye[d][e].phase # "none"
                 PROVE  u.bye[d][e].partner.peer = e
      OBVIOUS
    <3>1. d \in Agents BY <1>2 DEF PartnersState
    <3>2. CASE d = x /\ e = y BY <1>4, <1>9, <3>2
    <3>3. CASE ~(d = x /\ e = y) BY <1>6, <1>9, <3>1, <3>3 DEF PartnersOK
    <3> QED BY <3>2, <3>3
  <2>2. Moves(s, u, x, JobsOf(s, x), {}, {}) BY <1>2, <1>8, NoMove
  <2>3. /\ u.present = s.present /\ u.pact = s.pact /\ u.prop = s.prop /\ s.odd \subseteq u.odd
        /\ \A a, b \in Agents : ~Ours(a, b, x, y) => u.bye[a][b] = s.bye[a][b]
        /\ \A j \in u.hooks[x] : j \in s.hooks[x] \/ j.for = "restarted"
        /\ \A j \in Elems(u.todo[x]) : j \in Elems(s.todo[x]) \/ j.step = "remove"
        /\ \A n \in {} : JobOK(u, x, n) /\ n.partner.peer = y
    BY <1>8, <1>9 DEF Ours
  <2> QED BY <1>2, <1>6, <1>8, <2>1, <2>2, <2>3, GoodbyeStep
<1>11. ASSUME Orderly, PairsOK(s) PROVE PairsOK(u)
  <2>1. /\ u.prop = s.prop /\ u.pact = s.pact
        /\ s.bye[x][y].phase = "none" /\ u.bye[x][y].phase = "sent"
        /\ u.bye[x][y].partner \in s.pact[x] /\ ~Middle(s, x, y) /\ "restarted" \notin Manners
    BY <1>2, <1>4, <1>7, <1>8, <1>9, <1>11
  <2> QED BY <1>2, <1>9, <1>10, <1>11, <2>1, GoodbyeSaid
<1>13. SlotsKept(s, u)
  <2>1. Moves(s, u, x, JobsOf(s, x), {}, {}) BY <1>2, <1>8, NoMove
  <2>2. Farewells(u, x) \subseteq Farewells(s, x) \cup {q.partner} BY <1>2, <1>9, FarewellsOf
  <2>3. Careful => "restarted" \notin Manners BY DEF Careful, Breakup
  <2>4. ByeMoves(s, u, x) BY <1>2, <1>4, <1>8, <1>9, <2>2, <2>3 DEF ByeMoves
  <2> QED BY <1>2, <1>8, <2>1, <2>4, NoRemovals, ByeSlots
<1>12. Kept(s, t) BY <1>5, <1>10, <1>11, <1>13 DEF Kept, SidesKept, PairStep
<1> QED BY <1>6, <1>12, ActionKept DEF s

(* A goodbye is answered at once: y does not know x.                       *)
LEMMA UnknownKept ==
  ASSUME NEW s, PartnersOK(s), NEW x \in Agents, NEW y \in Agents,
         s.bye[x][y].phase = "sent", ~Knows(s, y, x),
         NEW u, u = [s EXCEPT !.bye[x][y].phase = "answered"],
         NEW t, t = u \/ t = Odd(u, x, y)
  PROVE  Kept(s, t)
<1> DEFINE q == [s.bye[x][y] EXCEPT !.phase = "answered"]
<1>1. s \in PartnersState /\ s.bye[x][y] \in ByeType BY DEF PartnersOK, PartnersState
<1>2. q \in ByeType /\ q.phase = "answered" /\ q.partner = s.bye[x][y].partner
  BY <1>1 DEF ByeType
<1>3. u = [s EXCEPT !.bye[x][y] = q] BY <1>1 DEF PartnersState
<1> HIDE DEF q
<1>4. /\ u \in PartnersState /\ u.bye = [s.bye EXCEPT ![x][y] = q]
      /\ u.present = s.present /\ u.pact = s.pact /\ u.slots = s.slots
      /\ u.hooks = s.hooks /\ u.todo = s.todo /\ u.prop = s.prop /\ u.odd = s.odd
  <2>1. x \in Agents /\ y \in Agents OBVIOUS
  <2> QED BY ONLY <1>1, <1>2, <1>3, <2>1, ByeFields
<1>5. /\ t \in PartnersState /\ t.bye = [s.bye EXCEPT ![x][y] = q]
      /\ t.present = s.present /\ t.pact = s.pact /\ t.slots = s.slots
      /\ t.hooks = s.hooks /\ t.todo = s.todo /\ t.prop = s.prop /\ s.odd \subseteq t.odd
  <2>1. x \in Peers /\ y \in Peers BY DEF Peers
  <2>2. CASE t = u BY <1>4, <2>2
  <2>3. CASE t = Odd(u, x, y)
    <3>1. LET v == Odd(u, x, y)
          IN  /\ v \in PartnersState /\ v.odd = u.odd \cup {{x, y}}
              /\ v.present = u.present /\ v.pact = u.pact /\ v.slots = u.slots
              /\ v.hooks = u.hooks /\ v.todo = u.todo /\ v.prop = u.prop /\ v.bye = u.bye
      BY ONLY <1>4, <2>1, OddFields
    <3> QED BY <1>4, <2>3, <3>1
  <2> QED BY <2>2, <2>3
<1>6. /\ t.bye[x][y] = q
      /\ \A d, e \in Agents : ~(d = x /\ e = y) => t.bye[d][e] = s.bye[d][e]
  <2>1. s.bye \in [Agents -> [Agents -> ByeType]] /\ t.bye = [s.bye EXCEPT ![x][y] = q]
    BY <1>1, <1>5 DEF PartnersState
  <2>2. t.bye[x][y] = q BY <2>1
  <2>3. ASSUME NEW d \in Agents, NEW e \in Agents, ~(d = x /\ e = y)
        PROVE  t.bye[d][e] = s.bye[d][e]
    <3>1. CASE d = x BY <2>1, <2>3, <3>1
    <3>2. CASE d # x BY <2>1, <3>2
    <3> QED BY <3>1, <3>2
  <2> QED BY <2>2, <2>3
<1>7. PairStep(s, t, y, x, JobsOf(s, y), {}, {})
  <2>1. \A d \in s.present : \A e \in Agents :
          Ours(d, e, y, x) /\ t.bye[d][e].phase # "none" => t.bye[d][e].partner.peer = e
    <3> SUFFICES ASSUME NEW d \in s.present, NEW e \in Agents, t.bye[d][e].phase # "none"
                 PROVE  t.bye[d][e].partner.peer = e
      OBVIOUS
    <3>1. d \in Agents BY <1>1 DEF PartnersState
    <3>2. CASE d = x /\ e = y BY <1>2, <1>6, <3>2 DEF PartnersOK
    <3>3. CASE ~(d = x /\ e = y) BY <1>6, <3>1, <3>3 DEF PartnersOK
    <3> QED BY <3>2, <3>3
  <2>2. Moves(s, t, y, JobsOf(s, y), {}, {}) BY <1>1, <1>5, NoMove
  <2>3. /\ t.present = s.present /\ t.pact = s.pact /\ t.prop = s.prop /\ s.odd \subseteq t.odd
        /\ \A a, b \in Agents : ~Ours(a, b, y, x) => t.bye[a][b] = s.bye[a][b]
        /\ \A j \in t.hooks[y] : j \in s.hooks[y] \/ j.for = "restarted"
        /\ \A j \in Elems(t.todo[y]) : j \in Elems(s.todo[y]) \/ j.step = "remove"
        /\ \A n \in {} : JobOK(t, y, n) /\ n.partner.peer = x
    BY <1>5, <1>6 DEF Ours
  <2> QED BY <1>5, <2>1, <2>2, <2>3, GoodbyeStep
<1>8. ASSUME PairsOK(s) PROVE PairsOK(t)
  <2>1. /\ t.prop = s.prop /\ t.pact = s.pact /\ t.bye[x][y].phase = "answered"
        /\ t.bye[x][y].partner = s.bye[x][y].partner
    BY <1>2, <1>5, <1>6
  <2> QED BY <1>6, <1>7, <1>8, <2>1, GoodbyeUnknown
<1>9. SlotsKept(s, t)
  <2>1. Moves(s, t, y, JobsOf(s, y), {}, {}) BY <1>1, <1>5, NoMove
  <2>2. \A a, b \in Agents :
          /\ t.bye[a][b].partner = s.bye[a][b].partner
          /\ t.bye[a][b].phase # "none" => s.bye[a][b].phase # "none"
    BY <1>2, <1>6
  <2>3. Farewells(t, y) = Farewells(s, y) BY <2>2 DEF Farewells
  <2>4. ByeMoves(s, t, y) BY <1>5, <2>2, <2>3 DEF ByeMoves
  <2> QED BY <1>1, <1>5, <2>1, <2>4, NoRemovals, ByeSlots
<1> QED BY <1>7, <1>8, <1>9 DEF Kept, SidesKept, PairStep

(* The goodbye is known of: y removes its partner.                         *)
LEMMA ArrivedKept ==
  ASSUME NEW s, PartnersOK(s), NEW x \in Agents, NEW y \in Agents,
         s.bye[x][y].phase = "sent", NEW p \in s.pact[y], p.peer = x,
         NEW job, job = Job("goodbye", s.bye[x][y].count, p, NoPartner, "remove"),
         NEW t, t = Queue([s EXCEPT !.bye[x][y].phase = "handled"], y, job)
  PROVE  Kept(s, t)
<1> DEFINE q == [s.bye[x][y] EXCEPT !.phase = "handled"]
           u == [s EXCEPT !.bye[x][y] = q]
<1>1. /\ s \in PartnersState /\ s.bye[x][y] \in ByeType /\ p \in KnownPartner
  BY DEF PartnersOK, PartnersState
<1>10. /\ PartnersOK(s) /\ s.bye[x][y].phase = "sent" /\ x \in Agents /\ y \in Agents
       /\ p \in s.pact[y]
  OBVIOUS
<1>2. /\ q \in ByeType /\ q.phase = "handled" /\ q.partner = s.bye[x][y].partner
      /\ q.count = s.bye[x][y].count
  BY <1>1 DEF ByeType
<1>3. t = Queue(u, y, job) BY <1>1 DEF PartnersState
<1>4. /\ job \in JobType /\ job.for = "goodbye" /\ job.step = "remove"
      /\ job.partner = p /\ job.partner.peer = x /\ job.with = q.count
  BY <1>1, <1>2 DEF Job, JobType, AnyPartner, NoPartner, Peers, NoSlot, ByeType
<1> HIDE DEF q
<1>5. /\ u \in PartnersState /\ u.bye = [s.bye EXCEPT ![x][y] = q]
      /\ u.present = s.present /\ u.pact = s.pact /\ u.slots = s.slots
      /\ u.hooks = s.hooks /\ u.todo = s.todo /\ u.prop = s.prop /\ u.odd = s.odd
  <2>1. x \in Agents /\ y \in Agents OBVIOUS
  <2> QED BY ONLY <1>1, <1>2, <2>1, ByeFields
<1> HIDE DEF u
<1>6. /\ t \in PartnersState /\ t.bye = [s.bye EXCEPT ![x][y] = q]
      /\ t.present = s.present /\ t.pact = s.pact /\ t.slots = s.slots /\ t.odd = s.odd
      /\ t.hooks = s.hooks /\ t.prop = s.prop /\ t.todo = [s.todo EXCEPT ![y] = Append(@, job)]
  <2>1. LET v == Queue(u, y, job)
        IN  /\ v \in PartnersState
            /\ v.todo = [u.todo EXCEPT ![y] = Append(@, job)]
            /\ v.present = u.present /\ v.pact = u.pact /\ v.slots = u.slots
            /\ v.hooks = u.hooks /\ v.prop = u.prop /\ v.bye = u.bye /\ v.odd = u.odd
    BY <1>4, <1>5, QueueFields
  <2> QED BY <1>3, <1>5, <2>1
<1>7. /\ t.bye[x][y] = q
      /\ \A d, e \in Agents : ~(d = x /\ e = y) => t.bye[d][e] = s.bye[d][e]
  <2>1. s.bye \in [Agents -> [Agents -> ByeType]] /\ t.bye = [s.bye EXCEPT ![x][y] = q]
    BY <1>1, <1>6 DEF PartnersState
  <2>2. t.bye[x][y] = q BY <2>1
  <2>3. ASSUME NEW d \in Agents, NEW e \in Agents, ~(d = x /\ e = y)
        PROVE  t.bye[d][e] = s.bye[d][e]
    <3>1. CASE d = x BY <2>1, <2>3, <3>1
    <3>2. CASE d # x BY <2>1, <3>2
    <3> QED BY <3>1, <3>2
  <2> QED BY <2>2, <2>3
<1>8. PairStep(s, t, y, x, JobsOf(s, y), {}, {job})
  <2>1. \A d \in s.present : \A e \in Agents :
          Ours(d, e, y, x) /\ t.bye[d][e].phase # "none" => t.bye[d][e].partner.peer = e
    <3> SUFFICES ASSUME NEW d \in s.present, NEW e \in Agents, t.bye[d][e].phase # "none"
                 PROVE  t.bye[d][e].partner.peer = e
      OBVIOUS
    <3>1. d \in Agents BY <1>1 DEF PartnersState
    <3>2. CASE d = x /\ e = y BY ONLY <1>2, <1>7, <1>10, <3>2, d \in s.present, e \in Agents DEF PartnersOK
    <3>3. CASE ~(d = x /\ e = y)
      BY ONLY <1>7, <1>10, <3>1, <3>3, d \in s.present, e \in Agents, t.bye[d][e].phase # "none"
      DEF PartnersOK
    <3> QED BY <3>2, <3>3
  <2>2. /\ t.present = s.present /\ t.pact = s.pact /\ t.prop = s.prop /\ s.odd \subseteq t.odd
        /\ \A a, b \in Agents : ~Ours(a, b, y, x) => t.bye[a][b] = s.bye[a][b]
        /\ t.todo = [s.todo EXCEPT ![y] = Append(@, job)] /\ t.hooks = s.hooks
    BY <1>6, <1>7 DEF Ours
  <2>3. job.for \in {"goodbye", "breakup"} BY <1>4
  <2> QED BY ONLY <1>4, <1>6, <1>10, <2>1, <2>2, <2>3, QueuedGoodbye
<1>9. ASSUME PairsOK(s) PROVE PairsOK(t)
  <2>1. /\ t.prop = s.prop /\ t.pact = s.pact /\ t.bye[x][y].phase = "handled"
        /\ t.bye[x][y].partner = s.bye[x][y].partner
        /\ job.for = "goodbye" /\ job.with = t.bye[x][y].count /\ job.step = "remove"
        /\ job.partner \in s.pact[y]
    BY <1>2, <1>4, <1>6, <1>7
  <2> QED BY ONLY <1>7, <1>8, <1>10, <1>9, <2>1, GoodbyeArrives
<1>11. SlotsKept(s, t)
  <2>1. \A a, b \in Agents :
          /\ t.bye[a][b].partner = s.bye[a][b].partner
          /\ t.bye[a][b].phase # "none" => s.bye[a][b].phase # "none"
    BY <1>2, <1>7
  <2>2. Farewells(t, y) = Farewells(s, y) BY ONLY <1>10, <2>1 DEF Farewells
  <2>3. Moves(s, t, y, JobsOf(s, y), {}, {job}) BY <1>8 DEF PairStep
  <2>4. SlotsOK(s) => "restarted" \notin Manners BY <1>10 DEF SlotsOK
  <2>5. Removals(s, y, {job}) BY <1>4, <1>10, <2>4, OneRemoval
  <2>6. ByeMoves(s, t, y) BY ONLY <1>6, <2>1, <2>2 DEF ByeMoves
  <2> QED BY <1>1, <1>6, <1>10, <2>3, <2>5, <2>6, ByeSlots
<1> QED BY <1>8, <1>9, <1>11 DEF Kept, SidesKept, PairStep

LEMMA GoodbyeRequestedKept ==
  ASSUME PartnersOK(PState), NEW x \in Agents, NEW y \in Agents, GoodbyeRequested(x, y)
  PROVE  scene' = scene /\ Kept(PState, PState')
<1> DEFINE s == PState
           known == Found(s, y, x)
           u == [s EXCEPT !.bye[x][y].phase = "answered"]
<1>1. s.bye = bye /\ s.pact = pact /\ PartnersOK(s) BY DEF PState
<1>2. s.bye[x][y].phase = "sent" BY <1>1 DEF GoodbyeRequested
<1>3. CASE known = {}
  <2> DEFINE t == IF Between(x, y) THEN Odd(u, x, y) ELSE u
  <2>1. Now(t)
    <3>1. Now(IF Between(x, y) THEN Odd(u, x, y) ELSE u) BY <1>3 DEF GoodbyeRequested
    <3> QED BY <3>1
  <2>2. t = u \/ t = Odd(u, x, y) OBVIOUS
  <2>3. ~Knows(s, y, x) BY <1>3 DEF Knows
  <2> HIDE DEF s, t
  <2>4. Kept(s, t) BY <1>1, <1>2, <2>2, <2>3, UnknownKept
  <2> QED BY <2>1, <2>4, ActionKept DEF s
<1>4. CASE known # {}
  <2>1. PICK p \in known :
          Now(Queue([s EXCEPT !.bye[x][y].phase = "handled"], y,
                    Job("goodbye", bye[x][y].count, p, NoPartner, "remove")))
    BY <1>4 DEF GoodbyeRequested
  <2> DEFINE job == Job("goodbye", bye[x][y].count, p, NoPartner, "remove")
             t == Queue([s EXCEPT !.bye[x][y].phase = "handled"], y, job)
  <2>2. p \in s.pact[y] /\ p.peer = x BY DEF Found
  <2>3. job = Job("goodbye", s.bye[x][y].count, p, NoPartner, "remove") BY <1>1
  <2>4. Now(t) BY <2>1
  <2> HIDE DEF s, job
  <2>5. Kept(s, t) BY <1>1, <1>2, <2>2, <2>3, ArrivedKept
  <2> QED BY <2>4, <2>5, ActionKept DEF s
<1> QED BY <1>3, <1>4

(* _do_breakup()                                                           *)
LEMMA DoBreakupKept ==
  ASSUME PartnersOK(PState), NEW x \in Agents, NEW y \in Agents, DoBreakup(x, y)
  PROVE  scene' = scene /\ Kept(PState, PState')
<1> DEFINE s == PState
           q == [s.bye[x][y] EXCEPT !.phase = "none", !.partner = NoPartner]
           v == [s EXCEPT !.bye[x][y].phase = "none", !.bye[x][y].partner = NoPartner]
           u == [s EXCEPT !.bye[x][y] = q]
           p == s.bye[x][y].partner
           job == Job("breakup", 0, p, NoPartner, "remove")
           c == Queue(u, x, job)
<1>1. /\ PartnersOK(s) /\ s \in PartnersState /\ s.bye[x][y] \in ByeType
      /\ s.bye = bye /\ s.present = present /\ x \in Agents /\ y \in Agents
  BY DEF PartnersOK, PartnersState, PState
<1>2. /\ q \in ByeType /\ q.phase = "none" /\ q.partner = NoPartner
  BY <1>1 DEF ByeType, NoPartner, AnyPartner, Peers, NoSlot
<1>3. v = u
  <2> DEFINE r == [s.bye[x][y] EXCEPT !.phase = "none"]
             w == [s EXCEPT !.bye[x][y] = r]
  <2>1. v = [w EXCEPT !.bye[x][y].partner = NoPartner] BY <1>1 DEF PartnersState
  <2>2. r \in ByeType /\ [r EXCEPT !.partner = NoPartner] = q BY <1>1 DEF ByeType
  <2> HIDE DEF r, q, s, v
  <2>3. /\ w \in PartnersState /\ w.bye = [s.bye EXCEPT ![x][y] = r]
        /\ w.present = s.present /\ w.pact = s.pact /\ w.slots = s.slots
        /\ w.hooks = s.hooks /\ w.todo = s.todo /\ w.prop = s.prop /\ w.odd = s.odd
    BY ONLY <1>1, <2>2, ByeFields
  <2> HIDE DEF w
  <2>4. w.bye[x][y] = r BY <1>1, <2>3 DEF PartnersState
  <2>5. v = [w EXCEPT !.bye[x][y] = q] BY <1>1, <2>1, <2>2, <2>3, <2>4 DEF PartnersState
  <2>6. [w.bye EXCEPT ![x][y] = q] = [s.bye EXCEPT ![x][y] = q]
    <3>1. s.bye \in [Agents -> [Agents -> ByeType]] BY <1>1 DEF PartnersState
    <3> QED BY <1>1, <2>3, <3>1
  <2>7. /\ v \in PartnersState /\ v.bye = [w.bye EXCEPT ![x][y] = q]
        /\ v.present = w.present /\ v.pact = w.pact /\ v.slots = w.slots
        /\ v.hooks = w.hooks /\ v.todo = w.todo /\ v.prop = w.prop /\ v.odd = w.odd
    BY ONLY <1>1, <1>2, <2>3, <2>5, ByeFields
  <2>8. /\ u \in PartnersState /\ u.bye = [s.bye EXCEPT ![x][y] = q]
        /\ u.present = s.present /\ u.pact = s.pact /\ u.slots = s.slots
        /\ u.hooks = s.hooks /\ u.todo = s.todo /\ u.prop = s.prop /\ u.odd = s.odd
    BY ONLY <1>1, <1>2, ByeFields
  <2> HIDE DEF u
  <2>9. u = [present |-> u.present, pact |-> u.pact, slots |-> u.slots, hooks |-> u.hooks,
            todo |-> u.todo, prop |-> u.prop, bye |-> u.bye, odd |-> u.odd]
    BY <2>8 DEF PartnersState
  <2>10. v = [present |-> v.present, pact |-> v.pact, slots |-> v.slots, hooks |-> v.hooks,
            todo |-> v.todo, prop |-> v.prop, bye |-> v.bye, odd |-> v.odd]
    BY <2>7 DEF PartnersState
  <2> QED BY ONLY <2>3, <2>6, <2>7, <2>8, <2>9, <2>10
<1>4. /\ x \in s.present
      /\ \/ s.bye[x][y].phase = "answered" /\ Now(c)
         \/ s.bye[x][y].phase = "failure" /\ Now(Odd(u, x, y))
         \/ s.bye[x][y].phase \in {"sent", "handled"} /\ Now(Odd(c, x, y))
  BY <1>1, <1>3 DEF DoBreakup
<1>5. p \in KnownPartner /\ p.peer = y
  <2>1. p.peer = y BY <1>1, <1>4 DEF PartnersOK
  <2> QED BY <1>1, <2>1 DEF ByeType, AnyPartner, KnownPartner
<1>6. /\ job \in JobType /\ job.for = "breakup" /\ job.step = "remove"
      /\ job.partner = p /\ job.partner.peer = y
  BY <1>5 DEF Job, JobType, AnyPartner, NoPartner, Peers, NoSlot
<1> HIDE DEF s, q, v, job
<1>7. /\ u \in PartnersState /\ u.bye = [s.bye EXCEPT ![x][y] = q]
      /\ u.present = s.present /\ u.pact = s.pact /\ u.slots = s.slots
      /\ u.hooks = s.hooks /\ u.todo = s.todo /\ u.prop = s.prop /\ u.odd = s.odd
  BY ONLY <1>1, <1>2, ByeFields
<1> HIDE DEF u
<1>8. /\ u.bye[x][y] = q
      /\ \A d, e \in Agents : ~(d = x /\ e = y) => u.bye[d][e] = s.bye[d][e]
  <2>1. s.bye \in [Agents -> [Agents -> ByeType]] /\ u.bye = [s.bye EXCEPT ![x][y] = q]
    BY <1>1, <1>7 DEF PartnersState
  <2>2. u.bye[x][y] = q BY <2>1
  <2>3. ASSUME NEW d \in Agents, NEW e \in Agents, ~(d = x /\ e = y)
        PROVE  u.bye[d][e] = s.bye[d][e]
    <3>1. CASE d = x BY <2>1, <2>3, <3>1
    <3>2. CASE d # x BY <2>1, <3>2
    <3> QED BY <3>1, <3>2
  <2> QED BY <2>2, <2>3
<1>9. \A d \in s.present : \A e \in Agents :
        Ours(d, e, x, y) /\ u.bye[d][e].phase # "none" => u.bye[d][e].partner.peer = e
  <2> SUFFICES ASSUME NEW d \in s.present, NEW e \in Agents, u.bye[d][e].phase # "none"
               PROVE  u.bye[d][e].partner.peer = e
    OBVIOUS
  <2>1. d \in Agents BY <1>1 DEF PartnersState
  <2>2. ~(d = x /\ e = y) BY <1>2, <1>8
  <2> QED BY <1>1, <1>8, <2>1, <2>2 DEF PartnersOK
<1>10. x \in Peers /\ y \in Peers BY <1>1 DEF Peers
(* With an update, ...                                                     *)
<1>11. /\ c \in PartnersState /\ c.bye = u.bye /\ c.present = s.present /\ c.pact = s.pact
       /\ c.slots = s.slots
       /\ c.hooks = s.hooks /\ c.prop = s.prop /\ c.odd = s.odd
       /\ c.todo = [s.todo EXCEPT ![x] = Append(@, job)]
  <2>1. LET w == Queue(u, x, job)
        IN  /\ w \in PartnersState
            /\ w.todo = [u.todo EXCEPT ![x] = Append(@, job)]
            /\ w.present = u.present /\ w.pact = u.pact /\ w.slots = u.slots
            /\ w.hooks = u.hooks /\ w.prop = u.prop /\ w.bye = u.bye /\ w.odd = u.odd
    BY ONLY <1>1, <1>6, <1>7, QueueFields
  <2> QED BY <1>7, <2>1
<1> HIDE DEF c
<1>12. ASSUME NEW t \in PartnersState, t.bye = c.bye, t.present = c.present, t.pact = c.pact,
              t.hooks = c.hooks, t.todo = c.todo, t.prop = c.prop, c.odd \subseteq t.odd
       PROVE  PairStep(s, t, x, y, JobsOf(s, x), {}, {job})
  <2>1. /\ t.present = s.present /\ t.pact = s.pact /\ t.prop = s.prop /\ s.odd \subseteq t.odd
        /\ \A a, b \in Agents : ~Ours(a, b, x, y) => t.bye[a][b] = s.bye[a][b]
        /\ \A d \in s.present : \A e \in Agents :
             Ours(d, e, x, y) /\ t.bye[d][e].phase # "none" => t.bye[d][e].partner.peer = e
        /\ t.todo = [s.todo EXCEPT ![x] = Append(@, job)] /\ t.hooks = s.hooks
    BY <1>8, <1>9, <1>11, <1>12 DEF Ours
  <2>2. job.for \in {"goodbye", "breakup"} BY <1>6
  <2> QED BY ONLY <1>1, <1>6, <1>12, <2>1, <2>2, QueuedGoodbye
<1>16. ASSUME NEW t \in PartnersState, t.bye = u.bye, t.pact = s.pact, t.slots = s.slots,
              t.hooks = s.hooks, t.prop = s.prop, NEW N \in SUBSET {job},
              Moves(s, t, x, JobsOf(s, x), {}, N)
       PROVE  SlotsKept(s, t)
  <2>1. /\ s.bye[x][y].partner \in Farewells(s, x)
        /\ Farewells(t, x) \subseteq Farewells(s, x) \cup {t.bye[x][y].partner}
    <3>1. \A d, e \in Agents : ~(d = x /\ e = y) => t.bye[d][e] = s.bye[d][e]
      BY ONLY <1>8, t.bye = u.bye
    <3> QED BY ONLY <3>1, x \in Agents, y \in Agents, FarewellsOf
  <2>2. Farewells(t, x) \subseteq s.pact[x] \cup Farewells(s, x) \cup {NoPartner}
    BY <1>2, <1>8, <1>16, <2>1
  <2>3. \A a, b \in Agents :
          /\ a # x => t.bye[a][b].partner = s.bye[a][b].partner
          /\ t.bye[a][b].phase # "none" => s.bye[a][b].phase # "none"
    BY <1>2, <1>8, <1>16
  <2>4. SlotsOK(s) => "restarted" \notin Manners
    <3>1. s.bye[x][y].phase # "none" BY <1>4
    <3> QED BY <1>1, <3>1 DEF SlotsOK
  <2>5. Removals(s, x, N)
    <3>1. \A n \in N : n = job BY <1>16
    <3> QED BY <1>6, <2>1, <2>4, <3>1, p = s.bye[x][y].partner DEF Removals
  <2>6. ByeMoves(s, t, x) BY <1>16, <2>2, <2>3 DEF ByeMoves
  <2> QED BY ONLY <1>1, <1>16, <2>5, <2>6, ByeSlots
<1>17. {} \in SUBSET {job} /\ {job} \in SUBSET {job} OBVIOUS
<1>13. CASE s.bye[x][y].phase = "answered" /\ Now(c)
  <2>1. PairStep(s, c, x, y, JobsOf(s, x), {}, {job}) BY <1>11, <1>12
  <2>2. /\ c.prop = s.prop /\ c.pact = s.pact /\ c.bye[x][y].phase = "none"
        /\ \A a, b \in Agents : ~(a = x /\ b = y) => c.bye[a][b] = s.bye[a][b]
        /\ job.partner = s.bye[x][y].partner
    BY <1>2, <1>6, <1>8, <1>11
  <2>3. ASSUME PairsOK(s) PROVE PairsOK(c)
    BY ONLY <1>1, <1>6, <1>13, <2>1, <2>2, <2>3, DivisionStarts
  <2>5. SlotsKept(s, c)
    <3>1. Moves(s, c, x, JobsOf(s, x), {}, {job}) BY <2>1 DEF PairStep
    <3> QED BY <1>11, <1>16, <1>17, <3>1
  <2>4. Kept(s, c) BY <2>1, <2>3, <2>5 DEF Kept, SidesKept, PairStep
  <2> QED BY <1>1, <1>13, <2>4, ActionKept DEF s
<1>14. CASE Now(Odd(u, x, y))
  <2> DEFINE t == Odd(u, x, y)
  <2>1. /\ t \in PartnersState /\ t.odd = u.odd \cup {{x, y}}
        /\ t.present = u.present /\ t.pact = u.pact /\ t.slots = u.slots
        /\ t.hooks = u.hooks /\ t.todo = u.todo /\ t.prop = u.prop /\ t.bye = u.bye
    BY <1>7, <1>10, OddFields
  <2> HIDE DEF t
  <2>2. Moves(s, t, x, JobsOf(s, x), {}, {}) BY <1>1, <1>7, <2>1, NoMove
  <2>3. /\ t.present = s.present /\ t.pact = s.pact /\ t.prop = s.prop /\ s.odd \subseteq t.odd
        /\ \A a, b \in Agents : ~Ours(a, b, x, y) => t.bye[a][b] = s.bye[a][b]
        /\ \A d \in s.present : \A e \in Agents :
             Ours(d, e, x, y) /\ t.bye[d][e].phase # "none" => t.bye[d][e].partner.peer = e
        /\ \A j \in t.hooks[x] : j \in s.hooks[x] \/ j.for = "restarted"
        /\ \A j \in Elems(t.todo[x]) : j \in Elems(s.todo[x]) \/ j.step = "remove"
        /\ \A n \in {} : JobOK(t, x, n) /\ n.partner.peer = y
    BY <1>7, <1>8, <1>9, <2>1 DEF Ours
  <2>4. PairStep(s, t, x, y, JobsOf(s, x), {}, {}) BY <1>1, <2>1, <2>2, <2>3, GoodbyeStep
  <2>5. ~Regular(t, x, y) BY <2>1 DEF Regular
  <2>6. PairsOK(s) => PairsOK(t) BY <1>1, <2>4, <2>5, PairSpoilt
  <2>9. SlotsKept(s, t) BY <1>7, <1>16, <1>17, <2>1, <2>2
  <2>7. Kept(s, t) BY <2>4, <2>6, <2>9 DEF Kept, SidesKept, PairStep
  <2>8. Now(t) BY <1>14 DEF t
  <2> QED BY <1>1, <2>7, <2>8, ActionKept DEF s
<1>15. CASE Now(Odd(c, x, y))
  <2> DEFINE t == Odd(c, x, y)
  <2>1. /\ t \in PartnersState /\ t.odd = c.odd \cup {{x, y}}
        /\ t.present = c.present /\ t.pact = c.pact /\ t.slots = c.slots
        /\ t.hooks = c.hooks /\ t.todo = c.todo /\ t.prop = c.prop /\ t.bye = c.bye
    BY <1>11, <1>10, OddFields
  <2> HIDE DEF t
  <2>2. PairStep(s, t, x, y, JobsOf(s, x), {}, {job}) BY <1>12, <2>1
  <2>5. ~Regular(t, x, y) BY <2>1 DEF Regular
  <2>6. PairsOK(s) => PairsOK(t) BY <1>1, <2>2, <2>5, PairSpoilt
  <2>9. SlotsKept(s, t)
    <3>1. Moves(s, t, x, JobsOf(s, x), {}, {job}) BY <2>2 DEF PairStep
    <3> QED BY <1>11, <1>16, <1>17, <2>1, <3>1
  <2>7. Kept(s, t) BY <2>2, <2>6, <2>9 DEF Kept, SidesKept, PairStep
  <2>8. Now(t) BY <1>15 DEF t
  <2> QED BY <1>1, <2>7, <2>8, ActionKept DEF s
<1> QED BY <1>4, <1>13, <1>14, <1>15

(* A partner of x has a new address: it will be stored again.              *)
LEMMA AccountNoticed ==
  ASSUME NEW s, NEW t, NEW x, NEW R, NEW n, Account(s, x, R), n.for = "restarted",
         n.step = "restart", n.partner \in s.pact[x],
         t.slots = s.slots, t.pact = s.pact, t.bye = s.bye, t.prop = s.prop
  PROVE  Account(t, x, R \cup {n})
<1> DEFINE p == n.partner
           L == R \cup {n}
           N == s.pact[x] \cup Parting(R) \cup Farewells(s, x)
           N1 == s.pact[x] \cup Parting(L) \cup Farewells(s, x)
<1>1. AccountOK(s.slots[x].made, s.slots[x].held, s.pact[x], N, Coming(R), Ready(R), Moving(R),
                Going(R), Pledged(s, x))
  BY DEF Account
<1>2. /\ Coming({n}) = {} /\ Ready({n}) = {} /\ Going({n}) = {}
      /\ Moving({n}) = {p.slot} \ {NoSlot} /\ Parting({n}) = {p}
  BY SlotsOfOne DEF Brings
<1>3. /\ Coming(L) = Coming(R) /\ Ready(L) = Ready(R) /\ Going(L) = Going(R)
      /\ Moving(L) = Moving(R) \cup ({p.slot} \ {NoSlot}) /\ Parting(L) = Parting(R) \cup {p}
  <2>1. Adds(R) BY SlotsAdd
  <2>2. /\ Coming(L) = Coming(R) \cup Coming({n}) /\ Ready(L) = Ready(R) \cup Ready({n})
        /\ Moving(L) = Moving(R) \cup Moving({n}) /\ Going(L) = Going(R) \cup Going({n})
        /\ Parting(L) = Parting(R) \cup Parting({n})
    BY <2>1 DEF Adds
  <2> HIDE DEF L
  <2> QED BY <1>2, <2>2
<1>4. N1 = N BY <1>3
<1>5. p \in s.pact[x] OBVIOUS
<1> HIDE DEF p, L, N, N1
<1>6. AccountOK(s.slots[x].made, s.slots[x].held, s.pact[x], N, Coming(R), Ready(R),
                Moving(R) \cup ({p.slot} \ {NoSlot}), Going(R), Pledged(s, x))
  BY <1>1, <1>5, AccountNotices
<1>7. Account(s, x, L) BY <1>3, <1>4, <1>6 DEF Account, N1
<1>8. Account(t, x, L) BY <1>7, AccountSame
<1> QED BY <1>8 DEF L

(* _on_restarted()                                                         *)
LEMMA RestartedKept ==
  ASSUME PartnersOK(PState), NEW x \in Agents, Restarted(x)
  PROVE  scene' = scene /\ Kept(PState, PState')
<1> DEFINE s == PState
<1>1. PICK p \in pact[x] :
        Now([PState EXCEPT !.hooks[x] = @ \cup {Job("restarted", 0, p, NoPartner, "restart")}])
  BY DEF Restarted
<1> DEFINE y == p.peer
           job == Job("restarted", 0, p, NoPartner, "restart")
           h == s.hooks[x] \cup {job}
           t == [s EXCEPT !.hooks[x] = h]
<1>2. /\ s \in PartnersState /\ p \in KnownPartner /\ y \in Agents /\ p \in s.pact[x]
      /\ PartnersOK(s) /\ "restarted" \in Manners
  BY DEF PartnersOK, PartnersState, PState, KnownPartner, Restarted
<1>3. /\ job \in JobType /\ job.for = "restarted" /\ job.step = "restart"
      /\ job.partner.peer = y /\ job.partner = p
  BY <1>2 DEF Job, JobType, AnyPartner, NoPartner, Peers, NoSlot
<1>4. Now(t) BY <1>1, <1>2 DEF PartnersState
<1>5. h \in SUBSET JobType /\ [s.hooks EXCEPT ![x] = @ \cup {job}] = [s.hooks EXCEPT ![x] = h]
  BY <1>2, <1>3 DEF PartnersState
<1> HIDE DEF s, job, h, y
<1>6. /\ t \in PartnersState /\ t.hooks = [s.hooks EXCEPT ![x] = h]
      /\ t.present = s.present /\ t.pact = s.pact /\ t.slots = s.slots
      /\ t.bye = s.bye /\ t.todo = s.todo /\ t.prop = s.prop /\ t.odd = s.odd
  BY <1>2, <1>5, HooksFields
<1> HIDE DEF t
<1>7. Moves(s, t, x, JobsOf(s, x), {}, {job}) BY <1>2, <1>5, <1>6, HookAdded
<1>8. PairStep(s, t, x, y, JobsOf(s, x), {}, {job})
  <2>1. t.hooks[x] = s.hooks[x] \cup {job} BY <1>2, <1>6 DEF PartnersState, h
  <2>2. /\ s.odd \subseteq t.odd
        /\ \A a, b \in Agents : ~Ours(a, b, x, y) => t.bye[a][b] = s.bye[a][b]
        /\ \A d \in s.present : \A e \in Agents :
             Ours(d, e, x, y) /\ t.bye[d][e].phase # "none" => t.bye[d][e].partner.peer = e
        /\ \A j \in t.hooks[x] : j \in s.hooks[x] \/ j.for = "restarted"
        /\ \A j \in Elems(t.todo[x]) : j \in Elems(s.todo[x]) \/ j.step = "remove"
        /\ \A n \in {job} : JobOK(t, x, n) /\ n.partner.peer = y
    BY <1>2, <1>3, <1>6, <2>1 DEF PartnersOK, JobOK
  <2> QED BY <1>2, <1>6, <1>7, <2>2, GoodbyeStep
<1>9. ASSUME PairsOK(s) PROVE PairsOK(t)
  <2>1. Knows(s, x, y) BY <1>2 DEF Knows, Found, y
  <2>2. /\ t.bye = s.bye /\ t.pact = s.pact /\ t.prop = s.prop
        /\ job.for = "restarted" /\ job.step # "remove" /\ "restarted" \in Manners
    BY <1>2, <1>3, <1>6
  <2> QED BY <1>2, <1>8, <1>9, <2>1, <2>2, RestartNoticed
<1>11. SlotsKept(s, t)
  <2>1. ASSUME Careful, SlotsOK(s)
        PROVE  /\ Account(t, x, JobsOf(s, x) \cup {job}) /\ JobSound(job)
               /\ \A l \in JobsOf(s, x) : SlotKey[job] \cap SlotKey[l] = {}
    <3> DEFINE R == JobsOf(s, x)
    <3>1. Account(s, x, R) /\ R \in SUBSET JobType BY <1>2, <2>1, JobTyped DEF SlotsOK
    <3> HIDE DEF R
    <3>2. Account(t, x, R \cup {job}) BY <1>2, <1>3, <1>6, <3>1, AccountNoticed
    <3>3. ~Brings(job) BY <1>3 DEF Brings
    <3>4. \A l \in R : SlotKey[job] \cap SlotKey[l] = {} BY <1>3, <3>3 DEF SlotKey
    <3>5. JobSound(job) BY <1>2, <1>3 DEF JobSound
    <3> QED BY <3>2, <3>4, <3>5 DEF R
  <2>2. PropLess(s, t) BY <1>6 DEF PropLess
  <2>3. \A l \in t.hooks[x] : l \in s.hooks[x] \/ l.step # "allocate"
    BY <1>2, <1>3, <1>6 DEF PartnersState, h
  <2>4. /\ t.slots = s.slots /\ t.pact = s.pact /\ s \in PartnersState /\ t \in PartnersState
        /\ \A a, b \in Agents :
             /\ a # x => t.bye[a][b].partner = s.bye[a][b].partner
             /\ t.bye[a][b].phase # "none" => s.bye[a][b].phase # "none" \/ "restarted" \notin Manners
        /\ x \in Agents
    BY <1>2, <1>6
  <2>5. Careful /\ SlotsOK(s) =>
          /\ Account(t, x, JobsOf(s, x) \cup {job}) /\ JobSound(job)
          /\ \A l \in JobsOf(s, x) : SlotKey[job] \cap SlotKey[l] = {}
    BY <2>1
  <2> QED BY ONLY <1>7, <2>2, <2>3, <2>4, <2>5, SlotsAdded
<1>10. Kept(s, t) BY <1>8, <1>9, <1>11 DEF Kept, SidesKept, PairStep
<1> QED BY <1>2, <1>4, <1>10, ActionKept DEF s

(* The agent terminates: nothing is claimed of its pairs any more.         *)
LEMMA LeaveKept ==
  ASSUME PartnersOK(PState), NEW x \in Agents, Leave(x)
  PROVE  scene' = scene /\ Kept(PState, PState')
<1> DEFINE s == PState
           t == PState'
           over == [i \in Proposals |->
                      IF Open(i) /\ s.prop[i].from = x THEN [s.prop[i] EXCEPT !.phase = "done"]
                      ELSE s.prop[i]]
           sent == [y \in Agents |->
                      IF Found(PState, x, y) # {} THEN [s.bye[x][y] EXCEPT !.phase = "sent"]
                      ELSE s.bye[x][y]]
<1>1. /\ s \in PartnersState /\ s.present = present /\ s.pact = pact /\ s.slots = slots
      /\ s.hooks = hooks /\ s.todo = todo /\ s.prop = prop /\ s.bye = bye /\ s.odd = odd
      /\ PartnersOK(s)
  BY DEF PartnersOK, PState
<1>2. /\ t.present = present' /\ t.pact = pact' /\ t.slots = slots'
      /\ t.hooks = hooks' /\ t.todo = todo' /\ t.prop = prop' /\ t.bye = bye' /\ t.odd = odd'
      /\ t = [present |-> present', pact |-> pact', slots |-> slots', hooks |-> hooks',
              todo |-> todo', prop |-> prop', bye |-> bye', odd |-> odd']
  BY DEF PState
<1>3. /\ scene' = scene /\ odd' = odd /\ present' = present \ {x}
      /\ pact' = [pact EXCEPT ![x] = {}] /\ slots' = [slots EXCEPT ![x] = [@ EXCEPT !.held = {}]]
      /\ hooks' = [hooks EXCEPT ![x] = {}] /\ todo' = [todo EXCEPT ![x] = <<>>]
      /\ prop' = over /\ bye' = [bye EXCEPT ![x] = sent]
  <2> DEFINE c == [PState EXCEPT
            !.present = @ \ {x}, !.pact[x] = {}, !.slots[x].held = {}, !.hooks[x] = {},
            !.todo[x] = <<>>,
            !.prop = [i \in Proposals |->
                        IF Open(i) /\ @[i].from = x THEN [@[i] EXCEPT !.phase = "done"] ELSE @[i]],
            !.bye[x] = [y \in Agents |->
                          IF Found(PState, x, y) # {} THEN [@[y] EXCEPT !.phase = "sent"] ELSE @[y]]]
  <2>1. Now(c) BY DEF Leave
  <2>2. c.odd = odd /\ c.present = present \ {x} BY <1>1
  <2>3. c.pact = [pact EXCEPT ![x] = {}] BY <1>1
  <2>8. c.slots = [slots EXCEPT ![x] = [@ EXCEPT !.held = {}]]
    BY <1>1 DEF PartnersState
  <2>4. c.hooks = [hooks EXCEPT ![x] = {}]
    <3>1. c.hooks = [s.hooks EXCEPT ![x] = {}] OBVIOUS
    <3> QED BY <1>1, <3>1
  <2>9. c.todo = [todo EXCEPT ![x] = <<>>]
    <3>1. c.todo = [s.todo EXCEPT ![x] = <<>>] OBVIOUS
    <3> QED BY <1>1, <3>1
  <2>5. c.prop = over BY <1>1
  <2>6. c.bye = [bye EXCEPT ![x] = sent] BY <1>1
  <2> HIDE DEF c
  <2>7. /\ scene' = scene /\ odd' = c.odd /\ present' = c.present /\ pact' = c.pact
        /\ slots' = c.slots /\ hooks' = c.hooks /\ todo' = c.todo /\ prop' = c.prop
        /\ bye' = c.bye
    BY <2>1 DEF Now
  <2> QED BY <2>2, <2>3, <2>4, <2>5, <2>6, <2>7, <2>8, <2>9
<1>4. \A i \in Proposals : s.prop[i] \in ProposalType BY <1>1 DEF PartnersState
<1>5. \A i \in Proposals :
        /\ t.prop[i] \in ProposalType
        /\ t.prop[i].from = s.prop[i].from /\ t.prop[i].to = s.prop[i].to
        /\ t.prop[i].taken = s.prop[i].taken /\ t.prop[i].answer = s.prop[i].answer
        /\ t.prop[i].own = s.prop[i].own /\ t.prop[i].theirs = s.prop[i].theirs
        /\ t.prop[i] = s.prop[i] \/ (s.prop[i].from = x /\ s.prop[i].phase # "none"
                                      /\ t.prop[i].phase = "done")
  <2> SUFFICES ASSUME NEW i \in Proposals
               PROVE  /\ t.prop[i] \in ProposalType
                      /\ t.prop[i].from = s.prop[i].from /\ t.prop[i].to = s.prop[i].to
                      /\ t.prop[i].taken = s.prop[i].taken /\ t.prop[i].answer = s.prop[i].answer
                      /\ t.prop[i].own = s.prop[i].own /\ t.prop[i].theirs = s.prop[i].theirs
                      /\ t.prop[i] = s.prop[i] \/ (s.prop[i].from = x /\ s.prop[i].phase # "none"
                                                    /\ t.prop[i].phase = "done")
    OBVIOUS
  <2>1. t.prop[i] = IF Open(i) /\ s.prop[i].from = x THEN [s.prop[i] EXCEPT !.phase = "done"]
                    ELSE s.prop[i]
    BY <1>2, <1>3
  <2>2. s.prop[i] \in ProposalType BY <1>4
  <2>3. CASE Open(i) /\ s.prop[i].from = x
    BY <1>1, <2>1, <2>2, <2>3 DEF ProposalType, Open
  <2>4. CASE ~(Open(i) /\ s.prop[i].from = x) BY <2>1, <2>2, <2>4
  <2> QED BY <2>3, <2>4
<1>6. sent \in [Agents -> ByeType]
  <2>1. \A y \in Agents : s.bye[x][y] \in ByeType BY <1>1 DEF PartnersState
  <2>2. \A y \in Agents : [s.bye[x][y] EXCEPT !.phase = "sent"] \in ByeType
    BY <2>1 DEF ByeType
  <2> QED BY <2>1, <2>2
<1>7. prop' \in [Proposals -> ProposalType]
  <2>1. prop' = [i \in Proposals |-> prop'[i]] BY <1>3
  <2> QED BY <1>2, <1>5, <2>1
<1>14. \A b \in Agents : \/ t.bye[x][b] = s.bye[x][b]
                        \/ t.bye[x][b] = [s.bye[x][b] EXCEPT !.phase = "sent"]
  <2>1. t.bye[x] = sent
    <3>1. bye \in [Agents -> [Agents -> ByeType]] BY <1>1 DEF PartnersState
    <3>2. t.bye = [bye EXCEPT ![x] = sent] BY <1>2, <1>3
    <3> HIDE DEF t, sent
    <3> QED BY <3>1, <3>2
  <2> HIDE DEF t
  <2>2. \A b \in Agents : sent[b] = s.bye[x][b] \/ sent[b] = [s.bye[x][b] EXCEPT !.phase = "sent"]
    OBVIOUS
  <2> HIDE DEF sent
  <2> QED BY <2>1, <2>2
<1> HIDE DEF over, sent
<1>8. t \in PartnersState
  <2>1. present' \in SUBSET Agents BY <1>1, <1>3 DEF PartnersState
  <2>2. /\ pact' \in [Agents -> SUBSET KnownPartner] /\ hooks' \in [Agents -> SUBSET JobType]
        /\ odd' \in SUBSET SUBSET Peers
    BY <1>1, <1>3 DEF PartnersState
  <2>3. todo' \in [Agents -> Seq(JobType)]
    <3>1. <<>> \in Seq(JobType) OBVIOUS
    <3> QED BY <1>1, <1>3, <3>1 DEF PartnersState
  <2>4. slots' \in [Agents -> [made : Nat, held : SUBSET Nat]]
    <3>1. slots \in [Agents -> [made : Nat, held : SUBSET Nat]] BY <1>1 DEF PartnersState
    <3>2. [slots[x] EXCEPT !.held = {}] \in [made : Nat, held : SUBSET Nat] BY <3>1
    <3>3. slots' = [slots EXCEPT ![x] = [slots[x] EXCEPT !.held = {}]] BY <1>3, <3>1
    <3> QED BY <3>1, <3>2, <3>3
  <2>5. bye' \in [Agents -> [Agents -> ByeType]] BY <1>1, <1>3, <1>6 DEF PartnersState
  <2> QED BY <1>2, <1>7, <2>1, <2>2, <2>3, <2>4, <2>5 DEF PartnersState
<1>9. /\ t.present = s.present \ {x} /\ t.odd = s.odd
      /\ t.pact[x] = {} /\ t.hooks[x] = {} /\ t.todo[x] = <<>>
      /\ \A a \in Agents \ {x} :
           /\ t.pact[a] = s.pact[a] /\ t.hooks[a] = s.hooks[a] /\ t.todo[a] = s.todo[a]
           /\ t.bye[a] = s.bye[a]
  BY <1>1, <1>2, <1>3 DEF PartnersState
<1>15. /\ t.slots[x].made = s.slots[x].made /\ t.slots[x].held = {}
       /\ \A z \in Agents \ {x} : t.slots[z] = s.slots[z]
  <2>1. slots \in [Agents -> [made : Nat, held : SUBSET Nat]] BY <1>1 DEF PartnersState
  <2>2. t.slots = [slots EXCEPT ![x] = [@ EXCEPT !.held = {}]] BY <1>2, <1>3
  <2>3. t.slots[x] = [slots[x] EXCEPT !.held = {}] BY <2>1, <2>2
  <2> HIDE DEF t
  <2> QED BY <1>1, <2>1, <2>2, <2>3
<1> HIDE DEF s, t
<1>10. PartnersOK(t)
  <2>1. ASSUME NEW a \in Agents, NEW j \in JobsOf(t, a) PROVE a # x /\ j \in JobsOf(s, a)
    <3>1. Elems(<<>>) = {} BY DEF Elems
    <3> QED BY <1>9, <2>1, <3>1 DEF JobsOf
  <2>2. ASSUME NEW a \in Agents, NEW j \in JobsOf(t, a) PROVE JobOK(t, a, j)
    <3>1. JobOK(s, a, j) BY <1>1, <2>1, <2>2 DEF PartnersOK
    <3> QED BY <1>5, <3>1 DEF JobOK
  <2>3. \A a \in Agents : \A j \in t.hooks[a] : j.for \in {"propose", "receive", "restarted"}
    BY <1>1, <1>9 DEF PartnersOK
  <2>4. \A a \in Agents : \A j \in Elems(t.todo[a]) : j.step \in Updates
    <3>1. Elems(<<>>) = {} BY DEF Elems
    <3> QED BY <1>1, <1>9, <3>1 DEF PartnersOK
  <2>5. \A i \in Proposals :
          /\ t.prop[i].phase # "none" => t.prop[i].from \in Agents /\ t.prop[i].to \in Agents
          /\ t.prop[i].answer # "none" => t.prop[i].taken
    BY <1>1, <1>5 DEF PartnersOK
  <2>6. \A a \in t.present : \A b \in Agents :
          t.bye[a][b].phase # "none" => t.bye[a][b].partner.peer = b
    BY <1>1, <1>9 DEF PartnersOK, PartnersState
  <2>7. \A a \in Agents : \A p, q \in t.pact[a] : p.peer = q.peer => p = q
    BY <1>1, <1>9 DEF PartnersOK
  <2> QED BY <1>8, <2>2, <2>3, <2>4, <2>5, <2>6, <2>7 DEF PartnersOK
<1>11. ASSUME PairsOK(s), NEW a \in Agents, NEW b \in Agents, Regular(t, a, b)
       PROVE  PairFits(t, a, b) /\ PairDistinct(t, a, b)
  <2>1. a # x /\ b # x /\ Regular(s, a, b) BY <1>9, <1>11 DEF Regular
  <2>2. PairFits(s, a, b) /\ PairDistinct(s, a, b) BY <1>11, <2>1 DEF PairsOK
  <2>3. /\ Tasks(t, a, b) = Tasks(s, a, b)
        /\ Found(t, a, b) = Found(s, a, b) /\ Found(t, b, a) = Found(s, b, a)
        /\ t.bye[a][b] = s.bye[a][b] /\ t.bye[b][a] = s.bye[b][a]
    BY <1>9, <2>1 DEF Tasks, JobsOf, Found
  <2>4. ASSUME NEW i \in Proposals,
               \/ Path(t, i, a, b) \/ Path(t, i, b, a) \/ Path(s, i, a, b) \/ Path(s, i, b, a)
        PROVE  t.prop[i] = s.prop[i]
    BY <1>5, <2>1, <2>4 DEF Path
  <2>5. /\ Accepted(t, a, b) <=> Accepted(s, a, b)
        /\ Accepted(t, b, a) <=> Accepted(s, b, a)
        /\ Middle(t, a, b) <=> Middle(s, a, b)
    <3>1. \A i \in Proposals : Path(t, i, a, b) <=> Path(s, i, a, b) BY <2>4 DEF Path
    <3>2. \A i \in Proposals : Path(t, i, b, a) <=> Path(s, i, b, a) BY <2>4 DEF Path
    <3>3. Accepted(t, a, b) <=> Accepted(s, a, b) BY <2>4, <3>1 DEF Accepted
    <3>4. Accepted(t, b, a) <=> Accepted(s, b, a) BY <2>4, <3>2 DEF Accepted
    <3>5. Middle(t, a, b) <=> Middle(s, a, b) BY <3>1, <3>2 DEF Middle
    <3> QED BY <3>3, <3>4, <3>5
  <2>6. ASSUME NEW j \in Tasks(s, a, b) PROVE TaskFits(t, a, b, j)
    <3>1. TaskFits(s, a, b, j) /\ JobOK(s, a, j) /\ j.partner.peer = b
      BY <1>1, <2>2 DEF PairFits, PartnersOK, Tasks
    <3>2. j.for \in {"propose", "receive"} => t.prop[j.with] = s.prop[j.with]
      BY <3>1, <2>4 DEF JobOK, TaskFits, Path
    <3> QED BY <2>3, <3>1, <3>2 DEF TaskFits, Knows
  <2>7. PairFits(t, a, b)
    BY <2>2, <2>3, <2>5, <2>6 DEF PairFits, Knows, Leaves, Removing
  <2>8. PairDistinct(t, a, b) BY <1>9, <2>1, <2>2 DEF PairDistinct
  <2> QED BY <2>7, <2>8
<1>12. PairsOK(s) => PairsOK(t) BY <1>11 DEF PairsOK
<1>13. SlotsKept(s, t)
  <2>1. SUFFICES ASSUME Careful, SlotsOK(s) PROVE SlotsOK(t) BY DEF SlotsKept
  <2>2. "restarted" \notin Manners BY <2>1 DEF Careful, Leave
  <2>3. JobsOf(t, x) = {}
    <3>1. Elems(<<>>) = {} BY DEF Elems
    <3> QED BY <1>9, <3>1 DEF JobsOf
  <2>4. Moves(s, t, x, {}, JobsOf(s, x), {})
    <3>1. \A key : Distinct({}, <<>>, key) BY DEF Distinct
    <3> QED BY <1>9, <2>3, <3>1 DEF Moves
  <2>5. \A a, b \in Agents : t.bye[a][b].partner = s.bye[a][b].partner
    <3>1. \A b \in Agents : t.bye[x][b].partner = s.bye[x][b].partner
      <4> SUFFICES ASSUME NEW b \in Agents PROVE t.bye[x][b].partner = s.bye[x][b].partner
        OBVIOUS
      <4>1. s.bye[x][b] \in ByeType BY <1>1 DEF PartnersState
      <4>2. t.bye[x][b] = s.bye[x][b] \/ t.bye[x][b] = [s.bye[x][b] EXCEPT !.phase = "sent"]
        BY <1>14
      <4> QED BY <4>1, <4>2 DEF ByeType
    <3> QED BY <1>9, <3>1
  <2>6. PropLess(s, t)
    <3> SUFFICES ASSUME NEW i \in Proposals
                 PROVE  /\ t.prop[i].from = s.prop[i].from /\ t.prop[i].to = s.prop[i].to
                        /\ t.prop[i].own = s.prop[i].own /\ t.prop[i].theirs = s.prop[i].theirs
                        /\ s.prop[i].taken => t.prop[i].taken
                        /\ t.prop[i].phase = "asked" => s.prop[i].phase = "asked"
                        /\ t.prop[i].phase # "none" => s.prop[i].phase # "none"
      BY DEF PropLess
    <3>1. t.prop[i].own = s.prop[i].own /\ t.prop[i].theirs = s.prop[i].theirs BY <1>5
    <3>2. /\ t.prop[i].from = s.prop[i].from /\ t.prop[i].to = s.prop[i].to
          /\ t.prop[i].taken = s.prop[i].taken
          /\ t.prop[i] = s.prop[i] \/ (s.prop[i].phase # "none" /\ t.prop[i].phase = "done")
      BY <1>5
    <3> QED BY <3>1, <3>2
  <2>7. Aside(s, t, x)
    <3>1. \A z \in Agents \ {x} : t.slots[z] = s.slots[z] /\ t.pact[z] = s.pact[z]
      BY <1>9, <1>15
    <3> QED BY <2>2, <2>5, <2>6, <3>1 DEF Aside
  <2>8. Account(t, x, {} \cup {})
    <3> DEFINE J == JobsOf(s, x)
    <3>1. Account(s, x, J) BY <2>1 DEF SlotsOK
    <3> HIDE DEF J
    <3> DEFINE N == s.pact[x] \cup Parting(J) \cup Farewells(s, x)
               N1 == {} \cup {} \cup Farewells(t, x)
    <3>2. AccountOK(s.slots[x].made, s.slots[x].held, s.pact[x], N, Coming(J), Ready(J), Moving(J),
                    Going(J), Pledged(s, x))
      BY <3>1 DEF Account
    <3>3. Farewells(t, x) = Farewells(s, x) BY <2>5 DEF Farewells
    <3>4. N1 \subseteq N BY <3>3
    <3>5. Pledged(t, x) \subseteq Pledged(s, x) BY <2>6, PledgesLess
    <3> HIDE DEF N, N1
    <3>6. AccountOK(s.slots[x].made, {}, {}, N1, {}, {}, {}, {}, Pledged(t, x))
      BY <3>2, <3>4, <3>5, AccountEmptied
    <3>7. t.slots[x].made = s.slots[x].made /\ t.slots[x].held = {} /\ t.pact[x] = {}
      BY <1>9, <1>15
    <3>8. {} \cup {} = {} OBVIOUS
    <3>9. N1 = t.pact[x] \cup Parting({}) \cup Farewells(t, x) BY <3>7, SlotsOfNone DEF N1
    <3>10. Account(t, x, {}) BY <3>6, <3>7, <3>9, SlotsOfNone DEF Account
    <3> QED BY <3>8, <3>10
  <2>9. /\ \A n \in {} : JobSound(n)
        /\ \A n \in {} : \A l \in {} : SlotKey[n] \cap SlotKey[l] = {}
        /\ \A l \in t.hooks[x] : l \in s.hooks[x] \/ l.step # "allocate"
    BY <1>9
  <2> QED BY ONLY <2>1, <2>4, <2>7, <2>8, <2>9, x \in Agents, SlotsStep
<1> QED BY <1>3, <1>10, <1>12, <1>13 DEF Kept, SidesKept, s, t

-----------------------------------------------------------------------------
(* Both sides of a partnership know of it, and its allocations are held     *)

PartnersIInv ==
  PartnersOK(PState) /\ (Orderly => PairsOK(PState)) /\ (Careful => SlotsOK(PState))

LEMMA PartnersStarts ==
  ASSUME PartnersInit
  PROVE  PartnersIInv
<1> DEFINE s == PState
<1>1. /\ s.present = scene.agents /\ s.pact = [x \in Agents |-> {}]
      /\ s.slots = [x \in Agents |-> [made |-> 0, held |-> {}]]
      /\ s.hooks = [x \in Agents |-> {}] /\ s.todo = [x \in Agents |-> <<>>]
      /\ s.prop = [i \in Proposals |-> Unasked]
      /\ s.bye = [x \in Agents |-> [y \in Agents |-> NoBye]] /\ s.odd = {}
      /\ s = [present |-> s.present, pact |-> s.pact, slots |-> s.slots, hooks |-> s.hooks,
              todo |-> s.todo, prop |-> s.prop, bye |-> s.bye, odd |-> s.odd]
  BY DEF PartnersInit, PState
<1>2. Unasked \in ProposalType /\ Unasked.phase = "none" /\ Unasked.answer = "none"
  BY DEF Unasked, ProposalType, Peers, NoSlot, AnyPartner, NoPartner
<1>3. NoBye \in ByeType /\ NoBye.phase = "none"
  BY DEF NoBye, ByeType, Peers, NoSlot, AnyPartner, NoPartner
<1>4. s.present \in SUBSET Agents BY <1>1, ScenesAssumption DEF PartnersInit
<1> HIDE DEF s
<1>5. s \in PartnersState
  <2>1. <<>> \in Seq(JobType) OBVIOUS
  <2>2. s.todo \in [Agents -> Seq(JobType)] BY <1>1, <2>1
  <2>3. s.bye \in [Agents -> [Agents -> ByeType]] BY <1>1, <1>3
  <2>4. s.prop \in [Proposals -> ProposalType] BY <1>1, <1>2
  <2>5. /\ s.pact \in [Agents -> SUBSET KnownPartner] /\ s.hooks \in [Agents -> SUBSET JobType]
        /\ s.slots \in [Agents -> [made : Nat, held : SUBSET Nat]]
        /\ s.odd \in SUBSET SUBSET Peers
    BY <1>1
  <2> QED BY <1>1, <1>4, <2>2, <2>3, <2>4, <2>5 DEF PartnersState
<1>6. \A x \in Agents : JobsOf(s, x) = {} /\ s.hooks[x] = {} /\ Elems(s.todo[x]) = {}
                        /\ s.todo[x] = <<>>
  BY <1>1 DEF JobsOf, Elems
<1>7. PartnersOK(s)
  <2>1. \A i \in Proposals : s.prop[i].phase = "none" /\ s.prop[i].answer = "none"
    BY <1>1, <1>2
  <2>2. \A x, y \in Agents : s.bye[x][y].phase = "none" BY <1>1, <1>3
  <2> QED BY <1>1, <1>4, <1>5, <1>6, <2>1, <2>2 DEF PartnersOK
<1>8. PairsOK(s)
  <2> SUFFICES ASSUME NEW a \in Agents, NEW b \in Agents
               PROVE  PairFits(s, a, b) /\ PairDistinct(s, a, b)
    BY DEF PairsOK
  <2>1. s.bye[a][b].phase = "none" /\ s.bye[b][a].phase = "none" BY <1>1, <1>3
  <2>2. Tasks(s, a, b) = {} /\ Tasks(s, b, a) = {} BY <1>6 DEF Tasks
  <2>3. ~Knows(s, a, b) /\ ~Knows(s, b, a) BY <1>1 DEF Knows, Found
  <2>4. ~Accepted(s, a, b) /\ ~Middle(s, a, b)
    BY <1>1, <1>2 DEF Accepted, Middle, Path
  <2>5. PairFits(s, a, b) BY <2>1, <2>2, <2>3, <2>4 DEF PairFits, Removing
  <2>6. PairDistinct(s, a, b) BY <1>6 DEF PairDistinct, Distinct
  <2> QED BY <2>5, <2>6
<1>9. SlotsOK(s)
  <2>1. \A i \in Proposals : s.prop[i].phase = "none" BY <1>1, <1>2
  <2>2. \A x \in Agents : \A i \in Proposals : Pledges(s, x, i) = {} BY <2>1 DEF Pledges
  <2>3. \A x \in Agents : Pledged(s, x) = {} BY <2>2 DEF Pledged
  <2>4. \A x, y \in Agents : s.bye[x][y].phase = "none" /\ s.bye[x][y].partner = NoPartner
    BY <1>1 DEF NoBye
  <2>5. \A x \in Agents : Farewells(s, x) \subseteq {NoPartner} BY <2>4 DEF Farewells
  <2>6. ASSUME NEW x \in Agents PROVE Account(s, x, {})
    <3>1. s.slots[x].made = 0 /\ s.slots[x].held = {} /\ s.pact[x] = {} BY <1>1
    <3>2. NoPartner.slot = 0 /\ NoSlot = 0 BY DEF NoPartner, NoSlot
    <3>3. ASSUME NEW N, N \subseteq {NoPartner}
          PROVE  AccountOK(0, {}, {}, N, {}, {}, {}, {}, {})
      BY <3>2, <3>3 DEF AccountOK
    <3> DEFINE N == s.pact[x] \cup Parting({}) \cup Farewells(s, x)
    <3>4. N \subseteq {NoPartner} BY <2>5, <3>1, SlotsOfNone
    <3> HIDE DEF N
    <3>5. AccountOK(0, {}, {}, N, {}, {}, {}, {}, {}) BY <3>3, <3>4
    <3> QED BY <2>3, <3>1, <3>5, SlotsOfNone DEF Account, N
  <2>7. \A x \in Agents : Account(s, x, JobsOf(s, x)) BY <1>6, <2>6
  <2>8. \A x \in Agents : Distinct(s.hooks[x], s.todo[x], SlotKey) BY <1>6 DEF Distinct
  <2> QED BY <1>6, <2>1, <2>2, <2>4, <2>7, <2>8 DEF SlotsOK
<1> QED BY <1>7, <1>8, <1>9 DEF PartnersIInv, s

LEMMA PartnersSteps ==
  ASSUME PartnersIInv, [PartnersNext]_partnerVars
  PROVE  PartnersIInv'
<1>1. CASE UNCHANGED partnerVars
  <2>1. PState' = PState /\ scene' = scene BY <1>1 DEF partnerVars, PState
  <2> QED BY <2>1 DEF PartnersIInv, Orderly, Careful, Manners, PairsOK, PairFits, TaskFits, SlotsOK,
                      JobSound
<1>2. ASSUME PartnersNext PROVE scene' = scene /\ Kept(PState, PState')
  <2>0. PartnersOK(PState) BY DEF PartnersIInv
  <2>1. ASSUME NEW x \in Agents,
               \/ DescriptorSaved(x) \/ Breakup(x) \/ Leave(x) \/ Restarted(x)
               \/ \E job \in hooks[x] : HookEnds(x, job)
        PROVE  scene' = scene /\ Kept(PState, PState')
    <3>1. CASE DescriptorSaved(x) BY <2>0, <3>1, DescriptorSavedKept
    <3>2. CASE Breakup(x) BY <2>0, <3>2, BreakupKept
    <3>3. CASE Leave(x) BY <2>0, <3>3, LeaveKept
    <3>4. CASE Restarted(x) BY <2>0, <3>4, RestartedKept
    <3>5. ASSUME NEW job \in hooks[x], HookEnds(x, job)
          PROVE  scene' = scene /\ Kept(PState, PState')
      BY <2>0, <3>5, HookEndsKept
    <3> QED BY <2>1, <3>1, <3>2, <3>3, <3>4, <3>5
  <2>2. ASSUME NEW x \in Agents, NEW y \in Agents,
               \/ Establish(x, y) \/ DoublePartnership(x, y)
               \/ GoodbyeRequested(x, y) \/ DoBreakup(x, y)
        PROVE  scene' = scene /\ Kept(PState, PState')
    <3>1. CASE Establish(x, y) BY <2>0, <3>1, EstablishKept
    <3>2. CASE DoublePartnership(x, y) BY <2>0, <3>2, DoublePartnershipKept
    <3>3. CASE GoodbyeRequested(x, y) BY <2>0, <3>3, GoodbyeRequestedKept
    <3>4. CASE DoBreakup(x, y) BY <2>0, <3>4, DoBreakupKept
    <3> QED BY <2>2, <3>1, <3>2, <3>3, <3>4
  <2>3. ASSUME NEW i \in Proposals, ProposalRequested(i) \/ GotReply(i) \/ ProposalClosed(i)
        PROVE  scene' = scene /\ Kept(PState, PState')
    <3>1. CASE ProposalRequested(i) BY <2>0, <3>1, ProposalRequestedKept
    <3>2. CASE GotReply(i) BY <2>0, <3>2, GotReplyStep
    <3>3. CASE ProposalClosed(i) BY <2>0, <3>3, ProposalClosedKept
    <3> QED BY <2>3, <3>1, <3>2, <3>3
  <2> QED BY <1>2, <2>1, <2>2, <2>3 DEF PartnersNext
<1>3. ASSUME scene' = scene, PairsOK(PState') PROVE PairsOK(PState)'
  BY <1>3 DEF PairsOK, PairFits, TaskFits, Manners
<1>4. ASSUME scene' = scene, SlotsOK(PState') PROVE SlotsOK(PState)'
  BY <1>4 DEF SlotsOK, JobSound, Manners
<1>5. ASSUME scene' = scene, Kept(PState, PState') PROVE PartnersIInv'
  <2>1. Orderly' = Orderly /\ Careful' = Careful BY <1>5 DEF Orderly, Careful, Manners
  <2>2. PartnersOK(PState)' BY <1>5 DEF Kept, SidesKept
  <2>3. Orderly' => PairsOK(PState)'
    BY <1>3, <1>5, <2>1 DEF Kept, SidesKept, PartnersIInv
  <2>4. Careful' => SlotsOK(PState)'
    BY <1>4, <1>5, <2>1 DEF Kept, SlotsKept, PartnersIInv
  <2> QED BY <2>2, <2>3, <2>4 DEF PartnersIInv
<1> QED BY <1>1, <1>2, <1>5

LEMMA PartnersImply ==
  ASSUME PartnersIInv
  PROVE  OnePartner /\ (Careful => AllocationsExist) /\ (Orderly => SidesAgree)
<1> DEFINE s == PState
<1>1. /\ PartnersOK(s) /\ s.present = present /\ s.pact = pact /\ s.hooks = hooks
      /\ s.todo = todo /\ s.prop = prop /\ s.bye = bye /\ s.odd = odd
  BY DEF PartnersIInv, PState
<1>2. OnePartner BY <1>1 DEF PartnersOK, OnePartner
<1>3. ASSUME Orderly, NEW x \in present, NEW y \in present, Quiet(x, y), {x, y} \notin odd,
             Found(s, x, y) # {}, x # y
      PROVE  Found(s, y, x) # {}
  <2>1. x \in Agents /\ y \in Agents BY <1>1 DEF PartnersOK, PartnersState
  <2>2. Regular(s, x, y) BY <1>1, <1>3 DEF Regular
  <2>3. PairFits(s, x, y) BY <1>3, <2>1, <2>2 DEF PartnersIInv, PairsOK
  <2>4. Tasks(s, x, y) = {} /\ s.bye[x][y].phase = "none"
    BY <1>1, <1>3 DEF Quiet, Tasks, JobsOf, Jobs, Elems
  <2>5. ~Accepted(s, y, x)
    BY <1>1, <1>3 DEF Quiet, Between, Proposing, Open, Accepted, Path
  <2> QED BY <1>3, <2>3, <2>4, <2>5 DEF PairFits, Knows, Leaves
<1>4. ASSUME Orderly PROVE SidesAgree
  <2> SUFFICES ASSUME NEW x \in present, NEW y \in present, Quiet(x, y), {x, y} \notin odd
               PROVE  Found(s, x, y) # {} <=> Found(s, y, x) # {}
    BY DEF SidesAgree
  <2>1. CASE x = y BY <2>1
  <2>2. CASE x # y
    <3>1. Quiet(y, x) /\ {y, x} \notin odd
      <4>1. {x, y} = {y, x} OBVIOUS
      <4> QED BY <4>1 DEF Quiet, Between
    <3> HIDE DEF s
    <3> QED BY <1>3, <1>4, <2>2, <3>1
  <2> QED BY <2>1, <2>2
<1>5. ASSUME Careful PROVE AllocationsExist
  <2> SUFFICES ASSUME NEW x \in Agents, NEW p \in pact[x], p.slot # NoSlot
               PROVE  p.slot \in slots[x].held
    BY DEF AllocationsExist
  <2>1. s.slots = slots BY DEF PState
  <2>2. Account(s, x, JobsOf(s, x)) BY <1>5 DEF PartnersIInv, SlotsOK
  <2> HIDE DEF s
  <2>3. p \in s.pact[x] BY <1>1
  <2> QED BY <2>1, <2>2, <2>3 DEF Account, AccountOK
<1> QED BY <1>2, <1>4, <1>5

(* An agent knows a partner once.  Unless partners are replaced, or         *)
(* addresses change while partnerships end, the allocation of a partner is  *)
(* held.  Unless a partnership is broken up during a proposal or after a    *)
(* restart, two agents between which nothing is under way, and nothing went *)
(* wrong, are partners of each other or are not (partners.py, create() and  *)
(* remove(); requester.py, Propose and SayGoodbye).                         *)
THEOREM PartnershipAgreed ==
  PartnersSpec => [](OnePartner /\ (Careful => AllocationsExist) /\ (Orderly => SidesAgree))
<1>1. PartnersInit => PartnersIInv BY PartnersStarts
<1>2. PartnersIInv /\ [PartnersNext]_partnerVars => PartnersIInv' BY PartnersSteps
<1>3. PartnersIInv => OnePartner /\ (Careful => AllocationsExist) /\ (Orderly => SidesAgree)
  BY PartnersImply
<1> QED BY <1>1, <1>2, <1>3, PTL DEF PartnersSpec

(* What is claimed of partners as a whole, in the scenes to which neither   *)
(* exception applies: both sides of a partnership know of it, once, and its *)
(* allocations are held until the partner is removed (agent.py,             *)
(* establish_partnership(); partners.py, create(), remove() and             *)
(* on_restarted(); requester.py, _release_allocation()).                    *)
THEOREM PartnersAreSafe == PartnersSpec => [](Orderly /\ Careful => PartnersSafe)
<1>1. OnePartner /\ (Careful => AllocationsExist) /\ (Orderly => SidesAgree)
      => (Orderly /\ Careful => PartnersSafe)
  BY DEF PartnersSafe
<1> QED BY <1>1, PartnershipAgreed, PTL
=============================================================================
