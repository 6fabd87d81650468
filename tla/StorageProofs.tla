---------------------------- MODULE StorageProofs ----------------------------
(***************************************************************************)
(* Updates of a descriptor are neither lost nor reordered, and only the    *)
(* instance that wrote last may write again; and the journaler loses no    *)
(* entry: for any number of instances, updates, entries and writers, and   *)
(* any failures.                                                           *)
(*                                                                         *)
(* The argument for the descriptor: every copy of the document, kept by an *)
(* instance or sent in a request, is a prefix of the document, so that a   *)
(* request made from the current revision adds its update and changes      *)
(* nothing else.  A copy in which an instance has written ends with what   *)
(* it wrote, and what it holds of the instance's updates is older than     *)
(* what the instance has yet to write.  Unless a request of its own was    *)
(* reported as failed, an instance that is up has a copy of all that it    *)
(* has written but for the save it waits for, so that a change it does not *)
(* know of is somebody else's (AlarmInv).                                  *)
(*                                                                         *)
(* For the journaler (JInvariant): one operation of a writer at a time     *)
(* works on its cache, and a flush is written by the writer that it was    *)
(* given to (ControlOK).  What the flush has fetched is in that writer's   *)
(* cache or its target, so that the journaler may drop it at the end; and  *)
(* what a migration has read outlives its source, in another target or in  *)
(* the journaler's cache behind what was fetched before the migration      *)
(* (EntriesOK).  For that, until the migration each entry comes after all  *)
(* before it, in the stores and in the caches (Closed, Supported).         *)
(***************************************************************************)
EXTENDS Descriptor, Journaler, SequenceTheorems, FiniteSetTheorems, TLAPS

Docs == Seq(Updates)

Pre(s, d) == Len(s) <= Len(d) /\ \A k \in 1..Len(s) : s[k] = d[k]
Owned(s, i) == (\E k \in 1..Len(s) : s[k].by = i) => s[Len(s)].by = i
Older(s, i, n) == \A k \in 1..Len(s) : s[k].by = i /\ s[k].kind # "delete" => s[k].n < n

RequestOK(q, d) ==
  /\ Pre(q.base, d)
  /\ Owned(q.base, q.u.by)
  /\ Older(q.base, q.u.by, q.u.n)
  /\ q.stage = "stored" => Pre(Append(q.base, q.u), d)

QueueOK(i, p) ==
  /\ \A k \in 1..Len(p.queue) : p.queue[k].by = i /\ p.queue[k].n <= p.issued
  /\ \A j, k \in 1..Len(p.queue) : j < k => p.queue[j].n < p.queue[k].n

(* The copy s that the instance has, or may get, is older than what waits. *)
CopyOK(s, i, p) ==
  /\ \A k \in 1..Len(p.queue) : Older(s, i, p.queue[k].n)
  /\ Older(s, i, p.issued + 1)

InstanceOK(i, p, d) ==
  /\ Pre(p.desc, d) /\ Owned(p.desc, i) /\ CopyOK(p.desc, i, p)
  /\ QueueOK(i, p)
  /\ p.save # NoRequest =>
       /\ RequestOK(p.save, d) /\ p.save.u.by = i /\ p.save.u.n <= p.issued
       /\ \A k \in 1..Len(p.queue) : p.save.u.n < p.queue[k].n
  /\ p.del # NoRequest =>
       /\ RequestOK(p.del, d) /\ p.del.u.by = i /\ p.del.u.kind = "delete"
       /\ CopyOK(p.del.base, i, p)

(* An instance that has not loaded the descriptor has not written. *)
NewOK(i, p, d) ==
  p.boot = "new" =>
    /\ p.save = NoRequest /\ p.del = NoRequest /\ p.queue = <<>> /\ p.issued = 0
    /\ p.life # "gentle"
    /\ \A k \in 1..Len(d) : d[k].by # i
    /\ \A q \in stray : q.u.by # i

Inv ==
  /\ TypeOK
  /\ \A i \in Instances : InstanceOK(i, inst[i], db) /\ NewOK(i, inst[i], db)
  /\ \A q \in stray : RequestOK(q, db)
  /\ NoLostUpdate /\ InOrder /\ OneOwner

-----------------------------------------------------------------------------
(* Documents *)

(* A document with one more update. *)
LEMMA AppendFacts ==
  ASSUME NEW d \in Docs, NEW u \in Updates
  PROVE  /\ Append(d, u) \in Docs
         /\ Len(Append(d, u)) = Len(d) + 1 /\ Len(d) \in Nat
         /\ \A k \in 1..Len(d) : Append(d, u)[k] = d[k]
         /\ Append(d, u)[Len(d) + 1] = u
BY DEF Docs

(* The updates of a document are numbered. *)
LEMMA Numbered ==
  ASSUME NEW s \in Docs
  PROVE  \A k \in 1..Len(s) : s[k] \in Updates /\ s[k].n \in Nat
<1>1. \A k \in 1..Len(s) : s[k] \in Updates BY DEF Docs
<1>2. \A u \in Updates : u.n \in Nat BY MaxUpdatesAssumption DEF Updates
<1> QED BY <1>1, <1>2

(* A prefix stays a prefix when the document grows. *)
LEMMA PreGrows ==
  ASSUME NEW s \in Docs, NEW d \in Docs, NEW u \in Updates, Pre(s, d)
  PROVE  Pre(s, Append(d, u))
<1>1. Len(s) \in Nat BY DEF Docs
<1> QED BY <1>1, AppendFacts DEF Pre

(* A copy of the current revision is the document. *)
LEMMA PreIsAll ==
  ASSUME NEW s \in Docs, NEW d \in Docs, Pre(s, d), Len(s) = Len(d)
  PROVE  s = d
BY SeqEqual DEF Pre, Docs

(* A request that is good stays so when the document grows. *)
LEMMA RequestGrows ==
  ASSUME NEW q \in InFlight, NEW d \in Docs, NEW u \in Updates, RequestOK(q, d)
  PROVE  RequestOK(q, Append(d, u))
<1>1. q.base \in Docs /\ q.u \in Updates BY DEF InFlight, Docs
<1>2. Append(q.base, q.u) \in Docs BY <1>1, AppendFacts
<1>3. Pre(q.base, Append(d, u)) BY <1>1, PreGrows DEF RequestOK
<1>4. q.stage = "stored" => Pre(Append(q.base, q.u), Append(d, u))
  BY <1>2, PreGrows DEF RequestOK
<1> QED BY <1>3, <1>4 DEF RequestOK

(* And so does an instance. *)
LEMMA InstanceGrows ==
  ASSUME NEW i \in Instances, NEW p \in InstanceSet, NEW d \in Docs, NEW u \in Updates,
         InstanceOK(i, p, d)
  PROVE  InstanceOK(i, p, Append(d, u))
<1>1. p.desc \in Docs /\ p.save \in InFlight \cup {NoRequest} /\ p.del \in InFlight \cup {NoRequest}
  BY DEF InstanceSet, Docs
<1>2. Pre(p.desc, Append(d, u)) BY <1>1, PreGrows DEF InstanceOK
<1>3. p.save # NoRequest => RequestOK(p.save, Append(d, u))
  BY <1>1, RequestGrows DEF InstanceOK
<1>4. p.del # NoRequest => RequestOK(p.del, Append(d, u))
  BY <1>1, RequestGrows DEF InstanceOK
<1> QED BY <1>2, <1>3, <1>4 DEF InstanceOK

(* An instance that has done nothing. *)
LEMMA NewInstanceFacts ==
  /\ NewInstance \in InstanceSet /\ NewInstance.desc = <<>> /\ NewInstance.queue = <<>>
  /\ NewInstance.issued = 0 /\ NewInstance.save = NoRequest /\ NewInstance.del = NoRequest
  /\ NewInstance.life = "up"
BY MaxUpdatesAssumption DEF NewInstance, InstanceSet, Boots, Lives

(* Whatever the document, such an instance agrees with it. *)
LEMMA BlankOK ==
  ASSUME NEW i \in Instances, NEW p, NEW d \in Docs, p.desc = <<>>, p.queue = <<>>,
         p.issued = 0, p.save = NoRequest, p.del = NoRequest
  PROVE  InstanceOK(i, p, d)
<1>1. Len(<<>>) = 0 /\ 1..0 = {} /\ Len(d) \in Nat BY DEF Docs
<1> QED BY <1>1 DEF InstanceOK, Pre, Owned, CopyOK, QueueOK, Older

(* The database takes a request that was made from the current revision:   *)
(* the update is added to the document, which keeps what it was.           *)
LEMMA StoreFacts ==
  ASSUME TypeOK, NoLostUpdate, InOrder, OneOwner,
         NEW q \in InFlight, RequestOK(q, db), Current(q),
         db' = Append(q.base, q.u), done' = done
  PROVE  /\ db' = Append(db, q.u) /\ db' \in Docs
         /\ NoLostUpdate' /\ InOrder' /\ OneOwner'
<1>0. db \in Docs /\ q.base \in Docs /\ q.u \in Updates
  BY DEF TypeOK, Docs, InFlight
<1>1. q.base = db BY <1>0, PreIsAll DEF RequestOK, Current
<1>2. /\ db' \in Docs /\ Len(db') = Len(db) + 1 /\ Len(db) \in Nat
      /\ \A k \in 1..Len(db) : db'[k] = db[k]
      /\ db'[Len(db) + 1] = q.u
  BY <1>0, <1>1, AppendFacts
<1>3. NoLostUpdate' BY <1>2 DEF NoLostUpdate
<1>4. InOrder'
  <2> SUFFICES ASSUME NEW j \in 1..Len(db'), NEW k \in 1..Len(db'),
                      j < k, db'[j].by = db'[k].by, db'[j].kind # "delete"
               PROVE  db'[j].n < db'[k].n
    BY DEF InOrder
  <2>1. CASE k \in 1..Len(db)
    BY <2>1, <1>2 DEF InOrder
  <2>2. CASE k = Len(db) + 1
    BY <2>2, <1>1, <1>2 DEF RequestOK, Older
  <2> QED BY <2>1, <2>2, <1>2
<1>5. OneOwner'
  <2> SUFFICES ASSUME NEW j \in 1..Len(db'), NEW k \in 1..Len(db'),
                      j < k, db'[j].by = db'[k].by
               PROVE  \A m \in j..k : db'[m].by = db'[j].by
    BY DEF OneOwner
  <2> TAKE m \in j..k
  <2>1. CASE k \in 1..Len(db)
    <3>1. m \in 1..Len(db) /\ j \in 1..Len(db) BY <2>1, <1>2
    <3> QED BY <2>1, <3>1, <1>2 DEF OneOwner
  <2>2. CASE k = Len(db) + 1
    <3>1. j \in 1..Len(db) /\ db[j].by = q.u.by BY <2>2, <1>2
    <3>2. db[Len(db)].by = q.u.by
      BY <3>1, <1>1 DEF RequestOK, Owned
    <3>3. CASE m = Len(db) + 1 BY <3>3, <2>2
    <3>4. CASE m \in j..Len(db)
      <4>1. CASE j = Len(db) BY <4>1, <3>4, <1>2
      <4>2. CASE j < Len(db)
        <5>1. Len(db) \in 1..Len(db) /\ m \in 1..Len(db) BY <3>1, <3>4, <1>2
        <5> QED BY <4>2, <5>1, <3>1, <3>2, <3>4, <1>2 DEF OneOwner
      <4> QED BY <4>1, <4>2, <3>1, <1>2
    <3> QED BY <3>3, <3>4, <2>2, <1>2
  <2> QED BY <2>1, <2>2, <1>2
<1> QED BY <1>1, <1>2, <1>3, <1>4, <1>5

-----------------------------------------------------------------------------
(* Instances *)

(* What the invariant says of an instance depends on these fields only. *)
SameCore(p, r) ==
  /\ r \in InstanceSet
  /\ r.boot = p.boot /\ r.desc = p.desc /\ r.queue = p.queue
  /\ r.issued = p.issued /\ r.save = p.save /\ r.del = p.del

(* An instance that differs in its other fields is as good. *)
LEMMA CoreKeeps ==
  ASSUME NEW i, NEW d, NEW p, NEW r, SameCore(p, r), InstanceOK(i, p, d)
  PROVE  InstanceOK(i, r, d)
BY DEF SameCore, InstanceOK, CopyOK, QueueOK

(* Termination and the judgement of changes leave the copy and the queue. *)
LEMMA QuietOps ==
  ASSUME NEW p \in InstanceSet
  PROVE  /\ SameCore(p, TerminateHard(p))
         /\ SameCore(p, Unlocked(p))
         /\ SameCore(p, End(p))
         /\ \A R : SameCore(p, ProcessChange(p, R))
         /\ p.life # "gentle" =>
              /\ TerminateHard(p).life # "gentle"
              /\ \A R : ProcessChange(p, R).life # "gentle"
         /\ End(p).life # "gentle"
<1>0. {"hard", "killed", "terminated"} \subseteq Lives BY DEF Lives
<1>1. \A q \in InstanceSet : SameCore(q, TerminateHard(q))
  BY <1>0 DEF SameCore, TerminateHard, InstanceSet
<1>2. \A R : \A q \in InstanceSet : SameCore(q, ProcessChange(q, R))
  <2>1. \A q \in InstanceSet : SameCore(q, q) BY DEF SameCore
  <2> QED BY <1>1, <2>1 DEF ProcessChange
<1>3. SameCore(p, Unlocked(p))
  <2> DEFINE q == [p EXCEPT !.buffer = {}]
  <2>1. SameCore(p, p) /\ SameCore(p, q) BY DEF SameCore, InstanceSet
  <2>2. q \in InstanceSet BY <2>1 DEF SameCore
  <2>3. SameCore(q, ProcessChange(q, p.buffer)) BY <1>2, <2>2
  <2>4. SameCore(p, ProcessChange(q, p.buffer)) BY <2>1, <2>3 DEF SameCore
  <2> QED BY <2>1, <2>4 DEF Unlocked
<1>4. SameCore(p, End(p)) BY <1>0 DEF SameCore, End, InstanceSet
<1>5. p.life # "gentle" =>
        TerminateHard(p).life # "gentle" /\ \A R : ProcessChange(p, R).life # "gentle"
  <2>1. p.life # "gentle" => TerminateHard(p).life # "gentle" BY DEF TerminateHard, InstanceSet
  <2> QED BY <2>1 DEF ProcessChange
<1>6. End(p).life # "gentle" BY DEF End, InstanceSet
<1> QED BY <1>1, <1>2, <1>3, <1>4, <1>5, <1>6

(* _next_update(): the request is made from the copy, which is older than  *)
(* the first update in the queue.                                          *)
LEMMA NextUpdateKeeps ==
  ASSUME NEW i \in Instances, NEW p \in InstanceSet, NEW d \in Docs, InstanceOK(i, p, d),
         NEW r \in NextUpdate(p)
  PROVE  r \in InstanceSet /\ InstanceOK(i, r, d) /\ r.boot = p.boot
<1>1. CASE p.save # NoRequest \/ p.queue = <<>> BY <1>1 DEF NextUpdate
<1>2. CASE ~(p.save # NoRequest \/ p.queue = <<>>)
  <2> DEFINE u == Head(p.queue)
             t == Tail(p.queue)
             q == [p EXCEPT !.queue = t]
             x == Request(p.desc, u)
  <2>1. p.queue \in Docs /\ p.desc \in Docs /\ p.queue # <<>> /\ p.issued \in Nat
    BY <1>2, MaxUpdatesAssumption DEF InstanceSet, Docs
  <2>2. /\ u \in Updates /\ t \in Docs /\ u = p.queue[1]
        /\ Len(p.queue) \in Nat \ {0} /\ Len(t) = Len(p.queue) - 1
        /\ \A k \in 1..Len(t) : t[k] = p.queue[k + 1]
    BY <2>1, HeadTailProperties, EmptySeq DEF Docs
  <2>3. \A k \in 1..Len(t) : k + 1 \in 1..Len(p.queue) /\ 1 < k + 1
    BY <2>2
  <2>4. 1 \in 1..Len(p.queue) BY <2>2
  <2>5. q \in InstanceSet BY <2>2 DEF InstanceSet, Docs
  <2>6. QueueOK(i, q) /\ CopyOK(q.desc, i, q)
    <3>1. q.queue = t /\ q.issued = p.issued /\ q.desc = p.desc BY DEF InstanceSet
    <3>2. \A k \in 1..Len(t) : t[k].by = i /\ t[k].n <= p.issued /\ Older(p.desc, i, t[k].n)
      BY <2>2, <2>3 DEF InstanceOK, QueueOK, CopyOK
    <3>3. \A j, k \in 1..Len(t) : j < k => t[j].n < t[k].n
      <4> SUFFICES ASSUME NEW j \in 1..Len(t), NEW k \in 1..Len(t), j < k
                   PROVE  t[j].n < t[k].n
        OBVIOUS
      <4>1. j + 1 \in 1..Len(p.queue) /\ k + 1 \in 1..Len(p.queue) /\ j + 1 < k + 1
        BY <2>2
      <4> QED BY <4>1, <2>2 DEF InstanceOK, QueueOK
    <3> QED BY <3>1, <3>2, <3>3 DEF QueueOK, CopyOK, InstanceOK
  <2>7. q.del # NoRequest => CopyOK(q.del.base, i, q)
    <3>1. q.queue = t /\ q.issued = p.issued /\ q.del = p.del BY DEF InstanceSet
    <3>2. p.del # NoRequest => \A k \in 1..Len(t) : Older(p.del.base, i, t[k].n)
      BY <2>2, <2>3 DEF InstanceOK, CopyOK
    <3> QED BY <3>1, <3>2 DEF CopyOK, InstanceOK
  <2>8. CASE r = [q EXCEPT !.next = TRUE]
    <3>1. SameCore(q, r) BY <2>5, <2>8 DEF SameCore, InstanceSet
    <3>2. InstanceOK(i, q, d)
      <4>1. q.desc = p.desc /\ q.save = NoRequest /\ q.del = p.del BY <1>2 DEF InstanceSet
      <4> QED BY <4>1, <2>6, <2>7 DEF InstanceOK
    <3>3. r.boot = p.boot BY <3>1 DEF SameCore, InstanceSet
    <3> QED BY <3>1, <3>2, <3>3, CoreKeeps DEF SameCore
  <2>9. CASE r = [q EXCEPT !.save = x]
    <3>1. x \in InFlight /\ x # NoRequest /\ x.base = p.desc /\ x.u = u /\ x.stage = "sent"
      BY <2>1, <2>2 DEF Request, InFlight, NoRequest, Stages, Docs
    <3>2. /\ r \in InstanceSet /\ r.boot = p.boot /\ r.desc = p.desc /\ r.queue = t
          /\ r.issued = p.issued /\ r.save = x /\ r.del = p.del
      BY <2>2, <2>9, <3>1 DEF InstanceSet, Docs
    <3>3. u.by = i /\ u.n <= p.issued /\ Older(p.desc, i, u.n)
      BY <2>2, <2>4 DEF InstanceOK, QueueOK, CopyOK
    <3>4. RequestOK(x, d) BY <3>1, <3>3 DEF RequestOK, InstanceOK
    <3>5. \A k \in 1..Len(t) : u.n < t[k].n
      BY <2>2, <2>3, <2>4 DEF InstanceOK, QueueOK
    <3>6. QueueOK(i, r) /\ CopyOK(r.desc, i, r) /\ (r.del # NoRequest => CopyOK(r.del.base, i, r))
      <4>1. q.queue = r.queue /\ q.issued = r.issued /\ q.desc = r.desc /\ q.del = r.del
        BY <3>2 DEF InstanceSet
      <4> QED BY <4>1, <2>6, <2>7 DEF QueueOK, CopyOK
    <3> QED BY <3>1, <3>2, <3>3, <3>4, <3>5, <3>6 DEF InstanceOK
  <2>10. r = [q EXCEPT !.save = x] \/ r = [q EXCEPT !.next = TRUE]
    BY <1>2 DEF NextUpdate
  <2> QED BY <2>8, <2>9, <2>10
<1> QED BY <1>1, <1>2

(* update_descriptor(): a new update is newer than every copy. *)
LEMMA EnqueueKeeps ==
  ASSUME NEW i \in Instances, NEW p \in InstanceSet, NEW d \in Docs, InstanceOK(i, p, d),
         p.issued < MaxUpdates, NEW kind \in Kinds, NEW r \in Enqueue(i, p, kind)
  PROVE  r \in InstanceSet /\ InstanceOK(i, r, d) /\ r.boot = p.boot
<1> DEFINE n == p.issued + 1
           u == Update(i, n, kind)
           q == [p EXCEPT !.queue = Append(@, u), !.issued = @ + 1]
<1>1. p.issued \in Nat /\ p.queue \in Docs /\ n \in 1..MaxUpdates + 1 /\ n \in 0..MaxUpdates
  BY MaxUpdatesAssumption DEF InstanceSet, Docs
<1>2. u \in Updates /\ u.by = i /\ u.n = n BY <1>1 DEF Update, Updates
<1>3. /\ Append(p.queue, u) \in Docs /\ Len(Append(p.queue, u)) = Len(p.queue) + 1
      /\ Len(p.queue) \in Nat
      /\ \A k \in 1..Len(p.queue) : Append(p.queue, u)[k] = p.queue[k]
      /\ Append(p.queue, u)[Len(p.queue) + 1] = u
  BY <1>1, <1>2, AppendFacts
<1>4. /\ q \in InstanceSet /\ q.queue = Append(p.queue, u) /\ q.issued = n /\ q.boot = p.boot
      /\ q.desc = p.desc /\ q.save = p.save /\ q.del = p.del
  BY <1>1, <1>3 DEF InstanceSet, Docs
<1>5. \A k \in 1..Len(q.queue) : k \in 1..Len(p.queue) \/ (k = Len(p.queue) + 1 /\ q.queue[k] = u)
  BY <1>3, <1>4
<1>6. \A k \in 1..Len(p.queue) : q.queue[k] = p.queue[k] BY <1>3, <1>4
<1>7. \A k \in 1..Len(p.queue) : p.queue[k].n \in Nat
  BY <1>1, Numbered
<1>8. QueueOK(i, q)
  <2>1. \A k \in 1..Len(q.queue) : q.queue[k].by = i /\ q.queue[k].n <= q.issued
    BY <1>1, <1>2, <1>4, <1>5, <1>6, <1>7 DEF InstanceOK, QueueOK
  <2>2. \A j, k \in 1..Len(q.queue) : j < k => q.queue[j].n < q.queue[k].n
    <3> SUFFICES ASSUME NEW j \in 1..Len(q.queue), NEW k \in 1..Len(q.queue), j < k
                 PROVE  q.queue[j].n < q.queue[k].n
      OBVIOUS
    <3>1. j \in 1..Len(p.queue) BY <1>3, <1>4
    <3>2. p.queue[j].n <= p.issued BY <3>1 DEF InstanceOK, QueueOK
    <3>3. CASE k \in 1..Len(p.queue) BY <3>1, <3>3, <1>6 DEF InstanceOK, QueueOK
    <3>4. CASE q.queue[k] = u BY <3>1, <3>2, <3>4, <1>1, <1>2, <1>6, <1>7
    <3> QED BY <3>3, <3>4, <1>5
  <2> QED BY <2>1, <2>2 DEF QueueOK
<1>9. \A s \in Docs : CopyOK(s, i, p) => CopyOK(s, i, q)
  <2> SUFFICES ASSUME NEW s \in Docs, CopyOK(s, i, p) PROVE CopyOK(s, i, q)
    OBVIOUS
  <2>1. \A k \in 1..Len(s) : s[k].n \in Nat BY Numbered
  <2>2. Older(s, i, n) BY DEF CopyOK
  <2>3. Older(s, i, q.issued + 1) BY <2>1, <2>2, <1>1, <1>4 DEF Older
  <2>4. \A k \in 1..Len(q.queue) : Older(s, i, q.queue[k].n)
    BY <2>2, <1>2, <1>5, <1>6 DEF CopyOK
  <2> QED BY <2>3, <2>4 DEF CopyOK
<1>10. p.desc \in Docs /\ (p.del # NoRequest => p.del.base \in Docs)
      /\ (p.save # NoRequest => p.save.u.n \in Nat)
  BY DEF InstanceSet, Docs, InFlight, Updates
<1>11. InstanceOK(i, q, d)
  <2>1. CopyOK(q.desc, i, q) /\ (q.del # NoRequest => CopyOK(q.del.base, i, q))
    BY <1>4, <1>9, <1>10 DEF InstanceOK
  <2>2. p.save # NoRequest =>
          /\ p.save.u.n <= q.issued
          /\ \A k \in 1..Len(q.queue) : p.save.u.n < q.queue[k].n
    BY <1>1, <1>2, <1>4, <1>5, <1>6, <1>10 DEF InstanceOK
  <2> QED BY <1>4, <1>8, <2>1, <2>2 DEF InstanceOK
<1>12. r \in NextUpdate(q) BY DEF Enqueue
<1> HIDE DEF q
<1> QED BY <1>4, <1>11, <1>12, NextUpdateKeeps

(* A request that ends without a new copy. *)
LEMMA EndSaveKeeps ==
  ASSUME NEW i \in Instances, NEW p \in InstanceSet, NEW d, InstanceOK(i, p, d),
         p.boot # "new", NEW ok \in BOOLEAN
  PROVE  /\ EndSave(p, ok) \in InstanceSet /\ InstanceOK(i, EndSave(p, ok), d)
         /\ EndSave(p, ok).boot # "new"
<1> DEFINE r == EndSave(p, ok)
<1>1. /\ r \in InstanceSet /\ r.boot # "new" /\ r.save = NoRequest /\ r.desc = p.desc
      /\ r.queue = p.queue /\ r.issued = p.issued /\ r.del = p.del
  BY DEF EndSave, InstanceSet, Boots
<1>2. InstanceOK(i, r, d) BY <1>1 DEF InstanceOK, CopyOK, QueueOK
<1> QED BY <1>1, <1>2

(* A copy that ends with the instance's own update, which was stored. *)
LEMMA NewCopy ==
  ASSUME NEW i \in Instances, NEW p \in InstanceSet, NEW d, InstanceOK(i, p, d),
         NEW q \in InFlight, q = p.save \/ q = p.del, q.stage = "stored"
  PROVE  LET r == [p EXCEPT !.desc = Append(q.base, q.u)]
         IN  /\ r \in InstanceSet /\ InstanceOK(i, r, d) /\ r.boot = p.boot
             /\ r.save = p.save /\ r.del = p.del
<1> DEFINE s == Append(q.base, q.u)
           r == [p EXCEPT !.desc = s]
<1>0. q # NoRequest /\ q.base \in Docs /\ q.u \in Updates /\ q.u.n \in Nat
  BY MaxUpdatesAssumption DEF InFlight, Docs, NoRequest, Updates
<1>1. /\ s \in Docs /\ Len(s) = Len(q.base) + 1 /\ Len(q.base) \in Nat
      /\ \A k \in 1..Len(q.base) : s[k] = q.base[k]
      /\ s[Len(q.base) + 1] = q.u
  BY <1>0, AppendFacts
<1>2. /\ r \in InstanceSet /\ r.desc = s /\ r.boot = p.boot /\ r.queue = p.queue
      /\ r.issued = p.issued /\ r.save = p.save /\ r.del = p.del
  BY <1>1 DEF InstanceSet, Docs
<1>3. RequestOK(q, d) /\ q.u.by = i BY <1>0 DEF InstanceOK
<1>4. Pre(s, d) /\ Owned(s, i)
  BY <1>1, <1>3 DEF RequestOK, Owned
<1>5. p.issued \in Nat /\ \A k \in 1..Len(p.queue) : p.queue[k].n \in Nat
  <2>1. p.queue \in Docs /\ p.issued \in Nat BY MaxUpdatesAssumption DEF InstanceSet, Docs
  <2> QED BY <2>1, Numbered
<1>6. \A k \in 1..Len(q.base) : q.base[k].n \in Nat
  BY <1>0, Numbered
<1>7. \A n \in Nat : Older(q.base, i, n) /\ (q.u.n < n \/ q.u.kind = "delete") => Older(s, i, n)
  BY <1>1 DEF Older
<1>8. CASE q = p.save
  <2>1. q.u.n <= p.issued /\ \A k \in 1..Len(p.queue) : q.u.n < p.queue[k].n
    BY <1>0, <1>8 DEF InstanceOK
  <2>2. \A n \in Nat : q.u.n < n => Older(q.base, i, n)
    BY <1>0, <1>3, <1>6 DEF RequestOK, Older
  <2>3. CopyOK(s, i, p)
    BY <2>1, <2>2, <1>0, <1>5, <1>7 DEF CopyOK
  <2> QED BY <2>3, <1>2, <1>4 DEF InstanceOK, CopyOK, QueueOK
<1>9. CASE q = p.del
  <2>1. q.u.kind = "delete" /\ CopyOK(q.base, i, p)
    BY <1>0, <1>9 DEF InstanceOK
  <2>2. CopyOK(s, i, p)
    BY <2>1, <1>5, <1>7 DEF CopyOK
  <2> QED BY <2>2, <1>2, <1>4 DEF InstanceOK, CopyOK, QueueOK
<1> QED BY <1>2, <1>8, <1>9

-----------------------------------------------------------------------------
(* Steps *)

(* A step of one instance that leaves the document alone. *)
LEMMA InstanceStep ==
  ASSUME Inv, NEW i \in Instances, NEW r \in InstanceSet,
         InstanceOK(i, r, db),
         r.boot = "new" => SameCore(inst[i], r) /\ r.life # "gentle" /\ stray' = stray,
         inst' = [inst EXCEPT ![i] = r], db' = db,
         \A q \in stray' : \/ q \in stray
                           \/ q \in InFlight /\ RequestOK(q, db) /\ q.u.by = i,
         done' \subseteq Updates, NoLostUpdate',
         lost' \subseteq Instances, alarm' \subseteq Instances
  PROVE  Inv'
<1>1. TypeOK' BY DEF Inv, TypeOK
<1>2. \A j \in Instances : inst'[j] = IF j = i THEN r ELSE inst[j]
  BY DEF Inv, TypeOK
<1>3. \A j \in Instances : InstanceOK(j, inst'[j], db')
  BY <1>2 DEF Inv
<1>4. \A j \in Instances : NewOK(j, inst[j], db) BY DEF Inv
<1>5. \A j \in Instances : NewOK(j, inst[j], db)'
  <2> SUFFICES ASSUME NEW j \in Instances, inst'[j].boot = "new"
               PROVE  NewOK(j, inst[j], db)'
    BY DEF NewOK
  <2>1. CASE j = i
    <3>1. SameCore(inst[i], inst'[i]) /\ inst'[i].life # "gentle" /\ stray' = stray
      BY <2>1, <1>2
    <3> QED BY <2>1, <3>1, <1>4 DEF NewOK, SameCore
  <2>2. CASE j # i
    <3>1. inst'[j] = inst[j] BY <2>2, <1>2
    <3>2. \A q \in stray' : q.u.by # j BY <2>2, <3>1, <1>4 DEF NewOK
    <3> QED BY <3>1, <3>2, <1>4 DEF NewOK
  <2> QED BY <2>1, <2>2
<1>6. \A q \in stray' : RequestOK(q, db') BY DEF Inv
<1>7. InOrder' /\ OneOwner' BY DEF Inv, InOrder, OneOwner
<1> QED BY <1>1, <1>3, <1>5, <1>6, <1>7 DEF Inv

(* A step in which the database stores a request of instance i. *)
LEMMA StoreStep ==
  ASSUME Inv, NEW i \in Instances, inst[i].boot # "new",
         NEW q \in InFlight, RequestOK(q, db), q.u.by = i, Current(q),
         db' = Append(q.base, q.u), stray' \subseteq stray,
         UNCHANGED <<done, lost, alarm>>,
         NEW r \in InstanceSet, InstanceOK(i, r, Append(db, q.u)), r.boot = inst[i].boot,
         inst' = Notify([inst EXCEPT ![i] = r])
  PROVE  Inv'
<1> DEFINE m == [inst EXCEPT ![i] = r]
<1>0. db \in Docs /\ inst \in [Instances -> InstanceSet] /\ q.u \in Updates /\ Len(db) + 1 \in Nat
  BY DEF Inv, TypeOK, Docs, InFlight
<1>1. db' = Append(db, q.u) /\ db' \in Docs /\ NoLostUpdate' /\ InOrder' /\ OneOwner'
  BY StoreFacts DEF Inv
<1>2. m \in [Instances -> InstanceSet] BY <1>0
<1>3. \A j \in Instances : SameCore(m[j], inst'[j]) /\ inst'[j].life = m[j].life
  <2> SUFFICES ASSUME NEW j \in Instances
               PROVE  SameCore(m[j], inst'[j]) /\ inst'[j].life = m[j].life
    OBVIOUS
  <2>1. inst'[j] = IF m[j].listening THEN [m[j] EXCEPT !.notes = @ \cup {Len(db) + 1}] ELSE m[j]
    BY DEF Notify
  <2>2. m[j] \in InstanceSet BY <1>2
  <2>3. \A x \in InstanceSet : \A n \in Nat :
          /\ SameCore(x, [x EXCEPT !.notes = @ \cup {n}])
          /\ [x EXCEPT !.notes = @ \cup {n}].life = x.life
    BY DEF SameCore, InstanceSet
  <2>4. \A x \in InstanceSet : SameCore(x, x) BY DEF SameCore
  <2> HIDE DEF m
  <2> QED BY <2>1, <2>2, <2>3, <2>4, <1>0
<1>4. TypeOK'
  <2>1. inst' = [j \in Instances |-> inst'[j]] BY DEF Notify
  <2>2. \A j \in Instances : inst'[j] \in InstanceSet BY <1>3 DEF SameCore
  <2>3. inst' \in [Instances -> InstanceSet] BY <2>1, <2>2
  <2> QED BY <2>3, <1>1 DEF Inv, TypeOK, Docs
<1>5. \A j \in Instances : InstanceOK(j, m[j], db')
  <2> SUFFICES ASSUME NEW j \in Instances PROVE InstanceOK(j, m[j], db')
    OBVIOUS
  <2>1. CASE j = i BY <2>1, <1>0, <1>1
  <2>2. CASE j # i
    <3>1. m[j] = inst[j] /\ inst[j] \in InstanceSet /\ InstanceOK(j, inst[j], db)
      BY <2>2, <1>0 DEF Inv
    <3> QED BY <3>1, <1>0, <1>1, InstanceGrows
  <2> QED BY <2>1, <2>2
<1>6. \A j \in Instances : InstanceOK(j, inst'[j], db')
  <2> SUFFICES ASSUME NEW j \in Instances PROVE InstanceOK(j, inst'[j], db')
    OBVIOUS
  <2>1. SameCore(m[j], inst'[j]) /\ InstanceOK(j, m[j], db') BY <1>3, <1>5
  <2> HIDE DEF m
  <2> QED BY <2>1, CoreKeeps
<1>7. \A j \in Instances : NewOK(j, inst[j], db)'
  <2> SUFFICES ASSUME NEW j \in Instances, inst'[j].boot = "new"
               PROVE  NewOK(j, inst[j], db)'
    BY DEF NewOK
  <2>1. m[j].boot = "new" BY <1>3 DEF SameCore
  <2>2. j # i /\ m[j] = inst[j] BY <2>1, <1>0
  <2>3. NewOK(j, inst[j], db) /\ inst[j].boot = "new" BY <2>1, <2>2 DEF Inv
  <2>4. \A k \in 1..Len(db') : db'[k].by # j
    BY <2>2, <2>3, <1>0, <1>1, AppendFacts DEF NewOK
  <2>5. \A x \in stray' : x.u.by # j BY <2>3 DEF NewOK
  <2>6. SameCore(inst[j], inst'[j]) /\ inst'[j].life = inst[j].life BY <1>3, <2>2
  <2> QED BY <2>3, <2>4, <2>5, <2>6 DEF NewOK, SameCore
<1>8. \A x \in stray' : RequestOK(x, db')
  BY <1>0, <1>1, RequestGrows DEF Inv, TypeOK
<1> QED BY <1>1, <1>4, <1>6, <1>7, <1>8 DEF Inv

(* An instance of a state that satisfies the invariant. *)
LEMMA OfInv ==
  ASSUME Inv, NEW i \in Instances
  PROVE  /\ inst[i] \in InstanceSet /\ InstanceOK(i, inst[i], db) /\ db \in Docs
         /\ inst[i].save \in InFlight \cup {NoRequest} /\ inst[i].del \in InFlight \cup {NoRequest}
         /\ inst[i].save # NoRequest \/ inst[i].del # NoRequest \/ inst[i].queue # <<>>
              \/ inst[i].life = "gentle" => inst[i].boot # "new"
         /\ inst[i].save.stage \in Stages =>
              inst[i].save \in InFlight /\ RequestOK(inst[i].save, db) /\ inst[i].save.u.by = i
         /\ inst[i].del.stage \in Stages =>
              inst[i].del \in InFlight /\ RequestOK(inst[i].del, db) /\ inst[i].del.u.by = i
<1>1. inst[i] \in InstanceSet /\ InstanceOK(i, inst[i], db) /\ db \in Docs /\ NewOK(i, inst[i], db)
  BY DEF Inv, TypeOK, Docs
<1>2. inst[i].save \in InFlight \cup {NoRequest} /\ inst[i].del \in InFlight \cup {NoRequest}
  BY <1>1 DEF InstanceSet
<1>3. NoRequest.stage \notin Stages BY DEF NoRequest, Stages
<1>4. inst[i].save.stage \in Stages =>
        inst[i].save \in InFlight /\ RequestOK(inst[i].save, db) /\ inst[i].save.u.by = i
  BY <1>1, <1>2, <1>3 DEF InstanceOK
<1>5. inst[i].del.stage \in Stages =>
        inst[i].del \in InFlight /\ RequestOK(inst[i].del, db) /\ inst[i].del.u.by = i
  BY <1>1, <1>2, <1>3 DEF InstanceOK
<1> QED BY <1>1, <1>2, <1>4, <1>5 DEF NewOK

(* A step of one instance in which nothing is reported or given up. *)
LEMMA QuietStep ==
  ASSUME Inv, NEW i \in Instances, NEW r \in InstanceSet, InstanceOK(i, r, db),
         r.boot = "new" => SameCore(inst[i], r) /\ r.life # "gentle",
         inst' = [inst EXCEPT ![i] = r], UNCHANGED <<db, stray, done, lost>>,
         alarm' \subseteq alarm \cup {i}
  PROVE  Inv'
<1>1. NoLostUpdate' BY DEF Inv, NoLostUpdate
<1>2. done' \subseteq Updates /\ lost' \subseteq Instances /\ alarm' \subseteq Instances
  BY DEF Inv, TypeOK
<1> QED BY <1>1, <1>2, InstanceStep

(* The start of an instance. *)
LEMMA StartKeeps ==
  ASSUME Inv, NEW i \in Instances,
         ReloadDescriptor(i) \/ Subscribe(i) \/ StoreInstanceId(i)
  PROVE  Inv'
<1>0. /\ inst[i] \in InstanceSet /\ InstanceOK(i, inst[i], db) /\ db \in Docs
      /\ NewOK(i, inst[i], db)
  BY OfInv DEF Inv
<1>1. CASE ReloadDescriptor(i)
  <2> DEFINE r == [inst[i] EXCEPT !.boot = "loaded", !.desc = db]
  <2>1. inst' = [inst EXCEPT ![i] = r] BY <1>1 DEF ReloadDescriptor, Inv, TypeOK
  <2>2. /\ r \in InstanceSet /\ r.boot = "loaded" /\ r.desc = db /\ r.queue = <<>> /\ r.issued = 0
        /\ r.save = NoRequest /\ r.del = NoRequest /\ \A k \in 1..Len(db) : db[k].by # i
    BY <1>0, <1>1 DEF ReloadDescriptor, NewOK, InstanceSet, Boots, Docs
  <2>3. InstanceOK(i, r, db)
    <3> HIDE DEF r
    <3> QED BY <2>2, <1>0 DEF InstanceOK, Pre, Owned, CopyOK, QueueOK, Older, Docs
  <2> QED BY <1>1, <2>1, <2>2, <2>3, QuietStep DEF ReloadDescriptor
<1>2. CASE Subscribe(i)
  <2> DEFINE r == [inst[i] EXCEPT !.boot = "listening", !.listening = TRUE]
  <2>1. inst' = [inst EXCEPT ![i] = r] BY <1>2 DEF Subscribe, Inv, TypeOK
  <2>2. /\ r \in InstanceSet /\ r.boot = "listening" /\ r.desc = inst[i].desc
        /\ r.queue = inst[i].queue /\ r.issued = inst[i].issued
        /\ r.save = inst[i].save /\ r.del = inst[i].del
    BY <1>0 DEF InstanceSet, Boots
  <2>3. InstanceOK(i, r, db)
    <3> HIDE DEF r
    <3> QED BY <2>2, <1>0 DEF InstanceOK, CopyOK, QueueOK
  <2> QED BY <1>2, <2>1, <2>2, <2>3, QuietStep DEF Subscribe
<1>3. CASE StoreInstanceId(i)
  <2> DEFINE r == [inst[i] EXCEPT !.boot = "locking"]
  <2>1. /\ r \in InstanceSet /\ r.boot = "locking" /\ r.desc = inst[i].desc
        /\ r.queue = inst[i].queue /\ r.issued = inst[i].issued
        /\ r.save = inst[i].save /\ r.del = inst[i].del
    BY <1>0 DEF InstanceSet, Boots
  <2>2. InstanceOK(i, r, db)
    <3> HIDE DEF r
    <3> QED BY <2>1, <1>0 DEF InstanceOK, CopyOK, QueueOK
  <2>3. PICK p \in Enqueue(i, r, "lock") : inst' = [inst EXCEPT ![i] = p]
    BY <1>3 DEF StoreInstanceId
  <2>4. r.issued < MaxUpdates /\ "lock" \in Kinds BY <1>3, <2>1 DEF StoreInstanceId, Kinds
  <2>5. p \in InstanceSet /\ InstanceOK(i, p, db) /\ p.boot = "locking"
    <3> HIDE DEF r
    <3> QED BY <2>1, <2>2, <2>4, <1>0, EnqueueKeeps
  <2> QED BY <1>3, <2>3, <2>5, QuietStep DEF StoreInstanceId
<1> QED BY <1>1, <1>2, <1>3

(* Updates: issued, started, and answered. *)
LEMMA UpdateKeeps ==
  ASSUME Inv, NEW i \in Instances,
         UpdateDescriptor(i) \/ CallNextUpdate(i) \/ Saved(i) \/ SaveConflicts(i) \/ SaveFails(i)
  PROVE  Inv'
<1>0. inst[i] \in InstanceSet /\ InstanceOK(i, inst[i], db) /\ db \in Docs
  BY OfInv
<1>1. CASE UpdateDescriptor(i)
  <2>1. PICK p \in Enqueue(i, inst[i], "set") : inst' = [inst EXCEPT ![i] = p]
    BY <1>1 DEF UpdateDescriptor
  <2>2. inst[i].issued < MaxUpdates /\ "set" \in Kinds /\ inst[i].boot # "new"
    BY <1>1 DEF UpdateDescriptor, Kinds
  <2>3. p \in InstanceSet /\ InstanceOK(i, p, db) /\ p.boot # "new"
    BY <2>2, <1>0, EnqueueKeeps
  <2> QED BY <1>1, <2>1, <2>3, QuietStep DEF UpdateDescriptor
<1>2. CASE CallNextUpdate(i)
  <2> DEFINE r == [inst[i] EXCEPT !.next = FALSE]
  <2>1. SameCore(inst[i], r) BY <1>0 DEF SameCore, InstanceSet
  <2>2. r \in InstanceSet /\ InstanceOK(i, r, db) BY <2>1, <1>0, CoreKeeps DEF SameCore
  <2>3. PICK p \in NextUpdate(r) : inst' = [inst EXCEPT ![i] = p]
    BY <1>2 DEF CallNextUpdate
  <2>4. p \in InstanceSet /\ InstanceOK(i, p, db) /\ p.boot = r.boot
    <3> HIDE DEF r
    <3> QED BY <2>2, <1>0, NextUpdateKeeps
  <2>5. p.boot = "new" => SameCore(inst[i], p) /\ p.life # "gentle"
    <3>1. SUFFICES ASSUME p.boot = "new" PROVE SameCore(inst[i], p) /\ p.life # "gentle"
      OBVIOUS
    <3>2. inst[i].queue = <<>> BY <3>1, <2>1, <2>4, OfInv DEF SameCore
    <3>3. p = r BY <3>2, <2>1 DEF NextUpdate, SameCore
    <3>4. inst[i].life # "gentle" BY <3>1, <3>3, <2>1, OfInv DEF SameCore
    <3>5. r.life = inst[i].life BY <1>0 DEF InstanceSet
    <3> QED BY <3>3, <3>4, <3>5, <2>1
  <2> QED BY <1>2, <2>3, <2>4, <2>5, QuietStep DEF CallNextUpdate
<1>3. CASE Saved(i)
  <2> DEFINE q == inst[i].save
             c == [inst[i] EXCEPT !.desc = Append(q.base, q.u)]
             p == EndSave(c, TRUE)
  <2>1. q.stage = "stored" /\ q.stage \in Stages BY <1>3 DEF Saved, Stages
  <2>2. q \in InFlight /\ RequestOK(q, db) /\ q.u \in Updates BY <2>1, OfInv DEF InFlight
  <2>3. inst[i].boot # "new" BY <2>2, OfInv DEF InFlight, NoRequest
  <2>4. c \in InstanceSet /\ InstanceOK(i, c, db) /\ c.boot # "new"
    BY <2>1, <2>2, <2>3, <1>0, NewCopy
  <2>5. p \in InstanceSet /\ InstanceOK(i, p, db) /\ p.boot # "new"
    <3> HIDE DEF c
    <3> QED BY <2>4, EndSaveKeeps
  <2>6. SameCore(p, Unlocked(p)) BY <2>5, QuietOps
  <2>7. Unlocked(p) \in InstanceSet /\ InstanceOK(i, Unlocked(p), db) /\ Unlocked(p).boot # "new"
    BY <2>5, <2>6, CoreKeeps DEF SameCore
  <2>8. inst' = [inst EXCEPT ![i] = Unlocked(p)] /\ done' = done \cup {q.u}
        /\ alarm' = alarm \cup FalseAlarm(i, p, p.buffer) /\ UNCHANGED <<db, stray, lost>>
    BY <1>3 DEF Saved
  <2>9. NoLostUpdate'
    <3>1. q.base \in Docs BY <2>2 DEF InFlight, Docs
    <3>2. Pre(Append(q.base, q.u), db) BY <2>1, <2>2 DEF RequestOK
    <3>3. \E k \in 1..Len(db) : db[k] = q.u
      <4> DEFINE d == Append(q.base, q.u)
      <4>0. /\ Len(d) = Len(q.base) + 1 /\ Len(q.base) \in Nat
            /\ d[Len(q.base) + 1] = q.u
        BY <3>1, <2>2, AppendFacts
      <4> HIDE DEF d
      <4>1. Len(q.base) + 1 \in 1..Len(d) /\ d[Len(q.base) + 1] = q.u
        BY <4>0
      <4>2. Len(q.base) + 1 \in 1..Len(db) /\ db[Len(q.base) + 1] = q.u
        BY <4>0, <4>1, <3>2, <1>0 DEF Pre, Docs, d
      <4> QED BY <4>2
    <3> QED BY <3>3, <2>8 DEF Inv, NoLostUpdate
  <2>10. done' \subseteq Updates /\ lost' \subseteq Instances /\ alarm' \subseteq Instances
    BY <2>2, <2>8 DEF Inv, TypeOK, FalseAlarm
  <2> HIDE DEF p
  <2> QED BY <2>7, <2>8, <2>9, <2>10, InstanceStep
<1>4. CASE SaveConflicts(i)
  <2> DEFINE c == [inst[i] EXCEPT !.doom = TRUE]
             p == EndSave(c, FALSE)
  <2>1. SameCore(inst[i], c) BY <1>0 DEF SameCore, InstanceSet
  <2>2. inst[i].boot # "new"
    <3>1. inst[i].save.stage \in Stages BY <1>4 DEF SaveConflicts, Stages
    <3> QED BY <3>1, OfInv DEF InFlight, NoRequest
  <2>3. c \in InstanceSet /\ InstanceOK(i, c, db) /\ c.boot # "new"
    BY <2>1, <2>2, <1>0, CoreKeeps DEF SameCore
  <2>4. p \in InstanceSet /\ InstanceOK(i, p, db) /\ p.boot # "new"
    <3> HIDE DEF c
    <3> QED BY <2>3, EndSaveKeeps
  <2>5. SameCore(p, Unlocked(p)) BY <2>4, QuietOps
  <2>6. Unlocked(p) \in InstanceSet /\ InstanceOK(i, Unlocked(p), db) /\ Unlocked(p).boot # "new"
    BY <2>4, <2>5, CoreKeeps DEF SameCore
  <2>7. inst' = [inst EXCEPT ![i] = Unlocked(p)] /\ UNCHANGED <<db, stray, done, lost>>
        /\ alarm' \subseteq alarm \cup {i}
    BY <1>4 DEF SaveConflicts, FalseAlarm
  <2> HIDE DEF p
  <2> QED BY <2>6, <2>7, QuietStep
<1>5. CASE SaveFails(i)
  <2> DEFINE p == EndSave(inst[i], FALSE)
  <2>1. inst[i].save.stage \in Stages BY <1>5 DEF SaveFails, Stages
  <2>2. inst[i].save \in InFlight /\ RequestOK(inst[i].save, db) /\ inst[i].save.u.by = i
        /\ inst[i].boot # "new"
    BY <2>1, OfInv DEF InFlight, NoRequest
  <2>3. p \in InstanceSet /\ InstanceOK(i, p, db) /\ p.boot # "new"
    BY <2>2, <1>0, EndSaveKeeps
  <2>4. SameCore(p, Unlocked(p)) BY <2>3, QuietOps
  <2>5. Unlocked(p) \in InstanceSet /\ InstanceOK(i, Unlocked(p), db) /\ Unlocked(p).boot # "new"
    BY <2>3, <2>4, CoreKeeps DEF SameCore
  <2>6. inst' = [inst EXCEPT ![i] = Unlocked(p)] /\ UNCHANGED <<db, done, alarm>>
        /\ stray' = stray \cup Abandon(inst[i].save) /\ lost' = lost \cup {i}
    BY <1>5 DEF SaveFails
  <2>7. \A q \in stray' : q \in stray \/ (q \in InFlight /\ RequestOK(q, db) /\ q.u.by = i)
    BY <2>2, <2>6 DEF Abandon
  <2>8. NoLostUpdate' BY <2>6 DEF Inv, NoLostUpdate
  <2>9. done' \subseteq Updates /\ lost' \subseteq Instances /\ alarm' \subseteq Instances
    BY <2>6 DEF Inv, TypeOK
  <2> HIDE DEF p
  <2> QED BY <2>5, <2>6, <2>7, <2>8, <2>9, InstanceStep
<1> QED BY <1>1, <1>2, <1>3, <1>4, <1>5

(* Termination, the deletion and the crash. *)
LEMMA TerminationKeeps ==
  ASSUME Inv, NEW i \in Instances,
         \/ CallTerminateHard(i) \/ Terminate(i) \/ CancelDelayedCalls(i) \/ HardEnds(i)
         \/ DeleteDescriptor(i) \/ DescriptorDeleted(i) \/ DeleteFails(i) \/ Crash(i)
  PROVE  Inv'
<1>0. inst[i] \in InstanceSet /\ InstanceOK(i, inst[i], db) /\ db \in Docs
      /\ inst \in [Instances -> InstanceSet]
  BY OfInv DEF Inv, TypeOK
<1>1. ASSUME NEW r, SameCore(inst[i], r), inst' = [inst EXCEPT ![i] = r],
             inst[i].boot # "new" \/ r.life # "gentle",
             UNCHANGED <<db, stray, done, lost, alarm>>
      PROVE  Inv'
  <2>1. r \in InstanceSet /\ InstanceOK(i, r, db) BY <1>0, <1>1, CoreKeeps DEF SameCore
  <2> QED BY <1>1, <2>1, QuietStep DEF SameCore
<1>2. CASE CallTerminateHard(i)
  <2> DEFINE c == [inst[i] EXCEPT !.doom = FALSE]
  <2>1. SameCore(inst[i], c) BY <1>0 DEF SameCore, InstanceSet
  <2>2. SameCore(inst[i], TerminateHard(c)) BY <2>1, QuietOps DEF SameCore
  <2>3. c \in InstanceSet /\ c.life = inst[i].life BY <1>0, <2>1 DEF SameCore, InstanceSet
  <2>4. inst[i].boot # "new" \/ TerminateHard(c).life # "gentle"
    <3> HIDE DEF c
    <3> QED BY <2>3, QuietOps, OfInv
  <2> QED BY <1>1, <1>2, <2>2, <2>4 DEF CallTerminateHard
<1>3. CASE Terminate(i)
  <2> DEFINE r == [inst[i] EXCEPT !.life = "gentle"]
  <2>1. SameCore(inst[i], r) BY <1>0 DEF SameCore, InstanceSet, Lives
  <2>2. inst' = [inst EXCEPT ![i] = r] /\ inst[i].boot # "new" BY <1>0, <1>3 DEF Terminate
  <2> QED BY <1>1, <1>3, <2>1, <2>2 DEF Terminate
<1>4. CASE CancelDelayedCalls(i)
  <2> DEFINE r == [inst[i] EXCEPT !.next = FALSE, !.doom = FALSE]
  <2>1. SameCore(inst[i], r) BY <1>0 DEF SameCore, InstanceSet
  <2>2. inst' = [inst EXCEPT ![i] = r] BY <1>0, <1>4 DEF CancelDelayedCalls
  <2>3. r.life = inst[i].life BY <1>0 DEF InstanceSet
  <2> QED BY <1>1, <1>4, <2>1, <2>2, <2>3, OfInv DEF CancelDelayedCalls
<1>5. CASE HardEnds(i)
  BY <1>0, <1>1, <1>5, QuietOps DEF HardEnds
<1>6. CASE DeleteDescriptor(i)
  <2> DEFINE u == Update(i, MaxUpdates + 1, "delete")
             q == Request(inst[i].desc, u)
             r == [inst[i] EXCEPT !.del = q]
  <2>1. u \in Updates /\ u.by = i /\ u.kind = "delete" /\ u.n = MaxUpdates + 1
    BY MaxUpdatesAssumption DEF Update, Updates, Kinds
  <2>2. q \in InFlight /\ q.base = inst[i].desc /\ q.u = u /\ q.stage = "sent"
    BY <2>1, <1>0 DEF Request, InFlight, Stages, InstanceSet
  <2>3. /\ r \in InstanceSet /\ r.del = q /\ r.boot = inst[i].boot /\ r.desc = inst[i].desc
        /\ r.queue = inst[i].queue /\ r.issued = inst[i].issued /\ r.save = inst[i].save
    BY <2>2, <1>0 DEF InstanceSet
  <2>4. RequestOK(q, db)
    <3>1. inst[i].issued \in 0..MaxUpdates /\ inst[i].desc \in Docs
      BY <1>0 DEF InstanceSet, Docs
    <3>2. Older(inst[i].desc, i, inst[i].issued + 1) BY <1>0 DEF InstanceOK, CopyOK
    <3>3. Older(inst[i].desc, i, MaxUpdates + 1)
      BY <3>1, <3>2, Numbered, MaxUpdatesAssumption DEF Older
    <3> QED BY <3>3, <2>1, <2>2, <1>0 DEF RequestOK, InstanceOK
  <2>5. InstanceOK(i, r, db)
    <3> HIDE DEF r, q, u
    <3> QED BY <2>1, <2>2, <2>3, <2>4, <1>0 DEF InstanceOK, CopyOK, QueueOK
  <2>6. inst' = [inst EXCEPT ![i] = r] BY <1>0, <1>6 DEF DeleteDescriptor
  <2>7. inst[i].boot # "new"
    BY <1>6, OfInv DEF DeleteDescriptor
  <2> QED BY <1>6, <2>3, <2>5, <2>6, <2>7, QuietStep DEF DeleteDescriptor
<1>7. ASSUME NEW p \in InstanceSet, InstanceOK(i, p, db), p.boot # "new"
      PROVE  LET r == End(Unlocked([p EXCEPT !.del = NoRequest]))
             IN  r \in InstanceSet /\ InstanceOK(i, r, db) /\ r.boot # "new"
  <2> DEFINE c == [p EXCEPT !.del = NoRequest]
             d == Unlocked(c)
  <2>1. /\ c \in InstanceSet /\ c.del = NoRequest /\ c.boot = p.boot /\ c.desc = p.desc
        /\ c.queue = p.queue /\ c.issued = p.issued /\ c.save = p.save
    BY <1>7 DEF InstanceSet
  <2>2. InstanceOK(i, c, db)
    <3> HIDE DEF c
    <3> QED BY <2>1, <1>7 DEF InstanceOK, CopyOK, QueueOK
  <2>3. SameCore(c, d)
    <3> HIDE DEF c
    <3> QED BY <2>1, QuietOps
  <2>4. SameCore(d, End(d))
    <3>1. d \in InstanceSet BY <2>3 DEF SameCore
    <3> HIDE DEF d
    <3> QED BY <3>1, QuietOps
  <2>5. SameCore(c, End(d)) BY <2>3, <2>4 DEF SameCore
  <2>6. InstanceOK(i, End(d), db)
    <3> HIDE DEF c, d
    <3> QED BY <2>2, <2>5, CoreKeeps
  <2>7. End(d) \in InstanceSet /\ End(d).boot # "new"
    <3> HIDE DEF c, d
    <3> QED BY <2>1, <2>5, <1>7 DEF SameCore
  <2> QED BY <2>6, <2>7
<1>8. CASE DescriptorDeleted(i)
  <2> DEFINE q == inst[i].del
             c == [inst[i] EXCEPT !.desc = Append(q.base, q.u)]
             r == End(Unlocked([c EXCEPT !.del = NoRequest]))
  <2>1. q.stage = "stored" /\ q.stage \in Stages BY <1>8 DEF DescriptorDeleted, Stages
  <2>2. q \in InFlight /\ inst[i].boot # "new" BY <2>1, OfInv DEF InFlight, NoRequest
  <2>3. c \in InstanceSet /\ InstanceOK(i, c, db) /\ c.boot # "new"
    BY <2>1, <2>2, <1>0, NewCopy
  <2>4. r \in InstanceSet /\ InstanceOK(i, r, db) /\ r.boot # "new"
    <3> HIDE DEF c
    <3> QED BY <2>3, <1>7
  <2>5. [c EXCEPT !.del = NoRequest]
          = [inst[i] EXCEPT !.desc = Append(inst[i].del.base, inst[i].del.u), !.del = NoRequest]
    BY <1>0 DEF InstanceSet
  <2>6. inst' = [inst EXCEPT ![i] = r] /\ UNCHANGED <<db, stray, done, lost, alarm>>
    BY <1>8, <2>5 DEF DescriptorDeleted
  <2> HIDE DEF r
  <2> QED BY <2>4, <2>6, QuietStep
<1>9. CASE DeleteFails(i)
  <2> DEFINE r == End(Unlocked([inst[i] EXCEPT !.del = NoRequest]))
  <2>1. inst[i].del.stage \in Stages BY <1>9 DEF DeleteFails
  <2>2. inst[i].del \in InFlight /\ RequestOK(inst[i].del, db) /\ inst[i].del.u.by = i
        /\ inst[i].boot # "new"
    BY <2>1, OfInv DEF InFlight, NoRequest
  <2>3. r \in InstanceSet /\ InstanceOK(i, r, db) /\ r.boot # "new"
    BY <2>2, <1>0, <1>7
  <2>4. inst' = [inst EXCEPT ![i] = r] /\ UNCHANGED <<db, done, alarm>>
        /\ stray' = stray \cup Abandon(inst[i].del) /\ lost' \subseteq lost \cup {i}
    BY <1>9 DEF DeleteFails
  <2>5. \A q \in stray' : q \in stray \/ (q \in InFlight /\ RequestOK(q, db) /\ q.u.by = i)
    BY <2>2, <2>4 DEF Abandon
  <2>6. NoLostUpdate' BY <2>4 DEF Inv, NoLostUpdate
  <2>7. done' \subseteq Updates /\ lost' \subseteq Instances /\ alarm' \subseteq Instances
    BY <2>4 DEF Inv, TypeOK
  <2> HIDE DEF r
  <2> QED BY <2>3, <2>4, <2>5, <2>6, <2>7, InstanceStep
<1>10. CASE Crash(i)
  <2> DEFINE r == [NewInstance EXCEPT !.boot = "failed", !.life = "crashed"]
  <2>1. /\ r \in InstanceSet /\ r.boot = "failed" /\ r.desc = <<>> /\ r.queue = <<>>
        /\ r.issued = 0 /\ r.save = NoRequest /\ r.del = NoRequest
    BY NewInstanceFacts DEF InstanceSet, Boots, Lives
  <2>2. InstanceOK(i, r, db)
    <3> HIDE DEF r
    <3> QED BY <2>1, <1>0, BlankOK
  <2>3. inst' = [inst EXCEPT ![i] = r] /\ UNCHANGED <<db, done, lost, alarm>>
        /\ stray' = stray \cup Abandon(inst[i].save) \cup Abandon(inst[i].del)
    BY <1>10 DEF Crash
  <2>4. \A q \in stray' : q \in stray \/ (q \in InFlight /\ RequestOK(q, db) /\ q.u.by = i)
    <3>1. \A q \in Abandon(inst[i].save) : q = inst[i].save /\ q.stage \in Stages
      BY DEF Abandon, Stages
    <3>2. \A q \in Abandon(inst[i].del) : q = inst[i].del /\ q.stage \in Stages
      BY DEF Abandon, Stages
    <3> QED BY <2>3, <3>1, <3>2, OfInv
  <2>5. NoLostUpdate' BY <2>3 DEF Inv, NoLostUpdate
  <2>6. done' \subseteq Updates /\ lost' \subseteq Instances /\ alarm' \subseteq Instances
    BY <2>3 DEF Inv, TypeOK
  <2> HIDE DEF r
  <2> QED BY <2>1, <2>2, <2>3, <2>4, <2>5, <2>6, InstanceStep
<1> QED BY <1>2, <1>3, <1>4, <1>5, <1>6, <1>8, <1>9, <1>10

(* The database and the changes feed. *)
LEMMA DatabaseKeeps ==
  ASSUME Inv,
         \/ \E i \in Instances : StoreSave(i) \/ StoreDelete(i)
         \/ \E i \in Instances : \E c \in inst[i].notes : OnChange(i, c)
         \/ \E q \in stray : StoreStray(q)
  PROVE  Inv'
<1>0. ASSUME NEW i \in Instances, NEW q \in InFlight, RequestOK(q, db), Current(q)
      PROVE  LET s == [q EXCEPT !.stage = "stored"]
             IN  /\ s \in InFlight /\ RequestOK(s, Append(db, q.u))
                 /\ s.base = q.base /\ s.u = q.u
  <2> DEFINE s == [q EXCEPT !.stage = "stored"]
  <2>1. s \in InFlight /\ s.base = q.base /\ s.u = q.u BY DEF InFlight, Stages
  <2>2. db \in Docs /\ q.base \in Docs /\ q.u \in Updates BY DEF Inv, TypeOK, InFlight, Docs
  <2>3. q.base = db BY <2>2, <1>0, PreIsAll DEF RequestOK, Current
  <2>4. RequestOK(q, Append(db, q.u)) BY <2>2, <1>0, RequestGrows
  <2>5. Pre(Append(q.base, q.u), Append(db, q.u)) BY <2>2, <2>3, AppendFacts DEF Pre
  <2> QED BY <2>1, <2>4, <2>5 DEF RequestOK
<1>1. ASSUME NEW i \in Instances, StoreSave(i) PROVE Inv'
  <2> DEFINE q == inst[i].save
             s == [q EXCEPT !.stage = "stored"]
             c == [q EXCEPT !.stage = "conflict"]
  <2>1. q.stage \in Stages BY <1>1 DEF StoreSave, Stages
  <2>2. /\ q \in InFlight /\ RequestOK(q, db) /\ q.u.by = i /\ inst[i].boot # "new" /\ db \in Docs
        /\ inst[i] \in InstanceSet /\ InstanceOK(i, inst[i], db) /\ q # NoRequest
    BY <2>1, OfInv DEF InFlight, NoRequest
  <2>3. CASE Current(q)
    <3> DEFINE r == [inst[i] EXCEPT !.save = s]
    <3>1. s \in InFlight /\ RequestOK(s, Append(db, q.u)) /\ s.u = q.u
      BY <2>2, <2>3, <1>0
    <3>2. /\ r \in InstanceSet /\ r.save = s /\ r.boot = inst[i].boot /\ r.desc = inst[i].desc
          /\ r.queue = inst[i].queue /\ r.issued = inst[i].issued /\ r.del = inst[i].del
      BY <2>2, <3>1 DEF InstanceSet
    <3>3. InstanceOK(i, inst[i], Append(db, q.u))
      BY <2>2, InstanceGrows DEF InFlight
    <3>4. InstanceOK(i, r, Append(db, q.u))
      <4> HIDE DEF r, s
      <4> QED BY <2>2, <3>1, <3>2, <3>3 DEF InstanceOK, CopyOK, QueueOK
    <3>5. inst' = Notify([inst EXCEPT ![i] = r]) /\ db' = Append(q.base, q.u)
          /\ UNCHANGED <<stray, done, lost, alarm>>
      <4>1. [inst EXCEPT ![i].save.stage = "stored"] = [inst EXCEPT ![i] = r]
        BY DEF Inv, TypeOK
      <4> QED BY <1>1, <2>3, <4>1 DEF StoreSave
    <3> HIDE DEF r, q, s
    <3> QED BY <2>2, <2>3, <3>2, <3>4, <3>5, StoreStep
  <2>4. CASE ~Current(q)
    <3> DEFINE r == [inst[i] EXCEPT !.save = c]
    <3>1. c \in InFlight /\ RequestOK(c, db) /\ c.u = q.u
      BY <2>2 DEF InFlight, Stages, RequestOK
    <3>2. /\ r \in InstanceSet /\ r.save = c /\ r.boot = inst[i].boot /\ r.desc = inst[i].desc
          /\ r.queue = inst[i].queue /\ r.issued = inst[i].issued /\ r.del = inst[i].del
      BY <2>2, <3>1 DEF InstanceSet
    <3>3. InstanceOK(i, r, db)
      <4> HIDE DEF r, c
      <4> QED BY <2>2, <3>1, <3>2 DEF InstanceOK, CopyOK, QueueOK
    <3>4. inst' = [inst EXCEPT ![i] = r] /\ UNCHANGED <<db, stray, done, lost, alarm>>
      BY <1>1, <2>4 DEF StoreSave, Inv, TypeOK
    <3> HIDE DEF r, q, c
    <3> QED BY <2>2, <3>2, <3>3, <3>4, QuietStep
  <2> QED BY <2>3, <2>4
<1>2. ASSUME NEW i \in Instances, StoreDelete(i) PROVE Inv'
  <2> DEFINE q == inst[i].del
             s == [q EXCEPT !.stage = "stored"]
             c == [q EXCEPT !.stage = "conflict"]
  <2>1. q.stage \in Stages BY <1>2 DEF StoreDelete, Stages
  <2>2. /\ q \in InFlight /\ RequestOK(q, db) /\ q.u.by = i /\ inst[i].boot # "new" /\ db \in Docs
        /\ inst[i] \in InstanceSet /\ InstanceOK(i, inst[i], db) /\ q # NoRequest
    BY <2>1, OfInv DEF InFlight, NoRequest
  <2>3. CASE Current(q)
    <3> DEFINE r == [inst[i] EXCEPT !.del = s]
    <3>1. s \in InFlight /\ RequestOK(s, Append(db, q.u)) /\ s.u = q.u /\ s.base = q.base
      BY <2>2, <2>3, <1>0
    <3>2. /\ r \in InstanceSet /\ r.del = s /\ r.boot = inst[i].boot /\ r.desc = inst[i].desc
          /\ r.queue = inst[i].queue /\ r.issued = inst[i].issued /\ r.save = inst[i].save
      BY <2>2, <3>1 DEF InstanceSet
    <3>3. InstanceOK(i, inst[i], Append(db, q.u))
      BY <2>2, InstanceGrows DEF InFlight
    <3>4. InstanceOK(i, r, Append(db, q.u))
      <4> HIDE DEF r, s
      <4> QED BY <2>2, <3>1, <3>2, <3>3 DEF InstanceOK, CopyOK, QueueOK
    <3>5. inst' = Notify([inst EXCEPT ![i] = r]) /\ db' = Append(q.base, q.u)
          /\ UNCHANGED <<stray, done, lost, alarm>>
      <4>1. [inst EXCEPT ![i].del.stage = "stored"] = [inst EXCEPT ![i] = r]
        BY DEF Inv, TypeOK
      <4> QED BY <1>2, <2>3, <4>1 DEF StoreDelete
    <3> HIDE DEF r, q, s
    <3> QED BY <2>2, <2>3, <3>2, <3>4, <3>5, StoreStep
  <2>4. CASE ~Current(q)
    <3> DEFINE r == [inst[i] EXCEPT !.del = c]
    <3>1. c \in InFlight /\ RequestOK(c, db) /\ c.u = q.u /\ c.base = q.base
      BY <2>2 DEF InFlight, Stages, RequestOK
    <3>2. /\ r \in InstanceSet /\ r.del = c /\ r.boot = inst[i].boot /\ r.desc = inst[i].desc
          /\ r.queue = inst[i].queue /\ r.issued = inst[i].issued /\ r.save = inst[i].save
      BY <2>2, <3>1 DEF InstanceSet
    <3>3. InstanceOK(i, r, db)
      <4> HIDE DEF r, c
      <4> QED BY <2>2, <3>1, <3>2 DEF InstanceOK, CopyOK, QueueOK
    <3>4. inst' = [inst EXCEPT ![i] = r] /\ UNCHANGED <<db, stray, done, lost, alarm>>
      BY <1>2, <2>4 DEF StoreDelete, Inv, TypeOK
    <3> HIDE DEF r, q, c
    <3> QED BY <2>2, <3>2, <3>3, <3>4, QuietStep
  <2> QED BY <2>3, <2>4
<1>3. ASSUME NEW i \in Instances, NEW n \in inst[i].notes, OnChange(i, n) PROVE Inv'
  <2> DEFINE p == [inst[i] EXCEPT !.notes = @ \ {n}]
             b == [p EXCEPT !.buffer = @ \cup {n}]
             r == IF Locked(p) THEN b ELSE ProcessChange(p, {n})
  <2>0. inst[i] \in InstanceSet /\ InstanceOK(i, inst[i], db) BY OfInv
  <2>1. SameCore(inst[i], p) /\ SameCore(inst[i], b) /\ p.life = inst[i].life /\ b.life = inst[i].life
    BY <2>0 DEF SameCore, InstanceSet
  <2>2. SameCore(p, ProcessChange(p, {n}))
    <3>1. p \in InstanceSet BY <2>1 DEF SameCore
    <3> HIDE DEF p
    <3> QED BY <3>1, QuietOps
  <2>3. SameCore(inst[i], r) BY <2>1, <2>2 DEF SameCore
  <2>4. r.boot = "new" => r.life # "gentle"
    <3>1. r.boot = "new" => inst[i].life # "gentle" BY <2>3, OfInv DEF SameCore
    <3>2. p \in InstanceSet BY <2>1 DEF SameCore
    <3>3. p.life # "gentle" => ProcessChange(p, {n}).life # "gentle"
      <4> HIDE DEF p
      <4> QED BY <3>2, QuietOps
    <3> QED BY <3>1, <3>3, <2>1
  <2>5. r \in InstanceSet /\ InstanceOK(i, r, db)
    <3> HIDE DEF r
    <3> QED BY <2>0, <2>3, CoreKeeps DEF SameCore
  <2>6. inst' = [inst EXCEPT ![i] = r] /\ UNCHANGED <<db, stray, done, lost>>
        /\ alarm' \subseteq alarm \cup {i}
    BY <1>3 DEF OnChange, FalseAlarm
  <2> HIDE DEF r
  <2> QED BY <2>3, <2>4, <2>5, <2>6, QuietStep
<1>4. ASSUME NEW q \in stray, StoreStray(q) PROVE Inv'
  <2>1. q \in InFlight /\ RequestOK(q, db) /\ q.u \in Updates /\ q.u.by \in Instances
    BY DEF Inv, TypeOK, InFlight, Updates
  <2>2. inst[q.u.by].boot # "new" BY <2>1 DEF Inv, NewOK
  <2>3. inst[q.u.by] \in InstanceSet /\ InstanceOK(q.u.by, inst[q.u.by], db) /\ db \in Docs
    BY <2>1, OfInv
  <2>4. CASE Current(q)
    <3>1. InstanceOK(q.u.by, inst[q.u.by], Append(db, q.u))
      BY <2>1, <2>3, InstanceGrows
    <3>2. inst = [inst EXCEPT ![q.u.by] = inst[q.u.by]] BY <2>1 DEF Inv, TypeOK
    <3>3. db' = Append(q.base, q.u) /\ inst' = Notify([inst EXCEPT ![q.u.by] = inst[q.u.by]])
          /\ stray' \subseteq stray /\ UNCHANGED <<done, lost, alarm>>
      BY <1>4, <2>4, <3>2 DEF StoreStray
    <3> QED BY <2>1, <2>2, <2>3, <2>4, <3>1, <3>3, StoreStep
  <2>5. CASE ~Current(q)
    <3>1. stray' \subseteq stray /\ UNCHANGED <<db, inst, done, lost, alarm>>
      BY <1>4, <2>5 DEF StoreStray
    <3>2. TypeOK' /\ NoLostUpdate' /\ InOrder' /\ OneOwner'
      BY <3>1 DEF Inv, TypeOK, NoLostUpdate, InOrder, OneOwner
    <3>3. \A i \in Instances : NewOK(i, inst[i], db)'
      BY <3>1 DEF Inv, NewOK
    <3> QED BY <3>1, <3>2, <3>3 DEF Inv
  <2> QED BY <2>4, <2>5
<1> QED BY <1>1, <1>2, <1>3, <1>4

-----------------------------------------------------------------------------
(* The initial state satisfies the invariant. *)
LEMMA InitInv == Init => Inv
<1> SUFFICES ASSUME Init PROVE Inv
  OBVIOUS
<1>1. TypeOK BY NewInstanceFacts DEF Init, TypeOK
<1>2. \A i \in Instances : inst[i] = NewInstance BY DEF Init
<1>3. db = <<>> /\ db \in Docs /\ Len(db) = 0 /\ stray = {} BY DEF Init, Docs
<1>4. \A i \in Instances : InstanceOK(i, inst[i], db)
  BY <1>2, <1>3, NewInstanceFacts, BlankOK
<1>5. \A i \in Instances : NewOK(i, inst[i], db)
  BY <1>2, <1>3, NewInstanceFacts DEF NewOK
<1>6. NoLostUpdate /\ InOrder /\ OneOwner
  BY <1>3 DEF Init, NoLostUpdate, InOrder, OneOwner
<1> QED BY <1>1, <1>3, <1>4, <1>5, <1>6 DEF Inv

(* Every step preserves it. *)
LEMMA NextInv == Inv /\ [Next]_vars => Inv'
<1> SUFFICES ASSUME Inv, [Next]_vars PROVE Inv'
  OBVIOUS
<1>1. CASE UNCHANGED vars
  <2>1. TypeOK' /\ NoLostUpdate' /\ InOrder' /\ OneOwner'
    BY <1>1 DEF vars, Inv, TypeOK, NoLostUpdate, InOrder, OneOwner
  <2>2. \A i \in Instances : NewOK(i, inst[i], db)' BY <1>1 DEF vars, Inv, NewOK
  <2> QED BY <1>1, <2>1, <2>2 DEF vars, Inv
<1>2. CASE Next
  <2>1. ASSUME NEW i \in Instances, InstanceNext(i) PROVE Inv'
    BY <2>1, StartKeeps, UpdateKeeps, TerminationKeeps, DatabaseKeeps DEF InstanceNext, Answer
  <2> QED BY <1>2, <2>1, DatabaseKeeps DEF Next
<1> QED BY <1>1, <1>2

(* The inductive invariant holds of the descriptor. *)
THEOREM DescriptorInvariance == Spec => []Inv
BY InitInv, NextInv, PTL DEF Spec

(* The state of the instances and of the document has its type. *)
THEOREM DescriptorTypeCorrect == Spec => []TypeOK
<1>1. Inv => TypeOK BY DEF Inv
<1> QED BY <1>1, DescriptorInvariance, PTL

(* An update that was reported as saved is in the document for good. *)
THEOREM SavedForGood == Spec => []NoLostUpdate
<1>1. Inv => NoLostUpdate BY DEF Inv
<1> QED BY <1>1, DescriptorInvariance, PTL

(* The updates of an instance take effect at most once and in their order, *)
(* although requests may be stored late.                                   *)
THEOREM UpdatesInOrder == Spec => []InOrder
<1>1. Inv => InOrder BY DEF Inv
<1> QED BY <1>1, DescriptorInvariance, PTL

(* The instance id in the descriptor is a lock: an instance that another   *)
(* one has followed never writes again.                                    *)
THEOREM LockedByLast == Spec => []OneOwner
<1>1. Inv => OneOwner BY DEF Inv
<1> QED BY <1>1, DescriptorInvariance, PTL

-----------------------------------------------------------------------------
(* Why no instance kills itself for its own change *)

(* Unless it was told that a request of its own had failed, an instance    *)
(* that is up has a copy of all it has written, except for the update that *)
(* it is still waiting to hear about.                                      *)
Aware(i, p, d) ==
  /\ p.del = NoRequest
  /\ p.save # NoRequest => p.save.base = p.desc
  /\ \A r \in 1..Len(d) :
       d[r].by = i => r <= Len(p.desc) \/ (p.save.stage = "stored" /\ r = Len(p.desc) + 1)

Heard(p) == p.notes \cup p.buffer

AlarmInv ==
  /\ NoFalseAlarm
  /\ \A i \in Instances : Heard(inst[i]) \subseteq 1..Len(db)
  /\ \A i \in Instances \ lost : inst[i].life = "up" => Aware(i, inst[i], db)
  /\ \A q \in stray : inst[q.u.by].life = "up" => q.u.by \in lost

(* What termination, the judgement of changes and the hearing of them do:  *)
(* the copy and the requests stay, and nobody comes to life.               *)
Calmer(p, r) ==
  /\ r.desc = p.desc /\ r.save = p.save /\ r.del = p.del
  /\ Heard(r) \subseteq Heard(p)
  /\ r.life = "up" => p.life = "up"

LEMMA CalmOps ==
  ASSUME NEW p \in InstanceSet
  PROVE  /\ Calmer(p, TerminateHard(p)) /\ Calmer(p, Unlocked(p)) /\ Calmer(p, End(p))
         /\ \A R : Calmer(p, ProcessChange(p, R))
<1>1. \A q \in InstanceSet : Calmer(q, TerminateHard(q))
  BY DEF Calmer, TerminateHard, InstanceSet, Heard
<1>2. \A q \in InstanceSet : \A R : Calmer(q, ProcessChange(q, R))
  BY <1>1 DEF ProcessChange, Calmer
<1>3. Calmer(p, Unlocked(p))
  <2> DEFINE q == [p EXCEPT !.buffer = {}]
  <2>1. q \in InstanceSet /\ Calmer(p, q) BY DEF InstanceSet, Calmer, Heard
  <2>2. Calmer(q, ProcessChange(q, p.buffer)) BY <1>2, <2>1
  <2>3. Calmer(p, ProcessChange(q, p.buffer))
    <3> HIDE DEF q
    <3> QED BY <2>1, <2>2 DEF Calmer
  <2>4. Calmer(p, p) BY DEF Calmer
  <2> QED BY <2>3, <2>4 DEF Unlocked
<1>4. Calmer(p, End(p)) BY DEF Calmer, End, InstanceSet, Heard
<1> QED BY <1>1, <1>2, <1>3, <1>4

(* An instance that knows its own changes takes none of them for foreign. *)
LEMMA NoAlarm ==
  ASSUME NEW i, NEW p, NEW R \in SUBSET (1..Len(db)), db \in Docs, p.desc \in Docs,
         i \notin lost /\ p.life = "up" => Aware(i, p, db)
  PROVE  FalseAlarm(i, p, R) \subseteq lost
<1> SUFFICES ASSUME i \in FalseAlarm(i, p, R), i \notin lost PROVE FALSE
  BY DEF FalseAlarm
<1>1. /\ p.save = NoRequest /\ p.life = "up" /\ Foreign(p, R)
      /\ \A r \in R : r > Len(p.desc) => db[r].by = i
  BY DEF FalseAlarm, Locked
<1>2. PICK r \in R : r > Len(p.desc) BY <1>1 DEF Foreign
<1>3. r \in 1..Len(db) /\ db[r].by = i /\ Len(p.desc) \in Nat /\ Len(db) \in Nat
  BY <1>1, <1>2 DEF Docs
<1>4. p.save.stage # "stored" BY <1>1 DEF NoRequest
<1> QED BY <1>1, <1>2, <1>3, <1>4 DEF Aware

(* A step of one instance that leaves the document alone. *)
LEMMA AlarmStep ==
  ASSUME Inv, AlarmInv, NEW i \in Instances, NEW r,
         inst' = [inst EXCEPT ![i] = r], db' = db, lost \subseteq lost', alarm' \subseteq lost',
         Heard(r) \subseteq Heard(inst[i]), r.life = "up" => inst[i].life = "up",
         \A q \in stray' : \/ q \in stray
                           \/ q.u.by = i /\ (r.life # "up" \/ i \in lost'),
         i \notin lost' /\ r.life = "up" => Aware(i, r, db)
  PROVE  AlarmInv'
<1>1. \A j \in Instances : inst'[j] = IF j = i THEN r ELSE inst[j]
  BY DEF Inv, TypeOK
<1>2. \A j \in Instances : Heard(inst'[j]) \subseteq 1..Len(db')
  BY <1>1 DEF AlarmInv
<1>3. \A j \in Instances \ lost' : inst'[j].life = "up" => Aware(j, inst'[j], db')
  BY <1>1 DEF AlarmInv
<1>4. \A q \in stray' : inst'[q.u.by].life = "up" => q.u.by \in lost'
  <2> SUFFICES ASSUME NEW q \in stray', inst'[q.u.by].life = "up" PROVE q.u.by \in lost'
    OBVIOUS
  <2>1. CASE q \in stray
    <3>1. q.u.by \in Instances BY <2>1 DEF Inv, TypeOK, InFlight, Updates
    <3> QED BY <2>1, <3>1, <1>1 DEF AlarmInv
  <2>2. CASE q.u.by = i BY <2>2, <1>1 DEF AlarmInv, Inv, TypeOK, InFlight, Updates
  <2> QED BY <2>1, <2>2
<1> QED BY <1>2, <1>3, <1>4 DEF AlarmInv, NoFalseAlarm

(* Such a step in which the copy, the requests and the history stay. *)
LEMMA CalmStep ==
  ASSUME Inv, AlarmInv, NEW i \in Instances, NEW r, Calmer(inst[i], r),
         inst' = [inst EXCEPT ![i] = r], UNCHANGED <<db, stray, lost>>, alarm' \subseteq lost
  PROVE  AlarmInv'
<1>1. i \notin lost' /\ r.life = "up" => Aware(i, r, db)
  BY DEF AlarmInv, Calmer, Aware
<1> QED BY <1>1, AlarmStep DEF Calmer

(* _next_update(): the request is made from the copy. *)
LEMMA NextUpdateAware ==
  ASSUME NEW i \in Instances, NEW p \in InstanceSet, NEW r \in NextUpdate(p), NEW d
  PROVE  /\ Heard(r) = Heard(p) /\ r.life = p.life
         /\ Aware(i, p, d) => Aware(i, r, d)
<1>1. CASE p.save # NoRequest \/ p.queue = <<>> BY <1>1 DEF NextUpdate
<1>2. CASE ~(p.save # NoRequest \/ p.queue = <<>>)
  <2> DEFINE x == Request(p.desc, Head(p.queue))
  <2>1. /\ r.desc = p.desc /\ r.del = p.del /\ r.notes = p.notes /\ r.buffer = p.buffer
        /\ r.life = p.life
        /\ r.save = x \/ r.save = p.save
    BY <1>2 DEF NextUpdate, InstanceSet
  <2>2. x.base = p.desc /\ p.save.stage # "stored"
    BY <1>2 DEF Request, NoRequest
  <2> HIDE DEF x
  <2>3. Aware(i, p, d) => Aware(i, r, d) BY <1>2, <2>1, <2>2 DEF Aware
  <2> QED BY <2>1, <2>3 DEF Heard
<1> QED BY <1>1, <1>2

LEMMA EnqueueAware ==
  ASSUME NEW i \in Instances, NEW p \in InstanceSet, p.issued < MaxUpdates,
         NEW kind \in Kinds, NEW r \in Enqueue(i, p, kind), NEW d
  PROVE  /\ Heard(r) = Heard(p) /\ r.life = p.life
         /\ Aware(i, p, d) => Aware(i, r, d)
<1> DEFINE u == Update(i, p.issued + 1, kind)
           q == [p EXCEPT !.queue = Append(@, u), !.issued = @ + 1]
<1>1. p.issued \in Nat /\ p.issued + 1 \in 0..MaxUpdates /\ p.issued + 1 \in 1..MaxUpdates + 1
  BY MaxUpdatesAssumption DEF InstanceSet
<1>2. u \in Updates BY <1>1 DEF Update, Updates
<1>3. p.queue \in Docs /\ Append(p.queue, u) \in Docs BY <1>2, AppendFacts DEF InstanceSet, Docs
<1>4. /\ q \in InstanceSet /\ q.desc = p.desc /\ q.save = p.save /\ q.del = p.del
      /\ q.notes = p.notes /\ q.buffer = p.buffer /\ q.life = p.life
  BY <1>1, <1>3 DEF InstanceSet, Docs
<1>5. r \in NextUpdate(q) BY DEF Enqueue
<1> HIDE DEF q
<1>6. Aware(i, p, d) => Aware(i, q, d) BY <1>4 DEF Aware
<1> QED BY <1>4, <1>5, <1>6, NextUpdateAware DEF Heard

(* Nobody knows more of its own changes than an instance that has loaded   *)
(* the document, or that was told that its update is stored.               *)
LEMMA InstanceAware ==
  ASSUME Inv, AlarmInv, NEW i \in Instances,
         \/ ReloadDescriptor(i) \/ Subscribe(i) \/ StoreInstanceId(i)
         \/ UpdateDescriptor(i) \/ CallNextUpdate(i)
         \/ Saved(i) \/ SaveConflicts(i) \/ SaveFails(i)
  PROVE  AlarmInv'
<1>0. /\ inst[i] \in InstanceSet /\ db \in Docs /\ NewOK(i, inst[i], db)
      /\ Heard(inst[i]) \subseteq 1..Len(db) /\ inst \in [Instances -> InstanceSet]
      /\ i \notin lost /\ inst[i].life = "up" => Aware(i, inst[i], db)
  BY OfInv DEF Inv, AlarmInv, TypeOK
<1>a. ASSUME NEW r, inst' = [inst EXCEPT ![i] = r], UNCHANGED <<db, stray, done, lost, alarm>>,
             Heard(r) = Heard(inst[i]), r.life = inst[i].life,
             Aware(i, inst[i], db) => Aware(i, r, db)
      PROVE  AlarmInv'
  BY <1>a, <1>0, AlarmStep DEF AlarmInv, NoFalseAlarm
<1>1. CASE ReloadDescriptor(i)
  <2> DEFINE r == [inst[i] EXCEPT !.boot = "loaded", !.desc = db]
  <2>1. inst' = [inst EXCEPT ![i] = r] BY <1>0, <1>1 DEF ReloadDescriptor
  <2>2. /\ r.desc = db /\ r.save = NoRequest /\ r.del = NoRequest
        /\ Heard(r) = Heard(inst[i]) /\ r.life = inst[i].life
    BY <1>0, <1>1 DEF ReloadDescriptor, NewOK, InstanceSet, Heard
  <2>3. Aware(i, r, db)
    <3> HIDE DEF r
    <3> QED BY <2>2, <1>0 DEF Aware, Docs
  <2> HIDE DEF r
  <2> QED BY <1>a, <1>1, <2>1, <2>2, <2>3 DEF ReloadDescriptor
<1>2. CASE Subscribe(i)
  <2> DEFINE r == [inst[i] EXCEPT !.boot = "listening", !.listening = TRUE]
  <2>1. inst' = [inst EXCEPT ![i] = r] BY <1>0, <1>2 DEF Subscribe
  <2>2. /\ r.desc = inst[i].desc /\ r.save = inst[i].save /\ r.del = inst[i].del
        /\ Heard(r) = Heard(inst[i]) /\ r.life = inst[i].life
    BY <1>0 DEF InstanceSet, Heard
  <2> HIDE DEF r
  <2>3. Aware(i, inst[i], db) => Aware(i, r, db) BY <2>2 DEF Aware
  <2> QED BY <1>a, <1>2, <2>1, <2>2, <2>3 DEF Subscribe
<1>3. CASE StoreInstanceId(i)
  <2> DEFINE c == [inst[i] EXCEPT !.boot = "locking"]
  <2>1. PICK r \in Enqueue(i, c, "lock") : inst' = [inst EXCEPT ![i] = r]
    BY <1>3 DEF StoreInstanceId
  <2>2. /\ c \in InstanceSet /\ c.issued = inst[i].issued /\ c.life = inst[i].life
        /\ c.desc = inst[i].desc /\ c.save = inst[i].save /\ c.del = inst[i].del
        /\ Heard(c) = Heard(inst[i])
    BY <1>0 DEF InstanceSet, Boots, Heard
  <2> HIDE DEF c
  <2>3. c.issued < MaxUpdates /\ "lock" \in Kinds BY <1>3, <2>2 DEF StoreInstanceId, Kinds
  <2>4. Aware(i, inst[i], db) => Aware(i, c, db) BY <2>2 DEF Aware
  <2>5. Heard(r) = Heard(c) /\ r.life = c.life /\ (Aware(i, c, db) => Aware(i, r, db))
    BY <2>2, <2>3, EnqueueAware
  <2> QED BY <1>a, <1>3, <2>1, <2>2, <2>4, <2>5 DEF StoreInstanceId
<1>4. CASE UpdateDescriptor(i)
  <2>1. PICK r \in Enqueue(i, inst[i], "set") : inst' = [inst EXCEPT ![i] = r]
    BY <1>4 DEF UpdateDescriptor
  <2>2. inst[i].issued < MaxUpdates /\ "set" \in Kinds BY <1>4 DEF UpdateDescriptor, Kinds
  <2>3. Heard(r) = Heard(inst[i]) /\ r.life = inst[i].life
        /\ (Aware(i, inst[i], db) => Aware(i, r, db))
    BY <1>0, <2>2, EnqueueAware
  <2> QED BY <1>a, <1>4, <2>1, <2>3 DEF UpdateDescriptor
<1>5. CASE CallNextUpdate(i)
  <2> DEFINE c == [inst[i] EXCEPT !.next = FALSE]
  <2>1. PICK r \in NextUpdate(c) : inst' = [inst EXCEPT ![i] = r]
    BY <1>5 DEF CallNextUpdate
  <2>2. /\ c \in InstanceSet /\ c.life = inst[i].life
        /\ c.desc = inst[i].desc /\ c.save = inst[i].save /\ c.del = inst[i].del
        /\ Heard(c) = Heard(inst[i])
    BY <1>0 DEF InstanceSet, Heard
  <2> HIDE DEF c
  <2>3. Aware(i, inst[i], db) => Aware(i, c, db) BY <2>2 DEF Aware
  <2>4. Heard(r) = Heard(c) /\ r.life = c.life /\ (Aware(i, c, db) => Aware(i, r, db))
    BY <2>2, NextUpdateAware
  <2> QED BY <1>a, <1>5, <2>1, <2>2, <2>3, <2>4 DEF CallNextUpdate
<1>b. ASSUME NEW p \in InstanceSet, NEW ok \in BOOLEAN
      PROVE  LET e == EndSave(p, ok)
             IN  /\ e \in InstanceSet /\ e.desc = p.desc /\ e.save = NoRequest /\ e.del = p.del
                 /\ e.life = p.life /\ Heard(e) = Heard(p) /\ e.buffer = p.buffer
  BY DEF EndSave, InstanceSet, Boots, Heard
<1>6. CASE Saved(i)
  <2> DEFINE q == inst[i].save
             c == [inst[i] EXCEPT !.desc = Append(q.base, q.u)]
             p == EndSave(c, TRUE)
             r == Unlocked(p)
  <2>1. /\ q.stage = "stored" /\ inst' = [inst EXCEPT ![i] = r] /\ UNCHANGED <<db, stray, lost>>
        /\ alarm' = alarm \cup FalseAlarm(i, p, p.buffer)
    BY <1>6 DEF Saved
  <2>2. q \in InFlight /\ q # NoRequest
    BY <2>1, OfInv DEF NoRequest
  <2>3. q.base \in Docs /\ q.u \in Updates BY <2>2 DEF InFlight, Docs
  <2>4. Append(q.base, q.u) \in Docs /\ Len(Append(q.base, q.u)) = Len(q.base) + 1
        /\ Len(q.base) \in Nat
    BY <2>3, AppendFacts
  <2>5. /\ c \in InstanceSet /\ c.desc = Append(q.base, q.u) /\ c.del = inst[i].del
        /\ c.life = inst[i].life /\ Heard(c) = Heard(inst[i])
    BY <1>0, <2>4 DEF InstanceSet, Docs, Heard
  <2> HIDE DEF c
  <2>6. /\ p \in InstanceSet /\ p.desc = Append(q.base, q.u) /\ p.save = NoRequest
        /\ p.del = inst[i].del /\ p.life = inst[i].life /\ Heard(p) = Heard(inst[i])
    BY <2>5, <1>b
  <2> HIDE DEF p
  <2>7. i \notin lost /\ p.life = "up" => Aware(i, p, db)
    <3> SUFFICES ASSUME i \notin lost, p.life = "up" PROVE Aware(i, p, db)
      OBVIOUS
    <3>1. Aware(i, inst[i], db) BY <1>0, <2>6
    <3>2. q.base = inst[i].desc /\ inst[i].del = NoRequest BY <3>1, <2>2 DEF Aware
    <3>3. \A r1 \in 1..Len(db) : db[r1].by = i => r1 <= Len(q.base) + 1
      BY <3>1, <3>2, <2>4 DEF Aware
    <3> QED BY <3>2, <3>3, <2>4, <2>6 DEF Aware
  <2>8. Calmer(p, r) BY <2>6, CalmOps
  <2>9. p.buffer \subseteq 1..Len(db) BY <1>0, <2>6 DEF Heard
  <2>10. FalseAlarm(i, p, p.buffer) \subseteq lost
    BY <1>0, <2>4, <2>6, <2>7, <2>9, NoAlarm
  <2>11. i \notin lost' /\ r.life = "up" => Aware(i, r, db)
    BY <2>1, <2>7, <2>8 DEF Calmer, Aware
  <2> HIDE DEF r
  <2> QED BY <2>1, <2>6, <2>8, <2>10, <2>11, AlarmStep DEF AlarmInv, NoFalseAlarm, Calmer
<1>7. CASE SaveConflicts(i)
  <2> DEFINE c == [inst[i] EXCEPT !.doom = TRUE]
             p == EndSave(c, FALSE)
             r == Unlocked(p)
  <2>1. /\ inst[i].save.stage = "conflict" /\ inst' = [inst EXCEPT ![i] = r]
        /\ alarm' = alarm \cup FalseAlarm(i, p, p.buffer) /\ UNCHANGED <<db, stray, lost>>
    BY <1>7 DEF SaveConflicts
  <2>2. /\ c \in InstanceSet /\ c.desc = inst[i].desc /\ c.del = inst[i].del
        /\ c.life = inst[i].life /\ Heard(c) = Heard(inst[i])
    BY <1>0 DEF InstanceSet, Heard
  <2> HIDE DEF c
  <2>3. /\ p \in InstanceSet /\ p.desc = inst[i].desc /\ p.save = NoRequest
        /\ p.del = inst[i].del /\ p.life = inst[i].life /\ Heard(p) = Heard(inst[i])
    BY <2>2, <1>b
  <2> HIDE DEF p
  <2>4. i \notin lost /\ p.life = "up" => Aware(i, p, db)
    BY <1>0, <2>1, <2>3 DEF Aware
  <2>5. Calmer(p, r) BY <2>3, CalmOps
  <2>6. p.buffer \subseteq 1..Len(db) /\ p.desc \in Docs
    BY <1>0, <2>3 DEF Heard, InstanceSet, Docs
  <2>7. FalseAlarm(i, p, p.buffer) \subseteq lost
    BY <1>0, <2>4, <2>6, NoAlarm
  <2>8. i \notin lost' /\ r.life = "up" => Aware(i, r, db)
    BY <2>1, <2>4, <2>5 DEF Calmer, Aware
  <2> HIDE DEF r
  <2> QED BY <2>1, <2>3, <2>5, <2>7, <2>8, AlarmStep DEF AlarmInv, NoFalseAlarm, Calmer
<1>8. CASE SaveFails(i)
  <2> DEFINE p == EndSave(inst[i], FALSE)
             r == Unlocked(p)
  <2>1. /\ inst[i].save.stage \in Stages /\ inst' = [inst EXCEPT ![i] = r]
        /\ stray' = stray \cup Abandon(inst[i].save)
        /\ lost' = lost \cup {i} /\ UNCHANGED <<db, done, alarm>>
    BY <1>0, <1>8 DEF SaveFails, Stages
  <2>2. p \in InstanceSet /\ p.life = inst[i].life /\ Heard(p) = Heard(inst[i])
    BY <1>0, <1>b
  <2> HIDE DEF p
  <2>3. Calmer(p, r) BY <2>2, CalmOps
  <2>4. \A x \in stray' : x \in stray \/ x.u.by = i
    BY <2>1, OfInv DEF Abandon
  <2> HIDE DEF r
  <2> QED BY <2>1, <2>2, <2>3, <2>4, AlarmStep DEF AlarmInv, NoFalseAlarm, Calmer
<1> QED BY <1>1, <1>2, <1>3, <1>4, <1>5, <1>6, <1>7, <1>8

(* Nobody comes to life again. *)
LEMMA TerminationAware ==
  ASSUME Inv, AlarmInv, NEW i \in Instances,
         \/ CallTerminateHard(i) \/ Terminate(i) \/ CancelDelayedCalls(i) \/ HardEnds(i)
         \/ DeleteDescriptor(i) \/ DescriptorDeleted(i) \/ DeleteFails(i) \/ Crash(i)
  PROVE  AlarmInv'
<1>0. inst[i] \in InstanceSet /\ inst \in [Instances -> InstanceSet]
  BY OfInv DEF Inv, TypeOK
<1>a. ASSUME NEW r, inst' = [inst EXCEPT ![i] = r], r.life # "up",
             Heard(r) \subseteq Heard(inst[i]), UNCHANGED <<db, alarm>>, lost \subseteq lost',
             \A q \in stray' : q \in stray \/ q.u.by = i
      PROVE  AlarmInv'
  BY <1>a, AlarmStep DEF AlarmInv, NoFalseAlarm
<1>b. ASSUME NEW r, inst' = [inst EXCEPT ![i] = r], Calmer(inst[i], r),
             UNCHANGED <<db, stray, lost, alarm>>
      PROVE  AlarmInv'
  BY <1>b, CalmStep DEF AlarmInv, NoFalseAlarm
<1>1. CASE CallTerminateHard(i)
  <2> DEFINE c == [inst[i] EXCEPT !.doom = FALSE]
  <2>1. c \in InstanceSet /\ Calmer(inst[i], c) BY <1>0 DEF InstanceSet, Calmer, Heard
  <2>2. Calmer(c, TerminateHard(c))
    <3> HIDE DEF c
    <3> QED BY <2>1, CalmOps
  <2>3. inst' = [inst EXCEPT ![i] = TerminateHard(c)] /\ UNCHANGED <<db, stray, lost, alarm>>
    BY <1>1 DEF CallTerminateHard
  <2> HIDE DEF c
  <2> QED BY <1>b, <2>1, <2>2, <2>3 DEF Calmer
<1>2. CASE Terminate(i)
  <2> DEFINE r == [inst[i] EXCEPT !.life = "gentle"]
  <2>1. Calmer(inst[i], r) BY <1>0 DEF InstanceSet, Calmer, Heard
  <2>2. inst' = [inst EXCEPT ![i] = r] /\ UNCHANGED <<db, stray, lost, alarm>>
    BY <1>0, <1>2 DEF Terminate
  <2> HIDE DEF r
  <2> QED BY <1>b, <2>1, <2>2
<1>3. CASE CancelDelayedCalls(i)
  <2> DEFINE r == [inst[i] EXCEPT !.next = FALSE, !.doom = FALSE]
  <2>1. Calmer(inst[i], r) BY <1>0 DEF InstanceSet, Calmer, Heard
  <2>2. inst' = [inst EXCEPT ![i] = r] /\ UNCHANGED <<db, stray, lost, alarm>>
    BY <1>0, <1>3 DEF CancelDelayedCalls
  <2> HIDE DEF r
  <2> QED BY <1>b, <2>1, <2>2
<1>4. CASE HardEnds(i)
  BY <1>0, <1>4, <1>b, CalmOps DEF HardEnds
<1>5. CASE DeleteDescriptor(i)
  <2> DEFINE r == [inst[i] EXCEPT
                     !.del = Request(inst[i].desc, Update(i, MaxUpdates + 1, "delete"))]
  <2>1. inst' = [inst EXCEPT ![i] = r] /\ UNCHANGED <<db, stray, lost, alarm>>
    BY <1>0, <1>5 DEF DeleteDescriptor
  <2>2. r.life # "up" /\ Heard(r) = Heard(inst[i])
    BY <1>0, <1>5 DEF DeleteDescriptor, InstanceSet, Heard
  <2> HIDE DEF r
  <2> QED BY <1>a, <2>1, <2>2
<1>6. ASSUME NEW p \in InstanceSet
      PROVE  LET r == End(Unlocked([p EXCEPT !.del = NoRequest]))
             IN  r.life # "up" /\ Heard(r) \subseteq Heard(p)
  <2> DEFINE c == [p EXCEPT !.del = NoRequest]
             d == Unlocked(c)
  <2>1. c \in InstanceSet /\ Heard(c) = Heard(p) BY DEF InstanceSet, Heard
  <2>2. d \in InstanceSet /\ Heard(d) \subseteq Heard(c)
    <3> HIDE DEF c
    <3> QED BY <2>1, CalmOps, QuietOps DEF Calmer, SameCore
  <2>3. End(d).life # "up" /\ Heard(End(d)) \subseteq Heard(d)
    <3> HIDE DEF c, d
    <3>1. End(d).life # "up" BY <2>2 DEF End, InstanceSet
    <3> QED BY <2>2, <3>1, CalmOps DEF Calmer
  <2> QED BY <2>1, <2>2, <2>3
<1>7. CASE DescriptorDeleted(i)
  <2> DEFINE c == [inst[i] EXCEPT !.desc = Append(inst[i].del.base, inst[i].del.u)]
             r == End(Unlocked([c EXCEPT !.del = NoRequest]))
  <2>1. inst[i].del \in InFlight
    BY <1>7, OfInv DEF DescriptorDeleted, NoRequest
  <2>2. Append(inst[i].del.base, inst[i].del.u) \in Docs
    BY <2>1, AppendFacts DEF InFlight, Docs
  <2>3. c \in InstanceSet /\ Heard(c) = Heard(inst[i])
    BY <1>0, <2>2 DEF InstanceSet, Docs, Heard
  <2>4. [c EXCEPT !.del = NoRequest]
          = [inst[i] EXCEPT !.desc = Append(inst[i].del.base, inst[i].del.u), !.del = NoRequest]
    BY <1>0 DEF InstanceSet
  <2>5. inst' = [inst EXCEPT ![i] = r] /\ UNCHANGED <<db, stray, lost, alarm>>
    BY <1>7, <2>4 DEF DescriptorDeleted
  <2>6. r.life # "up" /\ Heard(r) \subseteq Heard(inst[i])
    <3> HIDE DEF c
    <3> QED BY <2>3, <1>6
  <2> HIDE DEF r
  <2> QED BY <1>a, <2>5, <2>6
<1>8. CASE DeleteFails(i)
  <2> DEFINE r == End(Unlocked([inst[i] EXCEPT !.del = NoRequest]))
  <2>1. /\ inst' = [inst EXCEPT ![i] = r] /\ UNCHANGED <<db, alarm>> /\ lost \subseteq lost'
        /\ stray' = stray \cup Abandon(inst[i].del) /\ inst[i].del.stage \in Stages
    BY <1>8 DEF DeleteFails
  <2>2. r.life # "up" /\ Heard(r) \subseteq Heard(inst[i]) BY <1>0, <1>6
  <2>3. \A x \in stray' : x \in stray \/ x.u.by = i
    BY <2>1, OfInv DEF Abandon
  <2> HIDE DEF r
  <2> QED BY <1>a, <2>1, <2>2, <2>3
<1>9. CASE Crash(i)
  <2> DEFINE r == [NewInstance EXCEPT !.boot = "failed", !.life = "crashed"]
  <2>1. /\ inst' = [inst EXCEPT ![i] = r] /\ UNCHANGED <<db, lost, alarm>>
        /\ stray' = stray \cup Abandon(inst[i].save) \cup Abandon(inst[i].del)
    BY <1>9 DEF Crash
  <2>2. r.life # "up" /\ Heard(r) = {} BY DEF NewInstance, Heard
  <2>3. \A x \in stray' : x \in stray \/ x.u.by = i
    <3>1. \A x \in Abandon(inst[i].save) : x = inst[i].save /\ x.stage \in Stages
      BY DEF Abandon, Stages
    <3>2. \A x \in Abandon(inst[i].del) : x = inst[i].del /\ x.stage \in Stages
      BY DEF Abandon, Stages
    <3> QED BY <2>1, <3>1, <3>2, OfInv
  <2> HIDE DEF r
  <2> QED BY <1>a, <2>1, <2>2, <2>3
<1> QED BY <1>1, <1>2, <1>3, <1>4, <1>5, <1>7, <1>8, <1>9

(* The database stores a request of instance i: the change is i's own, and *)
(* i knows about it, or will be told, or does not count.                   *)
LEMMA NotifyAware ==
  ASSUME Inv, AlarmInv, NEW i \in Instances,
         NEW q \in InFlight, RequestOK(q, db), q.u.by = i, Current(q),
         db' = Append(q.base, q.u), stray' \subseteq stray, UNCHANGED <<lost, alarm>>,
         NEW r \in InstanceSet, Heard(r) = Heard(inst[i]), r.life = inst[i].life,
         i \notin lost /\ r.life = "up" => Aware(i, r, db'),
         inst' = Notify([inst EXCEPT ![i] = r])
  PROVE  AlarmInv'
<1> DEFINE m == [inst EXCEPT ![i] = r]
<1>1. /\ db \in Docs /\ q.base \in Docs /\ q.u \in Updates /\ Len(db) \in Nat
      /\ inst \in [Instances -> InstanceSet]
  BY DEF Inv, TypeOK, InFlight, Docs
<1>2. db' = Append(db, q.u) BY <1>1, PreIsAll DEF RequestOK, Current
<1>3. /\ db' \in Docs /\ Len(db') = Len(db) + 1 /\ db'[Len(db) + 1].by = i
      /\ \A k \in 1..Len(db) : db'[k] = db[k]
  BY <1>1, <1>2, AppendFacts
<1>4. \A j \in Instances : m[j] \in InstanceSet /\ m[j] = IF j = i THEN r ELSE inst[j]
  BY <1>1
<1>5. \A j \in Instances :
        /\ inst'[j].life = m[j].life /\ inst'[j].desc = m[j].desc
        /\ inst'[j].save = m[j].save /\ inst'[j].del = m[j].del
        /\ Heard(inst'[j]) \subseteq Heard(m[j]) \cup {Len(db) + 1}
  <2> SUFFICES ASSUME NEW j \in Instances
               PROVE  /\ inst'[j].life = m[j].life /\ inst'[j].desc = m[j].desc
                      /\ inst'[j].save = m[j].save /\ inst'[j].del = m[j].del
                      /\ Heard(inst'[j]) \subseteq Heard(m[j]) \cup {Len(db) + 1}
    OBVIOUS
  <2>1. inst'[j] = IF m[j].listening THEN [m[j] EXCEPT !.notes = @ \cup {Len(db) + 1}] ELSE m[j]
    BY DEF Notify
  <2>2. m[j] \in InstanceSet BY <1>4
  <2> HIDE DEF m
  <2> QED BY <2>1, <2>2 DEF InstanceSet, Heard
<1> HIDE DEF m
<1>6. \A j \in Instances : Heard(inst'[j]) \subseteq 1..Len(db')
  <2> SUFFICES ASSUME NEW j \in Instances PROVE Heard(inst'[j]) \subseteq 1..Len(db')
    OBVIOUS
  <2>1. Heard(m[j]) \subseteq 1..Len(db) BY <1>4 DEF AlarmInv
  <2>2. 1..Len(db) \cup {Len(db) + 1} \subseteq 1..Len(db') BY <1>1, <1>3
  <2>3. Heard(inst'[j]) \subseteq Heard(m[j]) \cup {Len(db) + 1} BY <1>5
  <2> QED BY <2>1, <2>2, <2>3
<1>7. \A j \in Instances \ lost' : inst'[j].life = "up" => Aware(j, inst'[j], db')
  <2> SUFFICES ASSUME NEW j \in Instances, j \notin lost, inst'[j].life = "up"
               PROVE  Aware(j, inst'[j], db')
    OBVIOUS
  <2>1. Aware(j, m[j], db')
    <3>1. CASE j = i BY <3>1, <1>4, <1>5
    <3>2. CASE j # i
      <4>1. m[j] = inst[j] /\ Aware(j, inst[j], db) BY <3>2, <1>4, <1>5 DEF AlarmInv
      <4> QED BY <4>1, <3>2, <1>1, <1>3 DEF Aware
    <3> QED BY <3>1, <3>2
  <2> QED BY <2>1, <1>5 DEF Aware
<1>8. \A x \in stray' : inst'[x.u.by].life = "up" => x.u.by \in lost'
  <2> SUFFICES ASSUME NEW x \in stray', inst'[x.u.by].life = "up" PROVE x.u.by \in lost
    OBVIOUS
  <2>1. x \in stray OBVIOUS
  <2>2. x.u.by \in Instances BY <2>1 DEF Inv, TypeOK, InFlight, Updates
  <2>3. m[x.u.by].life = "up" BY <2>2, <1>5
  <2>4. inst[x.u.by].life = "up" BY <2>2, <2>3, <1>4
  <2> QED BY <2>1, <2>4 DEF AlarmInv
<1> QED BY <1>6, <1>7, <1>8 DEF AlarmInv, NoFalseAlarm

(* The database and the changes feed. *)
LEMMA DatabaseAware ==
  ASSUME Inv, AlarmInv,
         \/ \E i \in Instances : StoreSave(i) \/ StoreDelete(i)
         \/ \E i \in Instances : \E c \in inst[i].notes : OnChange(i, c)
         \/ \E q \in stray : StoreStray(q)
  PROVE  AlarmInv'
<1>1. ASSUME NEW i \in Instances, StoreSave(i) PROVE AlarmInv'
  <2> DEFINE q == inst[i].save
             s == [q EXCEPT !.stage = "stored"]
             c == [q EXCEPT !.stage = "conflict"]
  <2>1. q.stage = "sent" /\ q.stage \in Stages BY <1>1 DEF StoreSave, Stages
  <2>2. /\ q \in InFlight /\ RequestOK(q, db) /\ q.u.by = i /\ db \in Docs
        /\ inst[i] \in InstanceSet /\ q # NoRequest /\ inst \in [Instances -> InstanceSet]
        /\ i \notin lost /\ inst[i].life = "up" => Aware(i, inst[i], db)
    BY <2>1, OfInv DEF NoRequest, AlarmInv, Inv, TypeOK
  <2>3. CASE Current(q)
    <3> DEFINE r == [inst[i] EXCEPT !.save = s]
    <3>1. s \in InFlight /\ s.base = q.base /\ s.stage = "stored" BY <2>2 DEF InFlight, Stages
    <3>2. /\ r \in InstanceSet /\ r.save = s /\ r.desc = inst[i].desc /\ r.del = inst[i].del
          /\ Heard(r) = Heard(inst[i]) /\ r.life = inst[i].life
      BY <2>2, <3>1 DEF InstanceSet, Heard
    <3>3. db' = Append(q.base, q.u) /\ inst' = Notify([inst EXCEPT ![i] = r])
          /\ UNCHANGED <<stray, done, lost, alarm>>
      <4>1. [inst EXCEPT ![i].save.stage = "stored"] = [inst EXCEPT ![i] = r]
        BY <2>2
      <4> QED BY <1>1, <2>3, <4>1 DEF StoreSave
    <3>4. q.base \in Docs /\ q.u \in Updates BY <2>2 DEF InFlight, Docs
    <3>5. /\ Len(db') = Len(q.base) + 1 /\ Len(q.base) = Len(db) /\ Len(db) \in Nat
          /\ \A k \in 1..Len(db) : db'[k] = db[k]
      BY <2>2, <2>3, <3>3, <3>4, PreIsAll, AppendFacts DEF RequestOK, Current
    <3> HIDE DEF r, s, q
    <3>6. i \notin lost /\ r.life = "up" => Aware(i, r, db')
      <4> SUFFICES ASSUME i \notin lost, r.life = "up" PROVE Aware(i, r, db')
        OBVIOUS
      <4>1. Aware(i, inst[i], db) BY <2>2, <3>2
      <4>2. q.base = inst[i].desc /\ inst[i].del = NoRequest BY <4>1, <2>2 DEF Aware, q
      <4>3. \A k \in 1..Len(db) : db[k].by = i => k <= Len(inst[i].desc)
        BY <4>1, <2>1 DEF Aware, q
      <4>4. \A k \in 1..Len(db') : k \in 1..Len(db) \/ k = Len(db) + 1
        BY <3>5
      <4> QED BY <4>2, <4>3, <4>4, <3>1, <3>2, <3>5 DEF Aware
    <3> QED BY <2>2, <2>3, <3>2, <3>3, <3>6, NotifyAware
  <2>4. CASE ~Current(q)
    <3> DEFINE r == [inst[i] EXCEPT !.save = c]
    <3>1. inst' = [inst EXCEPT ![i] = r] /\ UNCHANGED <<db, stray, done, lost, alarm>>
      BY <1>1, <2>2, <2>4 DEF StoreSave
    <3>2. c \in InFlight /\ c.base = q.base BY <2>2 DEF InFlight, Stages
    <3>3. /\ r.save = c /\ r.desc = inst[i].desc /\ r.del = inst[i].del
          /\ Heard(r) = Heard(inst[i]) /\ r.life = inst[i].life
      BY <2>2 DEF InstanceSet, Heard
    <3> HIDE DEF r, c
    <3>4. Aware(i, inst[i], db) => Aware(i, r, db)
      BY <2>1, <2>2, <3>2, <3>3 DEF Aware
    <3> QED BY <2>2, <3>1, <3>3, <3>4, AlarmStep DEF AlarmInv, NoFalseAlarm
  <2> QED BY <2>3, <2>4
<1>2. ASSUME NEW i \in Instances, StoreDelete(i) PROVE AlarmInv'
  <2> DEFINE q == inst[i].del
             s == [q EXCEPT !.stage = "stored"]
             c == [q EXCEPT !.stage = "conflict"]
  <2>1. q.stage \in Stages BY <1>2 DEF StoreDelete, Stages
  <2>2. /\ q \in InFlight /\ RequestOK(q, db) /\ q.u.by = i /\ db \in Docs
        /\ inst[i] \in InstanceSet /\ q # NoRequest /\ inst \in [Instances -> InstanceSet]
        /\ i \notin lost /\ inst[i].life = "up" => Aware(i, inst[i], db)
    BY <2>1, OfInv DEF NoRequest, Stages, AlarmInv, Inv, TypeOK
  <2>3. i \in lost \/ inst[i].life # "up" BY <2>2 DEF Aware
  <2>4. s \in InFlight /\ c \in InFlight BY <2>2 DEF InFlight, Stages
  <2>5. ASSUME NEW x \in InFlight
        PROVE  LET r == [inst[i] EXCEPT !.del = x]
               IN  r \in InstanceSet /\ Heard(r) = Heard(inst[i]) /\ r.life = inst[i].life
    BY <2>2, <2>5 DEF InstanceSet, Heard
  <2>6. CASE Current(q)
    <3> DEFINE r == [inst[i] EXCEPT !.del = s]
    <3>1. r \in InstanceSet /\ Heard(r) = Heard(inst[i]) /\ r.life = inst[i].life
      BY <2>4, <2>5
    <3>2. db' = Append(q.base, q.u) /\ inst' = Notify([inst EXCEPT ![i] = r])
          /\ UNCHANGED <<stray, done, lost, alarm>>
      <4>1. [inst EXCEPT ![i].del.stage = "stored"] = [inst EXCEPT ![i] = r]
        BY <2>2
      <4> QED BY <1>2, <2>6, <4>1 DEF StoreDelete
    <3> HIDE DEF r, q
    <3> QED BY <2>2, <2>3, <2>6, <3>1, <3>2, NotifyAware
  <2>7. CASE ~Current(q)
    <3> DEFINE r == [inst[i] EXCEPT !.del = c]
    <3>1. Heard(r) = Heard(inst[i]) /\ r.life = inst[i].life BY <2>4, <2>5
    <3>2. inst' = [inst EXCEPT ![i] = r] /\ UNCHANGED <<db, stray, done, lost, alarm>>
      BY <1>2, <2>2, <2>7 DEF StoreDelete
    <3> HIDE DEF r
    <3> QED BY <2>3, <3>1, <3>2, AlarmStep DEF AlarmInv, NoFalseAlarm
  <2> QED BY <2>6, <2>7
<1>3. ASSUME NEW i \in Instances, NEW n \in inst[i].notes, OnChange(i, n) PROVE AlarmInv'
  <2> DEFINE p == [inst[i] EXCEPT !.notes = @ \ {n}]
             b == [p EXCEPT !.buffer = @ \cup {n}]
             r == IF Locked(p) THEN b ELSE ProcessChange(p, {n})
  <2>0. /\ inst[i] \in InstanceSet /\ db \in Docs /\ n \in 1..Len(db)
        /\ i \notin lost /\ inst[i].life = "up" => Aware(i, inst[i], db)
    BY OfInv DEF AlarmInv, Heard
  <2>1. p \in InstanceSet /\ p.desc \in Docs /\ Calmer(inst[i], p) /\ Calmer(inst[i], b)
    BY <2>0 DEF InstanceSet, Docs, Calmer, Heard
  <2>2. Calmer(p, ProcessChange(p, {n}))
    <3> HIDE DEF p
    <3> QED BY <2>1, CalmOps
  <2>3. Calmer(inst[i], r)
    <3> HIDE DEF p, b
    <3> QED BY <2>1, <2>2 DEF Calmer
  <2>4. inst' = [inst EXCEPT ![i] = r] /\ UNCHANGED <<db, stray, done, lost>>
        /\ alarm' = alarm \cup FalseAlarm(i, p, {n})
    BY <1>3 DEF OnChange
  <2>5. i \notin lost /\ p.life = "up" => Aware(i, p, db)
    <3> HIDE DEF p
    <3> QED BY <2>0, <2>1 DEF Calmer, Aware
  <2>6. FalseAlarm(i, p, {n}) \subseteq lost
    <3> HIDE DEF p
    <3> QED BY <2>0, <2>1, <2>5, NoAlarm
  <2> HIDE DEF r, p
  <2> QED BY <2>3, <2>4, <2>6, CalmStep DEF AlarmInv, NoFalseAlarm
<1>4. ASSUME NEW q \in stray, StoreStray(q) PROVE AlarmInv'
  <2> DEFINE i == q.u.by
  <2>1. q \in InFlight /\ RequestOK(q, db) /\ i \in Instances
    BY DEF Inv, TypeOK, InFlight, Updates
  <2>2. inst[i] \in InstanceSet /\ (i \in lost \/ inst[i].life # "up")
    BY <2>1, OfInv DEF AlarmInv
  <2>3. CASE Current(q)
    <3>1. inst = [inst EXCEPT ![i] = inst[i]] BY <2>1 DEF Inv, TypeOK
    <3>2. db' = Append(q.base, q.u) /\ inst' = Notify([inst EXCEPT ![i] = inst[i]])
          /\ stray' \subseteq stray /\ UNCHANGED <<done, lost, alarm>>
      BY <1>4, <2>3, <3>1 DEF StoreStray
    <3> QED BY <2>1, <2>2, <2>3, <3>2, NotifyAware
  <2>4. CASE ~Current(q)
    <3>1. stray' \subseteq stray /\ UNCHANGED <<db, inst, done, lost, alarm>>
      BY <1>4, <2>4 DEF StoreStray
    <3> QED BY <3>1 DEF AlarmInv, NoFalseAlarm
  <2> QED BY <2>3, <2>4
<1> QED BY <1>1, <1>2, <1>3, <1>4

(* Initially nothing has been written; every step keeps the instances      *)
(* aware of what they write.                                               *)
LEMMA InitAware == Init => AlarmInv
<1> SUFFICES ASSUME Init PROVE AlarmInv
  OBVIOUS
<1>1. \A i \in Instances : inst[i] = NewInstance BY DEF Init
<1>2. db = <<>> /\ Len(db) = 0 /\ stray = {} /\ alarm = {} BY DEF Init
<1>3. Heard(NewInstance) = {} /\ NewInstance.save = NoRequest /\ NewInstance.del = NoRequest
  BY DEF Heard, NewInstance
<1> QED BY <1>1, <1>2, <1>3 DEF AlarmInv, NoFalseAlarm, Aware

LEMMA NextAware == Inv /\ AlarmInv /\ [Next]_vars => AlarmInv'
<1> SUFFICES ASSUME Inv, AlarmInv, [Next]_vars PROVE AlarmInv'
  OBVIOUS
<1>1. CASE UNCHANGED vars BY <1>1 DEF vars, AlarmInv, NoFalseAlarm
<1>2. CASE Next
  <2>1. ASSUME NEW i \in Instances, InstanceNext(i) PROVE AlarmInv'
    BY <2>1, InstanceAware, TerminationAware, DatabaseAware DEF InstanceNext, Answer
  <2> QED BY <1>2, <2>1, DatabaseAware DEF Next
<1> QED BY <1>1, <1>2

(* An instance kills itself for a change of its descriptor only if another *)
(* instance made it, or if one of its own requests was reported as failed, *)
(* however the answers and the changes feed overtake each other.           *)
THEOREM NoSuicide == Spec => []NoFalseAlarm
<1>1. AlarmInv => NoFalseAlarm BY DEF AlarmInv
<1> QED BY <1>1, InitAware, NextAware, InitInv, NextInv, PTL DEF Spec

-----------------------------------------------------------------------------
(* What holds of a writer, of the flush and of the migration               *)

WriterKinds == {"sqlite", "postgres", "proxy"}
Links == {"connected", "disconnected"}
Working == {"started", "inserting"}
WriterSet ==
  [target : 1..Master, kind : WriterKinds, state : Links, opening : {0, 1}, retry : Nat,
   delayed : BOOLEAN, giveup : BOOLEAN, dropped : BOOLEAN, cache : Seq(Nat), fetched : Nat,
   ops : [Ops -> OpPhases], queue : Seq(Ops)]
JournalerSet ==
  [state : Links, writer : Nat, index : Nat, cache : Seq(Nat), fetched : Nat,
   flush : {"none", "due", "waiting", "woken", "writing"}, by : Nat, waits : SUBSET Entries,
   next : Nat, closing : Nat]
MigrationSet ==
  [stage : {"none", "open", "skip", "read", "flush", "delete"}, from : Nat, to : Nat, n : Nat]
EnvSet ==
  [faults : Nat, roles : Seq({"slave", "master"}), inserted : 0..MaxEntries,
   closed : BOOLEAN, reconnected : BOOLEAN, rotated : BOOLEAN]
StateSet ==
  [jour : JournalerSet, wr : Seq(WriterSet), store : [1..Master -> Seq(Nat)],
   mig : MigrationSet, told : SUBSET Entries, env : EnvSet]

(* One operation of a writer at a time writes a batch, and those in the     *)
(* queue wait for it; a writer that is connecting has nothing to flush yet. *)
OneWorks(w) == \A a, b \in Ops : w.ops[a] \in Working /\ w.ops[b] \in Working => a = b
InTurn(w) ==
  /\ \A op \in Ops : w.ops[op] = "queued" <=> \E k \in 1..Len(w.queue) : w.queue[k] = op
  /\ \A k, l \in 1..Len(w.queue) : w.queue[k] = w.queue[l] => k = l
  /\ w.queue # <<>> => \E op \in Ops : w.ops[op] \in Working
WriterOK(w) ==
  /\ w.kind = IF w.target = Master THEN "proxy" ELSE Targets[w.target]
  /\ w.fetched <= Len(w.cache)
  /\ w.delayed => w.kind = "postgres" /\ w.opening = 0
  /\ w.opening = 1 \/ w.delayed \/ w.kind = "proxy" => w.ops["open"] = "none"
  /\ OneWorks(w) /\ InTurn(w)

(* A flush is written by the writer that was given it.                     *)
Writing(s) == s.jour.flush = "writing"
FlushOK(s) ==
  /\ s.jour.writer <= Len(s.wr) /\ s.jour.fetched <= Len(s.jour.cache)
  /\ s.jour.fetched > 0 <=> Writing(s)
  /\ Writing(s) => s.jour.by \in 1..Len(s.wr)
  /\ \A i \in 1..Len(s.wr) : s.wr[i].ops["insert"] # "none" => Writing(s) /\ s.jour.by = i

ControlOK(s) ==
  s \in StateSet /\ (\A i \in 1..Len(s.wr) : WriterOK(s.wr[i])) /\ FlushOK(s)

-----------------------------------------------------------------------------
(* Where the entries are                                                   *)

Elems(q) == {q[k] : k \in 1..Len(q)}
StoredIn(s) == UNION {Elems(s.store[t]) : t \in 1..Master}
Source(s) == s.wr[s.mig.from].target
Left(s) == s.mig.to # 0 /\ Len(s.wr) > s.mig.to

(* A migration has a source and a target, and is left for a later writer.   *)
MoveOK(s) ==
  /\ s.mig.to = 0 => s.mig.stage = "none"
  /\ s.mig.to # 0 =>
       /\ s.mig.to \in 1..Len(s.wr) /\ s.mig.from \in 1..Len(s.wr) /\ s.env.reconnected
       /\ Source(s) # s.wr[s.mig.to].target
  /\ s.mig.to # 0 /\ ~Left(s) => s.jour.writer \in {0, s.mig.to}
  /\ s.mig.stage \in {"flush", "delete"} => s.mig.n <= Len(s.store[Source(s)])

Inside(s) ==
  /\ \A t \in 1..Master : Elems(s.store[t]) \subseteq 1..s.env.inserted
  /\ \A i \in 1..Len(s.wr) : Elems(s.wr[i].cache) \subseteq 1..s.env.inserted
  /\ Elems(s.jour.cache) \subseteq 1..s.env.inserted

(* Each number before that of an entry is stored, or comes before it.       *)
Supported(q, H) ==
  \A k \in 1..Len(q) : \A x \in 1..q[k] : x \in H \/ \E l \in 1..k : q[l] = x
Closed(H) == \A y \in H : 1..y \subseteq H

(* What is written was fetched before the migration.                       *)
Early(s) == s.mig.to = 0 \/ (Writing(s) /\ s.jour.by # s.mig.to)

(* The entry x outlives the source of the migration.                       *)
Survives(s, x) ==
  \/ \E t \in 1..Master : t # Source(s) /\ x \in Elems(s.store[t])
  \/ \E k \in 1..Len(s.jour.cache) : s.jour.cache[k] = x /\ (Early(s) => k > s.jour.fetched)

(* A migration may take an entry for another one.                          *)
Mistaken(s, e) == s.mig.to # 0 /\ Misdated(e)

KeptIn(s) ==
  \A e \in 1..s.env.inserted :
    e \in StoredIn(s) \/ e \in Elems(s.jour.cache) \/ Mistaken(s, e)
FetchedOK(s) ==
  Writing(s) =>
    \A k \in 1..s.jour.fetched :
      \/ s.jour.cache[k] \in Elems(s.wr[s.jour.by].cache)
      \/ s.jour.cache[k] \in Elems(s.store[s.wr[s.jour.by].target])
EarlyOK(s) ==
  /\ Early(s) =>
       /\ Closed(StoredIn(s))
       /\ \A i \in 1..Len(s.wr) : Supported(s.wr[i].cache, StoredIn(s))
  /\ s.mig.to = 0 => Supported(s.jour.cache, StoredIn(s))
MovedOK(s) ==
  /\ s.mig.stage \in {"flush", "delete"} =>
       \A k \in 1..s.mig.n : \A x \in 1..s.store[Source(s)][k] : Survives(s, x) \/ Misdated(x)
  /\ s.mig.stage = "delete" => ~Early(s)

EntriesOK(s) == KeptIn(s) /\ FetchedOK(s) /\ EarlyOK(s) /\ MovedOK(s)

DataOK(s) == MoveOK(s) /\ Inside(s) /\ (Left(s) \/ EntriesOK(s))
Sound(s) == ControlOK(s) /\ DataOK(s)

(* The writer in use is one for the target of the index.                   *)
IndexOK(s) ==
  /\ s.jour.index <= Len(Targets) /\ Len(s.wr) <= MaxWriters
  /\ s.jour.writer # 0 =>
       s.wr[s.jour.writer].kind = "proxy" \/ s.wr[s.jour.writer].target = s.jour.index

JInvariant == Sound(State) /\ IndexOK(State)

-----------------------------------------------------------------------------
(* What the operations leave alone                                         *)

Frame(s, t) ==
  /\ t.store = s.store /\ Len(t.wr) = Len(s.wr)
  /\ t.env.inserted = s.env.inserted /\ (s.env.reconnected => t.env.reconnected)
  /\ t.jour.index = s.jour.index /\ t.jour.by = s.jour.by
  /\ t.jour.writer \in {s.jour.writer, 0}
  /\ t.mig.from = s.mig.from /\ t.mig.to = s.mig.to /\ t.mig.n = s.mig.n
  /\ \A j \in 1..Len(s.wr) : /\ t.wr[j].cache = s.wr[j].cache
                             /\ t.wr[j].target = s.wr[j].target
                             /\ t.wr[j].kind = s.wr[j].kind

(* A flush goes on, is given up, or is over.                               *)
GoesOn(s, t) ==
  /\ t.jour.cache = s.jour.cache /\ t.jour.fetched = s.jour.fetched
  /\ (Writing(t) <=> Writing(s))
  /\ t.mig.stage = s.mig.stage \/ (t.mig.stage = "skip" /\ s.mig.stage = "open")
GivenUp(s, t) ==
  /\ t.jour.cache = s.jour.cache /\ t.jour.fetched = 0 /\ ~Writing(t)
  /\ t.mig.stage = s.mig.stage
Over(s, t) ==
  /\ t.jour.fetched = 0 /\ ~Writing(t)
  /\ t.jour.cache = SubSeq(s.jour.cache, s.jour.fetched + 1, Len(s.jour.cache))
  /\ t.mig.stage = IF s.mig.stage = "flush" THEN "delete" ELSE s.mig.stage
  /\ Writing(s) => s.wr[s.jour.by].cache = <<>>

Flow(s, t) == Frame(s, t) /\ (GoesOn(s, t) \/ GivenUp(s, t) \/ Over(s, t))

Keeps(s, t) == Sound(t) /\ Frame(s, t)

-----------------------------------------------------------------------------
(* Sequences of entries                                                    *)

(* The elements and the places of two sequences one after the other.       *)
LEMMA Joined ==
  ASSUME NEW p \in Seq(Nat), NEW q \in Seq(Nat)
  PROVE  /\ p \o q \in Seq(Nat) /\ Len(p \o q) = Len(p) + Len(q)
         /\ \A k \in 1..Len(p) : (p \o q)[k] = p[k]
         /\ \A k \in 1..Len(q) : (p \o q)[Len(p) + k] = q[k]
         /\ Elems(p \o q) = Elems(p) \cup Elems(q)
<1> DEFINE r == p \o q
<1>1. /\ r \in Seq(Nat) /\ Len(r) = Len(p) + Len(q) /\ Len(p) \in Nat /\ Len(q) \in Nat
      /\ \A k \in 1..Len(p) : r[k] = p[k]
      /\ \A k \in 1..Len(q) : r[Len(p) + k] = q[k]
  OBVIOUS
<1> HIDE DEF r
<1>2. \A k \in 1..Len(r) : k \in 1..Len(p) \/ (k - Len(p) \in 1..Len(q) /\ k = Len(p) + (k - Len(p)))
  BY <1>1
<1>3. \A k \in 1..Len(p) : k \in 1..Len(r) BY <1>1
<1>4. \A k \in 1..Len(q) : Len(p) + k \in 1..Len(r) BY <1>1
<1>5. Elems(r) \subseteq Elems(p) \cup Elems(q)
  <2> SUFFICES ASSUME NEW k \in 1..Len(r) PROVE r[k] \in Elems(p) \/ r[k] \in Elems(q)
    BY DEF Elems
  <2>1. CASE k \in 1..Len(p) BY <2>1, <1>1 DEF Elems
  <2>2. CASE k - Len(p) \in 1..Len(q) /\ k = Len(p) + (k - Len(p))
    <3>1. r[k] = q[k - Len(p)] BY <2>2, <1>1
    <3> QED BY <3>1, <2>2 DEF Elems
  <2> QED BY <2>1, <2>2, <1>2
<1>6. Elems(p) \subseteq Elems(r) BY <1>1, <1>3 DEF Elems
<1>7. Elems(q) \subseteq Elems(r) BY <1>1, <1>4 DEF Elems
<1> QED BY <1>1, <1>5, <1>6, <1>7 DEF r

(* A sequence without its first n elements, and these.                     *)
LEMMA Split ==
  ASSUME NEW q \in Seq(Nat), NEW n \in 0..Len(q)
  PROVE  /\ SubSeq(q, n + 1, Len(q)) \in Seq(Nat) /\ SubSeq(q, 1, n) \in Seq(Nat)
         /\ Len(SubSeq(q, n + 1, Len(q))) = Len(q) - n /\ Len(SubSeq(q, 1, n)) = n
         /\ \A k \in 1..(Len(q) - n) : SubSeq(q, n + 1, Len(q))[k] = q[n + k]
         /\ \A k \in 1..n : SubSeq(q, 1, n)[k] = q[k]
<1>1. Len(q) \in Nat /\ n \in Nat /\ n <= Len(q) /\ \A k \in 1..Len(q) : q[k] \in Nat OBVIOUS
<1>2. /\ SubSeq(q, 1, n) \in Seq(Nat) /\ Len(SubSeq(q, 1, n)) = n
      /\ \A k \in 1..n : SubSeq(q, 1, n)[k] = q[k]
  BY <1>1
<1>3. /\ SubSeq(q, n + 1, Len(q)) \in Seq(Nat)
      /\ Len(SubSeq(q, n + 1, Len(q))) = Len(q) - n
      /\ \A k \in 1..(Len(q) - n) : SubSeq(q, n + 1, Len(q))[k] = q[n + k]
  BY <1>1
<1> QED BY <1>2, <1>3

LEMMA SplitElems ==
  ASSUME NEW q \in Seq(Nat), NEW n \in 0..Len(q)
  PROVE  /\ Elems(q) = Elems(SubSeq(q, 1, n)) \cup Elems(SubSeq(q, n + 1, Len(q)))
         /\ Elems(SubSeq(q, 1, n)) = {q[k] : k \in 1..n}
<1> DEFINE a == SubSeq(q, 1, n)
           b == SubSeq(q, n + 1, Len(q))
<1>1. /\ Len(q) \in Nat /\ n \in Nat /\ n <= Len(q) /\ Len(a) = n /\ Len(b) = Len(q) - n
      /\ \A k \in 1..(Len(q) - n) : b[k] = q[n + k]
      /\ \A k \in 1..n : a[k] = q[k]
  BY Split
<1> HIDE DEF a, b
<1>2. \A k \in 1..Len(q) : k \in 1..n \/ (k - n \in 1..Len(b) /\ k = n + (k - n)) BY <1>1
<1>3. Elems(q) \subseteq Elems(a) \cup Elems(b)
  <2> SUFFICES ASSUME NEW k \in 1..Len(q) PROVE q[k] \in Elems(a) \/ q[k] \in Elems(b)
    BY DEF Elems
  <2>1. CASE k \in 1..n BY <2>1, <1>1 DEF Elems
  <2>2. CASE k - n \in 1..Len(b) /\ k = n + (k - n)
    <3>1. q[k] = b[k - n] BY <2>2, <1>1
    <3> QED BY <3>1, <2>2 DEF Elems
  <2> QED BY <2>1, <2>2, <1>2
<1>4. \A k \in 1..n : k \in 1..Len(q) BY <1>1
<1>5. \A k \in 1..Len(b) : n + k \in 1..Len(q) BY <1>1
<1>6. Elems(a) \subseteq Elems(q) BY <1>1, <1>4 DEF Elems
<1>7. Elems(b) \subseteq Elems(q) BY <1>1, <1>5 DEF Elems
<1>8. Elems(a) = {q[k] : k \in 1..n} BY <1>1 DEF Elems
<1> QED BY <1>3, <1>6, <1>7, <1>8 DEF a, b

-----------------------------------------------------------------------------
(* A flush that goes on, is given up or is over keeps what is claimed of    *)
(* the entries.                                                            *)

LEMMA Types ==
  ASSUME NEW s \in StateSet
  PROVE  /\ s.jour \in JournalerSet /\ s.wr \in Seq(WriterSet) /\ s.mig \in MigrationSet
         /\ s.store \in [1..Master -> Seq(Nat)] /\ s.env \in EnvSet
         /\ s.told \in SUBSET Entries
         /\ s.jour.cache \in Seq(Nat) /\ s.jour.fetched \in Nat /\ s.jour.by \in Nat
         /\ s.mig.to \in Nat /\ s.mig.from \in Nat /\ s.mig.n \in Nat
         /\ s.env.inserted \in Nat /\ Len(s.wr) \in Nat /\ s.jour.writer \in Nat
         /\ \A i \in 1..Len(s.wr) : /\ s.wr[i] \in WriterSet /\ s.wr[i].cache \in Seq(Nat)
                                    /\ s.wr[i].target \in 1..Master
                                    /\ s.wr[i].fetched \in Nat
<1>1. /\ s.jour \in JournalerSet /\ s.wr \in Seq(WriterSet) /\ s.mig \in MigrationSet
      /\ s.store \in [1..Master -> Seq(Nat)] /\ s.env \in EnvSet
      /\ s.told \in SUBSET Entries
  BY DEF StateSet
<1>2. /\ s.jour.cache \in Seq(Nat) /\ s.jour.fetched \in Nat /\ s.jour.by \in Nat
      /\ s.jour.writer \in Nat
  BY <1>1 DEF JournalerSet
<1>3. s.mig.to \in Nat /\ s.mig.from \in Nat /\ s.mig.n \in Nat BY <1>1 DEF MigrationSet
<1>4. s.env.inserted \in Nat BY <1>1, BoundsAssumption DEF EnvSet
<1>5. Len(s.wr) \in Nat /\ \A i \in 1..Len(s.wr) : s.wr[i] \in WriterSet BY <1>1
<1>6. \A w \in WriterSet : w.cache \in Seq(Nat) /\ w.target \in 1..Master /\ w.fetched \in Nat
  BY DEF WriterSet
<1> QED BY <1>1, <1>2, <1>3, <1>4, <1>5, <1>6

LEMMA SupportedRest ==
  ASSUME NEW q \in Seq(Nat), NEW n \in 0..Len(q), NEW H, NEW G, Supported(q, H), H \subseteq G,
         \A k \in 1..n : q[k] \in G
  PROVE  Supported(SubSeq(q, n + 1, Len(q)), G)
<1> DEFINE b == SubSeq(q, n + 1, Len(q))
<1>1. /\ Len(q) \in Nat /\ n \in Nat /\ n <= Len(q) /\ Len(b) = Len(q) - n
      /\ \A k \in 1..(Len(q) - n) : b[k] = q[n + k]
  BY Split
<1> HIDE DEF b
<1> SUFFICES ASSUME NEW k \in 1..Len(b), NEW x \in 1..b[k]
             PROVE  x \in G \/ \E l \in 1..k : b[l] = x
  BY DEF Supported, b
<1>2. n + k \in 1..Len(q) /\ b[k] = q[n + k] BY <1>1
<1>3. x \in H \/ \E l \in 1..(n + k) : q[l] = x BY <1>2 DEF Supported
<1>4. CASE x \in H BY <1>4
<1>5. CASE \E l \in 1..(n + k) : q[l] = x
  <2>1. PICK l \in 1..(n + k) : q[l] = x BY <1>5
  <2>2. CASE l \in 1..n BY <2>1, <2>2
  <2>3. CASE l \notin 1..n
    <3>1. PICK m \in 1..k : l = n + m
      <4>1. l - n \in 1..k /\ l = n + (l - n) BY <2>1, <2>3, <1>1
      <4> QED BY <4>1
    <3>2. m \in 1..(Len(q) - n) BY <3>1, <1>1
    <3>3. b[m] = q[l] BY <3>1, <3>2, <1>1
    <3> QED BY <3>1, <3>3, <2>1
  <2> QED BY <2>2, <2>3
<1> QED BY <1>3, <1>4, <1>5

(* What a frame leaves of the places.                                      *)
LEMMA FrameKeeps ==
  ASSUME NEW s \in StateSet, NEW t \in StateSet, FlushOK(s), Frame(s, t), DataOK(s),
         t.mig.stage = s.mig.stage
           \/ (t.mig.stage = "delete" /\ s.mig.stage = "flush")
           \/ (t.mig.stage = "skip" /\ s.mig.stage = "open"),
         Elems(t.jour.cache) \subseteq Elems(s.jour.cache)
  PROVE  /\ StoredIn(t) = StoredIn(s) /\ (Left(t) <=> Left(s)) /\ MoveOK(t) /\ Inside(t)
         /\ (s.mig.to # 0 => Source(t) = Source(s))
<1>0. /\ Len(s.wr) \in Nat /\ s.mig.to \in Nat /\ s.mig.from \in Nat /\ s.jour.writer \in Nat
  BY Types
<1>1. StoredIn(t) = StoredIn(s) BY DEF StoredIn, Frame
<1>2. Left(t) <=> Left(s) BY DEF Left, Frame
<1>3. s.mig.to # 0 => Source(t) = Source(s) BY DEF Source, Frame, DataOK, MoveOK
<1>4. MoveOK(t)
  <2>1. t.mig.to = 0 => t.mig.stage = "none" BY DEF DataOK, MoveOK, Frame
  <2>2. t.mig.to # 0 =>
          /\ t.mig.to \in 1..Len(t.wr) /\ t.mig.from \in 1..Len(t.wr) /\ t.env.reconnected
          /\ Source(t) # t.wr[t.mig.to].target
    BY <1>3 DEF DataOK, MoveOK, Frame
  <2>3. t.mig.to # 0 /\ ~Left(t) => t.jour.writer \in {0, t.mig.to}
    BY <1>2 DEF DataOK, MoveOK, Frame
  <2>4. t.mig.stage \in {"flush", "delete"} => t.mig.n <= Len(t.store[Source(t)])
    BY <1>3 DEF DataOK, MoveOK, Frame
  <2> QED BY <2>1, <2>2, <2>3, <2>4 DEF MoveOK
<1>5. Inside(t) BY DEF DataOK, Inside, Frame
<1> QED BY <1>1, <1>2, <1>3, <1>4, <1>5

LEMMA GoesOnKeeps ==
  ASSUME NEW s \in StateSet, NEW t \in StateSet, FlushOK(s), DataOK(s), Frame(s, t),
         GoesOn(s, t) \/ GivenUp(s, t)
  PROVE  DataOK(t)
<1>1. /\ t.jour.cache = s.jour.cache
      /\ t.mig.stage = s.mig.stage \/ (t.mig.stage = "skip" /\ s.mig.stage = "open")
  BY DEF GoesOn, GivenUp
<1>2. /\ StoredIn(t) = StoredIn(s) /\ (Left(t) <=> Left(s)) /\ MoveOK(t) /\ Inside(t)
      /\ (s.mig.to # 0 => Source(t) = Source(s))
  BY <1>1, FrameKeeps
<1> SUFFICES ASSUME EntriesOK(s) PROVE EntriesOK(t) BY <1>2 DEF DataOK
<1>3. /\ s.jour.fetched \in Nat /\ t.jour.fetched \in Nat /\ Len(s.jour.cache) \in Nat
  BY Types
<1>4. KeptIn(t) BY <1>1, <1>2 DEF KeptIn, Mistaken, EntriesOK, Frame
<1>5. FetchedOK(t)
  BY <1>1 DEF FetchedOK, EntriesOK, Frame, GoesOn, GivenUp, FlushOK, Writing
<1>6. Early(t) => Early(s) BY DEF Early, Frame, GoesOn, GivenUp, Writing
<1>7. EarlyOK(t) BY <1>1, <1>2, <1>6 DEF EarlyOK, EntriesOK, Frame
<1>8. ASSUME s.mig.to # 0, NEW x, Survives(s, x) PROVE Survives(t, x)
  <2>1. CASE \E m \in 1..Master : m # Source(s) /\ x \in Elems(s.store[m])
    BY <2>1, <1>2, <1>8 DEF Survives, Frame
  <2>2. CASE \E k \in 1..Len(s.jour.cache) :
               s.jour.cache[k] = x /\ (Early(s) => k > s.jour.fetched)
    <3>1. PICK k \in 1..Len(s.jour.cache) :
               s.jour.cache[k] = x /\ (Early(s) => k > s.jour.fetched)
      BY <2>2
    <3>2. Early(t) => k > t.jour.fetched BY <3>1, <1>6, <1>3 DEF GoesOn, GivenUp
    <3> QED BY <3>1, <3>2, <1>1 DEF Survives
  <2> QED BY <2>1, <2>2, <1>8 DEF Survives
<1>9. MovedOK(t)
  <2>1. s.mig.stage # "none" => s.mig.to # 0 BY DEF DataOK, MoveOK
  <2>2. t.mig.stage \in {"flush", "delete"} =>
          \A k \in 1..t.mig.n : \A x \in 1..t.store[Source(t)][k] : Survives(t, x) \/ Misdated(x)
    BY <2>1, <1>1, <1>2, <1>8 DEF EntriesOK, MovedOK, Frame
  <2>3. t.mig.stage = "delete" => ~Early(t) BY <1>1, <1>6 DEF EntriesOK, MovedOK
  <2> QED BY <2>2, <2>3 DEF MovedOK
<1> QED BY <1>4, <1>5, <1>7, <1>9 DEF EntriesOK

LEMMA OverKeeps ==
  ASSUME NEW s \in StateSet, NEW t \in StateSet, FlushOK(s), DataOK(s), Frame(s, t), Over(s, t)
  PROVE  DataOK(t)
<1> DEFINE f == s.jour.fetched
           c == s.jour.cache
           H == StoredIn(s)
<1>a. c \in Seq(Nat) /\ f \in Nat /\ f <= Len(c) /\ Len(c) \in Nat BY Types DEF FlushOK
<1>b. t.jour.fetched = 0 /\ ~Writing(t) /\ t.jour.cache = SubSeq(c, f + 1, Len(c)) BY DEF Over
<1>c. f \in 0..Len(c) BY <1>a
<1> HIDE DEF c, f
<1>d. /\ Len(SubSeq(c, f + 1, Len(c))) = Len(c) - f
      /\ \A k \in 1..(Len(c) - f) : SubSeq(c, f + 1, Len(c))[k] = c[f + k]
  BY <1>a, <1>c, Split
<1>1. /\ f \in 0..Len(c) /\ f \in Nat /\ c \in Seq(Nat) /\ t.jour.fetched = 0 /\ ~Writing(t)
      /\ t.jour.cache = SubSeq(c, f + 1, Len(c)) /\ Len(c) \in Nat /\ Len(t.jour.cache) = Len(c) - f
      /\ \A k \in 1..(Len(c) - f) : t.jour.cache[k] = c[f + k]
  BY <1>a, <1>b, <1>c, <1>d
<1>e. /\ Elems(c) = Elems(SubSeq(c, 1, f)) \cup Elems(SubSeq(c, f + 1, Len(c)))
      /\ Elems(SubSeq(c, 1, f)) = {c[k] : k \in 1..f}
  BY <1>a, <1>c, SplitElems
<1>2. Elems(c) = Elems(SubSeq(c, 1, f)) \cup Elems(t.jour.cache)
      /\ Elems(SubSeq(c, 1, f)) = {c[k] : k \in 1..f}
  BY <1>b, <1>e
<1> USE DEF c, f
<1>3. t.mig.stage = s.mig.stage \/ (t.mig.stage = "delete" /\ s.mig.stage = "flush")
  BY DEF Over
<1>4. /\ StoredIn(t) = H /\ (Left(t) <=> Left(s)) /\ MoveOK(t) /\ Inside(t)
      /\ (s.mig.to # 0 => Source(t) = Source(s))
  BY <1>2, <1>3, FrameKeeps
<1> SUFFICES ASSUME EntriesOK(s), ~Left(s) PROVE EntriesOK(t) BY <1>4 DEF DataOK
<1>5. \A k \in 1..f : Writing(s) /\ s.jour.by \in 1..Len(s.wr)
                      /\ c[k] \in Elems(s.store[s.wr[s.jour.by].target])
  <2> SUFFICES ASSUME NEW k \in 1..f
               PROVE  Writing(s) /\ s.jour.by \in 1..Len(s.wr)
                      /\ c[k] \in Elems(s.store[s.wr[s.jour.by].target])
    OBVIOUS
  <2>1. Writing(s) /\ s.jour.by \in 1..Len(s.wr) BY <1>1 DEF FlushOK
  <2>2. s.wr[s.jour.by].cache = <<>> BY <2>1 DEF Over
  <2>3. Elems(s.wr[s.jour.by].cache) = {}
    <3>1. Len(s.wr[s.jour.by].cache) = 0 BY <2>2
    <3> QED BY <3>1 DEF Elems
  <2> QED BY <2>1, <2>3 DEF EntriesOK, FetchedOK
<1>6. \A k \in 1..f : c[k] \in H
  <2> SUFFICES ASSUME NEW k \in 1..f PROVE c[k] \in H OBVIOUS
  <2>1. s.jour.by \in 1..Len(s.wr) /\ c[k] \in Elems(s.store[s.wr[s.jour.by].target]) BY <1>5
  <2>2. s.wr[s.jour.by].target \in 1..Master BY <2>1, Types
  <2> QED BY <2>1, <2>2 DEF StoredIn
<1>7. KeptIn(t)
  <2>1. \A e \in Elems(c) : e \in H \/ e \in Elems(t.jour.cache) BY <1>2, <1>6
  <2> QED BY <2>1, <1>4 DEF KeptIn, Mistaken, EntriesOK, Frame
<1>8. FetchedOK(t) BY <1>1 DEF FetchedOK
<1>9. Early(t) => Early(s) BY <1>1 DEF Early, Frame
<1>10. EarlyOK(t)
  <2>1. ASSUME s.mig.to = 0 PROVE Supported(t.jour.cache, H)
    <3>1. Supported(c, H) BY <2>1 DEF EntriesOK, EarlyOK
    <3> HIDE DEF c, f, H
    <3>2. Supported(SubSeq(c, f + 1, Len(c)), H) BY <3>1, <1>1, <1>6, SupportedRest
    <3> QED BY <3>2, <1>1
  <2> QED BY <2>1, <1>4, <1>9 DEF EarlyOK, EntriesOK, Frame
<1>11. ASSUME s.mig.to # 0, NEW x, Survives(s, x) PROVE Survives(t, x)
  <2>0. ~Early(t) BY <1>11, <1>1 DEF Early, Frame
  <2>1. CASE \E m \in 1..Master : m # Source(s) /\ x \in Elems(s.store[m])
    BY <2>1, <1>4, <1>11 DEF Survives, Frame
  <2>2. CASE \E k \in 1..Len(c) : c[k] = x /\ (Early(s) => k > f)
    <3>1. PICK k \in 1..Len(c) : c[k] = x /\ (Early(s) => k > f) BY <2>2
    <3>2. CASE k > f
      <4>1. PICK m \in 1..(Len(c) - f) : k = f + m
        <5>1. k - f \in 1..(Len(c) - f) /\ k = f + (k - f)
          <6> HIDE DEF c, f
          <6> QED BY <3>1, <3>2, <1>1
        <5> QED BY <5>1
      <4>2. m \in 1..Len(t.jour.cache) /\ t.jour.cache[m] = x
        <5> HIDE DEF c, f
        <5> QED BY <4>1, <3>1, <1>1
      <4> QED BY <4>2, <2>0 DEF Survives
    <3>3. CASE ~(k > f)
      <4>1. ~Early(s) /\ k \in 1..f BY <3>1, <3>3, <1>1
      <4>2. s.jour.by = s.mig.to /\ s.mig.to \in 1..Len(s.wr)
            /\ x \in Elems(s.store[s.wr[s.mig.to].target])
        BY <4>1, <1>5, <1>11, <3>1 DEF Early
      <4>3. s.wr[s.mig.to].target # Source(s) BY <1>11 DEF DataOK, MoveOK
      <4>4. s.wr[s.mig.to].target \in 1..Master BY <4>2, Types
      <4> QED BY <4>2, <4>3, <4>4, <1>4, <1>11 DEF Survives, Frame
    <3> QED BY <3>2, <3>3
  <2> QED BY <2>1, <2>2, <1>11 DEF Survives
<1>12. MovedOK(t)
  <2>1. s.mig.stage # "none" => s.mig.to # 0 BY DEF DataOK, MoveOK
  <2>2. t.mig.stage \in {"flush", "delete"} =>
          \A k \in 1..t.mig.n : \A x \in 1..t.store[Source(t)][k] : Survives(t, x) \/ Misdated(x)
    BY <2>1, <1>3, <1>4, <1>11 DEF EntriesOK, MovedOK, Frame
  <2>3. t.mig.stage = "delete" => ~Early(t) BY <2>1, <1>3, <1>1 DEF Early, Frame
  <2> QED BY <2>2, <2>3 DEF MovedOK
<1> QED BY <1>7, <1>8, <1>10, <1>12 DEF EntriesOK

(* What is claimed of the entries stays as a flush goes on or ends.         *)
LEMMA FlowKeeps ==
  ASSUME NEW s \in StateSet, NEW t \in StateSet, FlushOK(s), DataOK(s), Flow(s, t)
  PROVE  DataOK(t)
BY GoesOnKeeps, OverKeeps DEF Flow

LEMMA FrameComposes ==
  ASSUME NEW r, NEW s, NEW t, Frame(r, s), Frame(s, t)
  PROVE  Frame(r, t)
BY DEF Frame

-----------------------------------------------------------------------------
(* Changes of one writer, and of the journaler                             *)

(* What makes a writer connect, and its first flush, stay as they are.     *)
Still(s, t, j) ==
  t.wr[j].opening = s.wr[j].opening /\ t.wr[j].ops["open"] = s.wr[j].ops["open"]
Only(s, t, i) ==
  /\ t.jour = s.jour /\ t.mig = s.mig /\ t.told = s.told /\ t.env = s.env
  /\ \A j \in 1..Len(s.wr) : j # i => t.wr[j] = s.wr[j]

LEMMA WriterChanges ==
  ASSUME NEW s, Sound(s), NEW i \in 1..Len(s.wr), NEW w \in WriterSet, WriterOK(w),
         w.target = s.wr[i].target, w.kind = s.wr[i].kind, w.cache = s.wr[i].cache,
         w.ops["insert"] # "none" => Writing(s) /\ s.jour.by = i,
         NEW t, t = [s EXCEPT !.wr = [@ EXCEPT ![i] = w]]
  PROVE  Keeps(s, t) /\ Only(s, t, i) /\ t.wr[i] = w
<1>1. s \in StateSet /\ s.wr \in Seq(WriterSet) /\ Len(s.wr) \in Nat
  BY Types DEF Sound, ControlOK
<1> DEFINE v == [s.wr EXCEPT ![i] = w]
<1>2. /\ v \in Seq(WriterSet) /\ Len(v) = Len(s.wr) /\ v[i] = w
      /\ \A j \in 1..Len(s.wr) : j # i => v[j] = s.wr[j]
  BY <1>1
<1> HIDE DEF v
<1>3. t \in StateSet /\ t.wr = v /\ t.jour = s.jour /\ t.mig = s.mig /\ t.store = s.store
      /\ t.told = s.told /\ t.env = s.env
  <2>1. t = [s EXCEPT !.wr = v] BY DEF v
  <2> QED BY <1>1, <1>2, <2>1 DEF StateSet
<1>4. \A j \in 1..Len(t.wr) : WriterOK(t.wr[j]) BY <1>2, <1>3 DEF Sound, ControlOK
<1>5. FlushOK(t) BY <1>2, <1>3 DEF Sound, ControlOK, FlushOK, Writing
<1>6. Frame(s, t) BY <1>2, <1>3, <1>1 DEF Frame
<1>7. GoesOn(s, t) BY <1>3 DEF GoesOn, Writing
<1>8. DataOK(t) BY <1>1, <1>3, <1>6, <1>7, FlowKeeps DEF Sound, ControlOK, Flow
<1> QED BY <1>2, <1>3, <1>4, <1>5, <1>6, <1>8 DEF Keeps, Sound, ControlOK, Only

LEMMA JournalChanges ==
  ASSUME NEW s, Sound(s), NEW t \in StateSet, t.wr = s.wr, FlushOK(t), Flow(s, t)
  PROVE  Keeps(s, t)
<1>1. s \in StateSet /\ FlushOK(s) /\ DataOK(s) BY DEF Sound, ControlOK
<1>2. DataOK(t) BY <1>1, FlowKeeps
<1>3. \A i \in 1..Len(t.wr) : WriterOK(t.wr[i]) BY DEF Sound, ControlOK
<1> QED BY <1>2, <1>3 DEF Keeps, Sound, ControlOK, Flow

LEMMA KeepsItself ==
  ASSUME NEW s, Sound(s)
  PROVE  Keeps(s, s)
<1>1. Frame(s, s) BY DEF Frame
<1> QED BY <1>1 DEF Keeps

LEMMA KeepsComposes ==
  ASSUME NEW r, NEW s, NEW t, Keeps(r, s), Keeps(s, t)
  PROVE  Keeps(r, t)
BY FrameComposes DEF Keeps

(* A flush that nobody writes may be scheduled.                            *)
LEMMA Scheduled ==
  ASSUME NEW s, Sound(s), NEW t, t = ScheduleFlush(s)
  PROVE  /\ Keeps(s, t) /\ t.wr = s.wr /\ t.env = s.env /\ t.told = s.told /\ t.mig = s.mig
         /\ t.jour.writer = s.jour.writer /\ t.jour.closing = s.jour.closing
         /\ t.jour.state = s.jour.state
<1>1. s \in StateSet /\ s.jour \in JournalerSet /\ s.mig \in MigrationSet
      /\ s.told \in SUBSET Entries
  BY Types DEF Sound, ControlOK
<1>2. CASE t = s
  <2>1. Keeps(s, s) BY KeepsItself
  <2> QED BY <2>1, <1>2
<1>3. CASE t # s
  <2> DEFINE j == [s.jour EXCEPT !.flush = "due"]
  <2>1. s.jour.flush = "none" /\ t = [s EXCEPT !.jour.flush = "due"] BY <1>3 DEF ScheduleFlush
  <2>2. /\ j \in JournalerSet /\ j.flush = "due" /\ j.writer = s.jour.writer
        /\ j.index = s.jour.index /\ j.cache = s.jour.cache /\ j.fetched = s.jour.fetched
        /\ j.by = s.jour.by /\ j.closing = s.jour.closing /\ j.state = s.jour.state
    BY <1>1 DEF JournalerSet
  <2>4. /\ t.jour = j /\ t.wr = s.wr /\ t.env = s.env /\ t.told = s.told /\ t.mig = s.mig
        /\ t.store = s.store /\ t \in StateSet
    BY <2>1, <2>2, <1>1 DEF StateSet
  <2> HIDE DEF j
  <2>5. Frame(s, t) BY <2>2, <2>4 DEF Frame
  <2>6. GoesOn(s, t) BY <2>1, <2>2, <2>4 DEF GoesOn, Writing
  <2>7. FlushOK(t) BY <2>1, <2>2, <2>4 DEF FlushOK, Sound, ControlOK, Writing
  <2>9. Keeps(s, t) BY <2>4, <2>5, <2>6, <2>7, JournalChanges DEF Flow
  <2> QED BY <2>9, <2>2, <2>4
<1> QED BY <1>2, <1>3

(* Disconnected() leaves the writer.                                       *)
LEMMA Unused ==
  ASSUME NEW s, Sound(s), NEW t, t = Disconnected(s)
  PROVE  /\ Keeps(s, t) /\ t.wr = s.wr /\ t.env = s.env /\ t.mig = s.mig
         /\ t.jour.writer = 0 /\ t.jour.state = "disconnected" /\ t.jour.flush = s.jour.flush
<1>1. s \in StateSet /\ s.jour \in JournalerSet /\ s.mig \in MigrationSet
      /\ s.told \in SUBSET Entries /\ Len(s.wr) \in Nat
  BY Types DEF Sound, ControlOK
<1> DEFINE j == [s.jour EXCEPT !.writer = 0, !.state = "disconnected"]
<1>2. /\ j \in JournalerSet /\ j.writer = 0 /\ j.state = "disconnected"
      /\ j.index = s.jour.index /\ j.cache = s.jour.cache /\ j.fetched = s.jour.fetched
      /\ j.by = s.jour.by /\ j.flush = s.jour.flush
  BY <1>1 DEF JournalerSet, Links
<1>4. /\ t.jour = j /\ t.wr = s.wr /\ t.env = s.env /\ t.mig = s.mig /\ t.store = s.store
      /\ t \in StateSet
  BY <1>1, <1>2 DEF StateSet, Disconnected
<1> HIDE DEF j
<1>5. Frame(s, t) BY <1>2, <1>4 DEF Frame
<1>6. GoesOn(s, t) BY <1>2, <1>4 DEF GoesOn, Writing
<1>7. FlushOK(t) BY <1>1, <1>2, <1>4 DEF FlushOK, Sound, ControlOK, Writing
<1>9. Keeps(s, t) BY <1>4, <1>5, <1>6, <1>7, JournalChanges DEF Flow
<1> QED BY <1>9, <1>2, <1>4

(* Nobody writes the flush of the journaler.                               *)
Idle(s) == \A i \in 1..Len(s.wr) : s.wr[i].ops["insert"] = "none"

LEMMA IdleIf ==
  ASSUME NEW s, Sound(s), Writing(s) => s.wr[s.jour.by].ops["insert"] = "none"
  PROVE  Idle(s)
BY DEF Idle, Sound, ControlOK, FlushOK

(* A flush whose entries the writer does not have any more is over.        *)
LEMMA Completed ==
  ASSUME NEW s, Sound(s), Idle(s), Writing(s) => s.wr[s.jour.by].cache = <<>>,
         NEW t, t = FlushComplete(s)
  PROVE  Keeps(s, t) /\ t.wr = s.wr /\ t.env = s.env /\ t.jour.writer = s.jour.writer
         /\ t.jour.closing = s.jour.closing
<1>1. s \in StateSet /\ s.jour \in JournalerSet /\ s.mig \in MigrationSet
      /\ s.told \in SUBSET Entries /\ Len(s.wr) \in Nat /\ s.jour.cache \in Seq(Nat)
      /\ s.jour.fetched \in 0..Len(s.jour.cache) /\ s.jour.waits \in SUBSET Entries
  BY Types DEF Sound, ControlOK, FlushOK, JournalerSet
<1> DEFINE rest == SubSeq(s.jour.cache, s.jour.fetched + 1, Len(s.jour.cache))
           j == [s.jour EXCEPT !.cache = rest, !.fetched = 0, !.flush = "none", !.waits = {}]
           b == s.told \cup s.jour.waits
           g == IF s.mig.stage = "flush" THEN "delete" ELSE s.mig.stage
           c == [s EXCEPT !.jour = j, !.told = b, !.mig.stage = g]
<1>2. rest \in Seq(Nat) /\ Len(rest) \in Nat BY <1>1, Split
<1>3. c = [s EXCEPT !.jour = [Commit(@) EXCEPT !.flush = "none", !.waits = {}],
                    !.told = @ \cup s.jour.waits,
                    !.mig.stage = IF @ = "flush" THEN "delete" ELSE @]
  BY <1>1 DEF Commit, StateSet, JournalerSet, MigrationSet
<1> HIDE DEF rest, j, b, g, c
<1>4. t = IF c.jour.cache # <<>> THEN ScheduleFlush(c) ELSE c BY <1>3 DEF FlushComplete
<1>5. /\ j \in JournalerSet /\ j.writer = s.jour.writer /\ j.flush = "none"
      /\ j.index = s.jour.index /\ j.cache = rest /\ j.fetched = 0
      /\ j.by = s.jour.by /\ j.closing = s.jour.closing
  BY <1>1, <1>2 DEF JournalerSet, j
<1>6. g \in {"none", "open", "skip", "read", "flush", "delete"} /\ b \in SUBSET Entries
  BY <1>1 DEF MigrationSet, g, b
<1>7. /\ c.jour = j /\ c.wr = s.wr /\ c.env = s.env /\ c.store = s.store
      /\ c.mig = [s.mig EXCEPT !.stage = g] /\ c.told = b
      /\ c.mig \in MigrationSet /\ c.mig.stage = g /\ c.mig.from = s.mig.from
      /\ c.mig.to = s.mig.to /\ c.mig.n = s.mig.n
  BY <1>1, <1>6 DEF StateSet, MigrationSet, c
<1>8. c \in StateSet BY <1>1, <1>5, <1>6, <1>7 DEF StateSet, c
<1>10. Frame(s, c) BY <1>5, <1>7 DEF Frame
<1>11. Over(s, c) BY <1>5, <1>7 DEF Over, Writing, rest, g
<1>12. FlushOK(c) BY <1>1, <1>2, <1>5, <1>7 DEF FlushOK, Sound, ControlOK, Writing, Idle
<1>13. /\ Keeps(s, c) /\ c.wr = s.wr /\ c.env = s.env /\ c.jour.writer = s.jour.writer
       /\ c.jour.closing = s.jour.closing
  BY <1>5, <1>7, <1>8, <1>10, <1>11, <1>12, JournalChanges DEF Flow
<1>14. CASE t = c BY <1>13, <1>14
<1>15. CASE t = ScheduleFlush(c)
  <2>1. /\ Keeps(c, t) /\ t.wr = c.wr /\ t.env = c.env /\ t.jour.writer = c.jour.writer
        /\ t.jour.closing = c.jour.closing
    BY <1>13, <1>15, Scheduled DEF Keeps
  <2> QED BY <2>1, <1>13, KeepsComposes
<1> QED BY <1>4, <1>14, <1>15

-----------------------------------------------------------------------------
(* The operations of a writer                                              *)

(* What is claimed of a writer is about these.                             *)
LEMMA WriterLike ==
  ASSUME NEW w, WriterOK(w), NEW v, v.target = w.target, v.kind = w.kind, v.cache = w.cache,
         v.fetched = w.fetched, v.delayed = w.delayed, v.opening = w.opening, v.ops = w.ops,
         v.queue = w.queue
  PROVE  WriterOK(v)
<1>1. OneWorks(v) BY DEF WriterOK, OneWorks
<1>2. InTurn(v) BY DEF WriterOK, InTurn
<1> QED BY <1>1, <1>2 DEF WriterOK

(* A flush that failed is given up, and the writer dropped.                *)
LEMMA Failed ==
  ASSUME NEW s, Sound(s), Idle(s), NEW t, t = FlushError(s)
  PROVE  /\ Keeps(s, t) /\ t.env = s.env /\ t.jour.closing = s.jour.closing
         /\ t.jour.writer = 0
         /\ \A j \in 1..Len(s.wr) :
              t.wr[j].ops = s.wr[j].ops /\ t.wr[j].opening = s.wr[j].opening
<1>1. s \in StateSet /\ s.jour \in JournalerSet /\ s.wr \in Seq(WriterSet)
      /\ Len(s.wr) \in Nat /\ s.jour.writer \in Nat /\ s.jour.writer <= Len(s.wr)
      /\ s.mig \in MigrationSet
  BY Types DEF Sound, ControlOK, FlushOK
<1> DEFINE w == [s.wr[s.jour.writer] EXCEPT !.dropped = TRUE]
           u == Drop(s)
           d == Disconnected(u)
           i == [Rollback(d.jour) EXCEPT !.flush = "none"]
           e == [d EXCEPT !.jour = i]
           j == [i EXCEPT !.next = @ + 1]
<1>2. /\ Keeps(s, u) /\ u.jour = s.jour /\ u.env = s.env /\ u.mig = s.mig
      /\ \A k \in 1..Len(s.wr) :
           u.wr[k].ops = s.wr[k].ops /\ u.wr[k].opening = s.wr[k].opening
  <2>1. CASE s.jour.writer = 0 BY <2>1, KeepsItself DEF Drop
  <2>2. CASE s.jour.writer # 0
    <3>1. s.jour.writer \in 1..Len(s.wr) /\ s.wr[s.jour.writer] \in WriterSet
          /\ WriterOK(s.wr[s.jour.writer])
      BY <2>2, <1>1 DEF Sound, ControlOK
    <3>2. /\ w \in WriterSet /\ w.ops = s.wr[s.jour.writer].ops
          /\ w.opening = s.wr[s.jour.writer].opening /\ w.cache = s.wr[s.jour.writer].cache
          /\ w.kind = s.wr[s.jour.writer].kind /\ w.target = s.wr[s.jour.writer].target
          /\ w.queue = s.wr[s.jour.writer].queue /\ w.fetched = s.wr[s.jour.writer].fetched
          /\ w.delayed = s.wr[s.jour.writer].delayed
      BY <3>1 DEF WriterSet
    <3> HIDE DEF w
    <3>3. WriterOK(w) BY <3>1, <3>2, WriterLike
    <3>4. w.ops["insert"] = "none" BY <3>1, <3>2 DEF Idle
    <3>5. u = [s EXCEPT !.wr = [@ EXCEPT ![s.jour.writer] = w]] BY <2>2 DEF Drop, w
    <3> HIDE DEF u
    <3>6. Keeps(s, u) /\ Only(s, u, s.jour.writer) /\ u.wr[s.jour.writer] = w
      BY <3>1, <3>2, <3>3, <3>4, <3>5, WriterChanges
    <3> QED BY <3>2, <3>6 DEF Only
  <2> QED BY <2>1, <2>2
<1> HIDE DEF u
<1>3. /\ Keeps(u, d) /\ d.wr = u.wr /\ d.env = u.env /\ d.mig = u.mig
      /\ d.jour.writer = 0 /\ d.jour.flush = u.jour.flush
  BY <1>2, Unused DEF Keeps
<1>4. d.jour.closing = s.jour.closing
  <2>1. u.jour = s.jour /\ s.jour \in JournalerSet BY <1>1, <1>2
  <2>2. d.jour = [u.jour EXCEPT !.writer = 0, !.state = "disconnected"]
    BY <1>2 DEF Disconnected, Keeps, Sound, ControlOK, StateSet
  <2> QED BY <2>1, <2>2 DEF JournalerSet
<1>5. t = TryNext(e) BY DEF FlushError, u
<1> HIDE DEF d
<1>6. d \in StateSet /\ Sound(d) /\ d.jour \in JournalerSet BY <1>3, Types DEF Keeps, Sound, ControlOK
<1>7. d.jour.next + 1 \in Nat BY <1>6 DEF JournalerSet
<1>i. i = [d.jour EXCEPT !.fetched = 0, !.flush = "none"]
  BY <1>6 DEF Rollback, JournalerSet
<1> HIDE DEF i
<1>8. /\ j \in JournalerSet /\ j.writer = 0 /\ j.flush = "none" /\ j.fetched = 0
      /\ j.index = d.jour.index /\ j.cache = d.jour.cache /\ j.by = d.jour.by
      /\ j.closing = d.jour.closing
  BY <1>3, <1>6, <1>7, <1>i DEF JournalerSet
<1>a. t = [d EXCEPT !.jour = j] BY <1>5, <1>6 DEF TryNext, StateSet
<1> HIDE DEF j
<1>9. /\ t \in StateSet /\ t.jour = j /\ t.wr = d.wr /\ t.env = d.env /\ t.mig = d.mig
      /\ t.store = d.store
  BY <1>a, <1>6, <1>8 DEF StateSet
<1>10. Frame(d, t) BY <1>3, <1>8, <1>9 DEF Frame
<1>11. GivenUp(d, t) BY <1>8, <1>9 DEF GivenUp, Writing
<1>12. /\ Len(d.wr) = Len(s.wr) /\ Len(d.wr) \in Nat /\ Len(j.cache) \in Nat
       /\ \A k \in 1..Len(s.wr) : d.wr[k].ops = s.wr[k].ops /\ d.wr[k].opening = s.wr[k].opening
  BY <1>2, <1>3, <1>6, <1>8, Types DEF Keeps, Frame, JournalerSet
<1>13. FlushOK(t) BY <1>8, <1>9, <1>12 DEF FlushOK, Writing, Idle
<1>14. Keeps(d, t) BY <1>6, <1>9, <1>10, <1>11, <1>13, JournalChanges DEF Flow
<1>15. Keeps(s, t) BY <1>2, <1>3, <1>14, KeepsComposes
<1> QED BY <1>2, <1>3, <1>4, <1>8, <1>9, <1>12, <1>15

WriterPhase(w, op, p) == [w EXCEPT !.ops[op] = p]

(* The phase of an operation that neither writes a batch nor waits to.      *)
LEMMA WriterPut ==
  ASSUME NEW w \in WriterSet, WriterOK(w), NEW op \in Ops, NEW p \in {"none", "waiting", "woken"},
         \/ w.ops[op] \in {"none", "waiting", "woken"}
         \/ w.ops[op] \in Working /\ w.queue = <<>>,
         op = "open" /\ p # "none" => w.opening = 0 /\ ~w.delayed /\ w.kind # "proxy",
         NEW v, v = WriterPhase(w, op, p)
  PROVE  /\ v \in WriterSet /\ WriterOK(v) /\ v.target = w.target /\ v.kind = w.kind
         /\ v.cache = w.cache /\ v.opening = w.opening /\ v.state = w.state
         /\ v.delayed = w.delayed /\ v.queue = w.queue
         /\ v.ops[op] = p /\ \A o \in Ops : o # op => v.ops[o] = w.ops[o]
<1>1. /\ w.ops \in [Ops -> OpPhases] /\ w.queue \in Seq(Ops) /\ w.opening \in {0, 1}
      /\ Len(w.queue) \in Nat /\ p \in OpPhases
  BY DEF WriterSet, OpPhases
<1>2. /\ v.target = w.target /\ v.kind = w.kind /\ v.cache = w.cache /\ v.opening = w.opening
      /\ v.state = w.state /\ v.delayed = w.delayed /\ v.queue = w.queue
      /\ v.fetched = w.fetched /\ v.ops = [w.ops EXCEPT ![op] = p] /\ v \in WriterSet
  BY <1>1 DEF WriterSet, WriterPhase
<1>3. v.ops[op] = p /\ \A o \in Ops : o # op => v.ops[o] = w.ops[o] BY <1>1, <1>2
<1>4. OneWorks(v) BY <1>3 DEF WriterOK, OneWorks, Working
<1>5. "open" \in Ops BY DEF Ops
<1>6. InTurn(v)
  <2>1. \A o \in Ops : v.ops[o] = "queued" <=> \E k \in 1..Len(v.queue) : v.queue[k] = o
    BY <1>1, <1>2, <1>3 DEF WriterOK, InTurn, Working
  <2>2. v.queue # <<>> => \E o \in Ops : v.ops[o] \in Working
    BY <1>2, <1>3 DEF WriterOK, InTurn, Working
  <2>3. \A k, l \in 1..Len(v.queue) : v.queue[k] = v.queue[l] => k = l
    BY <1>2 DEF WriterOK, InTurn
  <2> QED BY <2>1, <2>2, <2>3 DEF InTurn
<1>7. v.opening = 1 \/ v.delayed \/ v.kind = "proxy" => v.ops["open"] = "none"
  BY <1>1, <1>2, <1>3, <1>5 DEF WriterOK
<1>8. WriterOK(v) BY <1>2, <1>4, <1>6, <1>7 DEF WriterOK
<1> QED BY <1>2, <1>3, <1>8

LEMMA Puts ==
  ASSUME NEW s, Sound(s), NEW i \in 1..Len(s.wr), NEW op \in Ops,
         NEW p \in {"none", "waiting", "woken"},
         \/ s.wr[i].ops[op] \in {"none", "waiting", "woken"}
         \/ s.wr[i].ops[op] \in Working /\ s.wr[i].queue = <<>>,
         op = "open" /\ p # "none" =>
           s.wr[i].opening = 0 /\ ~s.wr[i].delayed /\ s.wr[i].kind # "proxy",
         op = "insert" /\ p # "none" => Writing(s) /\ s.jour.by = i,
         NEW t, t = Put(s, i, op, p)
  PROVE  /\ Keeps(s, t) /\ Only(s, t, i) /\ t.wr[i].ops[op] = p
         /\ t.wr[i].opening = s.wr[i].opening /\ t.wr[i].delayed = s.wr[i].delayed
         /\ t.wr[i].state = s.wr[i].state /\ t.wr[i].queue = s.wr[i].queue
         /\ \A o \in Ops : o # op => t.wr[i].ops[o] = s.wr[i].ops[o]
<1> DEFINE w == s.wr[i]
           v == WriterPhase(w, op, p)
<1>1. w \in WriterSet /\ WriterOK(w) BY Types DEF Sound, ControlOK
<1>2. /\ v \in WriterSet /\ WriterOK(v) /\ v.target = w.target /\ v.kind = w.kind
      /\ v.cache = w.cache /\ v.opening = w.opening /\ v.state = w.state
      /\ v.delayed = w.delayed /\ v.queue = w.queue
      /\ v.ops[op] = p /\ \A o \in Ops : o # op => v.ops[o] = w.ops[o]
  BY <1>1, WriterPut
<1>3. t = [s EXCEPT !.wr = [@ EXCEPT ![i] = v]] BY DEF Put, WriterPhase
<1> HIDE DEF v
<1>4. v.ops["insert"] # "none" => Writing(s) /\ s.jour.by = i
  BY <1>2 DEF Sound, ControlOK, FlushOK, Ops
<1>5. Keeps(s, t) /\ Only(s, t, i) /\ t.wr[i] = v BY <1>2, <1>3, <1>4, WriterChanges
<1> QED BY <1>2, <1>5
(* The writer that the journaler closes, or none.                          *)
LEMMA ClosingSet ==
  ASSUME NEW s, Sound(s), NEW n \in Nat, NEW t, t = [s EXCEPT !.jour.closing = n]
  PROVE  /\ Keeps(s, t) /\ t.wr = s.wr /\ t.env = s.env /\ t.mig = s.mig
         /\ t.jour.writer = s.jour.writer
<1>1. s \in StateSet /\ s.jour \in JournalerSet /\ Len(s.wr) \in Nat
  BY Types DEF Sound, ControlOK
<1> DEFINE j == [s.jour EXCEPT !.closing = n]
<1>2. /\ j \in JournalerSet /\ j.writer = s.jour.writer
      /\ j.index = s.jour.index /\ j.cache = s.jour.cache /\ j.fetched = s.jour.fetched
      /\ j.by = s.jour.by /\ j.flush = s.jour.flush
  BY <1>1 DEF JournalerSet
<1>3. t = [s EXCEPT !.jour = j] BY <1>1 DEF StateSet
<1> HIDE DEF j
<1>4. /\ t.jour = j /\ t.wr = s.wr /\ t.env = s.env /\ t.mig = s.mig /\ t.store = s.store
      /\ t \in StateSet
  BY <1>1, <1>2, <1>3 DEF StateSet
<1>5. Frame(s, t) BY <1>2, <1>4 DEF Frame
<1>6. GoesOn(s, t) BY <1>2, <1>4 DEF GoesOn, Writing
<1>7. FlushOK(t) BY <1>1, <1>2, <1>4 DEF FlushOK, Sound, ControlOK, Writing
<1>8. Keeps(s, t) BY <1>4, <1>5, <1>6, <1>7, JournalChanges DEF Flow
<1> QED BY <1>8, <1>2, <1>4

(* The close() of the journaler is over.                                   *)
LEMMA ClosedNow ==
  ASSUME NEW s, Sound(s), NEW t, t = Disconnected([s EXCEPT !.jour.closing = 0])
  PROVE  Keeps(s, t) /\ t.wr = s.wr /\ t.env = s.env /\ t.mig = s.mig
<1> DEFINE c == [s EXCEPT !.jour.closing = 0]
<1>1. Keeps(s, c) /\ c.wr = s.wr /\ c.env = s.env /\ c.mig = s.mig BY ClosingSet
<1> HIDE DEF c
<1>2. t = Disconnected(c) BY DEF c
<1>3. Keeps(c, t) /\ t.wr = c.wr /\ t.env = c.env /\ t.mig = c.mig
  BY <1>1, <1>2, Unused DEF Keeps
<1> QED BY <1>1, <1>3, KeepsComposes

AllStill(s, t) == \A j \in 1..Len(s.wr) : Still(s, t, j)
OthersStill(s, t, i) == \A j \in 1..Len(s.wr) : j # i => Still(s, t, j)

LEMMA StillComposes ==
  ASSUME NEW r, NEW s, NEW t, Len(s.wr) = Len(r.wr), AllStill(s, t)
  PROVE  (AllStill(r, s) => AllStill(r, t))
         /\ \A i : OthersStill(r, s, i) => OthersStill(r, t, i)
BY DEF AllStill, OthersStill, Still

(* The migration to a writer is skipped.                                   *)
LEMMA Skips ==
  ASSUME NEW s, Sound(s), NEW i, NEW t, t = SkipMigration(s, i)
  PROVE  Keeps(s, t) /\ t.wr = s.wr /\ t.env = s.env
<1>1. s \in StateSet /\ s.mig \in MigrationSet BY Types DEF Sound, ControlOK
<1> DEFINE g == IF s.mig.stage = "open" /\ s.mig.to = i THEN "skip" ELSE s.mig.stage
           m == [s.mig EXCEPT !.stage = g]
<1>2. g \in {"none", "open", "skip", "read", "flush", "delete"} BY <1>1 DEF MigrationSet
<1>3. g = s.mig.stage \/ (g = "skip" /\ s.mig.stage = "open") OBVIOUS
<1>4. t = [s EXCEPT !.mig = m] BY <1>1 DEF SkipMigration, StateSet, MigrationSet
<1> HIDE DEF g
<1>5. /\ m \in MigrationSet /\ m.from = s.mig.from /\ m.to = s.mig.to /\ m.n = s.mig.n
      /\ m.stage = g
  BY <1>1, <1>2 DEF MigrationSet
<1> HIDE DEF m
<1>6. /\ t \in StateSet /\ t.wr = s.wr /\ t.store = s.store /\ t.mig = m /\ t.jour = s.jour
      /\ t.env = s.env
  BY <1>1, <1>4, <1>5 DEF StateSet
<1>7. Frame(s, t) BY <1>5, <1>6 DEF Frame
<1>8. GoesOn(s, t) BY <1>3, <1>5, <1>6 DEF GoesOn, Writing
<1>9. FlushOK(t) BY <1>6 DEF FlushOK, Sound, ControlOK, Writing
<1>10. Keeps(s, t) BY <1>6, <1>7, <1>8, <1>9, JournalChanges DEF Flow
<1> QED BY <1>6, <1>10

LEMMA OpFailed ==
  ASSUME NEW s, Sound(s), NEW i \in 1..Len(s.wr), NEW op \in Ops,
         s.wr[i].ops[op] \in {"none", "waiting", "woken"},
         op = "insert" => Writing(s) /\ s.jour.by = i,
         NEW t, t = OpFails(s, i, op)
  PROVE  /\ Keeps(s, t) /\ t.env = s.env /\ OthersStill(s, t, i)
         /\ (op # "open" => AllStill(s, t))
<1> DEFINE c == Put(s, i, op, "none")
<1>1. /\ Keeps(s, c) /\ Only(s, c, i) /\ c.wr[i].ops[op] = "none"
      /\ c.wr[i].opening = s.wr[i].opening
      /\ \A o \in Ops : o # op => c.wr[i].ops[o] = s.wr[i].ops[o]
  BY Puts
<1>2. /\ OthersStill(s, c, i) /\ (op # "open" => AllStill(s, c)) /\ Len(c.wr) = Len(s.wr)
      /\ c.env = s.env /\ Sound(c)
  BY <1>1 DEF OthersStill, AllStill, Still, Only, Ops, Keeps, Frame
<1> HIDE DEF c
<1>3. CASE op = "insert"
  <2>1. c.jour = s.jour BY <1>1 DEF Only
  <2>2. Idle(c) BY <1>1, <1>2, <1>3, <2>1, IdleIf DEF Writing
  <2>3. t = FlushError(c) BY <1>3 DEF OpFails, c
  <2>4. Keeps(c, t) /\ t.env = c.env /\ AllStill(c, t)
    BY <1>2, <2>2, <2>3, Failed DEF AllStill, Still
  <2> QED BY <1>1, <1>2, <2>4, KeepsComposes, StillComposes
<1>4. CASE op # "insert" /\ t = c BY <1>1, <1>2, <1>4
<1>6. CASE op = "open"
  <2>1. t = SkipMigration(c, i) BY <1>6 DEF OpFails, c
  <2>2. Keeps(c, t) /\ t.wr = c.wr /\ t.env = c.env BY <1>2, <2>1, Skips
  <2>3. AllStill(c, t) BY <2>2 DEF AllStill, Still
  <2> QED BY <1>1, <1>2, <2>2, <2>3, KeepsComposes, StillComposes
<1>5. CASE op = "close" /\ t # c
  <2>1. t = Disconnected([c EXCEPT !.jour.closing = 0])
    BY <1>5 DEF OpFails, Ops, c
  <2>2. Keeps(c, t) /\ t.wr = c.wr /\ t.env = c.env BY <1>2, <2>1, ClosedNow
  <2>3. AllStill(c, t) BY <2>2 DEF AllStill, Still
  <2> QED BY <1>1, <1>2, <2>2, <2>3, KeepsComposes, StillComposes
<1> QED BY <1>3, <1>4, <1>5, <1>6 DEF Ops

LEMMA CancelledKeeps ==
  ASSUME NEW s, Sound(s), NEW i \in 1..Len(s.wr), NEW t, t = Cancelled(s, i)
  PROVE  Keeps(s, t) /\ t.env = s.env /\ AllStill(s, t)
<1>1. CASE s.wr[i].ops["insert"] = "waiting"
  <2>1. Writing(s) /\ s.jour.by = i BY <1>1 DEF Sound, ControlOK, FlushOK
  <2>2. t = OpFails(s, i, "insert") BY <1>1 DEF Cancelled
  <2> QED BY <1>1, <2>1, <2>2, OpFailed DEF Ops
<1>2. CASE s.wr[i].ops["insert"] # "waiting"
  <2>1. t = s BY <1>2 DEF Cancelled
  <2> QED BY <2>1, KeepsItself DEF AllStill, Still
<1> QED BY <1>1, <1>2

(* A writer changes its state, or is told to give up, to connect no more.  *)
LEMMA StateChanges ==
  ASSUME NEW s, Sound(s), NEW i \in 1..Len(s.wr), NEW w,
         \/ \E x \in Links : w = [s.wr[i] EXCEPT !.state = x]
         \/ \E x \in BOOLEAN : w = [s.wr[i] EXCEPT !.giveup = x]
         \/ \E x \in BOOLEAN : w = [s.wr[i] EXCEPT !.dropped = x]
         \/ \E x \in 0..Len(s.wr[i].cache) : w = [s.wr[i] EXCEPT !.fetched = x],
         NEW t, t = [s EXCEPT !.wr = [@ EXCEPT ![i] = w]]
  PROVE  /\ Keeps(s, t) /\ Only(s, t, i) /\ AllStill(s, t) /\ t.wr[i] = w
         /\ w.ops = s.wr[i].ops /\ w.opening = s.wr[i].opening
         /\ w.delayed = s.wr[i].delayed /\ w.queue = s.wr[i].queue
<1> DEFINE v == s.wr[i]
<1>1. v \in WriterSet /\ WriterOK(v) /\ Len(v.cache) \in Nat BY Types DEF Sound, ControlOK
<1> HIDE DEF v
<1>2. /\ w \in WriterSet /\ w.target = v.target /\ w.kind = v.kind /\ w.cache = v.cache
      /\ w.ops = v.ops /\ w.opening = v.opening /\ w.delayed = v.delayed /\ w.queue = v.queue
      /\ w.fetched <= Len(w.cache)
  <2>1. CASE \E x \in Links : w = [v EXCEPT !.state = x]
    BY <1>1, <2>1 DEF WriterSet, WriterOK
  <2>2. CASE \E x \in BOOLEAN : w = [v EXCEPT !.giveup = x]
    BY <1>1, <2>2 DEF WriterSet, WriterOK
  <2>3. CASE \E x \in BOOLEAN : w = [v EXCEPT !.dropped = x]
    BY <1>1, <2>3 DEF WriterSet, WriterOK
  <2>4. CASE \E x \in 0..Len(v.cache) : w = [v EXCEPT !.fetched = x]
    <3>1. PICK x \in 0..Len(v.cache) : w = [v EXCEPT !.fetched = x] BY <2>4
    <3>2. x \in Nat /\ x <= Len(v.cache) BY <1>1, <3>1
    <3> QED BY <1>1, <3>1, <3>2 DEF WriterSet
  <2> QED BY <2>1, <2>2, <2>3, <2>4 DEF v
<1>3. WriterOK(w)
  <2>1. OneWorks(w) /\ InTurn(w) BY <1>1, <1>2 DEF WriterOK, OneWorks, InTurn
  <2> QED BY <1>1, <1>2, <2>1 DEF WriterOK
<1>4. w.ops["insert"] # "none" => Writing(s) /\ s.jour.by = i
  BY <1>2 DEF Sound, ControlOK, FlushOK, v
<1>5. Keeps(s, t) /\ Only(s, t, i) /\ t.wr[i] = w
  BY <1>2, <1>3, <1>4, WriterChanges DEF v
<1> QED BY <1>2, <1>5 DEF Only, AllStill, Still, v

LEMMA WriterCloses ==
  ASSUME NEW s, Sound(s), NEW i \in 1..Len(s.wr), NEW t, t = WriterClosed(s, i)
  PROVE  Keeps(s, t) /\ t.env = s.env /\ AllStill(s, t)
<1> DEFINE w == [s.wr[i] EXCEPT !.state = "disconnected"]
           c == [s EXCEPT !.wr = [@ EXCEPT ![i] = w]]
           d == IF Is(s, i, "proxy") THEN c ELSE Cancelled(c, i)
<1>1. \E x \in Links : w = [s.wr[i] EXCEPT !.state = x] BY DEF Links
<1>2. Keeps(s, c) /\ c.env = s.env /\ AllStill(s, c)
  <2> HIDE DEF w
  <2> QED BY <1>1, StateChanges DEF Only
<1>3. t = IF d.jour.closing = i THEN Disconnected([d EXCEPT !.jour.closing = 0]) ELSE d
  BY DEF WriterClosed
<1> HIDE DEF w, c
<1>4. Sound(c) /\ Len(c.wr) = Len(s.wr) BY <1>2 DEF Keeps, Frame
<1>5. Keeps(c, d) /\ d.env = c.env /\ AllStill(c, d)
  <2>1. CASE d = c BY <1>4, <2>1, KeepsItself DEF AllStill, Still
  <2>2. CASE d = Cancelled(c, i) BY <1>4, <2>2, CancelledKeeps
  <2> QED BY <2>1, <2>2
<1>6. Keeps(s, d) /\ d.env = s.env /\ AllStill(s, d)
  BY <1>2, <1>4, <1>5, KeepsComposes, StillComposes
<1> HIDE DEF d
<1>7. CASE t = d BY <1>6, <1>7
<1>8. CASE t = Disconnected([d EXCEPT !.jour.closing = 0])
  <2>1. Sound(d) /\ Len(d.wr) = Len(s.wr) BY <1>6 DEF Keeps, Frame
  <2>2. Keeps(d, t) /\ t.wr = d.wr /\ t.env = d.env BY <1>8, <2>1, ClosedNow
  <2>3. AllStill(d, t) BY <2>2 DEF AllStill, Still
  <2> QED BY <1>6, <2>1, <2>2, <2>3, KeepsComposes, StillComposes
<1> QED BY <1>3, <1>7, <1>8

-----------------------------------------------------------------------------
(* A batch that is waited for, begun and over                              *)

LEMMA ChangedTwice ==
  ASSUME NEW s \in StateSet, NEW i \in 1..Len(s.wr), NEW p, NEW v,
         NEW c, c = [s EXCEPT !.wr = [@ EXCEPT ![i] = p]],
         NEW t, t = [c EXCEPT !.wr = [@ EXCEPT ![i] = v]]
  PROVE  c.wr[i] = p /\ t = [s EXCEPT !.wr = [@ EXCEPT ![i] = v]]
<1>1. s.wr \in Seq(WriterSet) BY Types
<1> DEFINE q == [s.wr EXCEPT ![i] = p]
           r == [s.wr EXCEPT ![i] = v]
<1>2. q[i] = p /\ [q EXCEPT ![i] = v] = r BY <1>1
<1> HIDE DEF q, r
<1>3. c = [s EXCEPT !.wr = q] /\ t = [c EXCEPT !.wr = [c.wr EXCEPT ![i] = v]] BY DEF q
<1>4. c.wr = q BY <1>3 DEF StateSet
<1>5. t = [s EXCEPT !.wr = r] BY <1>2, <1>3, <1>4 DEF StateSet
<1> QED BY <1>2, <1>4, <1>5 DEF r

(* The place of what is added to a queue, and of what is left in one.      *)
LEMMA Queued ==
  ASSUME NEW q \in Seq(Ops), NEW op \in Ops
  PROVE  /\ Append(q, op) \in Seq(Ops) /\ Len(Append(q, op)) = Len(q) + 1
         /\ Append(q, op)[Len(q) + 1] = op /\ Len(q) \in Nat
         /\ \A k \in 1..Len(q) : Append(q, op)[k] = q[k]
OBVIOUS

LEMMA Dequeued ==
  ASSUME NEW q \in Seq(Ops), q # <<>>
  PROVE  /\ Tail(q) \in Seq(Ops) /\ Len(Tail(q)) = Len(q) - 1 /\ Len(q) \in Nat
         /\ Len(q) >= 1 /\ Head(q) = q[1] /\ q[1] \in Ops
         /\ \A k \in 1..(Len(q) - 1) : Tail(q)[k] = q[k + 1]
<1>1. Len(q) \in Nat /\ Len(q) >= 1 OBVIOUS
<1> QED BY <1>1

WriterQueued(w, op) ==
  [w EXCEPT !.ops = [@ EXCEPT ![op] = "queued"], !.queue = Append(@, op)]

LEMMA WriterQueues ==
  ASSUME NEW w \in WriterSet, WriterOK(w), NEW op \in Ops,
         w.ops[op] \in {"none", "waiting", "woken"},
         op = "open" => w.opening = 0 /\ ~w.delayed /\ w.kind # "proxy",
         \E o \in Ops : w.ops[o] \in Working,
         NEW v, v = WriterQueued(w, op)
  PROVE  /\ v \in WriterSet /\ WriterOK(v) /\ v.target = w.target /\ v.kind = w.kind
         /\ v.cache = w.cache /\ v.opening = w.opening
         /\ v.ops[op] = "queued" /\ \A o \in Ops : o # op => v.ops[o] = w.ops[o]
<1>1. /\ w.ops \in [Ops -> OpPhases] /\ w.queue \in Seq(Ops) /\ w.opening \in {0, 1}
      /\ "queued" \in OpPhases
  BY DEF WriterSet, OpPhases
<1> DEFINE q == Append(w.queue, op)
           n == Len(w.queue)
<1>2. /\ q \in Seq(Ops) /\ Len(q) = n + 1 /\ q[n + 1] = op /\ n \in Nat
      /\ \A k \in 1..n : q[k] = w.queue[k]
  BY <1>1, Queued
<1> HIDE DEF q
<1>3. /\ v.target = w.target /\ v.kind = w.kind /\ v.cache = w.cache /\ v.opening = w.opening
      /\ v.delayed = w.delayed /\ v.queue = q /\ v.fetched = w.fetched
      /\ v.ops = [w.ops EXCEPT ![op] = "queued"] /\ v \in WriterSet
  <2> DEFINE f == [w.ops EXCEPT ![op] = "queued"]
  <2>1. v = [w EXCEPT !.ops = f, !.queue = q] BY DEF WriterQueued, q
  <2>2. f \in [Ops -> OpPhases] BY <1>1
  <2> HIDE DEF f
  <2>3. /\ v.target = w.target /\ v.kind = w.kind /\ v.cache = w.cache /\ v.opening = w.opening
        /\ v.delayed = w.delayed /\ v.queue = q /\ v.fetched = w.fetched /\ v.ops = f
        /\ v \in WriterSet
    BY <1>2, <2>1, <2>2 DEF WriterSet
  <2> QED BY <2>3 DEF f
<1>4. v.ops[op] = "queued" /\ \A o \in Ops : o # op => v.ops[o] = w.ops[o] BY <1>1, <1>3
<1>5. OneWorks(v) BY <1>4 DEF WriterOK, OneWorks, Working
<1>6. "open" \in Ops BY DEF Ops
<1>7. InTurn(v)
  <2>1. /\ \A o \in Ops : w.ops[o] = "queued" <=> \E k \in 1..n : w.queue[k] = o
        /\ \A k, l \in 1..n : w.queue[k] = w.queue[l] => k = l
    BY DEF WriterOK, InTurn
  <2>2. \A k \in 1..(n + 1) : k \in 1..n \/ k = n + 1 BY <1>2
  <2>3. \A k \in 1..n : k \in 1..(n + 1) BY <1>2
  <2>4. n + 1 \in 1..(n + 1) BY <1>2
  <2>5. \A k \in 1..n : w.queue[k] # op BY <2>1
  <2>6. \A o \in Ops : v.ops[o] = "queued" <=> \E k \in 1..(n + 1) : q[k] = o
    BY <1>2, <1>4, <2>1, <2>2, <2>3, <2>4
  <2>7. \A k, l \in 1..(n + 1) : q[k] = q[l] => k = l
    BY <1>2, <2>1, <2>2, <2>5
  <2>8. \E o \in Ops : v.ops[o] \in Working BY <1>4 DEF Working
  <2> QED BY <1>2, <1>3, <2>6, <2>7, <2>8 DEF InTurn
<1>8. v.opening = 1 \/ v.delayed \/ v.kind = "proxy" => v.ops["open"] = "none"
  BY <1>1, <1>3, <1>4, <1>6 DEF WriterOK
<1>9. WriterOK(v) BY <1>3, <1>5, <1>7, <1>8 DEF WriterOK
<1> QED BY <1>3, <1>4, <1>9

LEMMA WriterStarts ==
  ASSUME NEW w \in WriterSet, WriterOK(w), NEW op \in Ops,
         w.ops[op] \in {"none", "waiting", "woken"},
         op = "open" => w.opening = 0 /\ ~w.delayed /\ w.kind # "proxy",
         ~ \E o \in Ops : w.ops[o] \in Working,
         NEW v, v = WriterPhase(w, op, "started")
  PROVE  /\ v \in WriterSet /\ WriterOK(v) /\ v.target = w.target /\ v.kind = w.kind
         /\ v.cache = w.cache /\ v.opening = w.opening
         /\ v.ops[op] = "started" /\ \A o \in Ops : o # op => v.ops[o] = w.ops[o]
<1>1. /\ w.ops \in [Ops -> OpPhases] /\ w.queue \in Seq(Ops) /\ w.opening \in {0, 1}
      /\ "started" \in OpPhases
  BY DEF WriterSet, OpPhases
<1>2. /\ v.target = w.target /\ v.kind = w.kind /\ v.cache = w.cache /\ v.opening = w.opening
      /\ v.delayed = w.delayed /\ v.queue = w.queue
      /\ v.fetched = w.fetched /\ v.ops = [w.ops EXCEPT ![op] = "started"] /\ v \in WriterSet
  BY <1>1 DEF WriterSet, WriterPhase
<1>3. v.ops[op] = "started" /\ \A o \in Ops : o # op => v.ops[o] = w.ops[o] BY <1>1, <1>2
<1>4. OneWorks(v) BY <1>3 DEF OneWorks
<1>5. InTurn(v)
  <2>1. \A o \in Ops : v.ops[o] = "queued" <=> \E k \in 1..Len(v.queue) : v.queue[k] = o
    BY <1>1, <1>2, <1>3 DEF WriterOK, InTurn
  <2>2. \E o \in Ops : v.ops[o] \in Working BY <1>3 DEF Working
  <2> QED BY <1>2, <2>1, <2>2 DEF WriterOK, InTurn
<1>6. "open" \in Ops BY DEF Ops
<1>7. v.opening = 1 \/ v.delayed \/ v.kind = "proxy" => v.ops["open"] = "none"
  BY <1>1, <1>2, <1>3, <1>6 DEF WriterOK
<1> QED BY <1>2, <1>3, <1>4, <1>5, <1>7 DEF WriterOK

WriterReleased(w, op) ==
  IF w.queue = <<>> THEN WriterPhase(w, op, "none")
  ELSE [w EXCEPT !.ops = [[@ EXCEPT ![op] = "none"] EXCEPT ![Head(w.queue)] = "started"],
                 !.queue = Tail(@)]

LEMMA WriterReleases ==
  ASSUME NEW w \in WriterSet, WriterOK(w), NEW op \in Ops, w.ops[op] \in Working,
         w.queue # <<>>, NEW v, v = WriterReleased(w, op)
  PROVE  /\ v \in WriterSet /\ WriterOK(v) /\ v.target = w.target /\ v.kind = w.kind
         /\ v.cache = w.cache /\ v.opening = w.opening /\ v.delayed = w.delayed
         /\ v.state = w.state /\ v.ops[op] = "none"
         /\ \A o \in Ops : w.ops[o] = "none" => v.ops[o] = "none"
<1>1. /\ w.ops \in [Ops -> OpPhases] /\ w.queue \in Seq(Ops) /\ w.opening \in {0, 1}
      /\ "started" \in OpPhases /\ "none" \in OpPhases
  BY DEF WriterSet, OpPhases
<1> DEFINE q == Tail(w.queue)
           n == Len(w.queue)
           h == w.queue[1]
           f == [[w.ops EXCEPT ![op] = "none"] EXCEPT ![h] = "started"]
<1>2. /\ q \in Seq(Ops) /\ Len(q) = n - 1 /\ n \in Nat /\ n >= 1 /\ Head(w.queue) = h /\ h \in Ops
      /\ \A k \in 1..(n - 1) : q[k] = w.queue[k + 1]
  BY <1>1, Dequeued
<1> HIDE DEF q
<1>3. /\ \A o \in Ops : w.ops[o] = "queued" <=> \E k \in 1..n : w.queue[k] = o
      /\ \A k, l \in 1..n : w.queue[k] = w.queue[l] => k = l
  BY DEF WriterOK, InTurn
<1>4. w.ops[h] = "queued"
  <2>1. 1 \in 1..n BY <1>2
  <2> QED BY <1>2, <1>3, <2>1
<1> HIDE DEF h
<1>5. h # op BY <1>4 DEF Working
<1>6. /\ f \in [Ops -> OpPhases] /\ f[op] = "none" /\ f[h] = "started"
      /\ \A o \in Ops : o # op /\ o # h => f[o] = w.ops[o]
  BY <1>1, <1>2, <1>5
<1> HIDE DEF f
<1>7. /\ v.target = w.target /\ v.kind = w.kind /\ v.cache = w.cache /\ v.opening = w.opening
      /\ v.delayed = w.delayed /\ v.state = w.state /\ v.queue = q
      /\ v.fetched = w.fetched /\ v.ops = f /\ v \in WriterSet
  <2>1. v = [w EXCEPT !.ops = f, !.queue = q] BY <1>2 DEF WriterReleased, f, q
  <2> QED BY <1>1, <1>2, <1>6, <2>1 DEF WriterSet
<1>8. OneWorks(v)
  <2>1. \A o \in Ops : w.ops[o] \in Working => o = op BY DEF WriterOK, OneWorks
  <2>2. \A o \in Ops : v.ops[o] \in Working => o = h BY <2>1, <1>6, <1>7 DEF Working
  <2> QED BY <2>2 DEF OneWorks
<1>9. InTurn(v)
  <2>1. \A k \in 1..(n - 1) : k + 1 \in 1..n /\ k + 1 # 1 BY <1>2
  <2>2. \A k \in 1..n : k # 1 => \E l \in 1..(n - 1) : k = l + 1
    <3> SUFFICES ASSUME NEW k \in 1..n, k # 1 PROVE \E l \in 1..(n - 1) : k = l + 1
      OBVIOUS
    <3>1. k - 1 \in 1..(n - 1) /\ k = (k - 1) + 1 BY <1>2
    <3> QED BY <3>1
  <2>3. 1 \in 1..n /\ w.queue[1] = h BY <1>2 DEF h
  <2>4. \A k \in 1..(n - 1) : q[k] # h BY <1>2, <1>3, <2>1, <2>3
  <2>5. ASSUME NEW o \in Ops
        PROVE  v.ops[o] = "queued" <=> \E k \in 1..(n - 1) : q[k] = o
    <3>1. CASE o = h BY <3>1, <2>4, <1>6, <1>7
    <3>2. CASE o = op
      <4>1. w.ops[op] # "queued" BY DEF Working
      <4>2. \A k \in 1..(n - 1) : q[k] # op BY <1>2, <1>3, <2>1, <4>1
      <4> QED BY <3>2, <4>2, <1>6, <1>7
    <3>3. CASE o # h /\ o # op
      <4>1. v.ops[o] = w.ops[o] BY <3>3, <1>6, <1>7
      <4>2. ASSUME NEW k \in 1..(n - 1), q[k] = o PROVE w.ops[o] = "queued"
        BY <4>2, <1>2, <1>3, <2>1
      <4>3. ASSUME w.ops[o] = "queued" PROVE \E k \in 1..(n - 1) : q[k] = o
        <5>1. PICK k \in 1..n : w.queue[k] = o BY <4>3, <1>3
        <5>2. k # 1 BY <5>1, <2>3, <3>3
        <5>3. PICK l \in 1..(n - 1) : k = l + 1 BY <5>1, <5>2, <2>2
        <5> QED BY <5>1, <5>3, <1>2
      <4> QED BY <4>1, <4>2, <4>3
    <3> QED BY <3>1, <3>2, <3>3
  <2>6. \A k, l \in 1..(n - 1) : q[k] = q[l] => k = l
    <3> SUFFICES ASSUME NEW k \in 1..(n - 1), NEW l \in 1..(n - 1), q[k] = q[l] PROVE k = l
      OBVIOUS
    <3>1. k + 1 = l + 1 BY <1>2, <1>3, <2>1
    <3> QED BY <3>1, <1>2
  <2>7. \E o \in Ops : v.ops[o] \in Working BY <1>2, <1>6, <1>7 DEF Working
  <2> QED BY <1>2, <1>7, <2>5, <2>6, <2>7 DEF InTurn
<1>10. "open" \in Ops BY DEF Ops
<1>11. \A o \in Ops : w.ops[o] = "none" => v.ops[o] = "none"
  BY <1>4, <1>6, <1>7 DEF Working
<1>12. v.opening = 1 \/ v.delayed \/ v.kind = "proxy" => v.ops["open"] = "none"
  BY <1>7, <1>10, <1>11 DEF WriterOK
<1>13. WriterOK(v) BY <1>7, <1>8, <1>9, <1>12 DEF WriterOK
<1> QED BY <1>6, <1>7, <1>11, <1>13

(* An operation in hand writes nothing and waits for nothing; it may go on. *)
Hand(s, i, op) ==
  /\ s.wr[i].ops[op] \in {"none", "woken"}
  /\ op = "insert" => Writing(s) /\ s.jour.by = i
  /\ op = "open" => s.wr[i].opening = 0 /\ ~s.wr[i].delayed /\ s.wr[i].kind # "proxy"

(* What an operation leaves of the writers.                                *)
Goes(s, t, i, op) ==
  /\ Keeps(s, t) /\ t.env = s.env /\ OthersStill(s, t, i)
  /\ op # "open" => AllStill(s, t)

LEMMA PutGoes ==
  ASSUME NEW s, NEW t, NEW i \in 1..Len(s.wr), NEW op \in Ops, Keeps(s, t), Only(s, t, i),
         t.wr[i].opening = s.wr[i].opening,
         \A o \in Ops : o # op => t.wr[i].ops[o] = s.wr[i].ops[o]
  PROVE  Goes(s, t, i, op)
<1>1. "open" \in Ops BY DEF Ops
<1>2. OthersStill(s, t, i) BY DEF OthersStill, Still, Only
<1>3. op # "open" => AllStill(s, t) BY <1>1, <1>2 DEF AllStill, OthersStill, Still
<1> QED BY <1>2, <1>3 DEF Goes, Only

LEMMA GoesOnStill ==
  ASSUME NEW r, NEW s, NEW t, NEW i, NEW op, Goes(r, s, i, op), Keeps(s, t), t.env = s.env,
         AllStill(s, t)
  PROVE  Goes(r, t, i, op)
<1>1. Len(s.wr) = Len(r.wr) BY DEF Goes, Keeps, Frame
<1> QED BY <1>1, KeepsComposes, StillComposes DEF Goes

LEMMA OpIsDone ==
  ASSUME NEW s, Sound(s), NEW i \in 1..Len(s.wr), NEW op \in Ops, Hand(s, i, op),
         s.wr[i].cache = <<>>, NEW t, t = OpDone(s, i, op)
  PROVE  Goes(s, t, i, op)
<1> DEFINE c == Put(s, i, op, "none")
           e == Put(c, i, "insert", "none")
           answered == op = "insert" \/ (Is(s, i, "proxy") /\ s.wr[i].ops["insert"] # "none")
           d == IF answered THEN FlushComplete(e) ELSE c
<1>0. "insert" \in Ops /\ "open" \in Ops /\ "close" \in Ops
      /\ (\A o \in Ops : o = "insert" \/ o = "open" \/ o = "close")
  BY DEF Ops
<1>1. /\ Keeps(s, c) /\ Only(s, c, i) /\ c.wr[i].ops[op] = "none"
      /\ c.wr[i].opening = s.wr[i].opening /\ c.wr[i].queue = s.wr[i].queue
      /\ \A o \in Ops : o # op => c.wr[i].ops[o] = s.wr[i].ops[o]
  BY Puts DEF Hand
<1>2. Goes(s, c, i, op) BY <1>1, PutGoes
<1>3. t = IF op = "close" THEN WriterClosed(d, i) ELSE d BY DEF OpDone
<1> HIDE DEF c
<1>4. Sound(c) /\ i \in 1..Len(c.wr) /\ c.wr[i].cache = <<>> /\ c.wr[i].kind = s.wr[i].kind
      /\ c.jour = s.jour
  BY <1>1 DEF Keeps, Frame, Only
<1>5. ASSUME answered
      PROVE  /\ \/ c.wr[i].ops["insert"] \in {"none", "waiting", "woken"}
                \/ c.wr[i].ops["insert"] \in Working /\ c.wr[i].queue = <<>>
             /\ Writing(s) /\ s.jour.by = i
  <2>1. CASE op = "insert" BY <2>1, <1>1 DEF Hand
  <2>2. CASE op # "insert"
    <3>1. s.wr[i].kind = "proxy" /\ s.wr[i].ops["insert"] # "none" BY <1>5, <2>2 DEF Is
    <3>2. Writing(s) /\ s.jour.by = i BY <3>1 DEF Sound, ControlOK, FlushOK
    <3>3. op = "close" BY <1>0, <2>2, <3>1 DEF Hand
    <3> DEFINE w == c.wr[i]
    <3>4. WriterOK(w) /\ w \in WriterSet BY <1>4, Types DEF Sound, ControlOK
    <3>5. w.ops["close"] = "none" /\ w.ops["open"] = "none" /\ w.kind = "proxy"
      BY <1>1, <1>4, <3>1, <3>3, <3>4 DEF WriterOK
    <3> HIDE DEF w
    <3>6. \A o \in Ops : w.ops[o] # "none" => o = "insert" BY <1>0, <3>5
    <3>7. w.ops["insert"] = "queued" => FALSE
      <4> SUFFICES ASSUME w.ops["insert"] = "queued" PROVE FALSE OBVIOUS
      <4>1. PICK k \in 1..Len(w.queue) : w.queue[k] = "insert"
        BY <1>0, <3>4 DEF WriterOK, InTurn
      <4>2. w.queue # <<>> BY <4>1, <3>4 DEF WriterSet
      <4>3. PICK o \in Ops : w.ops[o] \in Working BY <4>2, <3>4 DEF WriterOK, InTurn
      <4>4. o = "insert" BY <4>3, <3>6 DEF Working
      <4> QED BY <4>3, <4>4 DEF Working
    <3>8. w.ops["insert"] \in Working => w.queue = <<>>
      <4> SUFFICES ASSUME w.ops["insert"] \in Working, w.queue # <<>> PROVE FALSE OBVIOUS
      <4>1. w.queue \in Seq(Ops) BY <3>4 DEF WriterSet
      <4>2. 1 \in 1..Len(w.queue) /\ w.queue[1] \in Ops BY <4>1, Dequeued
      <4>3. w.ops[w.queue[1]] = "queued" BY <4>2, <3>4 DEF WriterOK, InTurn
      <4>4. w.queue[1] = "insert" BY <4>2, <4>3, <3>6
      <4> QED BY <4>3, <4>4 DEF Working
    <3>9. w.ops["insert"] \in OpPhases BY <1>0, <3>4 DEF WriterSet
    <3> QED BY <3>2, <3>7, <3>8, <3>9 DEF OpPhases, Working, w
  <2> QED BY <2>1, <2>2
<1>6. Goes(s, d, i, op) /\ Sound(d) /\ i \in 1..Len(d.wr)
  <2>1. CASE answered
    <3>1. /\ Keeps(c, e) /\ Only(c, e, i) /\ e.wr[i].ops["insert"] = "none"
          /\ e.wr[i].opening = c.wr[i].opening
          /\ \A o \in Ops : o # "insert" => e.wr[i].ops[o] = c.wr[i].ops[o]
      BY <1>0, <1>4, <1>5, <2>1, Puts
    <3>2. Goes(c, e, i, "insert") BY <1>0, <1>4, <3>1, PutGoes
    <3>3. d = FlushComplete(e) BY <2>1
    <3> HIDE DEF d, e
    <3>4. Sound(e) /\ e.jour = s.jour /\ e.wr[i].cache = <<>> BY <1>4, <3>1 DEF Keeps, Only, Frame
    <3>5. Idle(e) BY <1>5, <2>1, <3>1, <3>4, IdleIf DEF Writing
    <3>6. Keeps(e, d) /\ d.wr = e.wr /\ d.env = e.env
      BY <1>5, <2>1, <3>3, <3>4, <3>5, Completed DEF Writing
    <3>7. AllStill(e, d) BY <3>6 DEF AllStill, Still
    <3>8. AllStill(c, e) /\ e.env = c.env BY <3>2 DEF Goes
    <3>9. Goes(s, e, i, op) BY <1>2, <3>1, <3>8, GoesOnStill
    <3>10. Goes(s, d, i, op) BY <3>6, <3>7, <3>9, GoesOnStill
    <3> QED BY <3>10 DEF Goes, Keeps, Frame
  <2>2. CASE ~answered
    <3>1. d = c BY <2>2
    <3> QED BY <3>1, <1>2, <1>4
  <2> QED BY <2>1, <2>2
<1> HIDE DEF d
<1>7. CASE op = "close"
  <2>1. t = WriterClosed(d, i) BY <1>3, <1>7
  <2>2. Keeps(d, t) /\ t.env = d.env /\ AllStill(d, t) BY <1>6, <2>1, WriterCloses
  <2> QED BY <1>6, <2>2, GoesOnStill
<1>8. CASE op # "close" BY <1>3, <1>6, <1>8
<1> QED BY <1>7, <1>8

LEMMA FlushGoes ==
  ASSUME NEW s, Sound(s), NEW i \in 1..Len(s.wr), NEW op \in Ops, Hand(s, i, op),
         NEW t, t = FlushBody(s, i, op)
  PROVE  Goes(s, t, i, op)
<1> DEFINE w == s.wr[i]
<1>1. w \in WriterSet /\ WriterOK(w) /\ s \in StateSet BY Types DEF Sound, ControlOK
<1>2. w.ops[op] \in {"none", "waiting", "woken"}
      /\ (op = "open" => w.opening = 0 /\ ~w.delayed /\ w.kind # "proxy")
  BY DEF Hand
<1>3. CASE w.cache = <<>>
  <2>1. t = OpDone(s, i, op) BY <1>3 DEF FlushBody
  <2> QED BY <1>3, <2>1, OpIsDone
<1>4. ASSUME NEW v \in WriterSet, WriterOK(v), v.target = w.target, v.kind = w.kind,
             v.cache = w.cache, v.opening = w.opening,
             \A o \in Ops : o # op => v.ops[o] = w.ops[o],
             t = [s EXCEPT !.wr = [@ EXCEPT ![i] = v]]
      PROVE  Goes(s, t, i, op)
  <2>1. v.ops["insert"] # "none" => Writing(s) /\ s.jour.by = i
    BY <1>4 DEF Sound, ControlOK, FlushOK, Hand, Ops
  <2>2. Keeps(s, t) /\ Only(s, t, i) /\ t.wr[i] = v BY <1>4, <2>1, WriterChanges
  <2> QED BY <1>4, <2>2, PutGoes
<1> DEFINE gone == Is(s, i, "postgres") /\ s.wr[i].giveup
<1>7. CASE w.cache # <<>> /\ gone
  <2>1. t = OpFails(s, i, op) BY <1>7 DEF FlushBody
  <2>2. /\ Keeps(s, t) /\ t.env = s.env /\ OthersStill(s, t, i)
        /\ (op # "open" => AllStill(s, t))
    BY <1>2, <2>1, OpFailed DEF Hand
  <2> QED BY <2>2 DEF Goes
<1>5. CASE w.cache # <<>> /\ ~gone /\ Busy(s, i)
  <2> DEFINE c == Put(s, i, op, "queued")
             p == WriterPhase(w, op, "queued")
             v == WriterQueued(w, op)
  <2>1. t = [c EXCEPT !.wr[i].queue = Append(@, op)] BY <1>5 DEF FlushBody
  <2>2. c = [s EXCEPT !.wr = [@ EXCEPT ![i] = p]] BY DEF Put, WriterPhase
  <2>3. c.wr[i] = p
    <3> HIDE DEF c, p
    <3> QED BY <1>1, <2>2, ChangedTwice
  <2>4. [p EXCEPT !.queue = Append(@, op)] = v
    BY <1>1 DEF WriterPhase, WriterQueued, WriterSet
  <2>5. t = [c EXCEPT !.wr = [@ EXCEPT ![i] = v]] BY <2>1, <2>3, <2>4
  <2> HIDE DEF c, p, v
  <2>6. t = [s EXCEPT !.wr = [@ EXCEPT ![i] = v]] BY <1>1, <2>2, <2>5, ChangedTwice
  <2>7. \E o \in Ops : w.ops[o] \in Working BY <1>5 DEF Busy, Working
  <2>8. v = WriterQueued(w, op) BY DEF v
  <2> HIDE DEF w
  <2>9. /\ v \in WriterSet /\ WriterOK(v) /\ v.target = w.target /\ v.kind = w.kind
        /\ v.cache = w.cache /\ v.opening = w.opening
        /\ v.ops[op] = "queued" /\ \A o \in Ops : o # op => v.ops[o] = w.ops[o]
    BY <1>1, <1>2, <2>7, <2>8, WriterQueues
  <2> QED BY <2>6, <2>9, <1>4
<1>6. CASE w.cache # <<>> /\ ~gone /\ ~Busy(s, i)
  <2> DEFINE v == WriterPhase(w, op, "started")
  <2>1. t = [s EXCEPT !.wr = [@ EXCEPT ![i] = v]] BY <1>6 DEF FlushBody, Put, WriterPhase
  <2>2. ~ \E o \in Ops : w.ops[o] \in Working BY <1>6 DEF Busy, Working
  <2>3. v = WriterPhase(w, op, "started") OBVIOUS
  <2> HIDE DEF v, w
  <2>4. /\ v \in WriterSet /\ WriterOK(v) /\ v.target = w.target /\ v.kind = w.kind
        /\ v.cache = w.cache /\ v.opening = w.opening
        /\ v.ops[op] = "started" /\ \A o \in Ops : o # op => v.ops[o] = w.ops[o]
    BY <1>1, <1>2, <2>2, <2>3, WriterStarts
  <2> QED BY <2>1, <2>4, <1>4
<1> QED BY <1>3, <1>5, <1>6, <1>7

(* _flush_next(): an operation in hand goes on, or waits for a connection.  *)
LEMMA NextGoes ==
  ASSUME NEW s, Sound(s), NEW i \in 1..Len(s.wr), NEW op \in Ops, Hand(s, i, op),
         NEW t, t = FlushNext(s, i, op)
  PROVE  Goes(s, t, i, op)
<1>1. CASE s.wr[i].state = "connected"
  <2>1. t = FlushBody(s, i, op) BY <1>1 DEF FlushNext
  <2> QED BY <2>1, FlushGoes
<1>2. CASE s.wr[i].state # "connected"
  <2>1. t = Put(s, i, op, "waiting") BY <1>2 DEF FlushNext
  <2>2. /\ Keeps(s, t) /\ Only(s, t, i) /\ t.wr[i].opening = s.wr[i].opening
        /\ \A o \in Ops : o # op => t.wr[i].ops[o] = s.wr[i].ops[o]
    BY <2>1, Puts DEF Hand
  <2> QED BY <2>2, PutGoes
<1> QED BY <1>1, <1>2

(* What wrote a batch has it in hand, and the next one writes.             *)
LEMMA ReleaseKeeps ==
  ASSUME NEW s, Sound(s), NEW i \in 1..Len(s.wr), NEW op \in Ops,
         s.wr[i].ops[op] \in Working, NEW t, t = Release(s, i, op)
  PROVE  /\ Keeps(s, t) /\ t.env = s.env /\ Hand(t, i, op) /\ t.wr[i].ops[op] = "none"
         /\ t.wr[i].kind = s.wr[i].kind
<1> DEFINE w == s.wr[i]
           c == Put(s, i, op, "none")
           p == WriterPhase(w, op, "none")
<1>1. w \in WriterSet /\ WriterOK(w) /\ s \in StateSet BY Types DEF Sound, ControlOK
<1>2. c = [s EXCEPT !.wr = [@ EXCEPT ![i] = p]] BY DEF Put, WriterPhase
<1>3. c.wr[i] = p
  <2> HIDE DEF c, p
  <2> QED BY <1>1, <1>2, ChangedTwice
<1>4. p.queue = w.queue /\ p.ops = [w.ops EXCEPT ![op] = "none"]
  BY <1>1 DEF WriterPhase, WriterSet
<1>5. t = IF c.wr[i].queue = <<>> THEN c
          ELSE [Put(c, i, Head(c.wr[i].queue), "started") EXCEPT !.wr[i].queue = Tail(@)]
  BY DEF Release
<1> HIDE DEF c
<1>6. /\ Keeps(s, t) /\ Only(s, t, i) /\ t.wr[i].ops[op] = "none"
      /\ t.wr[i].opening = w.opening /\ t.wr[i].delayed = w.delayed /\ t.wr[i].kind = w.kind
  <2>1. CASE w.queue = <<>>
    <3>1. t = Put(s, i, op, "none") BY <1>3, <1>4, <1>5, <2>1 DEF c
    <3>2. /\ Keeps(s, t) /\ Only(s, t, i) /\ t.wr[i].ops[op] = "none"
          /\ t.wr[i].opening = w.opening /\ t.wr[i].delayed = w.delayed
      BY <2>1, <3>1, Puts
    <3> QED BY <3>2 DEF Keeps, Frame
  <2>2. CASE w.queue # <<>>
    <3> DEFINE h == Head(w.queue)
               d == Put(c, i, h, "started")
               x == WriterPhase(p, h, "started")
               v == WriterReleased(w, op)
    <3>0. h \in Ops BY <1>1, <2>2, Dequeued DEF WriterSet
    <3>1. t = [d EXCEPT !.wr[i].queue = Tail(@)] BY <1>3, <1>4, <1>5, <2>2
    <3>2. d = [c EXCEPT !.wr = [@ EXCEPT ![i] = x]] BY <1>3 DEF Put, WriterPhase
    <3> HIDE DEF p, x, h
    <3>3. d = [s EXCEPT !.wr = [@ EXCEPT ![i] = x]] BY <1>1, <1>2, <3>2, ChangedTwice
    <3> HIDE DEF d
    <3>4. d.wr[i] = x BY <1>1, <3>3, ChangedTwice
    <3>5. [x EXCEPT !.queue = Tail(@)] = v
      <4> DEFINE f == [w.ops EXCEPT ![op] = "none"]
                 g == [f EXCEPT ![h] = "started"]
      <4>1. p = [w EXCEPT !.ops = f] BY DEF p, WriterPhase
      <4>2. x = [p EXCEPT !.ops = [p.ops EXCEPT ![h] = "started"]] BY DEF x, WriterPhase
      <4>3. x = [p EXCEPT !.ops = g] BY <1>4, <4>2
      <4>4. v = [w EXCEPT !.ops = g, !.queue = Tail(@)] BY <2>2 DEF WriterReleased, h
      <4> HIDE DEF f, g, v
      <4> QED BY <1>1, <4>1, <4>3, <4>4 DEF WriterSet
    <3>6. t = [d EXCEPT !.wr = [@ EXCEPT ![i] = v]]
      <4> HIDE DEF v
      <4> QED BY <3>1, <3>4, <3>5
    <3>7. v = WriterReleased(w, op) OBVIOUS
    <3> HIDE DEF v
    <3>8. t = [s EXCEPT !.wr = [@ EXCEPT ![i] = v]] BY <1>1, <3>3, <3>6, ChangedTwice
    <3>9. /\ v \in WriterSet /\ WriterOK(v) /\ v.target = w.target /\ v.kind = w.kind
          /\ v.cache = w.cache /\ v.opening = w.opening /\ v.delayed = w.delayed
          /\ v.ops[op] = "none" /\ \A o \in Ops : w.ops[o] = "none" => v.ops[o] = "none"
      <4> HIDE DEF w
      <4> QED BY <1>1, <2>2, <3>7, WriterReleases DEF w
    <3>10. v.ops["insert"] # "none" => Writing(s) /\ s.jour.by = i
      BY <3>9 DEF Sound, ControlOK, FlushOK, Ops
    <3>11. Keeps(s, t) /\ Only(s, t, i) /\ t.wr[i] = v BY <3>8, <3>9, <3>10, WriterChanges
    <3> QED BY <3>9, <3>11
  <2> QED BY <2>1, <2>2
<1>7. op = "insert" => Writing(s) /\ s.jour.by = i
  BY DEF Sound, ControlOK, FlushOK, Working
<1>8. op = "open" => w.opening = 0 /\ ~w.delayed /\ w.kind # "proxy"
  BY <1>1 DEF WriterOK, Working, WriterSet
<1>9. Hand(t, i, op) BY <1>6, <1>7, <1>8 DEF Hand, Only, Writing
<1> QED BY <1>6, <1>9 DEF Only

-----------------------------------------------------------------------------
(* A writer connects                                                       *)

LEMMA InitiateKeeps ==
  ASSUME NEW s, Sound(s), NEW i \in 1..Len(s.wr), s.wr[i].opening = 0,
         s.wr[i].ops["open"] = "none", NEW t, t = Initiate(s, i)
  PROVE  Keeps(s, t) /\ Only(s, t, i)
<1> DEFINE w == s.wr[i]
           v == Connecting(w)
<1>1. w \in WriterSet /\ WriterOK(w) BY Types DEF Sound, ControlOK
<1>2. w.retry \in Nat BY <1>1 DEF WriterSet
<1>3. w.retry + 1 \in Nat /\ w.opening + 1 = 1 BY <1>2
<1>4. t = [s EXCEPT !.wr = [@ EXCEPT ![i] = v]] BY DEF Initiate
<1>5. /\ v \in WriterSet /\ v.target = w.target /\ v.kind = w.kind /\ v.cache = w.cache
      /\ v.fetched = w.fetched /\ v.ops = w.ops /\ v.queue = w.queue /\ v.delayed = FALSE
  BY <1>1, <1>3 DEF WriterSet, Connecting
<1> HIDE DEF v
<1>6. WriterOK(v)
  <2>1. OneWorks(v) /\ InTurn(v) BY <1>1, <1>5 DEF WriterOK, OneWorks, InTurn
  <2> QED BY <1>1, <1>5, <2>1 DEF WriterOK
<1>7. v.ops["insert"] # "none" => Writing(s) /\ s.jour.by = i
  BY <1>5 DEF Sound, ControlOK, FlushOK
<1> QED BY <1>4, <1>5, <1>6, <1>7, WriterChanges

LEMMA ConnectedKeeps ==
  ASSUME NEW s, Sound(s), NEW i \in 1..Len(s.wr), s.wr[i].opening > 0,
         NEW t, t = Connected(s, i)
  PROVE  /\ Keeps(s, t) /\ t.env = s.env
         /\ s.wr[i].kind # "proxy" => Hand(t, i, "open")
<1> DEFINE w == s.wr[i]
           f == [op \in Ops |-> IF w.ops[op] = "waiting" THEN "woken" ELSE w.ops[op]]
           v == [w EXCEPT !.state = "connected", !.opening = @ - 1, !.retry = 0,
                       !.ops = [op \in Ops |-> IF @[op] = "waiting" THEN "woken" ELSE @[op]]]
<1>1. w \in WriterSet /\ WriterOK(w) BY Types DEF Sound, ControlOK
<1>2. w.opening = 1 /\ w.ops \in [Ops -> OpPhases] BY <1>1 DEF WriterSet
<1>3. t = [s EXCEPT !.wr = [@ EXCEPT ![i] = v]] BY DEF Connected
<1>12. v = [w EXCEPT !.state = "connected", !.opening = 0, !.retry = 0, !.ops = f] BY <1>2
<1> HIDE DEF v
<1>4. /\ f \in [Ops -> OpPhases]
      /\ \A op \in Ops : f[op] = IF w.ops[op] = "waiting" THEN "woken" ELSE w.ops[op]
  BY <1>2 DEF OpPhases
<1> HIDE DEF f
<1>5. /\ v \in WriterSet /\ v.target = w.target /\ v.kind = w.kind /\ v.cache = w.cache
      /\ v.fetched = w.fetched /\ v.ops = f /\ v.queue = w.queue /\ v.delayed = w.delayed
      /\ v.opening = 0
  BY <1>1, <1>4, <1>12 DEF WriterSet, Links
<1>6. /\ \A op \in Ops : v.ops[op] \in Working <=> w.ops[op] \in Working
      /\ \A op \in Ops : v.ops[op] = "queued" <=> w.ops[op] = "queued"
      /\ \A op \in Ops : v.ops[op] = "none" <=> w.ops[op] = "none"
  BY <1>4, <1>5 DEF Working
<1>7. WriterOK(v)
  <2>1. OneWorks(v) BY <1>1, <1>6 DEF WriterOK, OneWorks
  <2>2. InTurn(v) BY <1>1, <1>5, <1>6 DEF WriterOK, InTurn
  <2>3. "open" \in Ops BY DEF Ops
  <2>4. v.ops["open"] = "none" BY <1>1, <1>2, <1>6, <2>3 DEF WriterOK
  <2> QED BY <1>1, <1>2, <1>5, <2>1, <2>2, <2>4 DEF WriterOK
<1>8. v.ops["insert"] # "none" => Writing(s) /\ s.jour.by = i
  BY <1>6 DEF Sound, ControlOK, FlushOK, Ops
<1>9. Keeps(s, t) /\ Only(s, t, i) /\ t.wr[i] = v BY <1>3, <1>5, <1>7, <1>8, WriterChanges
<1>10. w.ops["open"] = "none" /\ ~w.delayed BY <1>1, <1>2 DEF WriterOK
<1>11. v.ops["open"] = "none" BY <1>6, <1>10 DEF Ops
<1> QED BY <1>5, <1>9, <1>10, <1>11 DEF Hand, Only

LEMMA ConnectionFails ==
  ASSUME NEW s, Sound(s), NEW i \in 1..Len(s.wr), s.wr[i].opening > 0,
         NEW t, t = ConnectionFailed(s, i)
  PROVE  Keeps(s, t) /\ t.env = s.env /\ OthersStill(s, t, i)
<1> DEFINE w == s.wr[i]
           v == [w EXCEPT !.opening = @ - 1]
           c == [s EXCEPT !.wr[i].opening = @ - 1]
<1>1. w \in WriterSet /\ WriterOK(w) BY Types DEF Sound, ControlOK
<1>2. w.opening = 1 /\ w.opening - 1 = 0 BY <1>1 DEF WriterSet
<1>3. c = [s EXCEPT !.wr = [@ EXCEPT ![i] = v]] OBVIOUS
<1>4. /\ v \in WriterSet /\ v.target = w.target /\ v.kind = w.kind /\ v.cache = w.cache
      /\ v.fetched = w.fetched /\ v.ops = w.ops /\ v.queue = w.queue /\ v.delayed = w.delayed
      /\ v.opening = 0
  BY <1>1, <1>2 DEF WriterSet
<1> HIDE DEF v, c
<1>5. WriterOK(v)
  <2>1. OneWorks(v) /\ InTurn(v) BY <1>1, <1>4 DEF WriterOK, OneWorks, InTurn
  <2> QED BY <1>1, <1>2, <1>4, <2>1 DEF WriterOK
<1>6. v.ops["insert"] # "none" => Writing(s) /\ s.jour.by = i
  BY <1>4 DEF Sound, ControlOK, FlushOK
<1>7. Keeps(s, c) /\ Only(s, c, i) /\ c.wr[i] = v BY <1>3, <1>4, <1>5, <1>6, WriterChanges
<1>8. /\ Sound(c) /\ i \in 1..Len(c.wr) /\ OthersStill(s, c, i) /\ c.env = s.env
      /\ Len(c.wr) = Len(s.wr)
  BY <1>7 DEF Keeps, Frame, OthersStill, Still, Only
<1>9. CASE t = c BY <1>7, <1>8, <1>9
<1>10. CASE t = Cancelled(c, i)
  <2>1. Keeps(c, t) /\ t.env = c.env /\ AllStill(c, t) BY <1>8, <1>10, CancelledKeeps
  <2> QED BY <1>7, <1>8, <2>1, KeepsComposes, StillComposes
<1>11. CASE Is(s, i, "postgres") /\ t = [c EXCEPT !.wr[i].delayed = TRUE]
  <2> DEFINE x == [v EXCEPT !.delayed = TRUE]
  <2>1. t = [c EXCEPT !.wr = [@ EXCEPT ![i] = x]] BY <1>7, <1>11
  <2>2. /\ x \in WriterSet /\ x.target = v.target /\ x.kind = v.kind /\ x.cache = v.cache
        /\ x.fetched = v.fetched /\ x.ops = v.ops /\ x.queue = v.queue /\ x.delayed = TRUE
        /\ x.opening = 0
    BY <1>4 DEF WriterSet
  <2> HIDE DEF x
  <2>3. WriterOK(x)
    <3>1. OneWorks(x) /\ InTurn(x) BY <1>5, <2>2 DEF WriterOK, OneWorks, InTurn
    <3>2. w.kind = "postgres" BY <1>11 DEF Is
    <3>3. w.ops["open"] = "none" BY <1>1, <1>2 DEF WriterOK
    <3> QED BY <1>4, <1>5, <2>2, <3>1, <3>2, <3>3 DEF WriterOK
  <2>4. x.ops["insert"] # "none" => Writing(c) /\ c.jour.by = i
    BY <1>4, <1>6, <1>7, <2>2 DEF Only, Writing
  <2>5. Keeps(c, t) /\ Only(c, t, i) BY <1>7, <1>8, <2>1, <2>2, <2>3, <2>4, WriterChanges
  <2>6. OthersStill(s, t, i) /\ t.env = s.env
    BY <1>8, <2>5 DEF OthersStill, Still, Only
  <2> QED BY <1>7, <2>5, <2>6, KeepsComposes
<1>12. \/ t = c \/ t = Cancelled(c, i)
       \/ Is(s, i, "postgres") /\ t = [c EXCEPT !.wr[i].delayed = TRUE]
  BY DEF ConnectionFailed, c
<1> QED BY <1>9, <1>10, <1>11, <1>12

(* close() of a writer, which closes once at a time if it flushes.         *)
LEMMA CloseKeeps ==
  ASSUME NEW s, Sound(s), NEW i \in 1..Len(s.wr), NEW flush \in BOOLEAN,
         flush => s.wr[i].ops["close"] = "none", NEW t, t = CloseWriter(s, i, flush)
  PROVE  /\ Keeps(s, t) /\ t.env = s.env /\ OthersStill(s, t, i)
         /\ s.wr[i].kind = "sqlite" => AllStill(s, t)
<1> DEFINE w == [s.wr[i] EXCEPT !.giveup = TRUE]
           c == [s EXCEPT !.wr = [@ EXCEPT ![i] = w]]
<1>1. /\ Keeps(s, c) /\ Only(s, c, i) /\ AllStill(s, c) /\ c.wr[i] = w
      /\ w.ops = s.wr[i].ops /\ w.opening = s.wr[i].opening
  <2>1. \E x \in BOOLEAN : w = [s.wr[i] EXCEPT !.giveup = x] OBVIOUS
  <2> HIDE DEF w
  <2> QED BY <2>1, StateChanges
<1>2. c = [s EXCEPT !.wr[i].giveup = TRUE] OBVIOUS
<1> HIDE DEF w, c
<1>3. /\ Sound(c) /\ i \in 1..Len(c.wr) /\ Len(c.wr) = Len(s.wr) /\ c.env = s.env
      /\ c.wr[i].kind = s.wr[i].kind
  BY <1>1 DEF Keeps, Frame, Only
<1>4. ASSUME Keeps(c, t), t.env = c.env, OthersStill(c, t, i),
             s.wr[i].kind = "sqlite" => AllStill(c, t)
      PROVE  /\ Keeps(s, t) /\ t.env = s.env /\ OthersStill(s, t, i)
             /\ s.wr[i].kind = "sqlite" => AllStill(s, t)
  BY <1>1, <1>3, <1>4, KeepsComposes DEF AllStill, OthersStill, Still
<1>5. CASE t = s BY <1>5, KeepsItself DEF AllStill, OthersStill, Still
<1>6. CASE t = Disconnected([s EXCEPT !.jour.closing = 0])
  <2>1. Keeps(s, t) /\ t.wr = s.wr /\ t.env = s.env BY <1>6, ClosedNow
  <2> QED BY <2>1 DEF AllStill, OthersStill, Still
<1>7. CASE /\ Is(s, i, "postgres") /\ s.wr[i].opening > 0
           /\ t = WriterClosed(ConnectionFailed(c, i), i)
  <2> DEFINE d == ConnectionFailed(c, i)
  <2>1. Keeps(c, d) /\ d.env = c.env /\ OthersStill(c, d, i)
    BY <1>1, <1>3, <1>7, ConnectionFails
  <2>2. t = WriterClosed(d, i) BY <1>7
  <2> HIDE DEF d
  <2>3. Sound(d) /\ i \in 1..Len(d.wr) /\ Len(d.wr) = Len(c.wr) BY <1>3, <2>1 DEF Keeps, Frame
  <2>4. Keeps(d, t) /\ t.env = d.env /\ AllStill(d, t) BY <2>2, <2>3, WriterCloses
  <2>5. Keeps(c, t) /\ t.env = c.env /\ OthersStill(c, t, i)
    BY <2>1, <2>3, <2>4, KeepsComposes, StillComposes
  <2> QED BY <1>4, <1>7, <2>5 DEF Is
<1>8. CASE flush /\ t = [FlushNext(s, i, "close") EXCEPT !.wr[i].giveup = TRUE]
  <2> DEFINE d == FlushNext(s, i, "close")
             v == [d.wr[i] EXCEPT !.giveup = TRUE]
  <2>1. Hand(s, i, "close") BY <1>8 DEF Hand
  <2>2. Goes(s, d, i, "close") BY <2>1, NextGoes DEF Ops
  <2>3. t = [d EXCEPT !.wr = [@ EXCEPT ![i] = v]] BY <1>8
  <2> HIDE DEF d
  <2>4. Sound(d) /\ i \in 1..Len(d.wr) /\ Len(d.wr) = Len(s.wr) BY <2>2 DEF Goes, Keeps, Frame
  <2>5. \E x \in BOOLEAN : v = [d.wr[i] EXCEPT !.giveup = x] OBVIOUS
  <2> HIDE DEF v
  <2>6. Keeps(d, t) /\ Only(d, t, i) /\ AllStill(d, t) BY <2>3, <2>4, <2>5, StateChanges
  <2>7. t.env = s.env /\ AllStill(s, d) BY <2>2, <2>6 DEF Only, Goes
  <2>8. Keeps(s, t) /\ AllStill(s, t)
    BY <2>2, <2>4, <2>6, <2>7, KeepsComposes, StillComposes DEF Goes
  <2> QED BY <2>7, <2>8 DEF AllStill, OthersStill
<1>9. CASE t = WriterClosed(c, i)
  <2>1. Keeps(c, t) /\ t.env = c.env /\ AllStill(c, t) BY <1>3, <1>9, WriterCloses
  <2>2. OthersStill(c, t, i) BY <2>1 DEF AllStill, OthersStill
  <2> QED BY <1>4, <2>1, <2>2
<1>10. \/ t = s \/ t = Disconnected([s EXCEPT !.jour.closing = 0])
       \/ /\ Is(s, i, "postgres") /\ s.wr[i].opening > 0
          /\ t = WriterClosed(ConnectionFailed(c, i), i)
       \/ flush /\ t = [FlushNext(s, i, "close") EXCEPT !.wr[i].giveup = TRUE]
       \/ t = WriterClosed(c, i)
  BY <1>2 DEF CloseWriter
<1> QED BY <1>5, <1>6, <1>7, <1>8, <1>9, <1>10

-----------------------------------------------------------------------------
(* Another writer                                                          *)

LEMMA Makes ==
  ASSUME NEW s, Sound(s), NEW target \in 1..Master, NEW t, t = MakeWriter(s, target)
  PROVE  /\ Sound(t) /\ t.jour = s.jour /\ t.env = s.env /\ t.mig = s.mig
         /\ Len(t.wr) = Len(s.wr) + 1 /\ t.wr[Len(s.wr) + 1] = NewWriter(target)
         /\ (\A i \in 1..Len(s.wr) : t.wr[i] = s.wr[i])
         /\ (s.mig.to # 0 => Left(t)) /\ t.store = s.store
<1> DEFINE n == Len(s.wr)
           w == NewWriter(target)
           v == Append(s.wr, w)
<1>1. s \in StateSet /\ s.wr \in Seq(WriterSet) /\ n \in Nat /\ s.mig.to \in Nat
      /\ s.mig.from \in Nat /\ s.jour.by \in Nat
  BY Types DEF Sound, ControlOK
<1>2. w.kind \in WriterKinds
  <2>1. target # Master => target \in 1..Len(Targets) BY TargetsAssumption DEF Master
  <2>2. target # Master => Targets[target] \in {"sqlite", "postgres"} BY <2>1, TargetsAssumption
  <2> QED BY <2>2 DEF NewWriter, WriterKinds
<1>3. /\ w \in WriterSet /\ w.target = target /\ w.opening = 0 /\ w.cache = <<>>
      /\ w.fetched = 0 /\ w.delayed = FALSE /\ w.queue = <<>>
      /\ (\A op \in Ops : w.ops[op] = "none")
      /\ w.kind = IF target = Master THEN "proxy" ELSE Targets[target]
  <2>1. [op \in Ops |-> "none"] \in [Ops -> OpPhases] BY DEF OpPhases
  <2>2. <<>> \in Seq(Nat) /\ <<>> \in Seq(Ops) OBVIOUS
  <2> QED BY <1>2, <2>1, <2>2 DEF NewWriter, WriterSet, Links
<1> HIDE DEF w
<1>4. WriterOK(w)
  <2>1. OneWorks(w) BY <1>3 DEF OneWorks, Working
  <2>2. Len(w.queue) = 0 BY <1>3
  <2>3. \A op \in Ops : w.ops[op] # "queued" BY <1>3
  <2>4. InTurn(w) BY <1>3, <2>2, <2>3 DEF InTurn
  <2>5. "open" \in Ops /\ Len(w.cache) = 0 BY <1>3 DEF Ops
  <2> QED BY <1>3, <2>1, <2>4, <2>5 DEF WriterOK
<1>5. /\ v \in Seq(WriterSet) /\ Len(v) = n + 1 /\ v[n + 1] = w
      /\ \A i \in 1..n : v[i] = s.wr[i]
  BY <1>1, <1>3
<1>6. t = [s EXCEPT !.wr = v] BY DEF MakeWriter, w
<1> HIDE DEF v
<1>7. /\ t \in StateSet /\ t.wr = v /\ t.jour = s.jour /\ t.env = s.env /\ t.mig = s.mig
      /\ t.store = s.store
  BY <1>1, <1>5, <1>6 DEF StateSet
<1>8. \A i \in 1..(n + 1) : i \in 1..n \/ i = n + 1 BY <1>1
<1>9. \A i \in 1..n : i \in 1..(n + 1) BY <1>1
<1>10. \A i \in 1..Len(t.wr) : WriterOK(t.wr[i])
  BY <1>4, <1>5, <1>7, <1>8 DEF Sound, ControlOK
<1>11. FlushOK(t)
  <2>1. "insert" \in Ops BY DEF Ops
  <2>2. \A i \in 1..Len(t.wr) : t.wr[i].ops["insert"] # "none" => Writing(t) /\ t.jour.by = i
    BY <1>3, <1>5, <1>7, <1>8, <2>1 DEF Sound, ControlOK, FlushOK, Writing
  <2>3. t.jour.writer <= Len(t.wr)
    <3>1. s.jour.writer \in Nat BY <1>1, Types
    <3> QED BY <1>1, <1>5, <1>7, <3>1 DEF Sound, ControlOK, FlushOK
  <2> QED BY <1>5, <1>7, <1>9, <2>2, <2>3 DEF Sound, ControlOK, FlushOK, Writing
<1>12. s.mig.to # 0 => Left(t) /\ Source(t) = Source(s)
  BY <1>1, <1>5, <1>7, <1>9 DEF Left, Sound, DataOK, MoveOK, Source
<1>13. MoveOK(t)
  <2>1. s.mig.to # 0 => /\ t.mig.to \in 1..Len(t.wr) /\ t.mig.from \in 1..Len(t.wr)
                        /\ t.wr[t.mig.to].target = s.wr[s.mig.to].target
    BY <1>5, <1>7, <1>9 DEF Sound, DataOK, MoveOK
  <2> QED BY <1>7, <1>12, <2>1 DEF Sound, DataOK, MoveOK
<1>14. Len(w.cache) = 0 /\ Elems(w.cache) = {}
  <2>1. Len(w.cache) = 0 BY <1>3
  <2> QED BY <2>1 DEF Elems
<1>15. Inside(t)
  <2>1. \A i \in 1..Len(t.wr) : Elems(t.wr[i].cache) \subseteq 1..t.env.inserted
    BY <1>5, <1>7, <1>8, <1>14 DEF Sound, DataOK, Inside
  <2> QED BY <1>7, <2>1 DEF Sound, DataOK, Inside
<1>16. ASSUME s.mig.to = 0 PROVE EntriesOK(t)
  <2>0. EntriesOK(s) /\ s.mig.stage = "none" BY <1>16 DEF Sound, DataOK, MoveOK, Left
  <2>1. StoredIn(t) = StoredIn(s) BY <1>7 DEF StoredIn
  <2>2. KeptIn(t) BY <1>7, <2>0, <2>1 DEF EntriesOK, KeptIn, Mistaken
  <2>3. FetchedOK(t)
    BY <1>5, <1>7, <2>0 DEF EntriesOK, FetchedOK, Writing, Sound, ControlOK, FlushOK
  <2>4. Early(s) BY <1>16 DEF Early
  <2>5. Supported(w.cache, StoredIn(s)) BY <1>14 DEF Supported
  <2>6. \A i \in 1..Len(t.wr) : Supported(t.wr[i].cache, StoredIn(t))
    BY <1>5, <1>7, <1>8, <2>0, <2>1, <2>4, <2>5 DEF EntriesOK, EarlyOK
  <2>7. EarlyOK(t) BY <1>7, <2>0, <2>1, <2>4, <2>6 DEF EntriesOK, EarlyOK
  <2>8. MovedOK(t) BY <1>7, <2>0 DEF MovedOK
  <2> QED BY <2>2, <2>3, <2>7, <2>8 DEF EntriesOK
<1>17. Sound(t) BY <1>7, <1>10, <1>11, <1>12, <1>13, <1>15, <1>16 DEF Sound, ControlOK, DataOK
<1> QED BY <1>5, <1>7, <1>12, <1>17 DEF w

(* Nothing is claimed of the writer in use unless it is migrated to, and    *)
(* nothing of the index.                                                   *)
LEMMA Reused ==
  ASSUME NEW s, Sound(s), NEW t \in StateSet, t.wr = s.wr, t.store = s.store, t.env = s.env,
         t.mig = s.mig, t.jour.cache = s.jour.cache, t.jour.fetched = s.jour.fetched,
         t.jour.by = s.jour.by, Writing(t) <=> Writing(s), t.jour.writer <= Len(s.wr),
         s.mig.to # 0 => Left(s) \/ t.jour.writer = s.jour.writer
  PROVE  Sound(t)
<1>1. FlushOK(t) BY DEF Sound, ControlOK, FlushOK
<1>2. ControlOK(t) BY <1>1 DEF Sound, ControlOK
<1>3. (Left(t) <=> Left(s)) /\ Source(t) = Source(s) /\ StoredIn(t) = StoredIn(s)
      /\ (Early(t) <=> Early(s))
  BY DEF Left, Source, StoredIn, Early
<1>4. MoveOK(t) BY <1>3 DEF Sound, DataOK, MoveOK
<1>5. Inside(t) BY DEF Sound, DataOK, Inside
<1>6. ASSUME EntriesOK(s) PROVE EntriesOK(t)
  <2>1. KeptIn(t) BY <1>3, <1>6 DEF EntriesOK, KeptIn, Mistaken
  <2>2. FetchedOK(t) BY <1>6 DEF EntriesOK, FetchedOK
  <2>3. EarlyOK(t) BY <1>3, <1>6 DEF EntriesOK, EarlyOK
  <2>4. \A x : Survives(s, x) => Survives(t, x) BY <1>3 DEF Survives
  <2>5. MovedOK(t) BY <1>3, <1>6, <2>4 DEF EntriesOK, MovedOK
  <2> QED BY <2>1, <2>2, <2>3, <2>5 DEF EntriesOK
<1> QED BY <1>2, <1>3, <1>4, <1>5, <1>6 DEF Sound, DataOK

LEMMA Configures ==
  ASSUME NEW s, Sound(s), NEW i \in 1..Len(s.wr), s.mig.to # 0 => Left(s),
         NEW t, t = ConfigureWith(s, i)
  PROVE  /\ Sound(t) /\ t.wr = s.wr /\ t.env = s.env /\ t.mig = s.mig
         /\ t.jour.index = s.jour.index /\ t.jour.writer \in {s.jour.writer, i}
         /\ s.jour.state = "disconnected" => t.jour.writer = i
<1>1. s \in StateSet /\ s.jour \in JournalerSet /\ Len(s.wr) \in Nat BY Types DEF Sound, ControlOK
<1>2. CASE s.jour.state # "disconnected"
  <2>1. t = s BY <1>2 DEF ConfigureWith
  <2> QED BY <1>2, <2>1
<1>3. CASE s.jour.state = "disconnected"
  <2> DEFINE g == IF s.jour.flush = "waiting" THEN "woken" ELSE s.jour.flush
             j == [s.jour EXCEPT !.writer = i, !.state = "connected", !.flush = g]
             c == [s EXCEPT !.jour = j]
  <2>1. t = ScheduleFlush(c) BY <1>3, <1>1 DEF ConfigureWith, StateSet
  <2>0. g \in {"none", "due", "waiting", "woken", "writing"}
        /\ (g = "writing" <=> s.jour.flush = "writing")
    BY <1>1 DEF JournalerSet
  <2> HIDE DEF g
  <2>a. i \in Nat BY <1>1
  <2>2. /\ j \in JournalerSet /\ j.writer = i /\ j.index = s.jour.index
        /\ j.cache = s.jour.cache /\ j.fetched = s.jour.fetched /\ j.by = s.jour.by
        /\ (j.flush = "writing" <=> s.jour.flush = "writing")
    BY <1>1, <2>0, <2>a DEF JournalerSet, Links
  <2> HIDE DEF j
  <2>3. /\ c \in StateSet /\ c.jour = j /\ c.wr = s.wr /\ c.env = s.env /\ c.mig = s.mig
        /\ c.store = s.store
    BY <1>1, <2>2 DEF StateSet
  <2> HIDE DEF c
  <2>4. Sound(c) BY <1>1, <2>2, <2>3, Reused DEF Writing
  <2>5. /\ Keeps(c, t) /\ t.wr = c.wr /\ t.env = c.env /\ t.mig = c.mig
        /\ t.jour.writer = c.jour.writer
    BY <2>1, <2>4, Scheduled
  <2> QED BY <2>2, <2>3, <2>5 DEF Keeps, Frame
<1> QED BY <1>2, <1>3

LEMMA UsesNext ==
  ASSUME NEW s, Sound(s), NEW t, t = UseNextWriter(s)
  PROVE  /\ Sound(t) /\ Len(t.wr) = Len(s.wr) + 1 /\ t.env.inserted = s.env.inserted
         /\ (s.env.reconnected => t.env.reconnected)
         /\ t.mig.to = s.mig.to /\ t.jour.writer = Len(s.wr) + 1
         /\ t.jour.index = (s.jour.index % Len(Targets)) + 1
         /\ t.jour.index \in 1..Len(Targets)
         /\ t.wr[Len(s.wr) + 1].target = t.jour.index
         /\ \A i \in 1..Len(s.wr) :
              t.wr[i].target = s.wr[i].target /\ t.wr[i].kind = s.wr[i].kind
<1> DEFINE index == (s.jour.index % Len(Targets)) + 1
           n == Len(s.wr)
           i == Len(s.wr) + 1
           b == [s EXCEPT !.jour.index = index]
           c == MakeWriter(b, index)
           d == IF c.jour.writer = 0 THEN c ELSE CloseWriter(c, c.jour.writer, FALSE)
           e == Disconnected(d)
           f == ConfigureWith(e, i)
<1>1. t = Initiate(f, i) BY DEF UseNextWriter
<1>2. s \in StateSet /\ s.jour \in JournalerSet /\ n \in Nat /\ s.jour.index \in Nat
      /\ s.jour.writer \in Nat
  BY Types DEF Sound, ControlOK, JournalerSet
<1>3. index \in 1..Len(Targets) /\ index \in Nat /\ index \in 1..Master /\ index # Master
  <2>1. Len(Targets) \in Nat /\ Len(Targets) >= 1 BY TargetsAssumption
  <2> QED BY <1>2, <2>1 DEF Master
<1> HIDE DEF index
<1>4. /\ Sound(b) /\ b.wr = s.wr /\ b.env = s.env /\ b.mig = s.mig /\ b.jour.index = index
      /\ b.jour.writer = s.jour.writer
  <2> DEFINE j == [s.jour EXCEPT !.index = index]
  <2>1. /\ j \in JournalerSet /\ j.writer = s.jour.writer /\ j.index = index
        /\ j.cache = s.jour.cache /\ j.fetched = s.jour.fetched /\ j.by = s.jour.by
        /\ j.flush = s.jour.flush
    BY <1>2, <1>3 DEF JournalerSet
  <2>2. b = [s EXCEPT !.jour = j] OBVIOUS
  <2> HIDE DEF j, b
  <2>3. /\ b \in StateSet /\ b.jour = j /\ b.wr = s.wr /\ b.env = s.env /\ b.mig = s.mig
        /\ b.store = s.store
    BY <1>2, <2>1, <2>2 DEF StateSet
  <2>4. s.jour.writer <= Len(s.wr) BY DEF Sound, ControlOK, FlushOK
  <2>5. Sound(b) BY <2>1, <2>3, <2>4, Reused DEF Writing
  <2> QED BY <2>1, <2>3, <2>5
<1> HIDE DEF b
<1>5. /\ Sound(c) /\ c.jour = b.jour /\ c.env = s.env /\ c.mig = s.mig
      /\ Len(c.wr) = i /\ c.wr[i] = NewWriter(index)
      /\ (\A k \in 1..n : c.wr[k] = s.wr[k]) /\ (s.mig.to # 0 => Left(c))
  BY <1>3, <1>4, Makes
<1> HIDE DEF c
<1>6. s.jour.writer \in 0..n BY <1>2 DEF Sound, ControlOK, FlushOK
<1>7. i \in 1..i /\ \A k \in 1..n : k \in 1..i /\ k # i BY <1>2
<1>8. Keeps(c, d) /\ d.env = c.env /\ Still(c, d, i)
  <2>1. CASE c.jour.writer = 0 BY <1>5, <2>1, KeepsItself DEF Still
  <2>2. CASE c.jour.writer # 0
    <3>1. c.jour.writer \in 1..n BY <1>2, <1>4, <1>5, <1>6, <2>2
    <3>2. c.jour.writer \in 1..Len(c.wr) /\ c.jour.writer # i BY <1>5, <1>7, <3>1
    <3>3. d = CloseWriter(c, c.jour.writer, FALSE) BY <2>2
    <3> HIDE DEF d
    <3>4. Keeps(c, d) /\ d.env = c.env /\ OthersStill(c, d, c.jour.writer)
      BY <1>5, <3>2, <3>3, CloseKeeps
    <3> QED BY <1>5, <1>7, <3>2, <3>4 DEF OthersStill
  <2> QED BY <2>1, <2>2
<1> HIDE DEF d
<1>9. /\ Keeps(d, e) /\ e.wr = d.wr /\ e.env = d.env /\ e.mig = d.mig
      /\ e.jour.state = "disconnected"
  BY <1>8, Unused DEF Keeps
<1> HIDE DEF e
<1>10. /\ Keeps(c, e) /\ Sound(e) /\ Len(e.wr) = i /\ e.mig.to = s.mig.to /\ e.env = s.env
       /\ e.jour.index = index
  BY <1>4, <1>5, <1>8, <1>9, KeepsComposes DEF Keeps, Frame
<1>11. s.mig.to # 0 => Left(e) BY <1>5, <1>10 DEF Left
<1>12. /\ Sound(f) /\ f.wr = e.wr /\ f.env = e.env /\ f.mig = e.mig
       /\ f.jour.index = index /\ f.jour.writer = i
  BY <1>7, <1>9, <1>10, <1>11, Configures
<1> HIDE DEF f
<1>13. f.wr[i].opening = 0 /\ f.wr[i].ops["open"] = "none"
  <2>1. NewWriter(index).opening = 0 /\ NewWriter(index).ops["open"] = "none"
    BY DEF NewWriter, Ops
  <2> QED BY <1>5, <1>8, <1>9, <1>12, <2>1 DEF Still
<1>14. Keeps(f, t) /\ Only(f, t, i) BY <1>1, <1>7, <1>10, <1>12, <1>13, InitiateKeeps
<1>15. Frame(c, e) /\ Frame(f, t) BY <1>10, <1>14 DEF Keeps
<1>16. \A k \in 1..i : t.wr[k].target = c.wr[k].target /\ t.wr[k].kind = c.wr[k].kind
  BY <1>5, <1>10, <1>12, <1>15 DEF Frame
<1>17. c.wr[i].target = index BY <1>5 DEF NewWriter
<1>18. /\ Sound(t) /\ Len(t.wr) = i /\ t.env = s.env /\ t.mig.to = s.mig.to
       /\ t.jour.writer = i /\ t.jour.index = index
  BY <1>10, <1>12, <1>14 DEF Keeps, Frame, Only
<1> QED BY <1>3, <1>5, <1>7, <1>16, <1>17, <1>18 DEF index

-----------------------------------------------------------------------------
(* Entries come, are handed to a writer and are stored                     *)

LEMMA SupportedMore ==
  ASSUME NEW p \in Seq(Nat), NEW q \in Seq(Nat), NEW H, NEW G, H \subseteq G,
         Supported(p, H),
         \A k \in 1..Len(q) : \A x \in 1..q[k] :
           x \in G \/ x \in Elems(p) \/ \E l \in 1..k : q[l] = x
  PROVE  Supported(p \o q, G)
<1> DEFINE r == p \o q
           n == Len(p)
<1>1. /\ Len(r) = n + Len(q) /\ n \in Nat /\ Len(q) \in Nat
      /\ (\A k \in 1..n : r[k] = p[k]) /\ \A k \in 1..Len(q) : r[n + k] = q[k]
  BY Joined
<1> HIDE DEF r
<1> SUFFICES ASSUME NEW k \in 1..Len(r), NEW x \in 1..r[k]
             PROVE  x \in G \/ \E l \in 1..k : r[l] = x
  BY DEF Supported, r
<1>2. CASE k \in 1..n
  <2>1. x \in H \/ \E l \in 1..k : p[l] = x BY <1>1, <1>2 DEF Supported
  <2>2. \A l \in 1..k : l \in 1..n BY <1>1, <1>2
  <2> QED BY <1>1, <2>1, <2>2
<1>3. CASE k \notin 1..n
  <2>1. PICK m \in 1..Len(q) : k = n + m
    <3>1. k - n \in 1..Len(q) /\ k = n + (k - n) BY <1>1, <1>3
    <3> QED BY <3>1
  <2>2. r[k] = q[m] BY <1>1, <2>1
  <2>3. x \in G \/ x \in Elems(p) \/ \E l \in 1..m : q[l] = x BY <2>1, <2>2
  <2>4. CASE x \in Elems(p)
    <3>1. PICK l \in 1..n : p[l] = x BY <2>4 DEF Elems
    <3>2. l \in 1..k BY <1>1, <2>1, <3>1
    <3> QED BY <1>1, <3>1, <3>2
  <2>5. CASE \E l \in 1..m : q[l] = x
    <3>1. PICK l \in 1..m : q[l] = x BY <2>5
    <3>2. l \in 1..Len(q) /\ n + l \in 1..k BY <1>1, <2>1, <3>1
    <3> QED BY <1>1, <3>1, <3>2
  <2> QED BY <2>3, <2>4, <2>5
<1> QED BY <1>2, <1>3

LEMMA SupportedStill ==
  ASSUME NEW q, NEW H, NEW G, Supported(q, H), H \subseteq G
  PROVE  Supported(q, G)
BY DEF Supported

(* insert_entry(): the new entry comes after all before it.                *)
LEMMA Inserts ==
  ASSUME NEW s, Sound(s), s.env.inserted < MaxEntries,
         NEW t, t = [s EXCEPT !.env.inserted = s.env.inserted + 1,
                              !.jour = Add(@, <<s.env.inserted + 1>>),
                              !.jour.waits = @ \cup {s.env.inserted + 1}]
  PROVE  Sound(t) /\ t.wr = s.wr /\ t.jour.index = s.jour.index /\ t.jour.writer = s.jour.writer
<1> DEFINE e == s.env.inserted + 1
           c == s.jour.cache
           d == c \o <<e>>
<1>1. /\ s \in StateSet /\ s.jour \in JournalerSet /\ s.env \in EnvSet /\ c \in Seq(Nat)
      /\ s.env.inserted \in Nat /\ s.jour.fetched \in Nat /\ s.jour.waits \in SUBSET Entries
      /\ Len(c) \in Nat /\ s.jour.fetched <= Len(c)
  BY Types DEF Sound, ControlOK, FlushOK, JournalerSet
<1>2. e \in Nat /\ e \in 1..e /\ e \in Entries /\ e \in 0..MaxEntries
  BY <1>1, BoundsAssumption DEF Entries
<1>3. <<e>> \in Seq(Nat) /\ Len(<<e>>) = 1 /\ <<e>>[1] = e BY <1>2
<1>4. /\ d \in Seq(Nat) /\ Len(d) = Len(c) + 1 /\ (\A k \in 1..Len(c) : d[k] = c[k])
      /\ Elems(d) = Elems(c) \cup Elems(<<e>>)
  BY <1>1, <1>3, Joined
<1>5. Elems(<<e>>) = {e} BY <1>3 DEF Elems
<1> DEFINE j == [s.jour EXCEPT !.cache = d, !.waits = @ \cup {e}]
           v == [s.env EXCEPT !.inserted = e]
<1>6. t = [s EXCEPT !.env = v, !.jour = j] BY <1>1 DEF Add, StateSet, JournalerSet
<1> HIDE DEF e, d
<1>7. /\ j \in JournalerSet /\ j.writer = s.jour.writer /\ j.index = s.jour.index
      /\ j.cache = d /\ j.fetched = s.jour.fetched /\ j.by = s.jour.by
      /\ j.flush = s.jour.flush
  BY <1>1, <1>2, <1>4 DEF JournalerSet
<1>8. v \in EnvSet /\ v.inserted = e /\ v.reconnected = s.env.reconnected
  BY <1>1, <1>2 DEF EnvSet
<1> HIDE DEF j, v
<1>9. /\ t \in StateSet /\ t.wr = s.wr /\ t.store = s.store /\ t.mig = s.mig /\ t.jour = j
      /\ t.env = v
  BY <1>1, <1>6, <1>7, <1>8 DEF StateSet
<1> HIDE DEF c
<1>10. FlushOK(t)
  <2>3. s.jour.fetched <= Len(d) BY <1>1, <1>4
  <2>1. t.jour.fetched <= Len(t.jour.cache) BY <1>7, <1>9, <2>3
  <2>2. FlushOK(s) BY DEF Sound, ControlOK
  <2> QED BY <1>7, <1>9, <2>1, <2>2 DEF FlushOK, Writing
<1>11. ControlOK(t) BY <1>9, <1>10 DEF Sound, ControlOK
<1>12. (Left(t) <=> Left(s)) /\ Source(t) = Source(s) /\ StoredIn(t) = StoredIn(s)
       /\ (Early(t) <=> Early(s)) /\ (Writing(t) <=> Writing(s))
  BY <1>7, <1>9 DEF Left, Source, StoredIn, Early, Writing
<1>13. MoveOK(t) BY <1>7, <1>8, <1>9, <1>12 DEF Sound, DataOK, MoveOK
<1>14. \A x : x \in 1..e <=> x \in 1..s.env.inserted \/ x = e BY <1>1 DEF e
<1>15. Inside(t)
  BY <1>4, <1>5, <1>7, <1>8, <1>9, <1>14 DEF Sound, DataOK, Inside, c
<1>16. ASSUME EntriesOK(s) PROVE EntriesOK(t)
  <2>1. KeptIn(t) BY <1>4, <1>5, <1>7, <1>8, <1>9, <1>12, <1>14, <1>16 DEF EntriesOK, KeptIn, Mistaken, c
  <2>2. \A k \in 1..s.jour.fetched : k \in 1..Len(c) BY <1>1
  <2>3. FetchedOK(t) BY <1>4, <1>7, <1>9, <1>12, <1>16, <2>2 DEF EntriesOK, FetchedOK, c
  <2>4. s.mig.to = 0 => Supported(d, StoredIn(s))
    <3> SUFFICES ASSUME s.mig.to = 0 PROVE Supported(d, StoredIn(s)) OBVIOUS
    <3>1. Supported(c, StoredIn(s)) BY <1>16 DEF EntriesOK, EarlyOK, c
    <3>2. \A k \in 1..Len(<<e>>) : \A x \in 1..(<<e>>[k]) :
            x \in StoredIn(s) \/ x \in Elems(c) \/ \E l \in 1..k : <<e>>[l] = x
      <4> SUFFICES ASSUME NEW x \in 1..e
                   PROVE  x \in StoredIn(s) \/ x \in Elems(c) \/ <<e>>[1] = x
        BY <1>3
      <4> QED BY <1>3, <1>14, <1>16 DEF EntriesOK, KeptIn, Mistaken, c
    <3> QED BY <1>1, <1>3, <3>1, <3>2, SupportedMore DEF d
  <2>5. EarlyOK(t) BY <1>7, <1>9, <1>12, <1>16, <2>4 DEF EntriesOK, EarlyOK
  <2>6. \A k \in 1..Len(c) : k \in 1..Len(d) BY <1>1, <1>4
  <2>7. \A x : Survives(s, x) => Survives(t, x)
    BY <1>4, <1>7, <1>9, <1>12, <2>6 DEF Survives, c
  <2>8. MovedOK(t) BY <1>9, <1>12, <1>16, <2>7 DEF EntriesOK, MovedOK
  <2> QED BY <2>1, <2>3, <2>5, <2>8 DEF EntriesOK
<1>17. Sound(t) BY <1>11, <1>12, <1>13, <1>15, <1>16 DEF Sound, DataOK
<1> QED BY <1>7, <1>9, <1>17

LEMMA FlushWritten ==
  ASSUME NEW t, Writing(t), t.jour.writer <= Len(t.wr), t.jour.by \in 1..Len(t.wr),
         t.jour.fetched <= Len(t.jour.cache), t.jour.fetched > 0,
         \A k \in 1..Len(t.wr) : t.wr[k].ops["insert"] # "none" => Writing(t) /\ t.jour.by = k
  PROVE  FlushOK(t)
BY DEF FlushOK

LEMMA WriterMoves ==
  ASSUME NEW w, WriterOK(w), NEW v, v.target = w.target, v.kind = w.kind, v.ops = w.ops,
         v.queue = w.queue, v.delayed = w.delayed, v.opening = w.opening,
         v.fetched <= Len(v.cache)
  PROVE  WriterOK(v)
<1>1. OneWorks(v) /\ InTurn(v) BY DEF WriterOK, OneWorks, InTurn
<1> QED BY <1>1 DEF WriterOK

(* WriteFetched(): the writer gets what the journaler has.                 *)
Handed(s, i) ==
  [s EXCEPT !.jour = [s.jour EXCEPT !.fetched = Len(s.jour.cache), !.flush = "writing", !.by = i],
            !.wr = [s.wr EXCEPT ![i] = Add(s.wr[i], s.jour.cache)]]
LEMMA Hands ==
  ASSUME NEW s, Sound(s), ~Writing(s), s.jour.cache # <<>>, NEW i \in 1..Len(s.wr),
         s.jour.writer = i, NEW t, t = Handed(s, i)
  PROVE  /\ Sound(t) /\ t.jour.index = s.jour.index /\ t.jour.writer = i
         /\ Writing(t) /\ t.jour.by = i /\ Len(t.wr) = Len(s.wr) /\ t.wr[i].ops = s.wr[i].ops
         /\ \A k \in 1..Len(s.wr) :
              t.wr[k].target = s.wr[k].target /\ t.wr[k].kind = s.wr[k].kind
<1> DEFINE c == s.jour.cache
           old == s.wr[i]
           d == old.cache \o c
           w == Add(old, c)
           j == [s.jour EXCEPT !.fetched = Len(c), !.flush = "writing", !.by = i]
<1>1. /\ s \in StateSet /\ s.jour \in JournalerSet /\ s.wr \in Seq(WriterSet)
      /\ c \in Seq(Nat) /\ Len(c) \in Nat /\ old \in WriterSet /\ old.cache \in Seq(Nat)
      /\ WriterOK(old) /\ i \in Nat /\ Len(s.wr) \in Nat /\ Len(old.cache) \in Nat
      /\ old.fetched \in Nat
  BY Types DEF Sound, ControlOK
<1>2. Len(c) > 0 BY <1>1
<1>3. /\ d \in Seq(Nat) /\ Len(d) = Len(old.cache) + Len(c)
      /\ Elems(d) = Elems(old.cache) \cup Elems(c)
  BY <1>1, Joined
<1>4. w = [old EXCEPT !.cache = d] BY <1>1 DEF Add, WriterSet
<1> HIDE DEF d
<1>5. /\ j \in JournalerSet /\ j.writer = s.jour.writer /\ j.index = s.jour.index
      /\ j.cache = c /\ j.fetched = Len(c) /\ j.by = i /\ j.flush = "writing"
  BY <1>1 DEF JournalerSet
<1>0. t = [s EXCEPT !.jour = j, !.wr = [s.wr EXCEPT ![i] = w]] BY DEF Handed
<1> HIDE DEF w, j, c, old
<1>6. /\ w \in WriterSet /\ w.target = old.target /\ w.kind = old.kind /\ w.cache = d
      /\ w.fetched = old.fetched /\ w.ops = old.ops /\ w.queue = old.queue
      /\ w.delayed = old.delayed /\ w.opening = old.opening
  BY <1>1, <1>3, <1>4 DEF WriterSet
<1>7. WriterOK(w)
  <2>1. w.fetched <= Len(w.cache) BY <1>1, <1>3, <1>6 DEF WriterOK
  <2> QED BY <1>1, <1>6, <2>1, WriterMoves
<1> DEFINE v == [s.wr EXCEPT ![i] = w]
<1>8. /\ v \in Seq(WriterSet) /\ Len(v) = Len(s.wr) /\ v[i] = w
      /\ \A k \in 1..Len(s.wr) : k # i => v[k] = s.wr[k]
  BY <1>1, <1>6
<1>9. t = [s EXCEPT !.jour = j, !.wr = v] BY <1>0
<1> HIDE DEF v
<1>10. /\ t \in StateSet /\ t.wr = v /\ t.store = s.store /\ t.mig = s.mig /\ t.jour = j
       /\ t.env = s.env
  BY <1>1, <1>5, <1>8, <1>9 DEF StateSet
<1>11. Writing(t) BY <1>5, <1>10 DEF Writing
<1>a. /\ t.jour.cache = c /\ t.jour.fetched = Len(c) /\ t.jour.by = i
      /\ t.jour.writer = s.jour.writer /\ t.jour.index = s.jour.index
      /\ Len(t.wr) = Len(s.wr) /\ t.wr[i].cache = d /\ t.wr[i].ops = s.wr[i].ops
      /\ t.wr[i].target = s.wr[i].target /\ t.wr[i].kind = s.wr[i].kind
      /\ \A k \in 1..Len(s.wr) : k # i => t.wr[k] = s.wr[k]
  BY <1>5, <1>6, <1>8, <1>10 DEF old
<1>b. t.store = s.store /\ t.mig = s.mig /\ t.env = s.env BY <1>10
<1>12. FlushOK(t)
  <2>1. FlushOK(s) BY DEF Sound, ControlOK
  <2>2. \A k \in 1..Len(t.wr) : t.wr[k].ops["insert"] # "none" => Writing(t) /\ t.jour.by = k
    <3>1. \A k \in 1..Len(s.wr) : s.wr[k].ops["insert"] = "none" BY <2>1 DEF FlushOK
    <3> QED BY <1>a, <3>1
  <2>3. t.jour.writer <= Len(t.wr) /\ t.jour.by \in 1..Len(t.wr) BY <1>1, <1>a
  <2>4. t.jour.fetched <= Len(t.jour.cache) /\ t.jour.fetched > 0 BY <1>1, <1>2, <1>a
  <2> QED BY <1>11, <2>2, <2>3, <2>4, FlushWritten
<1>13. ControlOK(t) BY <1>7, <1>8, <1>10, <1>12 DEF Sound, ControlOK
<1>14. \A k \in 1..Len(s.wr) : t.wr[k].target = s.wr[k].target /\ t.wr[k].kind = s.wr[k].kind
  BY <1>6, <1>8, <1>10 DEF old
<1>15. (Left(t) <=> Left(s)) /\ StoredIn(t) = StoredIn(s)
  BY <1>8, <1>10 DEF Left, StoredIn
<1>16. s.mig.to # 0 => Source(t) = Source(s)
  BY <1>10, <1>14 DEF Source, Sound, DataOK, MoveOK
<1>17. MoveOK(t)
  <2>1. MoveOK(s) BY DEF Sound, DataOK
  <2> QED BY <1>a, <1>b, <1>14, <1>15, <1>16, <2>1 DEF MoveOK
<1>18. Inside(t)
  <2>1. Inside(s) BY DEF Sound, DataOK
  <2>2. Elems(d) \subseteq 1..s.env.inserted BY <1>3, <2>1 DEF Inside, c, old
  <2>3. Elems(t.jour.cache) \subseteq 1..t.env.inserted BY <1>5, <1>10, <2>1 DEF Inside, c
  <2> QED BY <1>6, <1>8, <1>10, <2>1, <2>2, <2>3 DEF Inside
<1>19. ASSUME EntriesOK(s), ~Left(s) PROVE EntriesOK(t)
  <2>1. KeptIn(t) BY <1>5, <1>10, <1>15, <1>19 DEF EntriesOK, KeptIn, Mistaken, c
  <2>2. FetchedOK(t)
    <3>1. \A k \in 1..Len(c) : c[k] \in Elems(d) BY <1>3 DEF Elems
    <3> QED BY <1>a, <3>1 DEF FetchedOK
  <2>3. Early(t) => s.mig.to = 0
    <3>1. s.mig.to # 0 => i = s.mig.to BY <1>1, <1>19 DEF Sound, DataOK, MoveOK
    <3> QED BY <1>a, <1>b, <3>1 DEF Early
  <2>4. ASSUME s.mig.to = 0
        PROVE  /\ Closed(StoredIn(s)) /\ Supported(c, StoredIn(s))
               /\ \A k \in 1..Len(s.wr) : Supported(s.wr[k].cache, StoredIn(s))
    BY <1>19, <2>4 DEF EntriesOK, EarlyOK, Early, c
  <2>5. ASSUME s.mig.to = 0 PROVE Supported(d, StoredIn(s))
    <3>1. \A k \in 1..Len(c) : \A x \in 1..c[k] :
            x \in StoredIn(s) \/ x \in Elems(old.cache) \/ \E l \in 1..k : c[l] = x
      BY <2>4, <2>5 DEF Supported
    <3>2. Supported(old.cache, StoredIn(s)) BY <2>4, <2>5 DEF old
    <3> QED BY <1>1, <3>1, <3>2, SupportedMore DEF d
  <2>6. EarlyOK(t)
    <3>1. s.mig.to = 0 => \A k \in 1..Len(t.wr) : Supported(t.wr[k].cache, StoredIn(s))
      BY <1>6, <1>8, <1>10, <2>4, <2>5
    <3> QED BY <1>5, <1>10, <1>15, <2>3, <2>4, <3>1 DEF EarlyOK
  <2>7. ASSUME s.mig.to # 0, NEW x, Survives(s, x) PROVE Survives(t, x)
    BY <1>a, <1>b, <1>16, <2>3, <2>7 DEF Survives, c
  <2>8. MovedOK(t)
    <3>1. s.mig.stage # "none" => s.mig.to # 0 BY DEF Sound, DataOK, MoveOK
    <3> QED BY <1>10, <1>16, <1>19, <2>3, <2>7, <3>1 DEF EntriesOK, MovedOK
  <2> QED BY <2>1, <2>2, <2>6, <2>8 DEF EntriesOK
<1>20. Sound(t) BY <1>13, <1>15, <1>17, <1>18, <1>19 DEF Sound, DataOK
<1> QED BY <1>5, <1>6, <1>8, <1>10, <1>11, <1>14, <1>20 DEF old

(* A batch is stored, and leaves the writer or stays.                      *)
StoreWith(s, to, f) == [s.store EXCEPT ![to] = s.store[to] \o f]
Storing(s, i, v) ==
  [s EXCEPT !.store = StoreWith(s, s.wr[i].target, Fetched(s.wr[i])),
            !.wr = [s.wr EXCEPT ![i] = v]]
LEMMA Stores ==
  ASSUME NEW s, Sound(s), NEW i \in 1..Len(s.wr), NEW v, v \in {s.wr[i], Commit(s.wr[i])},
         NEW t, t = Storing(s, i, v)
  PROVE  /\ Sound(t) /\ t.jour = s.jour /\ t.env = s.env /\ Len(t.wr) = Len(s.wr)
         /\ t.wr[i].ops = s.wr[i].ops
         /\ \A k \in 1..Len(s.wr) :
              t.wr[k].target = s.wr[k].target /\ t.wr[k].kind = s.wr[k].kind
<1> DEFINE w == s.wr[i]
           f == Fetched(w)
           to == w.target
           rest == SubSeq(w.cache, w.fetched + 1, Len(w.cache))
           p == s.store[to] \o f
           z == StoreWith(s, to, f)
           q == [s.wr EXCEPT ![i] = v]
<1>0. z = [s.store EXCEPT ![to] = p] BY DEF StoreWith
<1>1. /\ s \in StateSet /\ s.wr \in Seq(WriterSet) /\ Len(s.wr) \in Nat
      /\ w \in WriterSet /\ WriterOK(w) /\ w.cache \in Seq(Nat) /\ w.fetched \in 0..Len(w.cache)
      /\ Len(w.cache) \in Nat /\ to \in 1..Master /\ s.store \in [1..Master -> Seq(Nat)]
      /\ w.fetched \in Nat /\ w.fetched <= Len(w.cache)
  BY Types DEF Sound, ControlOK, WriterOK
<1>2. t = [s EXCEPT !.store = z, !.wr = q] BY DEF Storing
<1>3. /\ rest \in Seq(Nat) /\ f \in Seq(Nat) /\ Len(f) = w.fetched
      /\ (\A k \in 1..w.fetched : f[k] = w.cache[k])
      /\ Elems(w.cache) = Elems(f) \cup Elems(rest) /\ Elems(f) = {w.cache[k] : k \in 1..w.fetched}
  <2> HIDE DEF w
  <2>1. f = SubSeq(w.cache, 1, w.fetched) BY DEF Fetched
  <2> HIDE DEF f
  <2>2. rest \in Seq(Nat) /\ f \in Seq(Nat) /\ Len(f) = w.fetched
        /\ \A k \in 1..w.fetched : f[k] = w.cache[k]
    BY <1>1, <2>1, Split
  <2>3. Elems(w.cache) = Elems(f) \cup Elems(rest)
        /\ Elems(f) = {w.cache[k] : k \in 1..w.fetched}
    BY <1>1, <2>1, SplitElems
  <2> QED BY <2>2, <2>3
<1>4. v = w \/ v = [w EXCEPT !.cache = rest, !.fetched = 0] BY DEF Commit
<1> HIDE DEF w, f, rest, to
<1>5. /\ v \in WriterSet /\ v.target = w.target /\ v.kind = w.kind /\ v.ops = w.ops
      /\ v.queue = w.queue /\ v.delayed = w.delayed /\ v.opening = w.opening
      /\ v.fetched <= Len(v.cache)
      /\ (v.cache = w.cache \/ v.cache = rest)
  <2>1. CASE v = w BY <1>1, <2>1
  <2>2. CASE v = [w EXCEPT !.cache = rest, !.fetched = 0]
    <3>1. Len(rest) >= 0 BY <1>3
    <3> QED BY <1>1, <1>3, <2>2, <3>1 DEF WriterSet
  <2> QED BY <1>4, <2>1, <2>2
<1>6. WriterOK(v) BY <1>1, <1>5, WriterMoves
<1>7. /\ q \in Seq(WriterSet) /\ Len(q) = Len(s.wr) /\ q[i] = v
      /\ \A k \in 1..Len(s.wr) : k # i => q[k] = s.wr[k]
  BY <1>1, <1>5
<1>8. s.store[to] \in Seq(Nat) /\ Len(s.store[to]) \in Nat
  <2>1. to \in 1..Master /\ s.store \in [1..Master -> Seq(Nat)] BY <1>1
  <2>2. s.store[to] \in Seq(Nat) BY <2>1
  <2> QED BY <2>2
<1>9. /\ p \in Seq(Nat) /\ Len(p) = Len(s.store[to]) + Len(f)
      /\ (\A k \in 1..Len(s.store[to]) : p[k] = s.store[to][k])
      /\ Elems(p) = Elems(s.store[to]) \cup Elems(f)
  BY <1>3, <1>8, Joined
<1> HIDE DEF p
<1>10. z \in [1..Master -> Seq(Nat)] /\ z[to] = p
       /\ \A m \in 1..Master : m # to => z[m] = s.store[m]
  BY <1>0, <1>1, <1>9
<1> HIDE DEF z, q
<1>11. /\ t \in StateSet /\ t.wr = q /\ t.store = z /\ t.mig = s.mig /\ t.jour = s.jour
       /\ t.env = s.env
  BY <1>1, <1>2, <1>7, <1>10 DEF StateSet
<1>12. \A k \in 1..Len(s.wr) : /\ t.wr[k].target = s.wr[k].target /\ t.wr[k].kind = s.wr[k].kind
                              /\ t.wr[k].ops = s.wr[k].ops
  BY <1>5, <1>7, <1>11 DEF w
<1>13. FlushOK(t)
  <2>1. FlushOK(s) BY DEF Sound, ControlOK
  <2>2. t.jour = s.jour /\ Len(t.wr) = Len(s.wr) BY <1>7, <1>11
  <2> QED BY <1>12, <2>1, <2>2 DEF FlushOK, Writing
<1>14. ControlOK(t) BY <1>6, <1>7, <1>11, <1>13 DEF Sound, ControlOK
<1>15. /\ \A m \in 1..Master : /\ Elems(s.store[m]) \subseteq Elems(t.store[m])
                               /\ Elems(t.store[m]) \subseteq Elems(s.store[m]) \cup Elems(f)
                               /\ Len(s.store[m]) <= Len(t.store[m])
                               /\ \A k \in 1..Len(s.store[m]) : t.store[m][k] = s.store[m][k]
       /\ Elems(f) \subseteq Elems(t.store[to])
  <2> SUFFICES ASSUME NEW m \in 1..Master
               PROVE  /\ Elems(s.store[m]) \subseteq Elems(t.store[m])
                      /\ Elems(t.store[m]) \subseteq Elems(s.store[m]) \cup Elems(f)
                      /\ Len(s.store[m]) <= Len(t.store[m])
                      /\ \A k \in 1..Len(s.store[m]) : t.store[m][k] = s.store[m][k]
    BY <1>1, <1>9, <1>10, <1>11
  <2>1. CASE m = to
    <3>1. Len(s.store[to]) <= Len(p) BY <1>3, <1>8, <1>9
    <3> QED BY <1>9, <1>10, <1>11, <2>1, <3>1
  <2>2. CASE m # to
    <3>1. s.store[m] \in Seq(Nat)
      <4>1. s.store \in [1..Master -> Seq(Nat)] BY <1>1
      <4> QED BY <4>1
    <3>2. t.store[m] = s.store[m] BY <1>10, <1>11, <2>2
    <3>3. Len(s.store[m]) <= Len(s.store[m]) BY <3>1
    <3> QED BY <3>2, <3>3
  <2> QED BY <2>1, <2>2
<1>a. \A m \in 1..Master : /\ Elems(s.store[m]) \subseteq Elems(t.store[m])
                           /\ Elems(t.store[m]) \subseteq Elems(s.store[m]) \cup Elems(f)
  BY <1>15
<1>16. StoredIn(s) \subseteq StoredIn(t) BY <1>a DEF StoredIn
<1>17. StoredIn(t) \subseteq StoredIn(s) \cup Elems(f) BY <1>a DEF StoredIn
<1>18. Elems(f) \subseteq StoredIn(t) BY <1>1, <1>15 DEF StoredIn
<1>19. (Left(t) <=> Left(s)) /\ (Early(t) <=> Early(s))
  BY <1>7, <1>11 DEF Left, Early, Writing
<1>20. s.mig.to # 0 => Source(t) = Source(s) /\ Source(s) \in 1..Master
  <2>1. s.mig.to # 0 => s.mig.from \in 1..Len(s.wr) BY DEF Sound, DataOK, MoveOK
  <2>2. \A k \in 1..Len(s.wr) : s.wr[k].target \in 1..Master BY <1>1, Types
  <2> QED BY <1>11, <1>12, <2>1, <2>2 DEF Source
<1>21. MoveOK(t)
  <2>1. MoveOK(s) BY DEF Sound, DataOK
  <2>2. s.mig.n \in Nat /\ \A m \in 1..Master : Len(s.store[m]) \in Nat /\ Len(t.store[m]) \in Nat
    <3>1. s.store \in [1..Master -> Seq(Nat)] /\ t.store \in [1..Master -> Seq(Nat)]
          /\ s.mig.n \in Nat
      BY <1>1, <1>11, Types
    <3>2. \A m \in 1..Master : s.store[m] \in Seq(Nat) /\ t.store[m] \in Seq(Nat) BY <3>1
    <3>3. s.mig.n \in Nat BY <3>1
    <3>4. \A m \in 1..Master : Len(s.store[m]) \in Nat /\ Len(t.store[m]) \in Nat BY <3>2
    <3> QED BY <3>3, <3>4
  <2>3. ASSUME s.mig.stage \in {"flush", "delete"} PROVE s.mig.n <= Len(t.store[Source(s)])
    <3>1. s.mig.to # 0 /\ s.mig.n <= Len(s.store[Source(s)]) BY <2>1, <2>3 DEF MoveOK
    <3>2. Source(s) \in 1..Master BY <1>20, <3>1
    <3>3. Len(s.store[Source(s)]) <= Len(t.store[Source(s)]) BY <1>15, <3>2
    <3>4. Len(s.store[Source(s)]) \in Nat /\ Len(t.store[Source(s)]) \in Nat /\ s.mig.n \in Nat
      BY <2>2, <3>2
    <3> HIDE DEF Master
    <3>5. \A a, b, e \in Nat : a <= b /\ b <= e => a <= e OBVIOUS
    <3> QED BY <3>1, <3>3, <3>4, <3>5
  <2> QED BY <1>7, <1>11, <1>12, <1>19, <1>20, <2>1, <2>3 DEF MoveOK
<1>22. Inside(t)
  <2>1. Inside(s) BY DEF Sound, DataOK
  <2>2. Elems(w.cache) \subseteq 1..s.env.inserted BY <2>1 DEF Inside, w
  <2>3. Elems(f) \subseteq 1..s.env.inserted /\ Elems(v.cache) \subseteq 1..s.env.inserted
    BY <1>3, <1>5, <2>2
  <2>4. \A k \in 1..Len(t.wr) : Elems(t.wr[k].cache) \subseteq 1..s.env.inserted
    BY <1>7, <1>11, <2>1, <2>3 DEF Inside
  <2>5. \A m \in 1..Master : Elems(t.store[m]) \subseteq 1..s.env.inserted
    BY <1>a, <2>1, <2>3 DEF Inside
  <2> QED BY <1>11, <2>1, <2>4, <2>5 DEF Inside
<1>23. ASSUME EntriesOK(s), ~Left(s) PROVE EntriesOK(t)
  <2>1. KeptIn(t) BY <1>11, <1>16, <1>23 DEF EntriesOK, KeptIn, Mistaken
  <2>2. FetchedOK(t)
    <3> SUFFICES ASSUME Writing(s), NEW k \in 1..s.jour.fetched
                 PROVE  \/ s.jour.cache[k] \in Elems(t.wr[s.jour.by].cache)
                        \/ s.jour.cache[k] \in Elems(t.store[s.wr[s.jour.by].target])
      BY <1>11, <1>12 DEF FetchedOK, Writing, Sound, ControlOK, FlushOK
    <3>1. s.jour.by \in 1..Len(s.wr) BY DEF Sound, ControlOK, FlushOK
    <3>2. s.wr[s.jour.by].target \in 1..Master BY <1>1, <3>1, Types
    <3>3. \/ s.jour.cache[k] \in Elems(s.wr[s.jour.by].cache)
          \/ s.jour.cache[k] \in Elems(s.store[s.wr[s.jour.by].target])
      BY <1>23 DEF EntriesOK, FetchedOK
    <3>4. CASE s.jour.by = i
      <4>1. Elems(w.cache) \subseteq Elems(v.cache) \cup Elems(f) BY <1>3, <1>5
      <4>2. t.wr[i].cache = v.cache /\ Elems(f) \subseteq Elems(t.store[s.wr[i].target])
        BY <1>7, <1>11, <1>15 DEF w, to
      <4>3. s.jour.cache[k] \in Elems(w.cache) \/ s.jour.cache[k] \in Elems(s.store[s.wr[i].target])
        BY <3>3, <3>4 DEF w
      <4> QED BY <1>a, <3>2, <3>4, <4>1, <4>2, <4>3
    <3>5. CASE s.jour.by # i
      <4>1. t.wr[s.jour.by] = s.wr[s.jour.by] BY <1>7, <1>11, <3>1, <3>5
      <4> QED BY <1>a, <3>2, <3>3, <4>1
    <3> QED BY <3>4, <3>5
  <2>3. Supported(s.jour.cache, StoredIn(s)) => Supported(s.jour.cache, StoredIn(t))
    BY <1>16, SupportedStill
  <2>4. ASSUME Early(s) PROVE Closed(StoredIn(t))
    <3>1. Supported(w.cache, StoredIn(s)) /\ Closed(StoredIn(s))
      BY <1>23, <2>4 DEF EntriesOK, EarlyOK, w
    <3>2. \A y \in StoredIn(s) : 1..y \subseteq StoredIn(t) BY <1>16, <3>1 DEF Closed
    <3>3. ASSUME NEW m \in 1..w.fetched, NEW x \in 1..w.cache[m] PROVE x \in StoredIn(t)
      <4>1. m \in 1..Len(w.cache) BY <1>1
      <4>2. x \in StoredIn(s) \/ \E l \in 1..m : w.cache[l] = x BY <3>1, <4>1 DEF Supported
      <4>3. \A l \in 1..m : l \in 1..w.fetched BY <1>1
      <4> QED BY <1>3, <1>16, <1>18, <4>2, <4>3
    <3>4. \A y \in Elems(f) : 1..y \subseteq StoredIn(t) BY <1>3, <3>3
    <3> QED BY <1>17, <3>2, <3>4 DEF Closed
  <2>5. ASSUME Early(s), NEW k \in 1..Len(s.wr) PROVE Supported(t.wr[k].cache, StoredIn(t))
    <3>1. Supported(s.wr[k].cache, StoredIn(s)) BY <1>23, <2>5 DEF EntriesOK, EarlyOK
    <3>2. Supported(s.wr[k].cache, StoredIn(t)) BY <1>16, <3>1, SupportedStill
    <3>3. CASE k # i BY <1>7, <1>11, <3>2, <3>3
    <3>4. CASE k = i /\ v.cache = w.cache BY <1>7, <1>11, <3>2, <3>4 DEF w
    <3>5. CASE k = i /\ v.cache = rest
      <4>1. Supported(w.cache, StoredIn(s)) BY <3>1, <3>5 DEF w
      <4>2. \A l \in 1..w.fetched : w.cache[l] \in StoredIn(t) BY <1>3, <1>18
      <4>3. Supported(rest, StoredIn(t)) BY <1>1, <1>16, <4>1, <4>2, SupportedRest DEF rest
      <4> QED BY <1>7, <1>11, <3>5, <4>3
    <3> QED BY <1>5, <3>3, <3>4, <3>5
  <2>6. EarlyOK(t) BY <1>7, <1>11, <1>19, <1>23, <2>3, <2>4, <2>5 DEF EarlyOK, EntriesOK
  <2>7. ASSUME s.mig.to # 0, NEW x, Survives(s, x) PROVE Survives(t, x)
    BY <1>11, <1>15, <1>19, <1>20, <2>7 DEF Survives
  <2>8. MovedOK(t)
    <3>1. s.mig.stage # "none" => s.mig.to # 0 BY DEF Sound, DataOK, MoveOK
    <3>2. ASSUME s.mig.stage \in {"flush", "delete"}, NEW k \in 1..s.mig.n
          PROVE  t.store[Source(s)][k] = s.store[Source(s)][k]
      <4>1. s.mig.n <= Len(s.store[Source(s)]) /\ s.mig.n \in Nat
        BY <1>1, <3>2, Types DEF Sound, DataOK, MoveOK
      <4>2. Len(s.store[Source(s)]) \in Nat BY <1>1, <1>20, <3>1, <3>2
      <4>3. k \in 1..Len(s.store[Source(s)]) BY <4>1, <4>2
      <4> QED BY <1>15, <1>20, <3>1, <3>2, <4>3
    <3> QED BY <1>11, <1>19, <1>20, <1>23, <2>7, <3>1, <3>2 DEF EntriesOK, MovedOK
  <2> QED BY <2>1, <2>2, <2>6, <2>8 DEF EntriesOK
<1>24. Sound(t) BY <1>14, <1>19, <1>21, <1>22, <1>23 DEF Sound, DataOK
<1> QED BY <1>7, <1>11, <1>12, <1>24

(* WriteFetched() as a whole.                                              *)
LEMMA Written ==
  ASSUME NEW s, Sound(s), ~Writing(s), NEW t, t = WriteFetched(s)
  PROVE  Sound(t) /\ t.jour.index = s.jour.index /\ Len(t.wr) = Len(s.wr)
         /\ t.jour.writer \in {s.jour.writer, 0}
         /\ \A k \in 1..Len(s.wr) :
              t.wr[k].target = s.wr[k].target /\ t.wr[k].kind = s.wr[k].kind
<1> DEFINE c == [s EXCEPT !.jour = Fetch(@)]
           i == s.jour.writer
           n == Len(s.jour.cache)
<1>1. /\ s \in StateSet /\ s.jour \in JournalerSet /\ s.jour.cache \in Seq(Nat) /\ n \in Nat
      /\ s.jour.fetched \in Nat /\ i \in Nat /\ FlushOK(s)
  BY Types DEF Sound, ControlOK
<1>2. s.jour.fetched = 0 BY <1>1 DEF FlushOK
<1>3. Idle(s) BY IdleIf
<1>4. c.jour = [s.jour EXCEPT !.fetched = n] /\ c.wr = s.wr
  BY <1>1 DEF Fetch, StateSet
<1>5. c.jour.cache = s.jour.cache /\ c.jour.writer = i /\ c.jour.fetched = n
  BY <1>1, <1>4 DEF JournalerSet
<1>6. CASE s.jour.cache = <<>>
  <2>1. c = s BY <1>1, <1>2, <1>6 DEF Fetch, StateSet, JournalerSet
  <2>2. t = FlushComplete(s) BY <1>6, <2>1 DEF WriteFetched
  <2>3. Keeps(s, t) /\ t.wr = s.wr /\ t.jour.writer = s.jour.writer BY <1>3, <2>2, Completed
  <2> QED BY <2>3 DEF Keeps, Frame
<1>7. CASE s.jour.cache # <<>> /\ i = 0
  <2>1. t = FlushError(c) BY <1>5, <1>7 DEF WriteFetched
  <2>2. FlushError(c) = FlushError(s)
    <3>1. Drop(c) = c /\ Drop(s) = s BY <1>5, <1>7 DEF Drop
    <3>2. /\ Disconnected(c) \in StateSet /\ Disconnected(s) \in StateSet
          /\ Disconnected(c).wr = s.wr /\ Disconnected(c).store = s.store
          /\ Disconnected(c).mig = s.mig /\ Disconnected(c).told = s.told
          /\ Disconnected(c).env = s.env
          /\ Disconnected(s).wr = s.wr /\ Disconnected(s).store = s.store
          /\ Disconnected(s).mig = s.mig /\ Disconnected(s).told = s.told
          /\ Disconnected(s).env = s.env
      BY <1>1, <1>4 DEF Disconnected, StateSet, JournalerSet, Links, Fetch
    <3>3. Rollback(Disconnected(c).jour) = Rollback(Disconnected(s).jour)
      BY <1>1, <1>4 DEF Disconnected, StateSet, JournalerSet, Rollback, Fetch
    <3> DEFINE X == [Rollback(Disconnected(s).jour) EXCEPT !.flush = "none"]
    <3>4. [Disconnected(c) EXCEPT !.jour = X] = [Disconnected(s) EXCEPT !.jour = X]
      BY <3>2 DEF StateSet
    <3>5. FlushError(c) = TryNext([Disconnected(c) EXCEPT !.jour = X])
      BY <3>1, <3>3 DEF FlushError
    <3>6. FlushError(s) = TryNext([Disconnected(s) EXCEPT !.jour = X])
      BY <3>1 DEF FlushError
    <3> QED BY <3>4, <3>5, <3>6
  <2>3. Keeps(s, t) BY <1>3, <2>1, <2>2, Failed
  <2> QED BY <2>3 DEF Keeps, Frame
<1>8. CASE s.jour.cache # <<>> /\ i # 0
  <2> DEFINE d == Handed(s, i)
  <2>1. i \in 1..Len(s.wr) BY <1>1, <1>8 DEF FlushOK
  <2>2. t = FlushNext(d, i, "insert")
    <3> DEFINE e == [c EXCEPT !.jour.flush = "writing", !.jour.by = i,
                              !.wr[i] = Add(@, Fetched(c.jour))]
    <3>1. Fetched(c.jour) = s.jour.cache
      <4>1. Fetched(c.jour) = SubSeq(s.jour.cache, 1, n) BY <1>5 DEF Fetched
      <4> QED BY <1>1, <4>1
    <3>2. t = FlushNext(e, i, "insert") BY <1>5, <1>8 DEF WriteFetched
    <3>3. e = [c EXCEPT !.jour = [[c.jour EXCEPT !.flush = "writing"] EXCEPT !.by = i],
                        !.wr = [s.wr EXCEPT ![i] = Add(s.wr[i], s.jour.cache)]]
      BY <1>1, <1>4, <3>1 DEF StateSet
    <3>4. [[c.jour EXCEPT !.flush = "writing"] EXCEPT !.by = i]
            = [s.jour EXCEPT !.fetched = n, !.flush = "writing", !.by = i]
      BY <1>1, <1>4 DEF JournalerSet
    <3>5. e = d BY <1>1, <3>3, <3>4 DEF Handed, StateSet
    <3> QED BY <3>2, <3>5
  <2>3. /\ Sound(d) /\ d.jour.index = s.jour.index /\ d.jour.writer = i
        /\ Writing(d) /\ d.jour.by = i /\ Len(d.wr) = Len(s.wr) /\ d.wr[i].ops = s.wr[i].ops
        /\ \A k \in 1..Len(s.wr) :
             d.wr[k].target = s.wr[k].target /\ d.wr[k].kind = s.wr[k].kind
    BY <1>8, <2>1, Hands
  <2> HIDE DEF d
  <2>4. Hand(d, i, "insert") BY <1>3, <2>1, <2>3 DEF Hand, Idle
  <2>5. Keeps(d, t) BY <2>1, <2>2, <2>3, <2>4, NextGoes DEF Goes, Ops
  <2> QED BY <2>3, <2>5 DEF Keeps, Frame
<1> QED BY <1>6, <1>7, <1>8

(* Positions that are strictly and totally ordered are enumerated in order. *)
StrictOrder(D, before) ==
  /\ IsFiniteSet(D) /\ DOMAIN before = D
  /\ \A k \in D : before[k] \subseteq D /\ k \notin before[k]
  /\ \A k, l \in D : k = l \/ k \in before[l] \/ l \in before[k]
  /\ \A k, l \in D : k \in before[l] => before[k] \subseteq before[l]
Enumerates(g, D, before) ==
  /\ Cardinality(D) \in Nat /\ DOMAIN g = 1..Cardinality(D)
  /\ \A r \in 1..Cardinality(D) : g[r] \in D
  /\ \A k \in D : \E r \in 1..Cardinality(D) : g[r] = k
  /\ \A r, q \in 1..Cardinality(D) : r < q => g[r] \in before[g[q]]
LEMMA Ranked ==
  ASSUME NEW D, NEW before, StrictOrder(D, before)
  PROVE  Enumerates(Ordered(before), D, before)
<1> USE DEF StrictOrder
<1> DEFINE N == Cardinality(D)
           f == [k \in D |-> Cardinality(before[k])]
<1>1. N \in Nat BY FS_CardinalityType
<1>2. \A k \in D : IsFiniteSet(before[k]) /\ Cardinality(before[k]) \in Nat
                   /\ Cardinality(before[k]) < N
  <2> TAKE k \in D
  <2>1. IsFiniteSet(before[k]) /\ Cardinality(before[k]) <= N
        /\ (N = Cardinality(before[k]) => D = before[k])
    BY FS_Subset
  <2>2. Cardinality(before[k]) \in Nat BY <2>1, FS_CardinalityType
  <2>3. D # before[k] OBVIOUS
  <2> QED BY <1>1, <2>1, <2>2, <2>3
<1>3. \A k, l \in D : k \in before[l] => Cardinality(before[k]) < Cardinality(before[l])
  <2> TAKE k, l \in D
  <2> HAVE k \in before[l]
  <2>1. Cardinality(before[k]) <= Cardinality(before[l])
        /\ (Cardinality(before[l]) = Cardinality(before[k]) => before[l] = before[k])
    BY <1>2, FS_Subset
  <2>2. before[l] # before[k] OBVIOUS
  <2> QED BY <1>2, <2>1, <2>2
<1>4. \A k, l \in D : f[k] = f[l] => k = l BY <1>2, <1>3
<1>5. f \in [D -> 0..(N - 1)] BY <1>1, <1>2
<1>6. f \in Injection(D, 0..(N - 1)) BY <1>4, <1>5 DEF Injection, IsInjective
<1>7. IsFiniteSet(0..(N - 1)) /\ Cardinality(0..(N - 1)) = N
  <2>1. 0 \in Int /\ N - 1 \in Int BY <1>1
  <2>2. IsFiniteSet(0..(N - 1))
        /\ Cardinality(0..(N - 1)) = IF 0 > N - 1 THEN 0 ELSE N - 1 - 0 + 1
    BY <2>1, FS_Interval
  <2> QED BY <1>1, <2>2
<1>8. f \in Surjection(D, 0..(N - 1)) BY <1>6, <1>7, FS_Injection
<1>9. \A m \in 0..(N - 1) : \E k \in D : f[k] = m BY <1>8 DEF Surjection
<1> DEFINE g == Ordered(before)
<1>10. DOMAIN g = 1..N BY DEF Ordered
<1>11. ASSUME NEW r \in 1..N PROVE g[r] \in D /\ f[g[r]] = r - 1
  <2>1. g[r] = CHOOSE k \in D : Cardinality(before[k]) = r - 1 BY DEF Ordered
  <2>2. r - 1 \in 0..(N - 1) BY <1>1
  <2>3. \E k \in D : Cardinality(before[k]) = r - 1 BY <1>9, <2>2
  <2>4. g[r] \in D /\ Cardinality(before[g[r]]) = r - 1 BY <2>1, <2>3
  <2> QED BY <2>4
<1> HIDE DEF g
<1>12. \A k \in D : \E r \in 1..N : g[r] = k
  <2> TAKE k \in D
  <2>1. f[k] \in 0..(N - 1) BY <1>5
  <2> HIDE DEF f
  <2>2. PICK r \in 1..N : r - 1 = f[k]
    <3> f[k] + 1 \in 1..N /\ f[k] + 1 - 1 = f[k] BY <1>1, <2>1
    <3> WITNESS f[k] + 1 \in 1..N
    <3> QED BY <1>1, <2>1
  <2>3. g[r] \in D /\ f[g[r]] = f[k] BY <1>11, <2>2
  <2>4. g[r] = k BY <1>4, <2>3
  <2> QED BY <2>4
<1>13. ASSUME NEW r \in 1..N, NEW q \in 1..N, r < q PROVE g[r] \in before[g[q]]
  <2>1. f[g[r]] = r - 1 /\ f[g[q]] = q - 1 /\ g[r] \in D /\ g[q] \in D BY <1>11
  <2>2. f[g[r]] < f[g[q]] BY <1>1, <1>13, <2>1
  <2>3. g[r] # g[q]
    <3>1. r \in Int /\ q \in Int BY <1>1
    <3> HIDE DEF f
    <3> QED BY <1>13, <2>1, <3>1
  <2>4. g[q] \notin before[g[r]] BY <1>2, <1>3, <2>1, <2>2
  <2> QED BY <2>1, <2>3, <2>4
<1>14. Enumerates(g, D, before) BY <1>1, <1>10, <1>11, <1>12, <1>13 DEF Enumerates
<1> QED BY <1>14 DEF g

(* Entries are read in the order of their timestamps.                      *)
LEMMA Read ==
  ASSUME NEW q \in Seq(Nat), Elems(q) \subseteq Entries
  PROVE  /\ DOMAIN InTime(q) = 1..Len(q) /\ Len(q) \in Nat
         /\ \A r \in 1..Len(q) : InTime(q)[r] \in 1..Len(q)
         /\ \A k \in 1..Len(q) : \E r \in 1..Len(q) : InTime(q)[r] = k
         /\ \A r, m \in 1..Len(q) : r < m => Precedes(q, InTime(q)[r], InTime(q)[m])
<1> DEFINE D == DOMAIN q
           before == [k \in D |-> {l \in D : Precedes(q, l, k)}]
<1>1. D = 1..Len(q) /\ Len(q) \in Nat OBVIOUS
<1>2. IsFiniteSet(D) /\ Cardinality(D) = Len(q)
  <2>1. 1 \in Int /\ Len(q) \in Int BY <1>1
  <2>2. IsFiniteSet(1..Len(q)) /\ Cardinality(1..Len(q)) = IF 1 > Len(q) THEN 0 ELSE Len(q) - 1 + 1
    BY <2>1, FS_Interval
  <2>3. Cardinality(1..Len(q)) = Len(q) BY <1>1, <2>2
  <2> QED BY <1>1, <2>2, <2>3
<1>3. \A k \in D : Times[q[k]] \in Int /\ k \in Int
  <2> TAKE k \in D
  <2>1. q[k] \in Entries BY <1>1 DEF Elems
  <2> QED BY <1>1, <2>1, BoundsAssumption DEF Entries
<1> DEFINE T(k) == Times[q[k]]
<1>4. \A k, l \in D : Precedes(q, l, k) <=> T(l) < T(k) \/ (T(l) = T(k) /\ l < k)
  BY DEF Precedes
<1> HIDE DEF T, D
<1>5. \A k \in D : T(k) \in Int /\ k \in Int BY <1>3 DEF T
<1>6. \A k \in D : before[k] \subseteq D /\ k \notin before[k] BY <1>4, <1>5
<1>7. \A k, l \in D : k = l \/ k \in before[l] \/ l \in before[k] BY <1>4, <1>5
<1>8. \A k, l \in D : k \in before[l] => before[k] \subseteq before[l]
  <2> SUFFICES ASSUME NEW k \in D, NEW l \in D, k \in before[l], NEW m \in before[k]
               PROVE  m \in before[l]
    OBVIOUS
  <2>1. m \in D /\ Precedes(q, m, k) /\ Precedes(q, k, l) OBVIOUS
  <2>2. Precedes(q, m, l) BY <1>4, <1>5, <2>1
  <2> QED BY <2>1, <2>2
<1>9. InTime(q) = Ordered(before) /\ DOMAIN before = D BY DEF InTime, D
<1>10. \A k, l \in D : l \in before[k] <=> Precedes(q, l, k) OBVIOUS
<1> HIDE DEF before
<1>a. StrictOrder(D, before) BY <1>2, <1>6, <1>7, <1>8, <1>9 DEF StrictOrder
<1>b. Enumerates(InTime(q), D, before) BY <1>9, <1>a, Ranked
<1>11. /\ DOMAIN InTime(q) = 1..Len(q)
       /\ \A r \in 1..Len(q) : InTime(q)[r] \in D
       /\ \A k \in D : \E r \in 1..Len(q) : InTime(q)[r] = k
       /\ \A r, m \in 1..Len(q) : r < m => InTime(q)[r] \in before[InTime(q)[m]]
  BY <1>2, <1>b DEF Enumerates
<1> QED BY <1>1, <1>10, <1>11

(* What is left when the entries at some positions are deleted.            *)
LEMMA TakenOut ==
  ASSUME NEW q \in Seq(Nat), NEW ks
  PROVE  /\ Without(q, ks) \in Seq(Nat)
         /\ Elems(Without(q, ks)) = {q[k] : k \in (1..Len(q)) \ ks}
<1> DEFINE D == DOMAIN q \ ks
           before == [k \in D |-> {l \in D : l < k}]
           kept == Ordered(before)
           N == Cardinality(D)
           z == Without(q, ks)
<1>1. DOMAIN q = 1..Len(q) /\ Len(q) \in Nat OBVIOUS
<1>2. IsFiniteSet(D)
  <2>1. 1 \in Int /\ Len(q) \in Int BY <1>1
  <2>2. IsFiniteSet(1..Len(q)) BY <2>1, FS_Interval
  <2> QED BY <1>1, <2>2, FS_Subset
<1>3. D \subseteq Nat /\ D \subseteq 1..Len(q) BY <1>1
<1>4. z = [k \in DOMAIN kept |-> q[kept[k]]] BY DEF Without
<1>5. D = (1..Len(q)) \ ks BY <1>1
<1> HIDE DEF D, z
<1>a. \A k \in D : k \in Nat BY <1>3
<1>b. /\ DOMAIN before = D /\ \A k \in D : before[k] \subseteq D
      /\ \A k, l \in D : l \in before[k] <=> l < k
  OBVIOUS
<1> HIDE DEF before
<1>c. StrictOrder(D, before)
  <2>1. \A k \in D : before[k] \subseteq D /\ k \notin before[k] BY <1>a, <1>b
  <2>2. \A k, l \in D : k = l \/ k \in before[l] \/ l \in before[k]
    <3>1. \A k, l \in D : k = l \/ k < l \/ l < k BY <1>a
    <3> QED BY <1>b, <3>1
  <2>3. \A k, l \in D : k \in before[l] => before[k] \subseteq before[l]
    <3> SUFFICES ASSUME NEW k \in D, NEW l \in D, k \in before[l], NEW m \in before[k]
                 PROVE  m \in before[l]
      OBVIOUS
    <3>1. m \in D /\ m < k /\ k < l BY <1>b
    <3>2. m \in Nat /\ k \in Nat /\ l \in Nat BY <1>a, <3>1
    <3>3. m < l BY <3>1, <3>2
    <3> QED BY <1>b, <3>1, <3>3
  <2> QED BY <1>2, <1>b, <2>1, <2>2, <2>3 DEF StrictOrder
<1>d. Enumerates(kept, D, before) BY <1>c, Ranked
<1>6. /\ N \in Nat /\ DOMAIN kept = 1..N /\ \A r \in 1..N : kept[r] \in D
      /\ \A k \in D : \E r \in 1..N : kept[r] = k
  BY <1>d DEF Enumerates
<1> HIDE DEF kept, N
<1>7. z \in [1..N -> Nat]
  <2>1. \A r \in 1..N : q[kept[r]] \in Nat
    <3>1. \A k \in D : q[k] \in Nat BY <1>3
    <3> QED BY <1>6, <3>1
  <2> QED BY <1>4, <1>6, <2>1
<1>8. z \in Seq(Nat) /\ Len(z) = N BY <1>6, <1>7
<1>9. Elems(z) = {q[k] : k \in D}
  <2>1. \A r \in 1..N : z[r] = q[kept[r]] BY <1>4, <1>6
  <2> QED BY <1>6, <1>8, <2>1 DEF Elems
<1> QED BY <1>5, <1>8, <1>9 DEF z

(* The stages of a migration before and after entries are moved.           *)
LEMMA StageChanges ==
  ASSUME NEW s, Sound(s), s.mig.stage # "none", NEW x \in {"none", "read"},
         NEW t, t = [s EXCEPT !.mig.stage = x]
  PROVE  /\ Keeps(s, t) /\ t.wr = s.wr /\ t.jour = s.jour /\ t.env = s.env /\ t.store = s.store
         /\ t.mig.from = s.mig.from
<1> DEFINE m == [s.mig EXCEPT !.stage = x]
<1>1. s \in StateSet /\ s.mig \in MigrationSet BY Types DEF Sound, ControlOK
<1>2. /\ m \in MigrationSet /\ m.from = s.mig.from /\ m.to = s.mig.to /\ m.n = s.mig.n
      /\ m.stage = x
  BY <1>1 DEF MigrationSet
<1>3. t = [s EXCEPT !.mig = m] BY <1>1 DEF StateSet
<1> HIDE DEF m
<1>4. /\ t \in StateSet /\ t.wr = s.wr /\ t.store = s.store /\ t.mig = m /\ t.jour = s.jour
      /\ t.env = s.env
  BY <1>1, <1>2, <1>3 DEF StateSet
<1>5. ControlOK(t) BY <1>4 DEF Sound, ControlOK, FlushOK, Writing
<1>6. /\ (Left(t) <=> Left(s)) /\ Source(t) = Source(s) /\ StoredIn(t) = StoredIn(s)
      /\ (Early(t) <=> Early(s)) /\ (Writing(t) <=> Writing(s))
  BY <1>2, <1>4 DEF Left, Source, StoredIn, Early, Writing
<1>7. MoveOK(s) /\ Inside(s) /\ (Left(s) \/ EntriesOK(s)) BY DEF Sound, DataOK
<1>8. MoveOK(t) BY <1>2, <1>4, <1>6, <1>7 DEF MoveOK
<1>9. Inside(t) BY <1>4, <1>7 DEF Inside
<1>10. ASSUME EntriesOK(s) PROVE EntriesOK(t)
  <2>1. KeptIn(t) /\ FetchedOK(t) BY <1>2, <1>4, <1>6, <1>10 DEF EntriesOK, KeptIn, Mistaken, FetchedOK
  <2>2. EarlyOK(t) BY <1>2, <1>4, <1>6, <1>10 DEF EntriesOK, EarlyOK
  <2>3. MovedOK(t) BY <1>2, <1>4 DEF MovedOK
  <2> QED BY <2>1, <2>2, <2>3 DEF EntriesOK
<1>11. Sound(t) BY <1>5, <1>6, <1>7, <1>8, <1>9, <1>10 DEF Sound, DataOK
<1>12. Frame(s, t) BY <1>2, <1>4 DEF Frame
<1> QED BY <1>2, <1>4, <1>11, <1>12 DEF Keeps

(* What is deleted first is no newer than one of those that were moved, or *)
(* it has an earlier timestamp than an older one.                          *)
LEMMA TopCovered ==
  ASSUME NEW q \in Seq(Nat), Elems(q) \subseteq Entries,
         NEW n \in 0..Len(q), NEW k \in Top(q, n)
  PROVE  k \in 1..Len(q) /\ (Misdated(q[k]) \/ \E l \in 1..n : q[k] <= q[l])
<1> DEFINE g == InTime(q)
           N == Len(q)
<1>1. /\ N \in Nat /\ n \in Nat /\ \A r \in 1..N : g[r] \in 1..N
      /\ \A m \in 1..N : \E r \in 1..N : g[r] = m
      /\ \A r, m \in 1..N : r < m => Precedes(q, g[r], g[m])
  BY Read
<1>2. PICK r \in 1..n : g[r] = k BY DEF Top
<1>3. r \in 1..N /\ k \in 1..N BY <1>1, <1>2
<1>4. CASE k \in 1..n
  <2>1. q[k] \in Nat BY <1>3
  <2> QED BY <1>3, <1>4, <2>1
<1>5. CASE k \notin 1..n
  <2>1. \E l \in 1..n : l \notin Top(q, n)
    <3> SUFFICES ASSUME 1..n \subseteq Top(q, n) PROVE FALSE OBVIOUS
    <3> DEFINE f == [i \in 1..n |-> g[i]]
    <3>1. Top(q, n) = {g[i] : i \in 1..n} BY DEF Top
    <3> HIDE DEF g
    <3>2. f \in Surjection(1..n, Top(q, n)) BY <3>1 DEF Surjection
    <3>3. IsFiniteSet(1..n) /\ Cardinality(1..n) = n
      <4>1. 1 \in Int /\ n \in Int BY <1>1
      <4>2. IsFiniteSet(1..n) /\ Cardinality(1..n) = IF 1 > n THEN 0 ELSE n - 1 + 1
        BY <4>1, FS_Interval
      <4> QED BY <1>1, <4>2
    <3>4. IsFiniteSet(Top(q, n)) /\ Cardinality(Top(q, n)) <= n BY <3>2, <3>3, FS_Surjection
    <3>5. IsFiniteSet((1..n) \cup {k}) /\ Cardinality((1..n) \cup {k}) = n + 1
      <4> DEFINE S == 1..n
      <4>1. IsFiniteSet(S) /\ Cardinality(S) = n /\ k \notin S BY <1>5, <3>3
      <4> HIDE DEF S
      <4>2. /\ IsFiniteSet(S \cup {k})
            /\ Cardinality(S \cup {k}) = IF k \in S THEN Cardinality(S) ELSE Cardinality(S) + 1
        BY <4>1, FS_AddElement
      <4> QED BY <4>1, <4>2 DEF S
    <3>6. (1..n) \cup {k} \subseteq Top(q, n) OBVIOUS
    <3>7. Cardinality((1..n) \cup {k}) <= Cardinality(Top(q, n)) BY <3>4, <3>6, FS_Subset
    <3>8. Cardinality(Top(q, n)) \in Nat BY <3>4, FS_CardinalityType
    <3> QED BY <1>1, <3>4, <3>5, <3>7, <3>8
  <2>2. PICK l \in 1..n : l \notin Top(q, n) BY <2>1
  <2>3. l \in 1..N BY <1>1
  <2>4. PICK m \in 1..N : g[m] = l BY <1>1, <2>3
  <2>5. m \notin 1..n BY <2>2, <2>4 DEF Top
  <2>6. r < m BY <1>1, <1>2, <2>4, <2>5
  <2>7. Precedes(q, k, l) BY <1>1, <1>2, <1>3, <2>4, <2>6
  <2>8. ~(k < l) BY <1>1, <1>3, <1>5, <2>2
  <2>9. Times[q[k]] < Times[q[l]] BY <2>7, <2>8 DEF Precedes
  <2>10. q[k] \in Entries /\ q[l] \in Entries BY <1>3, <2>3 DEF Elems
  <2>11. q[k] \in Nat /\ q[l] \in Nat /\ q[k] >= 1 /\ q[l] >= 1
    BY <2>10, BoundsAssumption DEF Entries
  <2>12. CASE q[l] <= q[k]
    <3>1. q[l] \in 1..q[k] BY <2>11, <2>12
    <3>2. Times[q[k]] \in Nat /\ Times[q[l]] \in Nat BY <2>10, BoundsAssumption DEF Entries
    <3>3. Times[q[l]] > Times[q[k]] BY <2>9, <3>2
    <3> QED BY <1>3, <3>1, <3>3 DEF Misdated
  <2>13. CASE ~(q[l] <= q[k])
    <3>1. q[k] <= q[l] BY <2>11, <2>13
    <3> QED BY <1>3, <3>1
  <2> QED BY <2>12, <2>13
<1> QED BY <1>4, <1>5

(* The entries that were moved are deleted.                                *)
LEMMA Deletes ==
  ASSUME NEW s, Sound(s), s.mig.stage = "delete", NEW t, t = MigrateDelete(s)
  PROVE  Sound(t) /\ t.wr = s.wr /\ t.jour = s.jour
<1> DEFINE src == Source(s)
           q == s.store[src]
           n == s.mig.n
           r == Without(q, Top(q, n))
           m == [s.mig EXCEPT !.stage = "read"]
           z == [s.store EXCEPT ![src] = r]
<1>1. /\ s \in StateSet /\ s.mig \in MigrationSet /\ n \in Nat
      /\ s.store \in [1..Master -> Seq(Nat)] /\ Len(s.wr) \in Nat /\ s.env.inserted \in Nat
      /\ \A k \in 1..Len(s.wr) : s.wr[k].target \in 1..Master
  BY Types DEF Sound, ControlOK
<1>2. MoveOK(s) /\ Inside(s) /\ (Left(s) \/ EntriesOK(s)) BY DEF Sound, DataOK
<1>3. s.mig.to # 0 /\ s.mig.from \in 1..Len(s.wr) /\ n <= Len(q) BY <1>2 DEF MoveOK
<1>4. src \in 1..Master BY <1>1, <1>3 DEF Source
<1>5. q \in Seq(Nat) BY <1>1, <1>4
<1>6. Elems(q) \subseteq 1..s.env.inserted BY <1>2, <1>4 DEF Inside
<1>7. s.env.inserted <= MaxEntries /\ 1..s.env.inserted \subseteq Entries
  <2>1. s.env.inserted \in 0..MaxEntries BY <1>1, Types DEF EnvSet
  <2> QED BY <1>1, <2>1, BoundsAssumption DEF Entries
<1>8. t = [s EXCEPT !.mig = m, !.store = z]
  BY <1>1 DEF MigrateDelete, Source, StateSet
<1>9. Len(q) \in Nat /\ n \in 0..Len(q)
  <2>1. Len(q) \in Nat BY <1>5
  <2> QED BY <1>1, <1>3, <2>1
<1> HIDE DEF src, q, n
<1>10. r \in Seq(Nat) /\ Elems(r) = {q[k] : k \in (1..Len(q)) \ Top(q, n)} BY <1>5, TakenOut
<1>11. \A k \in Top(q, n) :
         k \in 1..Len(q) /\ (Misdated(q[k]) \/ \E l \in 1..n : q[k] <= q[l])
  BY <1>5, <1>6, <1>7, <1>9, TopCovered
<1> HIDE DEF r
<1>12. /\ z \in [1..Master -> Seq(Nat)] /\ z[src] = r
       /\ \A k \in 1..Master : k # src => z[k] = s.store[k]
  BY <1>1, <1>4, <1>10
<1>13. /\ m \in MigrationSet /\ m.from = s.mig.from /\ m.to = s.mig.to /\ m.n = s.mig.n
       /\ m.stage = "read"
  BY <1>1 DEF MigrationSet
<1> HIDE DEF z, m
<1>14. /\ t \in StateSet /\ t.wr = s.wr /\ t.store = z /\ t.mig = m /\ t.jour = s.jour
       /\ t.env = s.env
  BY <1>1, <1>8, <1>12, <1>13 DEF StateSet
<1>15. ControlOK(t) BY <1>14 DEF Sound, ControlOK, FlushOK, Writing
<1>16. /\ (Left(t) <=> Left(s)) /\ Source(t) = Source(s)
       /\ (Early(t) <=> Early(s)) /\ (Writing(t) <=> Writing(s))
  BY <1>13, <1>14 DEF Left, Source, Early, Writing
<1>17. MoveOK(t) BY <1>2, <1>13, <1>14, <1>16 DEF MoveOK
<1>18. Elems(r) \subseteq Elems(q) BY <1>10 DEF Elems
<1>19. Inside(t)
  <2>1. \A k \in 1..Master : Elems(t.store[k]) \subseteq 1..s.env.inserted
    BY <1>2, <1>6, <1>12, <1>14, <1>18 DEF Inside
  <2> QED BY <1>2, <1>14, <2>1 DEF Inside
<1>20. ASSUME EntriesOK(s) PROVE EntriesOK(t)
  <2>1. ~Early(s) BY <1>20 DEF EntriesOK, MovedOK
  <2>2. \A k \in 1..Master : k # src => Elems(t.store[k]) = Elems(s.store[k])
    BY <1>12, <1>14
  <2>3. ASSUME NEW e \in Elems(q), ~Misdated(e)
        PROVE  e \in StoredIn(t) \/ e \in Elems(t.jour.cache)
    <3>1. PICK k \in 1..Len(q) : q[k] = e BY <2>3 DEF Elems
    <3>2. CASE k \notin Top(q, n)
      <4>1. e \in Elems(t.store[src]) BY <1>10, <1>12, <1>14, <3>1, <3>2
      <4> QED BY <1>4, <4>1 DEF StoredIn
    <3>3. CASE k \in Top(q, n)
      <4>1. PICK l \in 1..n : e <= q[l] BY <1>11, <2>3, <3>1, <3>3
      <4>2. l \in 1..Len(q) BY <1>9
      <4>3. e \in 1..q[l]
        <5>1. q[l] \in Nat BY <1>5, <4>2
        <5>2. e \in 1..s.env.inserted BY <1>6
        <5> QED BY <1>1, <4>1, <5>1, <5>2
      <4>4. Survives(s, e) BY <1>20, <2>3, <4>3 DEF EntriesOK, MovedOK, q, n, src
      <4>5. CASE \E k2 \in 1..Master : k2 # src /\ e \in Elems(s.store[k2])
        BY <2>2, <4>5 DEF StoredIn
      <4>6. CASE \E k2 \in 1..Len(s.jour.cache) : s.jour.cache[k2] = e
        BY <1>14, <4>6 DEF Elems
      <4> QED BY <4>4, <4>5, <4>6 DEF Survives, src
    <3> QED BY <3>2, <3>3
  <2>4. KeptIn(t)
    <3> SUFFICES ASSUME NEW e \in 1..s.env.inserted, ~Misdated(e)
                 PROVE  e \in StoredIn(t) \/ e \in Elems(t.jour.cache)
      BY <1>3, <1>13, <1>14 DEF KeptIn, Mistaken
    <3>1. CASE e \in Elems(s.jour.cache) BY <1>14, <3>1
    <3>2. CASE e \in StoredIn(s)
      <4>1. PICK k \in 1..Master : e \in Elems(s.store[k]) BY <3>2 DEF StoredIn
      <4>2. CASE k = src BY <2>3, <4>1, <4>2 DEF q
      <4>3. CASE k # src BY <2>2, <4>1, <4>3 DEF StoredIn
      <4> QED BY <4>2, <4>3
    <3> QED BY <1>20, <3>1, <3>2 DEF EntriesOK, KeptIn, Mistaken
  <2>5. FetchedOK(t)
    <3> SUFFICES ASSUME Writing(s) PROVE FetchedOK(t) BY <1>16 DEF FetchedOK
    <3>1. s.jour.by = s.mig.to BY <1>3, <2>1 DEF Early
    <3>2. s.mig.to \in 1..Len(s.wr) /\ s.wr[s.mig.to].target # src BY <1>2, <1>3 DEF MoveOK, src
    <3>3. Elems(t.store[s.wr[s.jour.by].target]) = Elems(s.store[s.wr[s.jour.by].target])
      BY <1>1, <2>2, <3>1, <3>2
    <3> QED BY <1>14, <1>16, <1>20, <3>3 DEF EntriesOK, FetchedOK
  <2>6. EarlyOK(t) BY <1>3, <1>13, <1>14, <1>16, <2>1 DEF EarlyOK
  <2>7. MovedOK(t) BY <1>13, <1>14 DEF MovedOK
  <2> QED BY <2>4, <2>5, <2>6, <2>7 DEF EntriesOK
<1>21. Sound(t) BY <1>2, <1>15, <1>16, <1>17, <1>19, <1>20 DEF Sound, DataOK
<1> QED BY <1>14, <1>21

(* The entries of the source are inserted again.                           *)
Again(s, batch) ==
  [s EXCEPT !.jour = Add(s.jour, batch), !.mig.stage = "flush", !.mig.n = Len(batch)]
LEMMA Moves ==
  ASSUME NEW s, Sound(s), s.mig.stage = "read", NEW batch \in Seq(Nat),
         Len(batch) = Len(s.store[Source(s)]), Elems(batch) = Elems(s.store[Source(s)]),
         NEW t, t = Again(s, batch)
  PROVE  Sound(t) /\ t.wr = s.wr /\ t.jour.index = s.jour.index /\ t.jour.writer = s.jour.writer
<1> DEFINE c == s.jour.cache
           d == c \o batch
           held == s.store[Source(s)]
<1>1. /\ s \in StateSet /\ s.jour \in JournalerSet /\ s.mig \in MigrationSet /\ c \in Seq(Nat)
      /\ s.env.inserted \in Nat /\ s.jour.fetched \in Nat
      /\ Len(c) \in Nat /\ s.jour.fetched <= Len(c) /\ Len(batch) \in Nat
      /\ s.store \in [1..Master -> Seq(Nat)]
      /\ \A k \in 1..Len(s.wr) : s.wr[k].target \in 1..Master
  BY Types DEF Sound, ControlOK, FlushOK, JournalerSet
<1>2. MoveOK(s) /\ Inside(s) /\ (Left(s) \/ EntriesOK(s)) BY DEF Sound, DataOK
<1>3. s.mig.to # 0 /\ s.mig.from \in 1..Len(s.wr) BY <1>2 DEF MoveOK
<1>a. Source(s) \in 1..Master BY <1>1, <1>3 DEF Source
<1>4. /\ d \in Seq(Nat) /\ Len(d) = Len(c) + Len(batch)
      /\ (\A k \in 1..Len(c) : d[k] = c[k])
      /\ (\A k \in 1..Len(batch) : d[Len(c) + k] = batch[k])
      /\ Elems(d) = Elems(c) \cup Elems(batch)
  BY <1>1, Joined
<1> DEFINE j == [s.jour EXCEPT !.cache = d]
           m == [s.mig EXCEPT !.stage = "flush", !.n = Len(batch)]
<1>5. t = [s EXCEPT !.jour = j, !.mig = m] BY <1>1 DEF Again, Add, StateSet, MigrationSet
<1> HIDE DEF d
<1>6. /\ j \in JournalerSet /\ j.writer = s.jour.writer /\ j.index = s.jour.index
      /\ j.cache = d /\ j.fetched = s.jour.fetched /\ j.by = s.jour.by
      /\ j.flush = s.jour.flush
  BY <1>1, <1>4 DEF JournalerSet
<1>7. /\ m \in MigrationSet /\ m.from = s.mig.from /\ m.to = s.mig.to /\ m.n = Len(batch)
      /\ m.stage = "flush"
  BY <1>1 DEF MigrationSet
<1> HIDE DEF j, m
<1>9. /\ t \in StateSet /\ t.wr = s.wr /\ t.store = s.store /\ t.mig = m /\ t.jour = j
      /\ t.env = s.env
  BY <1>1, <1>5, <1>6, <1>7 DEF StateSet
<1> HIDE DEF c, held
<1>10. FlushOK(t)
  <2>3. s.jour.fetched <= Len(d) BY <1>1, <1>4
  <2>1. t.jour.fetched <= Len(t.jour.cache) BY <1>6, <1>9, <2>3
  <2>2. FlushOK(s) BY DEF Sound, ControlOK
  <2> QED BY <1>6, <1>9, <2>1, <2>2 DEF FlushOK, Writing
<1>11. ControlOK(t) BY <1>9, <1>10 DEF Sound, ControlOK
<1>12. (Left(t) <=> Left(s)) /\ Source(t) = Source(s) /\ StoredIn(t) = StoredIn(s)
       /\ (Early(t) <=> Early(s)) /\ (Writing(t) <=> Writing(s))
  BY <1>6, <1>7, <1>9 DEF Left, Source, StoredIn, Early, Writing
<1>13. MoveOK(t)
  <2>1. Len(held) <= Len(held) BY <1>1 DEF held
  <2> QED BY <1>2, <1>6, <1>7, <1>9, <1>12, <2>1 DEF MoveOK, held
<1>14. Elems(batch) = Elems(held) BY DEF held
<1>15. Inside(t)
  <2>1. Elems(held) \subseteq 1..s.env.inserted BY <1>2, <1>a DEF Inside, held
  <2> QED BY <1>2, <1>4, <1>6, <1>9, <1>14, <2>1 DEF Inside, c
<1>16. ASSUME EntriesOK(s) PROVE EntriesOK(t)
  <2>1. KeptIn(t) BY <1>4, <1>6, <1>7, <1>9, <1>12, <1>16 DEF EntriesOK, KeptIn, Mistaken, c
  <2>2. \A k \in 1..s.jour.fetched : k \in 1..Len(c) BY <1>1
  <2>3. FetchedOK(t) BY <1>4, <1>6, <1>9, <1>12, <1>16, <2>2 DEF EntriesOK, FetchedOK, c
  <2>5. EarlyOK(t) BY <1>3, <1>6, <1>7, <1>9, <1>12, <1>16 DEF EntriesOK, EarlyOK
  <2>6. ASSUME NEW x \in Elems(held)
        PROVE  \E k \in 1..Len(d) : d[k] = x /\ k > s.jour.fetched
    <3>1. PICK l \in 1..Len(batch) : batch[l] = x BY <1>14, <2>6 DEF Elems
    <3>2. Len(c) + l \in 1..Len(d) /\ Len(c) + l > s.jour.fetched BY <1>1, <1>4
    <3> QED BY <1>4, <3>1, <3>2
  <2>7. ASSUME NEW x \in StoredIn(s) PROVE Survives(t, x)
    <3>1. PICK k \in 1..Master : x \in Elems(s.store[k]) BY <2>7 DEF StoredIn
    <3>2. CASE k # Source(s) BY <1>9, <1>12, <3>1, <3>2 DEF Survives
    <3>3. CASE k = Source(s)
      <4>1. x \in Elems(held) BY <3>1, <3>3 DEF held
      <4> QED BY <1>6, <1>9, <2>6, <4>1 DEF Survives
    <3> QED BY <3>2, <3>3
  <2>8. ASSUME NEW k \in 1..Len(batch), NEW x \in 1..held[k] PROVE Survives(t, x) \/ Misdated(x)
    <3>1. k \in 1..Len(held) BY DEF held
    <3>2. held[k] \in StoredIn(s) BY <1>a, <3>1 DEF StoredIn, Elems, held
    <3>3. CASE Early(s)
      <4>1. x \in StoredIn(s) BY <1>16, <3>2, <3>3 DEF EntriesOK, EarlyOK, Closed
      <4> QED BY <2>7, <4>1
    <3>4. CASE ~Early(s)
      <4>1. held[k] \in 1..s.env.inserted BY <1>2, <1>a, <3>1 DEF Inside, Elems, held
      <4>2. x \in 1..s.env.inserted BY <1>1, <4>1
      <4>3. CASE x \in Elems(s.jour.cache)
        <5>1. x \in Elems(d) BY <1>4, <4>3 DEF c
        <5> QED BY <1>6, <1>9, <1>12, <3>4, <5>1 DEF Survives, Elems
      <4> QED BY <1>16, <2>7, <4>2, <4>3 DEF EntriesOK, KeptIn, Mistaken
    <3> QED BY <3>3, <3>4
  <2>9. MovedOK(t) BY <1>7, <1>9, <1>12, <2>8 DEF MovedOK, held
  <2> QED BY <2>1, <2>3, <2>5, <2>9 DEF EntriesOK
<1>17. Sound(t) BY <1>2, <1>11, <1>12, <1>13, <1>15, <1>16 DEF Sound, DataOK
<1> QED BY <1>6, <1>9, <1>17

LEMMA Reordered ==
  ASSUME NEW q \in Seq(Nat), Elems(q) \subseteq Entries,
         NEW batch, batch = [k \in DOMAIN q |-> q[InTime(q)[k]]]
  PROVE  batch \in Seq(Nat) /\ Len(batch) = Len(q) /\ Elems(batch) = Elems(q)
<1>1. /\ Len(q) \in Nat /\ \A r \in 1..Len(q) : InTime(q)[r] \in 1..Len(q)
      /\ \A k \in 1..Len(q) : \E r \in 1..Len(q) : InTime(q)[r] = k
  BY Read
<1>2. DOMAIN q = 1..Len(q) /\ \A r \in 1..Len(q) : q[r] \in Nat
  <2>1. DOMAIN q = 1..Len(q) OBVIOUS
  <2>2. \A r \in 1..Len(q) : q[r] \in Nat OBVIOUS
  <2> QED BY <2>1, <2>2
<1>3. PICK n : n = Len(q) OBVIOUS
<1>4. PICK g : g = InTime(q) OBVIOUS
<1>5. /\ n \in Nat /\ (\A r \in 1..n : g[r] \in 1..n)
      /\ \A k \in 1..n : \E r \in 1..n : g[r] = k
  BY <1>1, <1>3, <1>4
<1>6. batch = [r \in 1..n |-> q[g[r]]] BY <1>2, <1>3, <1>4
<1>7. \A r \in 1..n : q[g[r]] \in Nat BY <1>2, <1>3, <1>5
<1>8. batch \in [1..n -> Nat] BY <1>6, <1>7
<1>9. batch \in Seq(Nat) /\ Len(batch) = n BY <1>5, <1>8
<1>10. Elems(batch) = Elems(q)
  <2>1. Elems(batch) = {batch[r] : r \in 1..n} BY <1>9 DEF Elems
  <2>2. Elems(q) = {q[r] : r \in 1..n} BY <1>3 DEF Elems
  <2>3. \A r \in 1..n : batch[r] = q[g[r]] BY <1>6
  <2>4. ASSUME NEW r \in 1..n PROVE batch[r] \in Elems(q)
    <3>1. g[r] \in 1..n BY <1>5
    <3> QED BY <2>2, <2>3, <3>1
  <2>5. ASSUME NEW k \in 1..n PROVE q[k] \in Elems(batch)
    <3>1. PICK r \in 1..n : g[r] = k BY <1>5
    <3>2. batch[r] = q[k] BY <2>3, <3>1
    <3> QED BY <2>1, <3>2
  <2>6. Elems(batch) \subseteq Elems(q) BY <2>1, <2>4
  <2>7. Elems(q) \subseteq Elems(batch) BY <2>2, <2>5
  <2> QED BY <2>6, <2>7
<1> QED BY <1>3, <1>9, <1>10

(* migrate_entries(), one batch.                                           *)
LEMMA Reads ==
  ASSUME NEW s, Sound(s), s.mig.stage = "read", s.wr[s.mig.from].ops["close"] = "none",
         NEW t, t = MigrateRead(s)
  PROVE  /\ Sound(t) /\ Len(t.wr) = Len(s.wr) /\ t.jour.index = s.jour.index
         /\ t.jour.writer \in {s.jour.writer, 0}
         /\ \A k \in 1..Len(s.wr) :
              t.wr[k].target = s.wr[k].target /\ t.wr[k].kind = s.wr[k].kind
<1> DEFINE held == s.store[Source(s)]
           batch == [k \in DOMAIN held |-> held[InTime(held)[k]]]
<1>1. /\ s.env.inserted \in 0..MaxEntries /\ s.store \in [1..Master -> Seq(Nat)]
      /\ \A k \in 1..Len(s.wr) : s.wr[k].target \in 1..Master
  BY Types DEF Sound, ControlOK, EnvSet
<1>2. s.mig.to # 0 /\ s.mig.from \in 1..Len(s.wr) BY DEF Sound, DataOK, MoveOK
<1>3. Source(s) \in 1..Master BY <1>1, <1>2 DEF Source
<1>4. held \in Seq(Nat) BY <1>1, <1>3
<1>5. Elems(held) \subseteq Entries
  <2>1. Elems(held) \subseteq 1..s.env.inserted BY <1>3 DEF Sound, DataOK, Inside
  <2>2. 1..s.env.inserted \subseteq Entries BY <1>1, BoundsAssumption DEF Entries
  <2> QED BY <2>1, <2>2
<1>6. CASE held = <<>>
  <2> DEFINE c == [s EXCEPT !.mig.stage = "none"]
  <2>1. t = CloseWriter(c, s.mig.from, TRUE) BY <1>6 DEF MigrateRead, Source
  <2>2. Keeps(s, c) /\ c.wr = s.wr /\ c.jour = s.jour BY StageChanges
  <2> HIDE DEF c
  <2>3. Keeps(c, t) BY <1>2, <2>1, <2>2, CloseKeeps DEF Keeps
  <2>4. Keeps(s, t) BY <2>2, <2>3, KeepsComposes
  <2> QED BY <2>4 DEF Keeps, Frame
<1>7. CASE held # <<>>
  <2> DEFINE c == Again(s, batch)
  <2>1. t = ScheduleFlush([s EXCEPT !.jour = Add(@, batch), !.mig.stage = "flush",
                                    !.mig.n = Len(held)])
    BY <1>7 DEF MigrateRead, Source
  <2>6. batch \in Seq(Nat) /\ Len(batch) = Len(held) /\ Elems(batch) = Elems(held)
    BY <1>4, <1>5, Reordered
  <2> HIDE DEF held, batch
  <2>8. t = ScheduleFlush(c) BY <2>1, <2>6 DEF Again
  <2>9. Sound(c) /\ c.wr = s.wr /\ c.jour.index = s.jour.index /\ c.jour.writer = s.jour.writer
    BY <2>6, Moves DEF held
  <2> HIDE DEF c
  <2>10. Keeps(c, t) /\ t.wr = c.wr /\ t.jour.writer = c.jour.writer BY <2>8, <2>9, Scheduled
  <2> QED BY <2>9, <2>10 DEF Keeps, Frame
<1> QED BY <1>6, <1>7

-----------------------------------------------------------------------------
(* One step                                                                *)

Fine(s) == Sound(s) /\ IndexOK(s)
Same(s, t) ==
  /\ Len(t.wr) = Len(s.wr) /\ t.jour.index = s.jour.index
  /\ t.jour.writer \in {s.jour.writer, 0}
  /\ \A k \in 1..Len(s.wr) : t.wr[k].target = s.wr[k].target /\ t.wr[k].kind = s.wr[k].kind

LEMMA SameFine ==
  ASSUME NEW s, Fine(s), NEW t, Sound(t), Same(s, t)
  PROVE  Fine(t)
<1>1. s.jour.writer \in Nat /\ Len(s.wr) \in Nat /\ s.jour.writer <= Len(s.wr)
  BY Types DEF Fine, Sound, ControlOK, FlushOK
<1>2. s.jour.writer # 0 => s.jour.writer \in 1..Len(s.wr) BY <1>1
<1>3. IndexOK(t) BY <1>2 DEF Fine, Same, IndexOK
<1> QED BY <1>3 DEF Fine

LEMMA KeepsFine ==
  ASSUME NEW s, Fine(s), NEW t, Keeps(s, t)
  PROVE  Fine(t)
<1>1. Sound(t) /\ Same(s, t) BY DEF Keeps, Frame, Same
<1> QED BY <1>1, SameFine

LEMMA Become1 ==
  ASSUME NEW n, n \in StateSet, Become(n)
  PROVE  State' = n
<1>1. /\ jour' = n.jour /\ wr' = n.wr /\ store' = n.store /\ mig' = n.mig
      /\ told' = n.told /\ env' = n.env
  BY DEF Become
<1>2. n = [jour |-> n.jour, wr |-> n.wr, store |-> n.store, mig |-> n.mig, told |-> n.told,
           env |-> n.env]
  BY DEF StateSet
<1> QED BY <1>1, <1>2 DEF State

LEMMA Becomes ==
  ASSUME NEW n, Fine(n), Become(n)
  PROVE  Fine(State)'
<1>1. n \in StateSet BY DEF Fine, Sound, ControlOK
<1>2. State' = n BY <1>1, Become1
<1>3. Fine(State') BY <1>2
<1> QED BY <1>3

(* Faults, roles and orders are counted.                                   *)
LEMMA EnvChanges ==
  ASSUME NEW s, Sound(s), NEW v \in EnvSet, v.inserted = s.env.inserted,
         s.env.reconnected => v.reconnected, NEW t, t = [s EXCEPT !.env = v]
  PROVE  /\ Keeps(s, t) /\ t.wr = s.wr /\ t.jour = s.jour /\ t.mig = s.mig /\ t.env = v
         /\ t.store = s.store
<1>1. s \in StateSet BY DEF Sound, ControlOK
<1>2. /\ t \in StateSet /\ t.wr = s.wr /\ t.store = s.store /\ t.mig = s.mig /\ t.jour = s.jour
      /\ t.env = v
  BY <1>1 DEF StateSet
<1>3. Frame(s, t) BY <1>2 DEF Frame
<1>4. GoesOn(s, t) BY <1>2 DEF GoesOn, Writing
<1>5. FlushOK(t) BY <1>2 DEF Sound, ControlOK, FlushOK, Writing
<1> QED BY <1>2, <1>3, <1>4, <1>5, JournalChanges DEF Flow

Counts(s, t) ==
  /\ Keeps(s, t) /\ t.wr = s.wr /\ t.jour = s.jour /\ t.mig = s.mig /\ t.store = s.store
  /\ t.env.inserted = s.env.inserted /\ (s.env.reconnected => t.env.reconnected)
LEMMA Counted ==
  ASSUME NEW s, Sound(s), NEW t,
         \/ t = [s EXCEPT !.env.faults = @ + 1]
         \/ t = [s EXCEPT !.env.roles = Tail(@)] /\ s.env.roles # <<>>
         \/ t = [s EXCEPT !.env.closed = TRUE]
         \/ t = [s EXCEPT !.env.reconnected = TRUE]
         \/ t = [s EXCEPT !.env.rotated = TRUE]
  PROVE  Counts(s, t)
<1>1. s \in StateSet /\ s.env \in EnvSet BY Types DEF Sound, ControlOK
<1>2. CASE t = [s EXCEPT !.env.faults = @ + 1]
  <2> DEFINE v == [s.env EXCEPT !.faults = @ + 1]
  <2>1. t = [s EXCEPT !.env = v] BY <1>1, <1>2 DEF StateSet
  <2>2. v \in EnvSet /\ v.inserted = s.env.inserted /\ v.reconnected = s.env.reconnected
    BY <1>1 DEF EnvSet
  <2> HIDE DEF v
  <2> QED BY <2>1, <2>2, EnvChanges DEF Counts
<1>3. CASE t = [s EXCEPT !.env.roles = Tail(@)] /\ s.env.roles # <<>>
  <2> DEFINE v == [s.env EXCEPT !.roles = Tail(@)]
  <2>1. t = [s EXCEPT !.env = v] BY <1>1, <1>3 DEF StateSet
  <2>2. Tail(s.env.roles) \in Seq({"slave", "master"})
    <3>1. s.env.roles \in Seq({"slave", "master"}) BY <1>1 DEF EnvSet
    <3> QED BY <1>3, <3>1
  <2>3. v \in EnvSet /\ v.inserted = s.env.inserted /\ v.reconnected = s.env.reconnected
    BY <1>1, <2>2 DEF EnvSet
  <2> HIDE DEF v
  <2> QED BY <2>1, <2>3, EnvChanges DEF Counts
<1>4. CASE t = [s EXCEPT !.env.closed = TRUE]
  <2> DEFINE v == [s.env EXCEPT !.closed = TRUE]
  <2>1. t = [s EXCEPT !.env = v] BY <1>1, <1>4 DEF StateSet
  <2>2. v \in EnvSet /\ v.inserted = s.env.inserted /\ v.reconnected = s.env.reconnected
    BY <1>1 DEF EnvSet
  <2> HIDE DEF v
  <2> QED BY <2>1, <2>2, EnvChanges DEF Counts
<1>5. CASE t = [s EXCEPT !.env.reconnected = TRUE]
  <2> DEFINE v == [s.env EXCEPT !.reconnected = TRUE]
  <2>1. t = [s EXCEPT !.env = v] BY <1>1, <1>5 DEF StateSet
  <2>2. v \in EnvSet /\ v.inserted = s.env.inserted /\ v.reconnected
    BY <1>1 DEF EnvSet
  <2> HIDE DEF v
  <2> QED BY <2>1, <2>2, EnvChanges DEF Counts
<1>6. CASE t = [s EXCEPT !.env.rotated = TRUE]
  <2> DEFINE v == [s.env EXCEPT !.rotated = TRUE]
  <2>1. t = [s EXCEPT !.env = v] BY <1>1, <1>6 DEF StateSet
  <2>2. v \in EnvSet /\ v.inserted = s.env.inserted /\ v.reconnected = s.env.reconnected
    BY <1>1 DEF EnvSet
  <2> HIDE DEF v
  <2> QED BY <2>1, <2>2, EnvChanges DEF Counts
<1> QED BY <1>2, <1>3, <1>4, <1>5, <1>6

(* The flush waits, or a writer less is to be tried.                       *)
LEMMA JournalCounts ==
  ASSUME NEW s, Sound(s), NEW t,
         \/ t = [s EXCEPT !.jour.flush = "waiting"] /\ ~Writing(s)
         \/ t = [s EXCEPT !.jour.next = @ - 1] /\ s.jour.next > 0
  PROVE  Keeps(s, t) /\ t.wr = s.wr /\ t.env = s.env /\ t.mig = s.mig
         /\ t.jour.index = s.jour.index /\ t.jour.writer = s.jour.writer
<1>1. s \in StateSet /\ s.jour \in JournalerSet BY Types DEF Sound, ControlOK
<1>2. PICK j \in JournalerSet :
        /\ t = [s EXCEPT !.jour = j]
        /\ j.writer = s.jour.writer /\ j.index = s.jour.index /\ j.cache = s.jour.cache
        /\ j.fetched = s.jour.fetched /\ j.by = s.jour.by
        /\ j.flush = "writing" <=> s.jour.flush = "writing"
  <2>1. CASE t = [s EXCEPT !.jour.flush = "waiting"] /\ ~Writing(s)
    <3> DEFINE j == [s.jour EXCEPT !.flush = "waiting"]
    <3>1. t = [s EXCEPT !.jour = j] BY <1>1, <2>1 DEF StateSet
    <3>2. /\ j \in JournalerSet /\ j.writer = s.jour.writer /\ j.index = s.jour.index
          /\ j.cache = s.jour.cache /\ j.fetched = s.jour.fetched /\ j.by = s.jour.by
          /\ j.flush # "writing" /\ s.jour.flush # "writing"
      BY <1>1, <2>1 DEF JournalerSet, Writing
    <3> HIDE DEF j
    <3> QED BY <3>1, <3>2
  <2>2. CASE t = [s EXCEPT !.jour.next = @ - 1] /\ s.jour.next > 0
    <3> DEFINE j == [s.jour EXCEPT !.next = s.jour.next - 1]
    <3>0. s.jour.next - 1 \in Nat
      <4>1. s.jour.next \in Nat BY <1>1 DEF JournalerSet
      <4> QED BY <2>2, <4>1
    <3>1. t = [s EXCEPT !.jour = j] BY <1>1, <2>2 DEF StateSet
    <3>2. /\ j \in JournalerSet /\ j.writer = s.jour.writer /\ j.index = s.jour.index
          /\ j.cache = s.jour.cache /\ j.fetched = s.jour.fetched /\ j.by = s.jour.by
          /\ j.flush = s.jour.flush
      BY <1>1, <3>0 DEF JournalerSet
    <3> HIDE DEF j
    <3> QED BY <3>1, <3>2
  <2> QED BY <2>1, <2>2
<1>3. /\ t \in StateSet /\ t.wr = s.wr /\ t.store = s.store /\ t.mig = s.mig /\ t.jour = j
      /\ t.env = s.env
  BY <1>1, <1>2 DEF StateSet
<1>4. Frame(s, t) BY <1>2, <1>3 DEF Frame
<1>5. GoesOn(s, t) BY <1>2, <1>3 DEF GoesOn, Writing
<1>6. FlushOK(t) BY <1>2, <1>3 DEF Sound, ControlOK, FlushOK, Writing
<1> QED BY <1>2, <1>3, <1>4, <1>5, <1>6, JournalChanges DEF Flow

(* The connection of a proxy is lost.                                      *)
LEMMA CutOffKeeps ==
  ASSUME NEW s, Sound(s), NEW i \in 1..Len(s.wr), s.wr[i].kind = "proxy",
         NEW t, t = [s EXCEPT !.wr = [s.wr EXCEPT ![i] = CutOff(s.wr[i])]]
  PROVE  Keeps(s, t)
<1> DEFINE w == s.wr[i]
           v == CutOff(w)
           f == [op \in Ops |-> IF w.ops[op] = "none" THEN "none" ELSE "waiting"]
<1>1. w \in WriterSet /\ WriterOK(w) /\ FlushOK(s) BY Types DEF Sound, ControlOK
<1>2. f \in [Ops -> OpPhases] BY DEF OpPhases
<1>3. v = [w EXCEPT !.fetched = 0, !.state = "disconnected", !.opening = 0, !.queue = <<>>,
                    !.ops = f]
  BY <1>1 DEF CutOff, Rollback, WriterSet
<1>4. \A op \in Ops : f[op] \in {"none", "waiting"} /\ (f[op] = "none" <=> w.ops[op] = "none")
  OBVIOUS
<1> HIDE DEF w, f, v
<1>5. <<>> \in Seq(Ops) OBVIOUS
<1>6. /\ v \in WriterSet /\ v.target = w.target /\ v.kind = w.kind /\ v.cache = w.cache
      /\ v.fetched = 0 /\ v.opening = 0 /\ v.queue = <<>> /\ v.ops = f /\ v.delayed = w.delayed
  BY <1>1, <1>2, <1>3, <1>5 DEF WriterSet, Links
<1>7. OneWorks(v) BY <1>4, <1>6 DEF OneWorks, Working
<1>8. InTurn(v)
  <2>1. \A op \in Ops : v.ops[op] # "queued" BY <1>4, <1>6
  <2>2. v.queue = <<>> /\ Len(v.queue) = 0 BY <1>6
  <2>3. 1..Len(v.queue) = {} BY <2>2
  <2> QED BY <2>1, <2>2, <2>3 DEF InTurn
<1>9. "open" \in Ops /\ "insert" \in Ops BY DEF Ops
<1>10. WriterOK(v)
  <2>1. Len(v.cache) \in Nat /\ 0 <= Len(v.cache) BY <1>6 DEF WriterSet
  <2>2. v.kind = "proxy" BY <1>6 DEF w
  <2>3. w.ops["open"] = "none" BY <1>1, <1>6, <2>2 DEF WriterOK
  <2>4. v.ops["open"] = "none" BY <1>4, <1>6, <1>9, <2>3
  <2> QED BY <1>1, <1>6, <1>7, <1>8, <2>1, <2>4 DEF WriterOK
<1>11. v.ops["insert"] # "none" => Writing(s) /\ s.jour.by = i
  BY <1>1, <1>4, <1>6, <1>9 DEF FlushOK, w
<1>12. t = [s EXCEPT !.wr = [@ EXCEPT ![i] = v]] BY DEF v, w
<1> QED BY <1>6, <1>10, <1>11, <1>12, WriterChanges DEF w

(* A batch is on its way.                                                  *)
LEMMA WriterInserts ==
  ASSUME NEW w \in WriterSet, WriterOK(w), NEW op \in Ops, w.ops[op] = "started",
         NEW v, v = WriterPhase(w, op, "inserting")
  PROVE  /\ v \in WriterSet /\ WriterOK(v) /\ v.target = w.target /\ v.kind = w.kind
         /\ v.cache = w.cache /\ v.ops[op] = "inserting"
         /\ \A o \in Ops : o # op => v.ops[o] = w.ops[o]
<1> DEFINE f == [w.ops EXCEPT ![op] = "inserting"]
<1>1. w.ops \in [Ops -> OpPhases] BY DEF WriterSet
<1>2. f \in [Ops -> OpPhases] /\ f[op] = "inserting" /\ \A o \in Ops : o # op => f[o] = w.ops[o]
  BY <1>1 DEF OpPhases
<1>3. v = [w EXCEPT !.ops = f] BY DEF WriterPhase, WriterSet
<1> HIDE DEF f
<1>4. /\ v \in WriterSet /\ v.target = w.target /\ v.kind = w.kind /\ v.cache = w.cache
      /\ v.fetched = w.fetched /\ v.opening = w.opening /\ v.queue = w.queue /\ v.ops = f
      /\ v.delayed = w.delayed
  BY <1>2, <1>3 DEF WriterSet
<1>5. \A o \in Ops : /\ v.ops[o] \in Working <=> w.ops[o] \in Working
                     /\ v.ops[o] = "queued" <=> w.ops[o] = "queued"
                     /\ v.ops[o] = "none" <=> w.ops[o] = "none"
  BY <1>2, <1>4 DEF Working
<1>6. OneWorks(v) BY <1>5 DEF WriterOK, OneWorks
<1>7. InTurn(v) BY <1>4, <1>5 DEF WriterOK, InTurn
<1>8. "open" \in Ops BY DEF Ops
<1>9. WriterOK(v) BY <1>4, <1>5, <1>6, <1>7, <1>8 DEF WriterOK
<1> QED BY <1>2, <1>4, <1>9

LEMMA InsertStarts ==
  ASSUME NEW s, Sound(s), NEW i \in 1..Len(s.wr), NEW op \in Ops, s.wr[i].ops[op] = "started",
         NEW t, t = Put(s, i, op, "inserting")
  PROVE  Keeps(s, t)
<1> DEFINE w == s.wr[i]
           v == WriterPhase(w, op, "inserting")
<1>1. s \in StateSet /\ w \in WriterSet /\ WriterOK(w) /\ FlushOK(s) /\ s.wr \in Seq(WriterSet)
  BY Types DEF Sound, ControlOK
<1>2. t = [s EXCEPT !.wr = [@ EXCEPT ![i] = v]]
  BY <1>1 DEF Put, WriterPhase, StateSet, WriterSet
<1> HIDE DEF v
<1>3. /\ v \in WriterSet /\ WriterOK(v) /\ v.target = w.target /\ v.kind = w.kind
      /\ v.cache = w.cache /\ v.ops[op] = "inserting"
      /\ \A o \in Ops : o # op => v.ops[o] = w.ops[o]
  BY <1>1, WriterInserts DEF v
<1>4. v.ops["insert"] # "none" => Writing(s) /\ s.jour.by = i
  <2>1. "insert" \in Ops BY DEF Ops
  <2>2. w.ops["insert"] # "none" => Writing(s) /\ s.jour.by = i BY <1>1 DEF FlushOK
  <2> QED BY <1>3, <2>1, <2>2
<1> QED BY <1>2, <1>3, <1>4, WriterChanges

(* What was fetched is rolled back, or is about to be written.             *)
WithFetched(s, i, x) ==
  [s EXCEPT !.wr = [s.wr EXCEPT ![i] = [s.wr[i] EXCEPT !.fetched = x]]]
LEMMA FetchedSet ==
  ASSUME NEW s, Sound(s), NEW i \in 1..Len(s.wr), NEW x \in 0..Len(s.wr[i].cache),
         NEW t, t = WithFetched(s, i, x)
  PROVE  /\ Keeps(s, t) /\ t.env = s.env /\ t.jour = s.jour /\ t.wr[i].ops = s.wr[i].ops
         /\ t.wr[i].kind = s.wr[i].kind
<1> DEFINE v == [s.wr[i] EXCEPT !.fetched = x]
<1>1. \E y \in 0..Len(s.wr[i].cache) : v = [s.wr[i] EXCEPT !.fetched = y] OBVIOUS
<1>2. t = [s EXCEPT !.wr = [@ EXCEPT ![i] = v]] BY DEF WithFetched
<1> HIDE DEF v
<1>3. Keeps(s, t) /\ Only(s, t, i) /\ t.wr[i] = v /\ v.ops = s.wr[i].ops
  BY <1>1, <1>2, StateChanges
<1>4. t.wr[i].kind = s.wr[i].kind BY <1>3 DEF Keeps, Frame
<1> QED BY <1>3, <1>4 DEF Only

Fetching(s, i) == [s EXCEPT !.wr[i] = Fetch(@)]
LEMMA FetchedChanges ==
  ASSUME NEW s, Sound(s), NEW i \in 1..Len(s.wr), NEW t,
         t = Fetching(s, i) \/ t = RolledBack(s, i)
  PROVE  /\ Keeps(s, t) /\ t.env = s.env /\ t.jour = s.jour /\ t.wr[i].ops = s.wr[i].ops
         /\ t.wr[i].kind = s.wr[i].kind
<1>1. /\ s \in StateSet /\ s.wr[i] \in WriterSet /\ s.wr \in Seq(WriterSet)
      /\ s.wr[i].cache \in Seq(Nat) /\ Len(s.wr[i].cache) \in Nat
  BY Types DEF Sound, ControlOK
<1>2. 0 \in 0..Len(s.wr[i].cache) /\ Len(s.wr[i].cache) \in 0..Len(s.wr[i].cache) BY <1>1
<1>3. t = WithFetched(s, i, Len(s.wr[i].cache)) \/ t = WithFetched(s, i, 0)
  BY <1>1 DEF Fetching, Fetch, RolledBack, Rollback, WithFetched
<1> QED BY <1>2, <1>3, FetchedSet

(* reconnect_to_primary_writer() begins to move the entries.               *)
Beginning(s, old) ==
  [s EXCEPT !.mig = [stage |-> "open", from |-> old, to |-> Len(s.wr), n |-> 0]]
LEMMA MigrationBegins ==
  ASSUME NEW s, Sound(s), s.mig.to = 0, NEW old \in 1..Len(s.wr),
         s.env.reconnected, s.jour.writer = Len(s.wr),
         s.wr[old].target # s.wr[Len(s.wr)].target,
         NEW t, t = Beginning(s, old)
  PROVE  Sound(t) /\ t.wr = s.wr /\ t.jour = s.jour
<1> DEFINE m == [stage |-> "open", from |-> old, to |-> Len(s.wr), n |-> 0]
<1>1. s \in StateSet /\ Len(s.wr) \in Nat /\ old \in Nat BY Types DEF Sound, ControlOK
<1>2. m \in MigrationSet /\ m.stage = "open" /\ m.from = old /\ m.to = Len(s.wr)
  BY <1>1 DEF MigrationSet
<1> HIDE DEF m
<1>3. /\ t \in StateSet /\ t.wr = s.wr /\ t.store = s.store /\ t.mig = m /\ t.jour = s.jour
      /\ t.env = s.env
  BY <1>1, <1>2 DEF StateSet, Beginning, m
<1>4. ControlOK(t) BY <1>3 DEF Sound, ControlOK, FlushOK, Writing
<1>5. Early(s) /\ ~Left(s) BY DEF Early, Left
<1>6. StoredIn(t) = StoredIn(s) /\ (Writing(t) <=> Writing(s)) BY <1>3 DEF StoredIn, Writing
<1>7. Len(s.wr) # 0 /\ Len(s.wr) \in 1..Len(s.wr) BY <1>1
<1>8. MoveOK(t)
  <2>1. Source(t) = s.wr[old].target BY <1>2, <1>3 DEF Source
  <2>2. t.mig.to = Len(s.wr) /\ t.mig.from = old /\ t.mig.stage = "open" BY <1>2, <1>3
  <2> QED BY <1>3, <1>7, <2>1, <2>2 DEF MoveOK
<1>9. Inside(t) BY <1>3 DEF Sound, DataOK, Inside
<1>10. EntriesOK(s) BY <1>5 DEF Sound, DataOK
<1>11. KeptIn(t) /\ FetchedOK(t) BY <1>3, <1>6, <1>10 DEF EntriesOK, KeptIn, Mistaken, FetchedOK
<1>12. EarlyOK(t) BY <1>2, <1>3, <1>5, <1>6, <1>7, <1>10 DEF EntriesOK, EarlyOK
<1>13. MovedOK(t) BY <1>2, <1>3 DEF MovedOK
<1>14. Sound(t) BY <1>4, <1>8, <1>9, <1>11, <1>12, <1>13 DEF Sound, DataOK, EntriesOK
<1> QED BY <1>3, <1>14

LEMMA MakesFine ==
  ASSUME NEW s, Fine(s), Len(s.wr) < MaxWriters, NEW t, t = UseNextWriter(s)
  PROVE  Fine(t)
<1>1. /\ Sound(t) /\ Len(t.wr) = Len(s.wr) + 1 /\ t.jour.writer = Len(s.wr) + 1
      /\ t.jour.index \in 1..Len(Targets) /\ t.wr[Len(s.wr) + 1].target = t.jour.index
  BY UsesNext DEF Fine
<1>2. Len(s.wr) \in Nat BY Types DEF Fine, Sound, ControlOK
<1>3. Len(Targets) \in Nat BY TargetsAssumption
<1>4. t.jour.index <= Len(Targets) /\ Len(t.wr) <= MaxWriters
  BY <1>1, <1>2, <1>3, BoundsAssumption
<1>5. IndexOK(t) BY <1>1, <1>4 DEF IndexOK
<1> QED BY <1>1, <1>5 DEF Fine

LEMMA CountsFine ==
  ASSUME NEW s, Fine(s), NEW t, Counts(s, t)
  PROVE  Fine(t)
BY KeepsFine DEF Counts

LEMMA InsertEntryFine ==
  ASSUME Fine(State), InsertEntry
  PROVE  Fine(State)'
<1>1. PICK s : s = State OBVIOUS
<1>2. Sound(s) /\ s.env = env BY <1>1 DEF State, Fine
<1> DEFINE c == [s EXCEPT !.env.inserted = s.env.inserted + 1,
                          !.jour = Add(@, <<s.env.inserted + 1>>),
                          !.jour.waits = @ \cup {s.env.inserted + 1}]
           t == ScheduleFlush(c)
<1>3. s.env.inserted < MaxEntries /\ Become(t) BY <1>1, <1>2 DEF InsertEntry
<1>4. Sound(c) /\ c.wr = s.wr /\ c.jour.index = s.jour.index /\ c.jour.writer = s.jour.writer
  BY <1>2, <1>3, Inserts
<1> HIDE DEF c
<1>5. Keeps(c, t) BY <1>4, Scheduled
<1>6. Same(s, c) BY <1>4 DEF Same
<1>7. Fine(c) BY <1>1, <1>4, <1>6, SameFine
<1>8. Fine(t) BY <1>5, <1>7, KeepsFine
<1> QED BY <1>3, <1>8, Becomes

LEMMA TakeRoleFine ==
  ASSUME Fine(State), TakeRole
  PROVE  Fine(State)'
<1> DEFINE s == [State EXCEPT !.env.roles = Tail(@)]
           i == Len(wr) + 1
<1>1. State.env = env /\ State.wr = wr /\ State.jour = jour BY DEF State
<1>2. env.roles # <<>> /\ jour.writer = 0 /\ Len(wr) < MaxWriters BY DEF TakeRole
<1>3. Counts(State, s) BY <1>1, <1>2, Counted DEF Fine
<1>4. \/ Become(UseNextWriter(s))
      \/ Become(ConfigureWith(Initiate(MakeWriter(s, Master), i), i))
  BY DEF TakeRole
<1> HIDE DEF s
<1>5. Fine(s) /\ s.wr = wr /\ s.jour = jour BY <1>1, <1>3, CountsFine DEF Counts
<1>6. ASSUME Become(UseNextWriter(s)) PROVE Fine(State)'
  <2>1. Fine(UseNextWriter(s)) BY <1>2, <1>5, MakesFine
  <2> QED BY <1>6, <2>1, Becomes
<1>7. ASSUME Become(ConfigureWith(Initiate(MakeWriter(s, Master), i), i)) PROVE Fine(State)'
  <2> DEFINE a == MakeWriter(s, Master)
             b == Initiate(a, i)
             t == ConfigureWith(b, i)
  <2>1. Master \in 1..Master
    <3>1. Len(Targets) \in Nat BY TargetsAssumption
    <3> QED BY <3>1 DEF Master
  <2>2. /\ Sound(a) /\ a.jour = s.jour /\ a.env = s.env /\ a.mig = s.mig
        /\ Len(a.wr) = Len(s.wr) + 1 /\ a.wr[Len(s.wr) + 1] = NewWriter(Master)
        /\ (\A k \in 1..Len(s.wr) : a.wr[k] = s.wr[k])
        /\ (s.mig.to # 0 => Left(a)) /\ a.store = s.store
    BY <1>5, <2>1, Makes DEF Fine
  <2> HIDE DEF a
  <2>3. Len(s.wr) \in Nat /\ i = Len(s.wr) + 1 /\ i \in 1..Len(a.wr)
    <3>1. Len(s.wr) \in Nat BY <1>5, Types DEF Fine, Sound, ControlOK
    <3> QED BY <1>5, <2>2, <3>1
  <2> HIDE DEF i
  <2>4. a.wr[i].opening = 0 /\ a.wr[i].ops["open"] = "none" /\ a.wr[i].kind = "proxy"
    BY <2>2, <2>3 DEF NewWriter, Ops
  <2>5. Keeps(a, b) /\ Only(a, b, i) BY <2>2, <2>3, <2>4, InitiateKeeps
  <2> HIDE DEF b
  <2>6. /\ Sound(b) /\ Len(b.wr) = Len(a.wr) /\ b.mig = a.mig /\ b.jour = a.jour
        /\ b.wr[i].kind = "proxy"
    BY <2>3, <2>4, <2>5 DEF Keeps, Frame, Only
  <2>7. b.mig.to # 0 => Left(b) BY <2>2, <2>6 DEF Left
  <2>8. /\ Sound(t) /\ t.wr = b.wr /\ t.jour.index = b.jour.index
        /\ t.jour.writer \in {b.jour.writer, i}
    BY <2>3, <2>6, <2>7, Configures
  <2>9. t.jour.writer \in {0, i} /\ t.jour.index = s.jour.index /\ Len(t.wr) = Len(s.wr) + 1
        /\ t.wr[i].kind = "proxy"
    BY <1>2, <1>5, <2>2, <2>6, <2>8
  <2>10. IndexOK(t) BY <1>2, <1>5, <2>3, <2>9, BoundsAssumption DEF IndexOK, Fine
  <2> HIDE DEF t
  <2>11. Fine(t) BY <2>8, <2>10 DEF Fine
  <2> QED BY <1>7, <2>11, Becomes DEF t, b, a
<1> QED BY <1>4, <1>6, <1>7

LEMMA BrokerLostFine ==
  ASSUME Fine(State), BrokerLost
  PROVE  Fine(State)'
<1> DEFINE i == jour.writer
           s == [State EXCEPT !.env.faults = @ + 1]
           c == [s EXCEPT !.wr = [s.wr EXCEPT ![i] = CutOff(s.wr[i])]]
           t == Disconnected(c)
<1>1. /\ State.wr = wr /\ State.jour = jour /\ State \in StateSet /\ Len(wr) \in Nat
      /\ jour.writer \in Nat /\ jour.writer <= Len(wr) /\ State.env \in EnvSet
  BY Types DEF State, Fine, Sound, ControlOK, FlushOK
<1>2. i \in 1..Len(wr) /\ wr[i].kind = "proxy" BY <1>1 DEF BrokerLost
<1>3. Become(t)
  <2>1. Become(Disconnected([State EXCEPT !.env.faults = @ + 1, !.wr[i] = CutOff(@)]))
    BY DEF BrokerLost
  <2>2. [State EXCEPT !.env.faults = @ + 1, !.wr[i] = CutOff(@)] = c BY DEF State
  <2> QED BY <2>1, <2>2
<1>4. Counts(State, s) BY Counted DEF Fine
<1> HIDE DEF s
<1>5. Fine(s) /\ s.wr = wr BY <1>1, <1>4, CountsFine DEF Counts
<1> HIDE DEF i
<1>6. Keeps(s, c) BY <1>2, <1>5, CutOffKeeps DEF Fine
<1> HIDE DEF c
<1>7. Fine(c) BY <1>5, <1>6, KeepsFine
<1>8. Keeps(c, t) BY <1>7, Unused DEF Fine
<1>9. Fine(t) BY <1>7, <1>8, KeepsFine
<1> QED BY <1>3, <1>9, Becomes

LEMMA CloseJournalerFine ==
  ASSUME Fine(State), CloseJournaler
  PROVE  Fine(State)'
<1> DEFINE r == [State EXCEPT !.env.closed = TRUE]
           s == [r EXCEPT !.jour.closing = jour.writer]
<1>1. /\ State.wr = wr /\ State.jour = jour /\ Len(wr) \in Nat
      /\ jour.writer \in Nat /\ jour.writer <= Len(wr)
  BY Types DEF State, Fine, Sound, ControlOK, FlushOK
<1>2. PICK flush \in BOOLEAN :
        Become(IF jour.writer = 0 THEN Disconnected(s) ELSE CloseWriter(s, jour.writer, flush))
  <2>1. s = [State EXCEPT !.env.closed = TRUE, !.jour.closing = jour.writer] BY DEF State
  <2> HIDE DEF s
  <2> QED BY <2>1 DEF CloseJournaler
<1>3. jour.writer # 0 => wr[jour.writer].ops["close"] = "none" BY DEF CloseJournaler
<1>4. Counts(State, r) BY Counted DEF Fine
<1> HIDE DEF r
<1>5. Fine(r) /\ r.wr = wr BY <1>1, <1>4, CountsFine DEF Counts
<1>6. Keeps(r, s) /\ s.wr = r.wr BY <1>1, <1>5, ClosingSet DEF Fine
<1> HIDE DEF s
<1>7. Fine(s) /\ s.wr = wr BY <1>5, <1>6, KeepsFine
<1>8. CASE jour.writer = 0
  <2>1. Keeps(s, Disconnected(s)) BY <1>7, Unused DEF Fine
  <2>2. Fine(Disconnected(s)) BY <1>7, <2>1, KeepsFine
  <2> QED BY <1>2, <1>8, <2>2, Becomes
<1>9. CASE jour.writer # 0
  <2>1. jour.writer \in 1..Len(s.wr) BY <1>1, <1>7, <1>9
  <2>2. Keeps(s, CloseWriter(s, jour.writer, flush))
    BY <1>3, <1>7, <1>9, <2>1, CloseKeeps DEF Fine
  <2>3. Fine(CloseWriter(s, jour.writer, flush)) BY <1>7, <2>2, KeepsFine
  <2> QED BY <1>2, <1>9, <2>3, Becomes
<1> QED BY <1>8, <1>9

LEMMA ReconnectFine ==
  ASSUME Fine(State), Reconnect
  PROVE  Fine(State)'
<1> DEFINE old == jour.writer
           r == [State EXCEPT !.env.reconnected = TRUE]
           s == [r EXCEPT !.jour.writer = 0,
                          !.jour.state = IF old = 0 THEN @ ELSE "disconnected"]
           c == UseNextWriter(s)
           d == [c EXCEPT !.mig = [stage |-> "open", from |-> old, to |-> Len(c.wr), n |-> 0]]
<1>1. /\ State.wr = wr /\ State.jour = jour /\ State.env = env /\ State.mig = mig
      /\ jour \in JournalerSet /\ jour.writer \in Nat /\ jour.writer <= Len(wr) /\ Len(wr) \in Nat
      /\ State \in StateSet
  BY Types DEF State, Fine, Sound, ControlOK, FlushOK
<1>2. /\ ~env.reconnected /\ jour.index > 1 /\ Len(wr) < MaxWriters
      /\ Become(IF old = 0 \/ wr[old].kind # "sqlite" THEN c ELSE d)
  <2>1. s = [State EXCEPT !.env.reconnected = TRUE, !.jour.writer = 0,
                          !.jour.state = IF old = 0 THEN @ ELSE "disconnected"]
    BY DEF State
  <2> HIDE DEF s
  <2> QED BY <2>1 DEF Reconnect
<1>3. mig.to = 0 BY <1>1, <1>2 DEF Fine, Sound, DataOK, MoveOK
<1>4. Counts(State, r) BY Counted DEF Fine
<1>5. r.env.reconnected BY <1>1 DEF StateSet, EnvSet, State
<1> HIDE DEF r
<1>6. Fine(r) /\ r.wr = wr /\ r.jour = jour /\ r.mig = mig
  BY <1>1, <1>4, CountsFine DEF Counts
<1>7. /\ Keeps(r, s) /\ s.wr = r.wr /\ s.env = r.env /\ s.mig = r.mig
      /\ s.jour.index = r.jour.index
  <2> DEFINE j == [jour EXCEPT !.writer = 0,
                               !.state = IF old = 0 THEN jour.state ELSE "disconnected"]
  <2>1. r \in StateSet BY <1>6 DEF Fine, Sound, ControlOK
  <2>2. s = [r EXCEPT !.jour = j] BY <1>6, <2>1 DEF StateSet
  <2>3. /\ j \in JournalerSet /\ j.writer = 0 /\ j.index = jour.index /\ j.cache = jour.cache
        /\ j.fetched = jour.fetched /\ j.by = jour.by /\ j.flush = jour.flush
    BY <1>1 DEF JournalerSet, Links
  <2> HIDE DEF j
  <2>4. /\ s \in StateSet /\ s.wr = r.wr /\ s.store = r.store /\ s.mig = r.mig /\ s.jour = j
        /\ s.env = r.env
    BY <2>1, <2>2, <2>3 DEF StateSet
  <2> HIDE DEF s
  <2>5. Frame(r, s) BY <1>6, <2>3, <2>4 DEF Frame
  <2>6. GoesOn(r, s) BY <1>6, <2>3, <2>4 DEF GoesOn, Writing
  <2>7. FlushOK(r) BY <1>6 DEF Fine, Sound, ControlOK
  <2>8. 0 <= Len(r.wr) BY <1>1, <1>6
  <2>9. FlushOK(s) BY <1>6, <2>3, <2>4, <2>7, <2>8 DEF FlushOK, Writing
  <2> QED BY <1>6, <2>3, <2>4, <2>5, <2>6, <2>9, JournalChanges DEF Flow, Fine
<1> HIDE DEF s
<1>8. Fine(s) /\ Len(s.wr) = Len(wr) BY <1>6, <1>7, KeepsFine
<1>9. Fine(c) BY <1>2, <1>8, MakesFine
<1>10. /\ Sound(c) /\ Len(c.wr) = Len(s.wr) + 1 /\ c.mig.to = 0 /\ c.jour.writer = Len(c.wr)
       /\ c.env.reconnected /\ c.jour.index = (jour.index % Len(Targets)) + 1
       /\ c.wr[Len(c.wr)].target = c.jour.index
       /\ \A k \in 1..Len(s.wr) : c.wr[k].target = s.wr[k].target
  BY <1>3, <1>5, <1>6, <1>7, <1>8, UsesNext DEF Fine
<1> HIDE DEF c
<1>11. CASE old = 0 \/ wr[old].kind # "sqlite" BY <1>2, <1>9, <1>11, Becomes
<1>12. CASE old # 0 /\ wr[old].kind = "sqlite"
  <2>1. old \in 1..Len(wr) /\ old \in 1..Len(c.wr) BY <1>1, <1>8, <1>10, <1>12
  <2>2. wr[old].target = jour.index BY <1>1, <1>12 DEF Fine, IndexOK
  <2>3. jour.index \in Nat /\ jour.index <= Len(Targets) /\ Len(Targets) \in Nat
    BY <1>1, TargetsAssumption DEF Fine, IndexOK, JournalerSet
  <2>4. (jour.index % Len(Targets)) + 1 # jour.index
    <3>1. CASE jour.index < Len(Targets)
      <4>1. jour.index % Len(Targets) = jour.index BY <2>3, <3>1
      <4> QED BY <2>3, <4>1
    <3>2. CASE jour.index = Len(Targets)
      <4>1. jour.index % Len(Targets) = 0 BY <1>2, <2>3, <3>2
      <4> QED BY <1>2, <2>3, <4>1
    <3> QED BY <2>3, <3>1, <3>2
  <2>5. c.wr[old].target = wr[old].target BY <1>6, <1>7, <1>10, <2>1
  <2>a. c.wr[old].target # c.wr[Len(c.wr)].target BY <1>10, <2>2, <2>4, <2>5
  <2>b. d = Beginning(c, old) BY DEF Beginning
  <2> HIDE DEF d, old
  <2>6. Sound(d) /\ d.wr = c.wr /\ d.jour = c.jour
    BY <1>10, <2>1, <2>a, <2>b, MigrationBegins
  <2>7. IndexOK(d) BY <1>9, <2>6 DEF Fine, IndexOK
  <2>8. Fine(d) BY <2>6, <2>7 DEF Fine
  <2> QED BY <1>2, <1>12, <2>8, Becomes
<1> QED BY <1>11, <1>12

LEMMA FlushFine ==
  ASSUME Fine(State), Flush
  PROVE  Fine(State)'
<1>1. State.jour = jour BY DEF State
<1>2. ASSUME Become(WriteFetched(State)), jour.flush \in {"due", "woken"} PROVE Fine(State)'
  <2> DEFINE t == WriteFetched(State)
  <2>1. ~Writing(State) BY <1>1, <1>2 DEF Writing
  <2>2. Sound(t) /\ Same(State, t) BY <2>1, Written DEF Fine, Same
  <2>3. Fine(t) BY <2>2, SameFine
  <2> QED BY <1>2, <2>3, Becomes
<1>3. ASSUME Become([State EXCEPT !.jour.flush = "waiting"]), jour.flush = "due"
      PROVE  Fine(State)'
  <2> DEFINE t == [State EXCEPT !.jour.flush = "waiting"]
  <2>1. ~Writing(State) BY <1>1, <1>3 DEF Writing
  <2>2. Keeps(State, t) BY <2>1, JournalCounts DEF Fine
  <2>3. Fine(t) BY <2>2, KeepsFine
  <2> QED BY <1>3, <2>3, Becomes
<1> QED BY <1>2, <1>3 DEF Flush

LEMMA NextWriterFine ==
  ASSUME Fine(State), NextWriter
  PROVE  Fine(State)'
<1> DEFINE s == [State EXCEPT !.jour.next = @ - 1]
<1>1. State.jour = jour /\ State.wr = wr BY DEF State
<1>2. jour.next > 0 /\ Len(wr) < MaxWriters /\ Become(UseNextWriter(s)) BY DEF NextWriter
<1>3. Keeps(State, s) /\ s.wr = State.wr BY <1>1, <1>2, JournalCounts DEF Fine
<1> HIDE DEF s
<1>4. Fine(s) BY <1>3, KeepsFine
<1>5. Fine(UseNextWriter(s)) BY <1>1, <1>2, <1>3, <1>4, MakesFine
<1> QED BY <1>2, <1>5, Becomes

LEMMA MigrateFine ==
  ASSUME Fine(State), Migrate
  PROVE  Fine(State)'
<1>1. State.mig = mig /\ State.wr = wr /\ State.jour = jour BY DEF State
<1>2. ASSUME mig.stage = "open", Become([State EXCEPT !.mig.stage = "read"]) PROVE Fine(State)'
  <2> DEFINE t == [State EXCEPT !.mig.stage = "read"]
  <2>1. Keeps(State, t) BY <1>1, <1>2, StageChanges DEF Fine
  <2>2. Fine(t) BY <2>1, KeepsFine
  <2> QED BY <1>2, <2>2, Becomes
<1>3. ASSUME mig.stage = "read", wr[mig.from].ops["close"] = "none", Become(MigrateRead(State))
      PROVE  Fine(State)'
  <2> DEFINE t == MigrateRead(State)
  <2>1. Sound(t) /\ Same(State, t) BY <1>1, <1>3, Reads DEF Fine, Same
  <2>2. Fine(t) BY <2>1, SameFine
  <2> QED BY <1>3, <2>2, Becomes
<1>4. ASSUME mig.stage = "delete", Become(MigrateDelete(State)) PROVE Fine(State)'
  <2> DEFINE t == MigrateDelete(State)
  <2>1. Sound(t) /\ t.wr = State.wr /\ t.jour = State.jour BY <1>1, <1>4, Deletes DEF Fine
  <2>2. Same(State, t) BY <2>1 DEF Same
  <2>3. Fine(t) BY <2>1, <2>2, SameFine
  <2> QED BY <1>4, <2>3, Becomes
<1>5. ASSUME mig.stage = "skip", wr[mig.from].ops["close"] = "none",
             Become(CloseWriter([State EXCEPT !.mig.stage = "none"], mig.from, TRUE))
      PROVE  Fine(State)'
  <2> DEFINE c == [State EXCEPT !.mig.stage = "none"]
             t == CloseWriter(c, mig.from, TRUE)
  <2>1. Keeps(State, c) /\ c.wr = wr BY <1>1, <1>5, StageChanges DEF Fine
  <2>2. Fine(c) BY <2>1, KeepsFine
  <2>3. mig.from \in 1..Len(wr) BY <1>1, <1>5 DEF Fine, Sound, DataOK, MoveOK
  <2> HIDE DEF c
  <2>4. Sound(c) /\ mig.from \in 1..Len(c.wr) /\ c.wr[mig.from].ops["close"] = "none"
    BY <1>5, <2>1, <2>2, <2>3 DEF Fine
  <2>5. Keeps(c, t) BY <2>4, CloseKeeps
  <2>6. Fine(t) BY <2>2, <2>5, KeepsFine
  <2> QED BY <1>5, <2>6, Becomes DEF c
<1> QED BY <1>2, <1>3, <1>4, <1>5 DEF Migrate

LEMMA RotateFine ==
  ASSUME Fine(State), NEW i \in DOMAIN wr, Rotate(i)
  PROVE  Fine(State)'
<1> DEFINE s == [State EXCEPT !.env.rotated = TRUE]
           c == CloseWriter(s, i, TRUE)
           t == Initiate(c, i)
<1>1. State.wr = wr /\ DOMAIN wr = 1..Len(wr) /\ State \in StateSet
  BY Types DEF State, Fine, Sound, ControlOK
<1>2. /\ wr[i].kind = "sqlite" /\ wr[i].opening = 0 /\ wr[i].ops["open"] = "none"
      /\ wr[i].ops["close"] = "none" /\ Become(t)
  BY DEF Rotate
<1>3. Counts(State, s) BY Counted DEF Fine
<1> HIDE DEF s
<1>4. Fine(s) /\ s.wr = wr /\ i \in 1..Len(s.wr) BY <1>1, <1>3, CountsFine DEF Counts
<1>5. Keeps(s, c) /\ AllStill(s, c) BY <1>2, <1>4, CloseKeeps DEF Fine
<1> HIDE DEF c
<1>6. Fine(c) BY <1>4, <1>5, KeepsFine
<1>7. i \in 1..Len(c.wr) BY <1>4, <1>5 DEF Keeps, Frame
<1>8. c.wr[i].opening = 0 /\ c.wr[i].ops["open"] = "none"
  BY <1>2, <1>4, <1>5 DEF AllStill, Still
<1>9. Keeps(c, t) BY <1>6, <1>7, <1>8, InitiateKeeps DEF Fine
<1>10. Fine(t) BY <1>6, <1>9, KeepsFine
<1> QED BY <1>2, <1>10, Becomes

LEMMA CloseDroppedFine ==
  ASSUME Fine(State), NEW i \in DOMAIN wr, CloseDropped(i)
  PROVE  Fine(State)'
<1> DEFINE v == [wr[i] EXCEPT !.dropped = FALSE]
           s == [State EXCEPT !.wr = [@ EXCEPT ![i] = v]]
           t == CloseWriter(s, i, FALSE)
<1>1. State.wr = wr /\ DOMAIN wr = 1..Len(wr) /\ State \in StateSet
  BY Types DEF State, Fine, Sound, ControlOK
<1>2. Become(t)
  <2>1. s = [State EXCEPT !.wr[i].dropped = FALSE] BY DEF State
  <2> HIDE DEF s
  <2> QED BY <2>1 DEF CloseDropped
<1>3. \E x \in BOOLEAN : v = [State.wr[i] EXCEPT !.dropped = x] BY <1>1
<1> HIDE DEF v
<1>4. Keeps(State, s) BY <1>1, <1>3, StateChanges DEF Fine
<1> HIDE DEF s
<1>5. Fine(s) BY <1>4, KeepsFine
<1>6. i \in 1..Len(s.wr) BY <1>1, <1>4 DEF Keeps, Frame
<1>7. Keeps(s, t) BY <1>5, <1>6, CloseKeeps DEF Fine
<1>8. Fine(t) BY <1>5, <1>7, KeepsFine
<1> QED BY <1>2, <1>8, Becomes

LEMMA OpenFine ==
  ASSUME Fine(State), NEW i \in DOMAIN wr, Open(i)
  PROVE  Fine(State)'
<1> DEFINE c == Connected(State, i)
           t == FlushNext(c, i, "open")
<1>1. State.wr = wr /\ DOMAIN wr = 1..Len(wr) BY Types DEF State, Fine, Sound, ControlOK
<1>2. wr[i].opening > 0 /\ Become(IF wr[i].kind = "proxy" THEN c ELSE t) BY DEF Open
<1>3. Keeps(State, c) /\ (wr[i].kind # "proxy" => Hand(c, i, "open"))
  BY <1>1, <1>2, ConnectedKeeps DEF Fine
<1> HIDE DEF c
<1>4. Fine(c) BY <1>3, KeepsFine
<1>5. CASE wr[i].kind = "proxy" BY <1>2, <1>4, <1>5, Becomes
<1>6. CASE wr[i].kind # "proxy"
  <2>1. i \in 1..Len(c.wr) /\ "open" \in Ops BY <1>1, <1>3 DEF Keeps, Frame, Ops
  <2>2. Keeps(c, t) BY <1>3, <1>4, <1>6, <2>1, NextGoes DEF Goes, Fine
  <2>3. Fine(t) BY <1>4, <2>2, KeepsFine
  <2> QED BY <1>2, <1>6, <2>3, Becomes
<1> QED BY <1>5, <1>6

LEMMA OpenFailsFine ==
  ASSUME Fine(State), NEW i \in DOMAIN wr, OpenFails(i)
  PROVE  Fine(State)'
<1> DEFINE s == [State EXCEPT !.env.faults = @ + 1]
           t == ConnectionFailed(s, i)
<1>1. State.wr = wr /\ DOMAIN wr = 1..Len(wr) BY Types DEF State, Fine, Sound, ControlOK
<1>2. wr[i].opening > 0 /\ Become(t) BY DEF OpenFails
<1>3. Counts(State, s) BY Counted DEF Fine
<1> HIDE DEF s
<1>4. Fine(s) /\ s.wr = wr /\ i \in 1..Len(s.wr) BY <1>1, <1>3, CountsFine DEF Counts
<1>5. Keeps(s, t) BY <1>2, <1>4, ConnectionFails DEF Fine
<1>6. Fine(t) BY <1>4, <1>5, KeepsFine
<1> QED BY <1>2, <1>6, Becomes

LEMMA ReopenFine ==
  ASSUME Fine(State), NEW i \in DOMAIN wr, Reopen(i)
  PROVE  Fine(State)'
<1>1. State.wr = wr /\ DOMAIN wr = 1..Len(wr) BY Types DEF State, Fine, Sound, ControlOK
<1>2. wr[i].delayed /\ Become(Initiate(State, i)) BY DEF Reopen
<1>3. WriterOK(wr[i]) BY <1>1 DEF Fine, Sound, ControlOK
<1>4. wr[i].opening = 0 /\ wr[i].ops["open"] = "none" BY <1>2, <1>3 DEF WriterOK
<1>5. Keeps(State, Initiate(State, i)) BY <1>1, <1>4, InitiateKeeps DEF Fine
<1>6. Fine(Initiate(State, i)) BY <1>5, KeepsFine
<1> QED BY <1>2, <1>6, Becomes

LEMMA WokenFine ==
  ASSUME Fine(State), NEW i \in DOMAIN wr, NEW op \in Ops, Woken(i, op)
  PROVE  Fine(State)'
<1>1. State.wr = wr /\ State.jour = jour /\ DOMAIN wr = 1..Len(wr)
      /\ wr[i] \in WriterSet
  BY Types DEF State, Fine, Sound, ControlOK
<1>2. wr[i].ops[op] = "woken" /\ Become(FlushBody(State, i, op)) BY DEF Woken
<1>3. WriterOK(wr[i]) /\ FlushOK(State) BY <1>1 DEF Fine, Sound, ControlOK
<1>4. op = "insert" => Writing(State) /\ jour.by = i BY <1>1, <1>2, <1>3 DEF FlushOK
<1>5. op = "open" => wr[i].opening = 0 /\ ~wr[i].delayed /\ wr[i].kind # "proxy"
  <2>1. wr[i].opening \in {0, 1} BY <1>1 DEF WriterSet
  <2> QED BY <1>2, <1>3, <2>1 DEF WriterOK
<1>6. Hand(State, i, op) BY <1>1, <1>2, <1>4, <1>5 DEF Hand
<1>7. Keeps(State, FlushBody(State, i, op)) BY <1>1, <1>6, FlushGoes DEF Goes, Fine
<1>8. Fine(FlushBody(State, i, op)) BY <1>7, KeepsFine
<1> QED BY <1>2, <1>8, Becomes

LEMMA StartInsertFine ==
  ASSUME Fine(State), NEW i \in DOMAIN wr, NEW op \in Ops, StartInsert(i, op)
  PROVE  Fine(State)'
<1> DEFINE s == Fetching(State, i)
           t == Put(s, i, op, "inserting")
<1>1. State.wr = wr /\ DOMAIN wr = 1..Len(wr) BY Types DEF State, Fine, Sound, ControlOK
<1>2. wr[i].ops[op] = "started" /\ Become(t) BY DEF StartInsert, Fetching
<1>3. Keeps(State, s) /\ s.wr[i].ops = wr[i].ops BY <1>1, FetchedChanges DEF Fine
<1> HIDE DEF s
<1>4. Fine(s) /\ i \in 1..Len(s.wr) BY <1>1, <1>3, KeepsFine DEF Keeps, Frame
<1>5. Keeps(s, t) BY <1>2, <1>3, <1>4, InsertStarts DEF Fine
<1>6. Fine(t) BY <1>4, <1>5, KeepsFine
<1> QED BY <1>2, <1>6, Becomes

(* A batch was written, and the next operation may write.                  *)
LEMMA Advances ==
  ASSUME NEW s, Fine(s), NEW i \in 1..Len(s.wr), NEW op \in Ops, s.wr[i].ops[op] = "inserting",
         NEW t, t = FlushNext(Release(s, i, op), i, op)
  PROVE  Fine(t)
<1> DEFINE c == Release(s, i, op)
<1>1. Keeps(s, c) /\ Hand(c, i, op) BY ReleaseKeeps DEF Fine, Working
<1>2. t = FlushNext(c, i, op) OBVIOUS
<1> HIDE DEF c
<1>3. Fine(c) /\ i \in 1..Len(c.wr) BY <1>1, KeepsFine DEF Keeps, Frame
<1>4. Keeps(c, t) BY <1>1, <1>2, <1>3, NextGoes DEF Goes, Fine
<1> QED BY <1>3, <1>4, KeepsFine

LEMMA InsertedFine ==
  ASSUME Fine(State), NEW i \in DOMAIN wr, NEW op \in Ops, Inserted(i, op)
  PROVE  Fine(State)'
<1> DEFINE s == Stored(State, i)
           t == FlushNext(Release(s, i, op), i, op)
<1>1. /\ State.wr = wr /\ State.store = store /\ DOMAIN wr = 1..Len(wr) /\ State \in StateSet
      /\ wr[i].target \in 1..Master /\ store \in [1..Master -> Seq(Nat)]
  BY Types DEF State, Fine, Sound, ControlOK
<1>2. wr[i].ops[op] = "inserting" /\ Become(t) BY DEF Inserted
<1>3. s = Storing(State, i, Commit(wr[i]))
  BY <1>1 DEF Stored, Storing, StoreWith, State
<1>4. Sound(s) /\ Same(State, s) /\ s.wr[i].ops = wr[i].ops
  BY <1>1, <1>3, Stores DEF Fine, Same
<1> HIDE DEF s
<1>5. Fine(s) /\ i \in 1..Len(s.wr) BY <1>1, <1>4, SameFine DEF Same
<1>6. Fine(t) BY <1>2, <1>4, <1>5, Advances
<1> QED BY <1>2, <1>6, Becomes

LEMMA InsertFailsFine ==
  ASSUME Fine(State), NEW i \in DOMAIN wr, NEW op \in Ops, InsertFails(i, op)
  PROVE  Fine(State)'
<1> DEFINE r == [State EXCEPT !.env.faults = @ + 1]
           s == RolledBack(r, i)
           c == Release(s, i, op)
           t == OpFails(c, i, op)
<1>1. State.wr = wr /\ DOMAIN wr = 1..Len(wr) BY Types DEF State, Fine, Sound, ControlOK
<1>2. wr[i].ops[op] = "inserting" /\ Become(IF wr[i].kind = "proxy" THEN FlushNext(c, i, op) ELSE t)
  BY DEF InsertFails
<1>3. Counts(State, r) BY Counted DEF Fine
<1> HIDE DEF r
<1>4. Fine(r) /\ r.wr = wr /\ i \in 1..Len(r.wr) BY <1>1, <1>3, CountsFine DEF Counts
<1>5. Keeps(r, s) /\ s.wr[i].ops = wr[i].ops BY <1>4, FetchedChanges DEF Fine
<1> HIDE DEF s
<1>6. Fine(s) /\ i \in 1..Len(s.wr) /\ s.wr[i].ops[op] = "inserting"
  BY <1>2, <1>4, <1>5, KeepsFine DEF Keeps, Frame
<1>7. CASE wr[i].kind = "proxy"
  <2>1. Fine(FlushNext(c, i, op)) BY <1>6, Advances
  <2> QED BY <1>2, <1>7, <2>1, Becomes
<1>8. CASE wr[i].kind # "proxy"
  <2>1. Keeps(s, c) /\ Hand(c, i, op) /\ c.wr[i].ops[op] = "none"
    BY <1>6, ReleaseKeeps DEF Fine, Working
  <2> HIDE DEF c
  <2>2. Fine(c) /\ i \in 1..Len(c.wr) BY <1>6, <2>1, KeepsFine DEF Keeps, Frame
  <2>3. op = "insert" => Writing(c) /\ c.jour.by = i BY <2>1 DEF Hand
  <2>4. Keeps(c, t) BY <2>1, <2>2, <2>3, OpFailed DEF Fine
  <2>5. Fine(t) BY <2>2, <2>4, KeepsFine
  <2> QED BY <1>2, <1>8, <2>5, Becomes DEF c
<1> QED BY <1>7, <1>8

LEMMA InsertLateFine ==
  ASSUME Fine(State), NEW i \in DOMAIN wr, NEW op \in Ops, InsertLate(i, op)
  PROVE  Fine(State)'
<1> DEFINE r == [State EXCEPT !.env.faults = @ + 1]
           c == Storing(r, i, wr[i])
           s == RolledBack(c, i)
           t == FlushNext(Release(s, i, op), i, op)
<1>1. /\ State.wr = wr /\ State.store = store /\ DOMAIN wr = 1..Len(wr) /\ State \in StateSet
      /\ wr[i].target \in 1..Master /\ store \in [1..Master -> Seq(Nat)]
      /\ wr \in Seq(WriterSet)
  BY Types DEF State, Fine, Sound, ControlOK
<1>2. wr[i].ops[op] = "inserting" /\ wr[i].kind = "proxy" BY DEF InsertLate
<1>3. wr[i].target = Master
  <2>1. WriterOK(wr[i]) BY <1>1 DEF Fine, Sound, ControlOK
  <2>2. Targets \in Seq({"sqlite", "postgres"}) /\ Len(Targets) \in Nat BY TargetsAssumption
  <2>3. wr[i].target # Master => wr[i].target \in 1..Len(Targets) BY <1>1, <2>2 DEF Master
  <2>4. wr[i].target # Master => Targets[wr[i].target] \in {"sqlite", "postgres"}
    BY <2>2, <2>3
  <2> QED BY <1>2, <2>1, <2>4 DEF WriterOK
<1>4. Counts(State, r) BY Counted DEF Fine
<1>5. Become(t)
  <2> DEFINE d == [State EXCEPT !.env.faults = @ + 1, !.store[Master] = @ \o Fetched(wr[i])]
  <2>1. Become(FlushNext(Release(RolledBack(d, i), i, op), i, op)) BY DEF InsertLate
  <2>2. r \in StateSet /\ r.wr = wr /\ r.store = store
    BY <1>1, <1>4 DEF Counts, Keeps, Sound, ControlOK
  <2>3. d = [r EXCEPT !.store = StoreWith(r, Master, Fetched(wr[i]))]
    BY <1>1 DEF StateSet, StoreWith, State
  <2>4. [wr EXCEPT ![i] = wr[i]] = wr BY <1>1
  <2> HIDE DEF r, d
  <2>5. c = [r EXCEPT !.store = StoreWith(r, Master, Fetched(wr[i])), !.wr = wr]
    BY <1>3, <2>2, <2>4 DEF Storing
  <2>6. c = d BY <2>2, <2>3, <2>5 DEF StateSet
  <2> QED BY <2>1, <2>6
<1> HIDE DEF r
<1>6. Fine(r) /\ r.wr = wr /\ i \in 1..Len(r.wr) BY <1>1, <1>4, CountsFine DEF Counts
<1>7. Sound(c) /\ Same(r, c) /\ c.wr[i].ops = wr[i].ops BY <1>6, Stores DEF Fine, Same
<1> HIDE DEF c
<1>8. Fine(c) /\ i \in 1..Len(c.wr) BY <1>6, <1>7, SameFine DEF Same
<1>9. Keeps(c, s) /\ s.wr[i].ops = c.wr[i].ops BY <1>8, FetchedChanges DEF Fine
<1> HIDE DEF s
<1>10. Fine(s) /\ i \in 1..Len(s.wr) BY <1>8, <1>9, KeepsFine DEF Keeps, Frame
<1>11. Fine(t) BY <1>2, <1>7, <1>9, <1>10, Advances
<1> QED BY <1>5, <1>11, Becomes

-----------------------------------------------------------------------------
(* The invariant                                                           *)

LEMMA JournalerStarts == JournalerInit => JInvariant
<1> SUFFICES ASSUME JournalerInit PROVE Sound(State) /\ IndexOK(State) BY DEF JInvariant
<1> USE DEF JournalerInit
<1>1. Len(wr) = 0 /\ 1..Len(wr) = {} /\ jour.cache = <<>> /\ Len(jour.cache) = 0 OBVIOUS
<1>2. /\ State.jour = jour /\ State.wr = wr /\ State.store = store /\ State.mig = mig
      /\ State.told = told /\ State.env = env
  BY DEF State
<1>3. State \in StateSet
  <2>1. jour \in JournalerSet BY DEF JournalerSet, Links
  <2>2. Roles \in Seq({"slave", "master"})
    <3>1. CASE Roles = <<"master">> BY <3>1
    <3>2. CASE Roles = <<"slave">> BY <3>2
    <3>3. CASE Roles = <<"slave", "master">> BY <3>3
    <3> QED BY <3>1, <3>2, <3>3, RolesAssumption
  <2>3. 0 \in 0..MaxEntries BY BoundsAssumption
  <2>4. env \in EnvSet BY <2>2, <2>3 DEF EnvSet
  <2>5. mig \in MigrationSet BY DEF MigrationSet
  <2>6. wr \in Seq(WriterSet) /\ store \in [1..Master -> Seq(Nat)] /\ told \in SUBSET Entries
    OBVIOUS
  <2> HIDE DEF JournalerInit
  <2> QED BY <2>1, <2>4, <2>5, <2>6 DEF State, StateSet
<1>4. FlushOK(State) BY <1>1, <1>2 DEF FlushOK, Writing
<1>5. ControlOK(State) BY <1>1, <1>2, <1>3, <1>4 DEF ControlOK
<1>6. MoveOK(State) BY <1>2 DEF MoveOK
<1>7. \A t \in 1..Master : Elems(store[t]) = {}
  <2>1. Len(<<>>) = 0 OBVIOUS
  <2> QED BY <2>1 DEF Elems
<1>8. Elems(jour.cache) = {} BY <1>1 DEF Elems
<1>9. Inside(State) BY <1>1, <1>2, <1>7, <1>8 DEF Inside
<1>10. StoredIn(State) = {} BY <1>2, <1>7 DEF StoredIn
<1>11. KeptIn(State) BY <1>2 DEF KeptIn, Mistaken
<1>12. FetchedOK(State) BY <1>2 DEF FetchedOK, Writing
<1>13. EarlyOK(State) BY <1>1, <1>2, <1>10 DEF EarlyOK, Closed, Supported
<1>14. MovedOK(State) BY <1>2 DEF MovedOK
<1>15. Sound(State)
  BY <1>5, <1>6, <1>9, <1>11, <1>12, <1>13, <1>14 DEF Sound, DataOK, EntriesOK
<1>16. IndexOK(State)
  <2>1. 0 <= Len(Targets) /\ 0 <= MaxWriters BY TargetsAssumption, BoundsAssumption
  <2> QED BY <1>1, <1>2, <2>1 DEF IndexOK
<1> QED BY <1>15, <1>16

LEMMA JournalerMoves ==
  ASSUME JInvariant, [JournalerNext]_journalerVars
  PROVE  JInvariant'
<1>1. Fine(State) BY DEF JInvariant, Fine
<1>2. Fine(State)' => JInvariant' BY DEF JInvariant, Fine
<1>3. CASE UNCHANGED journalerVars
  <2>1. State' = State BY <1>3 DEF State, journalerVars
  <2>2. Fine(State') BY <1>1, <2>1
  <2> QED BY <1>2, <2>2
<1>4. CASE InsertEntry BY <1>1, <1>2, <1>4, InsertEntryFine
<1>5. CASE TakeRole BY <1>1, <1>2, <1>5, TakeRoleFine
<1>6. CASE BrokerLost BY <1>1, <1>2, <1>6, BrokerLostFine
<1>7. CASE CloseJournaler BY <1>1, <1>2, <1>7, CloseJournalerFine
<1>8. CASE Reconnect BY <1>1, <1>2, <1>8, ReconnectFine
<1>9. CASE Flush BY <1>1, <1>2, <1>9, FlushFine
<1>10. CASE NextWriter BY <1>1, <1>2, <1>10, NextWriterFine
<1>11. CASE Migrate BY <1>1, <1>2, <1>11, MigrateFine
<1>12. ASSUME NEW i \in DOMAIN wr, Rotate(i) PROVE JInvariant'
  BY <1>1, <1>2, <1>12, RotateFine
<1>13. ASSUME NEW i \in DOMAIN wr, CloseDropped(i) PROVE JInvariant'
  BY <1>1, <1>2, <1>13, CloseDroppedFine
<1>14. ASSUME NEW i \in DOMAIN wr, Open(i) PROVE JInvariant'
  BY <1>1, <1>2, <1>14, OpenFine
<1>15. ASSUME NEW i \in DOMAIN wr, OpenFails(i) PROVE JInvariant'
  BY <1>1, <1>2, <1>15, OpenFailsFine
<1>16. ASSUME NEW i \in DOMAIN wr, Reopen(i) PROVE JInvariant'
  BY <1>1, <1>2, <1>16, ReopenFine
<1>17. ASSUME NEW i \in DOMAIN wr, NEW op \in Ops, Woken(i, op) PROVE JInvariant'
  BY <1>1, <1>2, <1>17, WokenFine
<1>18. ASSUME NEW i \in DOMAIN wr, NEW op \in Ops, StartInsert(i, op) PROVE JInvariant'
  BY <1>1, <1>2, <1>18, StartInsertFine
<1>19. ASSUME NEW i \in DOMAIN wr, NEW op \in Ops, Inserted(i, op) PROVE JInvariant'
  BY <1>1, <1>2, <1>19, InsertedFine
<1>20. ASSUME NEW i \in DOMAIN wr, NEW op \in Ops, InsertFails(i, op) PROVE JInvariant'
  BY <1>1, <1>2, <1>20, InsertFailsFine
<1>21. ASSUME NEW i \in DOMAIN wr, NEW op \in Ops, InsertLate(i, op) PROVE JInvariant'
  BY <1>1, <1>2, <1>21, InsertLateFine
<1> QED
  BY <1>3, <1>4, <1>5, <1>6, <1>7, <1>8, <1>9, <1>10, <1>11, <1>12, <1>13, <1>14, <1>15,
     <1>16, <1>17, <1>18, <1>19, <1>20, <1>21 DEF JournalerNext

(* What the invariant says of the variables.                               *)
LEMMA JournalerTyped == JInvariant => JournalerTypeOK
<1> SUFFICES ASSUME JInvariant PROVE JournalerTypeOK OBVIOUS
<1>1. /\ State.jour = jour /\ State.wr = wr /\ State.told = told
  BY DEF State
<1>2. State \in StateSet /\ FlushOK(State) /\ \A i \in 1..Len(wr) : WriterOK(wr[i])
  BY <1>1 DEF JInvariant, Sound, ControlOK
<1>3. /\ jour \in JournalerSet /\ jour.cache \in Seq(Nat) /\ jour.fetched \in Nat
      /\ jour.writer \in Nat /\ Len(wr) \in Nat /\ told \in SUBSET Entries
      /\ DOMAIN wr = 1..Len(wr)
      /\ \A i \in 1..Len(wr) : wr[i] \in WriterSet /\ wr[i].cache \in Seq(Nat) /\ wr[i].fetched \in Nat
  BY <1>1, <1>2, Types
<1>4. jour.writer \in 0..Len(wr) /\ jour.fetched \in 0..Len(jour.cache)
      /\ (jour.fetched > 0 <=> jour.flush = "writing")
  <2>1. Len(jour.cache) \in Nat BY <1>3
  <2>2. /\ jour.writer <= Len(wr) /\ jour.fetched <= Len(jour.cache)
        /\ (jour.fetched > 0 <=> jour.flush = "writing")
    BY <1>1, <1>2 DEF FlushOK, Writing
  <2> QED BY <1>3, <2>1, <2>2
<1>5. Len(wr) <= MaxWriters BY <1>1 DEF JInvariant, IndexOK
<1>6. /\ jour.state \in {"connected", "disconnected"} /\ jour.waits \subseteq Entries
      /\ jour.flush \in {"none", "due", "waiting", "woken", "writing"}
  BY <1>3 DEF JournalerSet, Links
<1>7. ASSUME NEW i \in DOMAIN wr
      PROVE  /\ wr[i].ops \in [Ops -> OpPhases] /\ wr[i].fetched \in 0..Len(wr[i].cache)
             /\ Cardinality({op \in Ops : wr[i].ops[op] \in {"started", "inserting"}}) <= 1
             /\ \A op \in Ops : wr[i].ops[op] = "queued" <=> op \in Range(wr[i].queue)
  <2> PICK w : w = wr[i] OBVIOUS
  <2>1. w \in WriterSet /\ WriterOK(w) /\ w.cache \in Seq(Nat) /\ w.fetched \in Nat
    BY <1>2, <1>3
  <2>2. Len(w.cache) \in Nat BY <2>1
  <2>3. w.fetched \in 0..Len(w.cache) BY <2>1, <2>2 DEF WriterOK
  <2>4. w.ops \in [Ops -> OpPhases] /\ w.queue \in Seq(Ops) BY <2>1 DEF WriterSet
  <2> DEFINE busy == {op \in Ops : w.ops[op] \in {"started", "inserting"}}
  <2>5. Cardinality(busy) <= 1
    <3>1. \A a, b \in busy : a = b BY <2>1 DEF WriterOK, OneWorks, Working
    <3>2. CASE busy = {} BY <3>2, FS_EmptySet
    <3>3. CASE busy # {}
      <4>1. PICK a : a \in busy BY <3>3
      <4>2. busy = {a} BY <3>1, <4>1
      <4> HIDE DEF busy
      <4>3. Cardinality({a}) = 1 BY FS_Singleton
      <4> QED BY <4>2, <4>3
    <3> QED BY <3>2, <3>3
  <2>6. \A op \in Ops : w.ops[op] = "queued" <=> op \in Range(w.queue)
    <3>1. DOMAIN w.queue = 1..Len(w.queue) BY <2>4
    <3> QED BY <2>1, <3>1 DEF WriterOK, InTurn, Range
  <2> QED BY <2>3, <2>4, <2>5, <2>6
<1> QED BY <1>3, <1>4, <1>5, <1>6, <1>7 DEF JournalerTypeOK

LEMMA JournalerKeeps == JInvariant => NothingLost
<1> SUFFICES ASSUME JInvariant, ~Interrupted PROVE Kept BY DEF NothingLost
<1>1. /\ State.jour = jour /\ State.wr = wr /\ State.store = store /\ State.mig = mig
      /\ State.env = env
  BY DEF State
<1>2. State \in StateSet BY DEF JInvariant, Sound, ControlOK
<1>3. store \in [1..Master -> Seq(Nat)] /\ jour.cache \in Seq(Nat) BY <1>1, <1>2, Types
<1>4. ~Left(State) BY <1>1 DEF Left, Interrupted
<1>5. KeptIn(State) BY <1>4 DEF JInvariant, Sound, DataOK, EntriesOK
<1>6. Elems(jour.cache) = Range(jour.cache)
  <2>1. DOMAIN jour.cache = 1..Len(jour.cache) BY <1>3
  <2> QED BY <2>1 DEF Elems, Range
<1>7. StoredIn(State) = Held
  <2>1. \A t \in 1..Master : Elems(store[t]) = Range(store[t])
    <3> TAKE t \in 1..Master
    <3>1. store[t] \in Seq(Nat) BY <1>3
    <3>2. DOMAIN store[t] = 1..Len(store[t]) BY <3>1
    <3> QED BY <3>2 DEF Elems, Range
  <2>2. DOMAIN store = 1..Master BY <1>3
  <2> QED BY <1>1, <2>1, <2>2 DEF StoredIn, Held
<1> QED BY <1>1, <1>5, <1>6, <1>7 DEF KeptIn, Mistaken, Kept

(* The invariant of the journaler: the writers and the flush are in order,  *)
(* and every entry is where it survives what comes next.                   *)
THEOREM JournalerInvariant == JournalerSpec => []JInvariant
<1>1. JInvariant /\ [JournalerNext]_journalerVars => JInvariant' BY JournalerMoves
<1> QED BY <1>1, JournalerStarts, PTL DEF JournalerSpec

(* The state of the journaler has its type: above all, a writer writes one  *)
(* batch at a time, and what a flush has fetched is still in the cache.     *)
THEOREM JournalerTyping == JournalerSpec => []JournalerTypeOK
BY JournalerInvariant, JournalerTyped, PTL

(* No entry is lost, whatever writers fail, are closed, rotated or left for *)
(* the next, and while a migration moves the entries to the primary writer. *)
THEOREM EntriesAreKept == JournalerSpec => []NothingLost
BY JournalerInvariant, JournalerKeeps, PTL
=============================================================================
