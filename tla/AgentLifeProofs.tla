----------------------------- MODULE AgentLifeProofs -----------------------------
(***************************************************************************)
(* What is left of an agent that has terminated, what a retrying protocol  *)
(* owes those who wait for it, and the order of the states of an agent,    *)
(* for any number of tasks, retrying protocols and attempts.               *)
(*                                                                         *)
(* An operation is a function from a state s to a state z, so the          *)
(* invariant Inv is a predicate of such a state, and the lemmas say of     *)
(* each operation how z differs from s: by media only (Quietly), by one    *)
(* retrying protocol (Around), by a stage of the termination (Dies).  Each *)
(* kind of difference keeps Inv by a lemma of its own.  The loop that      *)
(* cancels the protocols is a function over the numbers, of which          *)
(* LoopKeeps shows by induction that what each turn keeps it keeps too.    *)
(*                                                                         *)
(* Inv says of each retrying protocol that it is bound, has one task that  *)
(* runs or one delayed call, and that nothing of it goes on once it was    *)
(* told its end (RetryFits); that it goes on while somebody waits for it   *)
(* (Served); how far the start has come when the agent may be terminated   *)
(* (Ordered); and what each stage of the termination has left (Ending).    *)
(***************************************************************************)
EXTENDS AgentLife, AgencyMiddleProofs, SequenceTheorems, WellFoundedInduction

-----------------------------------------------------------------------------
(* The states of which the operations are functions.                       *)
MS == MediumSet(TaskHooks, TaskState, {Timer("expired", "expired")})
Calls == {"boot", "startup", "terminate"} \cup Retrying
RetrySet ==
  [started : BOOLEAN, bound : BOOLEAN, attempt : Nat, max : Int, delayed : BOOLEAN,
   initiator : BOOLEAN, waiting : BOOLEAN, tell : {None, "ok", "failed"}, told : Nat,
   cancelled : BOOLEAN, alert : BOOLEAN]
InfoSet == [busy : BOOLEAN, failed : BOOLEAN]
DeathSet == [stage : DeathStages, held : SUBSET Connections]
States ==
  [life : Lives, boot : BootStages, death : DeathSet, links : SUBSET Connections,
   calls : SUBSET Calls, task : [Tasks -> MS], info : [Tasks -> InfoSet],
   long : Seq(Tasks \cup Retrying), retry : [Retrying -> RetrySet]]

(* A medium that is finalized has nothing left to do.                      *)
TaskFits(p) == ~p.asserted /\ (p.final => p.jobs = {} /\ p.timer = NoTimer)

(* A retrying protocol is bound, has a task that runs, or a delayed call,  *)
(* and never two of them; what it has been told is its end, and so is a    *)
(* cancel(), but for the task that runs.                                   *)
RetryFits(s, r) ==
  LET q == s.retry[r]
  IN  /\ q.attempt <= MaxRetries + 1 /\ q.max <= MaxRetries
      /\ q.cancelled => q.max < q.attempt
      /\ q.bound => q.attempt = 0
      /\ q.bound \/ q.attempt > 0 => q.started
      /\ q.initiator => q.attempt > 0
      /\ q.tell # None => q.attempt > 0
      /\ r \in s.calls => q.delayed /\ ~q.initiator /\ q.attempt <= q.max /\ q.attempt > 0 /\ q.tell = None
      /\ q.alert => q.attempt >= AlertAfter /\ (q.initiator => q.attempt > AlertAfter)
      /\ q.tell = "ok" => ~q.alert
      /\ \A n \in 1..(MaxRetries + 2) :
           s.task[<<r, n>>].registered => q.initiator /\ q.attempt = n /\ q.tell = None

Good(s) ==
  /\ s \in States
  /\ \A t \in Tasks : TaskFits(s.task[t])
  /\ \A r \in Retrying : RetryFits(s, r)

(* Unless the agent is killed early, the chain that starts it is over when *)
(* it is terminated, and its state says how far it has come.               *)
Ordered(s) ==
  /\ s.death.stage = "none" <=> s.life \notin {"terminating", "terminated"}
  /\ s.death.stage = "done" <=> s.life = "terminated"
  /\ s.death.stage # "none" \/ "terminate" \in s.calls => s.boot \in {"done", "failed"}
  /\ "boot" \in s.calls => s.boot = "idle"
  /\ "startup" \in s.calls => s.boot = "called"
  /\ s.boot \in {"idle", "messaging", "descriptor", "lock", "configuration"}
       => s.life = "not_initiated"
  /\ s.boot = "initiate" => s.life = "initiating"
  /\ s.boot = "called" => s.life = "initiated"
  /\ s.boot = "startup" => s.life = "starting_up"

Runs(s, r) == \E n \in 1..(MaxRetries + 2) : s.task[<<r, n>>].registered
Goes(s, r) == s.retry[r].bound \/ r \in s.calls \/ Runs(s, r)

(* Somebody waits for a retrying protocol that goes on.                    *)
Served(s, r) ==
  s.death.stage = "none" /\ s.retry[r].waiting /\ ~s.retry[r].cancelled => Goes(s, r)

(* From the termination on, only what was passed over goes on.             *)
Ending(s) ==
  /\ s.death.stage # "none" => \A r \in Retrying : ~s.retry[r].bound
  /\ s.death.stage \in {"cancel", "kill", "body", "rekill"} => s.links = s.death.held
  /\ s.death.stage = "done" => s.links = {}
  /\ s.death.stage \in {"kill", "body", "rekill", "done"} => s.calls \subseteq Retrying
  /\ s.death.stage \in {"body", "rekill", "done"} =>
       \A r \in Retrying : s.retry[r].cancelled => ~Runs(s, r)
  /\ s.death.stage = "done" => \A t \in Tasks : s.task[t].registered => t[1] # Agent

Listed(s, p) == \E i \in 1..Len(s.long) : s.long[i] = p

(* A retrying protocol is passed over only when one was cancelled.         *)
Reached(s, r) ==
  IF s.death.stage = "none" THEN Goes(s, r) /\ ~s.retry[r].cancelled => Listed(s, r)
  ELSE Goes(s, r) => \E q \in Retrying : s.retry[q].cancelled

InTime == "early" \notin Habits
Calm == InTime /\ "abrupt" \notin Habits /\ "persistent" \notin Habits

-----------------------------------------------------------------------------
(* Induction over the numbers, for a set of them.                          *)
LEMMA NatSet ==
  ASSUME NEW T \in SUBSET Nat, 0 \in T, \A n \in T : n + 1 \in T
  PROVE  T = Nat
<1> SUFFICES ASSUME T # Nat PROVE FALSE OBVIOUS
<1> DEFINE R == {ss \in Nat \X Nat : ss[1] < ss[2]}
<1>1. IsWellFoundedOn(R, Nat) BY NatLessThanWellFounded DEF OpToRel
<1>2. \A x, y \in Nat : <<x, y>> \in R <=> x < y OBVIOUS
<1> HIDE DEF R
<1>3. PICK x \in Nat \ T : \A y \in Nat \ T : <<y, x>> \notin R
  <2>1. Nat \ T \subseteq Nat /\ Nat \ T # {} OBVIOUS
  <2> QED BY <2>1, <1>1, WFMin
<1>4. x # 0 /\ x - 1 \in Nat /\ x - 1 < x OBVIOUS
<1>5. x - 1 \in T BY <1>2, <1>3, <1>4
<1> QED BY <1>3, <1>4, <1>5

(* The loop of _cancel_long_running_protocols() over the first m protocols. *)
Loops(g, s, m) == g = [n \in 0..m |-> IF n = 0 THEN s ELSE CancelNth(g[n - 1], n)]

(* The turns of the loop of _cancel_long_running_protocols() go on.        *)
LEMMA LoopsOn ==
  ASSUME NEW g, NEW s, NEW m \in Nat, Loops(g, s, m)
  PROVE  Loops([n \in 0..(m + 1) |-> IF n = m + 1 THEN CancelNth(g[m], m + 1) ELSE g[n]], s, m + 1)
<1> DEFINE h == [n \in 0..(m + 1) |-> IF n = m + 1 THEN CancelNth(g[m], m + 1) ELSE g[n]]
<1>1. ASSUME NEW n \in 0..(m + 1)
      PROVE  h[n] = IF n = 0 THEN s ELSE CancelNth(h[n - 1], n)
  <2>1. CASE n = m + 1
    <3>1. h[n] = CancelNth(g[m], n) /\ h[n - 1] = g[m] BY <2>1
    <3> QED BY <2>1, <3>1
  <2>2. CASE n # m + 1 /\ n # 0
    <3>1. n \in 0..m /\ n - 1 \in 0..m /\ n - 1 # m + 1 /\ n - 1 \in 0..(m + 1) BY <2>2
    <3>2. h[n] = g[n] /\ h[n - 1] = g[n - 1] BY <2>2, <3>1
    <3>3. g[n] = CancelNth(g[n - 1], n) BY <2>2, <3>1 DEF Loops
    <3> QED BY <2>2, <3>2, <3>3
  <2>3. CASE n # m + 1 /\ n = 0
    <3>1. 0 \in 0..m OBVIOUS
    <3>2. g[0] = s BY <3>1 DEF Loops
    <3> QED BY <2>3, <3>2
  <2> QED BY <2>1, <2>2, <2>3
<1>2. h = [n \in 0..(m + 1) |-> h[n]] OBVIOUS
<1> HIDE DEF h
<1>3. h = [n \in 0..(m + 1) |-> IF n = 0 THEN s ELSE CancelNth(h[n - 1], n)] BY <1>1, <1>2
<1> QED BY <1>3 DEF Loops, h

(* Its turns are defined for any length of the list.                       *)
LEMMA LoopExists == ASSUME NEW s, NEW m \in Nat PROVE \E g : Loops(g, s, m)
<1> DEFINE T == {k \in Nat : \E g : Loops(g, s, k)}
<1>1. 0 \in T
  <2> DEFINE g == [n \in 0..0 |-> s]
  <2>1. g = [n \in 0..0 |-> IF n = 0 THEN s ELSE CancelNth(g[n - 1], n)] OBVIOUS
  <2> QED BY <2>1 DEF Loops
<1>2. ASSUME NEW k \in T PROVE k + 1 \in T
  <2>1. k \in Nat /\ k + 1 \in Nat OBVIOUS
  <2>2. PICK g : Loops(g, s, k) OBVIOUS
  <2>3. \E h : Loops(h, s, k + 1) BY <2>1, <2>2, LoopsOn
  <2> QED BY <2>1, <2>3
<1>3. T \in SUBSET Nat OBVIOUS
<1> HIDE DEF T
<1>4. T = Nat BY <1>1, <1>2, <1>3, NatSet
<1> QED BY <1>4 DEF T

(* What each turn of the loop keeps, the loop keeps.                       *)
LEMMA LoopKeeps ==
  ASSUME NEW T, NEW s, Len(s.long) \in Nat, s \in T[0],
         \A n \in 1..Len(s.long) : \A x \in T[n - 1] : CancelNth(x, n) \in T[n]
  PROVE  CancelLongRunning(s) \in T[Len(s.long)]
<1> DEFINE m == Len(s.long)
           g == CHOOSE f : Loops(f, s, m)
<1>1. CancelLongRunning(s) = g[m]
  BY DEF CancelLongRunning, Loops
<1>2. Loops(g, s, m) BY LoopExists
<1> HIDE DEF g
<1> DEFINE R == {k \in Nat : k \in 0..m => g[k] \in T[k]}
<1>3. 0 \in R
  <2>1. 0 \in 0..m OBVIOUS
  <2>2. g[0] = s BY <2>1, <1>2 DEF Loops
  <2> QED BY <2>2
<1>4. ASSUME NEW k \in R PROVE k + 1 \in R
  <2> SUFFICES ASSUME k + 1 \in 0..m PROVE g[k + 1] \in T[k + 1] OBVIOUS
  <2>1. k \in 0..m /\ g[k] \in T[k] /\ k + 1 \in 1..m /\ (k + 1) - 1 = k /\ k + 1 # 0 OBVIOUS
  <2>2. g[k + 1] = CancelNth(g[k], k + 1) BY <2>1, <1>2 DEF Loops
  <2> QED BY <2>1, <2>2
<1>5. R \in SUBSET Nat OBVIOUS
<1> HIDE DEF R
<1>6. R = Nat BY <1>3, <1>4, <1>5, NatSet
<1> QED BY <1>1, <1>6 DEF R

(* remove() of a list leaves every other element in it.                    *)
LEMMA RemovedOnly ==
  ASSUME NEW S, NEW q \in Seq(S), NEW p
  PROVE  /\ RemoveFirst(q, p) \in Seq(S)
         /\ \A i \in 1..Len(q) : q[i] # p =>
              \E k \in 1..Len(RemoveFirst(q, p)) : RemoveFirst(q, p)[k] = q[i]
<1>1. CASE ~\E i \in 1..Len(q) : q[i] = p
  <2>1. RemoveFirst(q, p) = q BY <1>1 DEF RemoveFirst
  <2> QED BY <2>1
<1>2. CASE \E i \in 1..Len(q) : q[i] = p
  <2> DEFINE I == {i \in 1..Len(q) : q[i] = p}
             h == Min(I)
  <2>1. h \in I
    <3>1. I \subseteq Nat /\ I # {} BY <1>2
    <3> DEFINE R == {ss \in Nat \X Nat : ss[1] < ss[2]}
    <3>2. IsWellFoundedOn(R, Nat) BY NatLessThanWellFounded DEF OpToRel
    <3>3. \A x, y \in Nat : <<x, y>> \in R <=> x < y OBVIOUS
    <3> HIDE DEF R, I, h
    <3>4. PICK x \in I : \A y \in I : <<y, x>> \notin R BY <3>1, <3>2, WFMin
    <3>5. ASSUME NEW y \in I PROVE x <= y
      <4>1. x \in Nat /\ y \in Nat BY <3>1
      <4>2. <<y, x>> \notin R BY <3>4
      <4>3. ~(y < x) BY <4>1, <4>2, <3>3
      <4> QED BY <4>1, <4>3
    <3> QED BY <3>5 DEF Min, h
  <2>2. RemoveFirst(q, p) = SubSeq(q, 1, h - 1) \o SubSeq(q, h + 1, Len(q))
    BY <1>2 DEF RemoveFirst, RemoveAt, SelectInSeq
  <2> HIDE DEF h
  <2>3. h \in 1..Len(q) /\ q[h] = p BY <2>1
  <2> DEFINE a == SubSeq(q, 1, h - 1)
             b == SubSeq(q, h + 1, Len(q))
  <2>4. Len(q) \in Nat OBVIOUS
  <2>5. a \in Seq(S) /\ Len(a) = h - 1 /\ \A i \in 1..(h - 1) : a[i] = q[i]
    BY <2>3, <2>4, SubSeqProperties
  <2>6. b \in Seq(S) /\ Len(b) = Len(q) - h /\ \A i \in 1..(Len(q) - h) : b[i] = q[h + i]
    BY <2>3, <2>4, SubSeqProperties
  <2> HIDE DEF a, b
  <2>7. /\ a \o b \in Seq(S) /\ Len(a \o b) = Len(a) + Len(b)
        /\ \A i \in 1..Len(a) + Len(b) : (a \o b)[i] = IF i <= Len(a) THEN a[i] ELSE b[i - Len(a)]
    BY <2>5, <2>6, ConcatProperties
  <2> DEFINE c == a \o b
  <2>8. RemoveFirst(q, p) = c BY <2>2 DEF a, b
  <2> HIDE DEF c
  <2>9. /\ c \in Seq(S) /\ Len(c) = Len(q) - 1
        /\ \A i \in 1..(Len(q) - 1) : c[i] = IF i < h THEN q[i] ELSE q[i + 1]
    <3>1. Len(c) = Len(q) - 1 BY <2>3, <2>4, <2>5, <2>6, <2>7 DEF c
    <3>2. ASSUME NEW i \in 1..(Len(q) - 1) PROVE c[i] = IF i < h THEN q[i] ELSE q[i + 1]
      <4>1. c[i] = IF i <= h - 1 THEN a[i] ELSE b[i - (h - 1)]
        BY <2>3, <2>4, <2>5, <2>6, <2>7 DEF c
      <4>2. CASE i < h BY <4>1, <4>2, <2>3, <2>4, <2>5
      <4>3. CASE ~(i < h)
        <5>1. i - (h - 1) \in 1..(Len(q) - h) /\ h + (i - (h - 1)) = i + 1 BY <4>3, <2>3, <2>4
        <5> QED BY <4>1, <4>3, <5>1, <2>3, <2>6
      <4> QED BY <4>2, <4>3
    <3> QED BY <3>1, <3>2, <2>7 DEF c
  <2>10. ASSUME NEW i \in 1..Len(q), q[i] # p PROVE \E k \in 1..Len(c) : c[k] = q[i]
    <3>1. CASE i < h
      <4>1. i \in 1..(Len(q) - 1) BY <3>1, <2>3, <2>4
      <4> QED BY <3>1, <4>1, <2>9
    <3>2. CASE ~(i < h)
      <4>1. i - 1 \in 1..(Len(q) - 1) /\ ~(i - 1 < h) /\ (i - 1) + 1 = i
        BY <3>2, <2>3, <2>4, <2>10
      <4> QED BY <4>1, <2>9
    <3> QED BY <3>1, <3>2
  <2> QED BY <2>8, <2>9, <2>10
<1> QED BY <1>1, <1>2

-----------------------------------------------------------------------------
(* The media of tasks                                                      *)

Sound(p) == p \in MS /\ TaskFits(p)

(* The hooks and states of tasks that the operations name.                 *)
LEMMA Names ==
  /\ {"initiate", "expired", "cancel"} \subseteq TaskHooks
  /\ {"performing", "completed", "expired", "error"} \subseteq TaskState
  /\ {"timeout", "queued", "running"} \subseteq Phases
  /\ None # "performing" /\ None # "ok" /\ None # "failed"
BY DEF TaskHooks, TaskState, Phases, None

(* A hook is queued for a medium that is not finalized: no assertion       *)
(* fails.                                                                  *)
LEMMA QueueSound ==
  ASSUME NEW p, Sound(p), ~p.final, NEW hook \in TaskHooks
  PROVE  Sound(TaskQueue(p, hook)) /\ TaskQueue(p, hook).registered = p.registered
<1> DEFINE j == Job(hook, AnyState, "queued", hook = "cancel")
<1>1. j \in JobSet(TaskHooks, TaskState) BY Names DEF Job, JobSet
<1>2. TaskQueue(p, hook) = AddJob(p, j) BY DEF TaskQueue
<1> HIDE DEF j
<1>3. AddJob(p, j) \in MS BY <1>1, AddJobType DEF MS, Sound
<1>4. AddJob(p, j) = [p EXCEPT !.jobs = @ \cup {j}, !.asserted = @ \/ p.final] BY DEF AddJob
<1>5. AddJob(p, j).registered = p.registered /\ AddJob(p, j).asserted = (p.asserted \/ p.final)
      /\ AddJob(p, j).final = p.final
  BY <1>4 DEF Sound, MS, MediumSet
<1> QED BY <1>2, <1>3, <1>5 DEF Sound, TaskFits

(* initiate_protocol() makes a registered medium.                          *)
LEMMA NewSound == Sound(NewTask) /\ NewTask.registered
<1> DEFINE p == [NoMedium EXCEPT !.state = "performing", !.registered = TRUE]
           q == SetTimeout(p, "expired", "expired")
<1>0. NoMedium \in MS /\ ~NoMedium.final /\ ~NoMedium.asserted
  BY DEF NoMedium, MS, MediumSet
<1>1. p \in MS /\ ~p.final /\ ~p.asserted /\ p.registered
  BY <1>0, Names DEF MS, MediumSet
<1> HIDE DEF p
<1>2. q = [p EXCEPT !.timer = Timer("expired", "expired")] BY DEF SetTimeout
<1>3. Sound(q) /\ ~q.final /\ q.registered
  BY <1>1, <1>2 DEF Sound, TaskFits, MS, MediumSet
<1>4. NewTask = TaskQueue(q, "initiate") BY DEF NewTask, p
<1> HIDE DEF q
<1> QED BY <1>3, <1>4, QueueSound, Names

(* finalize() leaves a medium that has nothing to do, and registered.      *)
LEMMA FinalizeSound ==
  ASSUME NEW p, Sound(p)
  PROVE  Sound(Finalize(p)) /\ Finalize(p).registered = p.registered
<1>1. Finalize(p) \in MS BY FinalizeType DEF MS, Sound
<1>2. CASE p.final BY <1>2 DEF Finalize
<1>3. CASE ~p.final
  <2>1. Finalize(p) = [p EXCEPT !.final = TRUE, !.timer = NoTimer, !.jobs = {}]
    BY <1>3 DEF Finalize
  <2> QED BY <1>1, <2>1 DEF Sound, TaskFits, MS, MediumSet
<1> QED BY <1>2, <1>3

(* A new state of a task keeps its jobs and its timer.                     *)
LEMMA SetStateSound ==
  ASSUME NEW p, Sound(p), NEW st \in TaskState
  PROVE  Sound(SetState(p, st)) /\ SetState(p, st).registered = p.registered
         /\ SetState(p, st).final = p.final
<1>1. SetState(p, st) \in MS BY SetStateType DEF MS, Sound
<1>2. SetState(p, st) = [p EXCEPT !.state = st] BY DEF SetState
<1> QED BY <1>1, <1>2 DEF Sound, TaskFits, MS, MediumSet

(* A job that has ended leaves the rest of the medium.                     *)
LEMMA DropSound ==
  ASSUME NEW p, Sound(p), NEW j
  PROVE  Sound(DropJob(p, j)) /\ DropJob(p, j).registered = p.registered
         /\ DropJob(p, j).final = p.final
<1>1. DropJob(p, j) \in MS BY DropJobType DEF MS, Sound
<1>2. DropJob(p, j) = [p EXCEPT !.jobs = @ \ {j}] BY DEF DropJob
<1> QED BY <1>1, <1>2 DEF Sound, TaskFits, MS, MediumSet

(* cleanup() finalizes a medium and leaves it registered.                  *)
LEMMA CleanupSound ==
  ASSUME NEW p, Sound(p)
  PROVE  Sound(Cleanup(p)) /\ Cleanup(p).registered = p.registered
<1>1. Cleanup(p) \in MS BY CleanupType DEF MS, Sound
<1>2. Cleanup(p) = [p EXCEPT !.timer = NoTimer, !.jobs = {}, !.final = TRUE] BY DEF Cleanup
<1> QED BY <1>1, <1>2 DEF Sound, TaskFits, MS, MediumSet

(* unregister_protocol() changes nothing else of the medium.               *)
LEMMA UnregisterSound ==
  ASSUME NEW p, Sound(p)
  PROVE  Sound(Unregister(p)) /\ ~Unregister(p).registered
<1>1. Unregister(p) \in MS BY UnregisterType DEF MS, Sound
<1>2. Unregister(p) = [p EXCEPT !.registered = FALSE] BY DEF Unregister
<1> QED BY <1>1, <1>2 DEF Sound, TaskFits, MS, MediumSet

(* _error_handler() leaves a medium that has nothing to do, and            *)
(* registered.                                                             *)
LEMMA FailSound ==
  ASSUME NEW p, Sound(p), NEW j
  PROVE  Sound(FailJob(p, j, "error")) /\ FailJob(p, j, "error").registered = p.registered
<1>1. Sound(DropJob(p, j)) /\ DropJob(p, j).registered = p.registered BY DropSound
<1> DEFINE q == DropJob(p, j)
<1>2. FailJob(p, j, "error") = Finalize(SetState(q, "error")) BY DEF FailJob
<1> HIDE DEF q
<1>3. Sound(SetState(q, "error")) /\ SetState(q, "error").registered = q.registered
  BY <1>1, SetStateSound, Names DEF q
<1> QED BY <1>1, <1>2, <1>3, FinalizeSound DEF q

(* _timeout_target() queues the hook of a timer that is pending.           *)
LEMMA TimeoutSound ==
  ASSUME NEW p, Sound(p), p.timer # NoTimer
  PROVE  Sound(TimeoutTarget(p)) /\ TimeoutTarget(p).registered = p.registered
<1>1. p.timer = Timer("expired", "expired") /\ ~p.final BY DEF Sound, TaskFits, MS, MediumSet
<1>2. p.timer.state = "expired" /\ p.timer.hook = "expired" BY <1>1 DEF Timer
<1>3. TimeoutTarget(p) \in MS
  <2>1. p \in MediumSet(TaskHooks, TaskState, {Timer("expired", "expired")}) BY DEF Sound, MS
  <2>2. /\ p.timer \in {Timer("expired", "expired")}
        /\ p.timer.state \in TaskState \cup {AnyState} /\ p.timer.hook \in TaskHooks
    BY <1>1, <1>2, Names
  <2> QED BY <2>1, <2>2, TimeoutTargetType DEF MS
<1> DEFINE q == [p EXCEPT !.timer = NoTimer,
                          !.state = IF p.timer.state = AnyState THEN @ ELSE p.timer.state]
           j == Job(p.timer.hook, p.timer.state, "timeout", FALSE)
<1>4. TimeoutTarget(p) = AddJob(q, j) BY DEF TimeoutTarget
<1>5. q.registered = p.registered /\ q.asserted = p.asserted /\ q.final = p.final
      /\ q \in [state : TaskState \cup {None}, timer : {Timer("expired", "expired"), NoTimer},
                jobs : SUBSET JobSet(TaskHooks, TaskState),
                final : BOOLEAN, registered : BOOLEAN, asserted : BOOLEAN]
  BY <1>2, Names DEF Sound, MS, MediumSet
<1> HIDE DEF q, j
<1>6. AddJob(q, j).registered = q.registered /\ AddJob(q, j).final = q.final
      /\ AddJob(q, j).asserted = (q.asserted \/ q.final)
  BY <1>5 DEF AddJob
<1> QED BY <1>1, <1>3, <1>4, <1>5, <1>6 DEF Sound, TaskFits

-----------------------------------------------------------------------------
(* What changes nothing but the media of tasks, and leaves them registered *)
(* or not.                                                                 *)
Quietly(s, z) ==
  /\ z \in States
  /\ \A t \in Tasks : TaskFits(z.task[t]) /\ z.task[t].registered = s.task[t].registered
  /\ z.life = s.life /\ z.boot = s.boot /\ z.death = s.death /\ z.links = s.links
  /\ z.calls = s.calls /\ z.long = s.long /\ z.retry = s.retry

Typed(s) == s \in States /\ \A t \in Tasks : TaskFits(s.task[t])

(* Every medium of the state is sound.                                     *)
LEMMA TypedSound == ASSUME NEW s, Typed(s), NEW t \in Tasks PROVE Sound(s.task[t])
BY DEF Typed, Sound, States

(* Nothing is changed by doing nothing,                                    *)
LEMMA QuietSame == ASSUME NEW s, Typed(s) PROVE Quietly(s, s)
BY DEF Quietly, Typed

(* or by two such steps,                                                   *)
LEMMA QuietTwice ==
  ASSUME NEW s, NEW y, NEW z, Quietly(s, y), Quietly(y, z)
  PROVE  Quietly(s, z)
BY DEF Quietly

(* and the state keeps its type.                                           *)
LEMMA QuietTyped == ASSUME NEW s, NEW z, Quietly(s, z) PROVE Typed(z)
BY DEF Quietly, Typed

(* The result of a task changes nothing but its medium,                    *)
LEMMA UpdateQuiet ==
  ASSUME NEW s, Typed(s), NEW t \in Tasks, NEW m, Sound(m), NEW b \in BOOLEAN,
         m.registered = s.task[t].registered
  PROVE  Quietly(s, Update(s, t, m, b))
<1> DEFINE z == Update(s, t, m, b)
           f == IF s.task[t].final THEN s.info[t].failed ELSE b
<1>0. f \in BOOLEAN BY DEF Typed, States, InfoSet
<1>1. z = [s EXCEPT !.task[t] = m, !.info[t].failed = f]
  BY DEF Update
<1> HIDE DEF f
<1>2. z \in States
  <2>1. [s.info EXCEPT ![t].failed = f] \in [Tasks -> InfoSet] BY <1>0 DEF Typed, States, InfoSet
  <2>2. [s.task EXCEPT ![t] = m] \in [Tasks -> MS] BY DEF Typed, States, Sound
  <2>3. z = [s EXCEPT !.task = [s.task EXCEPT ![t] = m], !.info = [s.info EXCEPT ![t].failed = f]]
    BY <1>1
  <2> HIDE DEF z
  <2> QED BY <2>1, <2>2, <2>3 DEF Typed, States
<1>3. /\ z.task = [s.task EXCEPT ![t] = m]
      /\ z.life = s.life /\ z.boot = s.boot /\ z.death = s.death /\ z.links = s.links
      /\ z.calls = s.calls /\ z.long = s.long /\ z.retry = s.retry
  BY <1>1 DEF Typed, States
<1>4. s.task \in [Tasks -> MS] BY DEF Typed, States
<1> HIDE DEF z
<1>5. \A u \in Tasks : z.task[u] = IF u = t THEN m ELSE s.task[u] BY <1>3, <1>4
<1>6. Quietly(s, z) BY <1>2, <1>3, <1>5 DEF Quietly, Typed, Sound
<1> QED BY <1>6 DEF z

(* and so does any change of it that keeps it registered.                  *)
LEMMA PutQuiet ==
  ASSUME NEW s, Typed(s), NEW t \in Tasks, NEW m, Sound(m),
         m.registered = s.task[t].registered
  PROVE  Quietly(s, [s EXCEPT !.task[t] = m])
<1> DEFINE z == [s EXCEPT !.task[t] = m]
<1>2. z \in States
  BY DEF Typed, States, Sound
<1>3. /\ z.task = [s.task EXCEPT ![t] = m]
      /\ z.life = s.life /\ z.boot = s.boot /\ z.death = s.death /\ z.links = s.links
      /\ z.calls = s.calls /\ z.long = s.long /\ z.retry = s.retry
  BY DEF Typed, States
<1>4. s.task \in [Tasks -> MS] BY DEF Typed, States
<1> HIDE DEF z
<1>5. \A u \in Tasks : z.task[u] = IF u = t THEN m ELSE s.task[u] BY <1>3, <1>4
<1>6. Quietly(s, z) BY <1>2, <1>3, <1>5 DEF Quietly, Typed, Sound
<1> QED BY <1>6 DEF z

(* The ways a task comes nearer to its end are quiet.                      *)
LEMMA CleanupQuiet ==
  ASSUME NEW s, Typed(s), NEW t \in Tasks PROVE Quietly(s, CleanupTask(s, t))
<1>1. Sound(s.task[t]) BY TypedSound
<1>2. Sound(Cleanup(s.task[t])) /\ Cleanup(s.task[t]).registered = s.task[t].registered
  BY <1>1, CleanupSound
<1> QED BY <1>2, UpdateQuiet DEF CleanupTask

(* cancel() of a task queues a hook, or does nothing.                      *)
LEMMA CancelTaskQuiet ==
  ASSUME NEW s, Typed(s), NEW t \in Tasks PROVE Quietly(s, CancelTask(s, t))
<1>1. CASE s.info[t].busy \/ s.task[t].final BY <1>1, QuietSame DEF CancelTask
<1>2. CASE ~(s.info[t].busy \/ s.task[t].final)
  <2> DEFINE m == TaskQueue(s.task[t], "cancel")
  <2>1. Sound(s.task[t]) BY TypedSound
  <2>2. Sound(m) /\ m.registered = s.task[t].registered BY <1>2, <2>1, QueueSound, Names
  <2>3. CancelTask(s, t) = [s EXCEPT !.task[t] = m] BY <1>2 DEF CancelTask
  <2> HIDE DEF m
  <2> QED BY <2>2, <2>3, PutQuiet
<1> QED BY <1>1, <1>2

(* terminate() and fail() finalize a task, which stays registered.         *)
LEMMA EndedQuiet ==
  ASSUME NEW s, Typed(s), NEW t \in Tasks
  PROVE  Quietly(s, TaskTerminated(s, t)) /\ Quietly(s, TaskFailed(s, t))
<1>1. Sound(s.task[t]) BY TypedSound
<1>2. ASSUME NEW st \in TaskState
      PROVE  /\ Sound(Finalize(SetState(s.task[t], st)))
             /\ Finalize(SetState(s.task[t], st)).registered = s.task[t].registered
  BY <1>1, SetStateSound, FinalizeSound
<1> QED BY <1>2, UpdateQuiet, Names DEF TaskTerminated, TaskFailed

(* The end of a job of a task, whatever it leads to.                       *)
LEMMA JobQuiet ==
  ASSUME NEW s, Typed(s), NEW t \in Tasks, NEW j \in s.task[t].jobs, NEW done \in BOOLEAN
  PROVE  Quietly(s, JobEnds(s, t, j, done))
<1> DEFINE c == [s EXCEPT !.task[t] = DropJob(@, j)]
           d == DropJob(s.task[t], j)
<1>1. Sound(s.task[t]) BY TypedSound
<1>2. Sound(d) /\ d.registered = s.task[t].registered /\ d.final = s.task[t].final
  BY <1>1, DropSound
<1>3. c = [s EXCEPT !.task[t] = d] OBVIOUS
<1>4. ~s.task[t].final BY <1>1 DEF Sound, TaskFits
<1>5. c.task[t] = d BY <1>3 DEF Typed, States
<1> HIDE DEF d
<1>6. Quietly(s, c)
  <2> HIDE DEF c
  <2> QED BY <1>2, <1>3, PutQuiet
<1>7. Typed(c) BY <1>6, QuietTyped
<1>8. JobEnds(s, t, j, done) =
        CASE j.phase = "timeout" /\ Ready(c.task[t], j) -> TaskExpired(c, t)
        [] j.phase = "timeout" /\ ~Ready(c.task[t], j) -> c
        [] j.phase # "timeout" /\ j.hook = "initiate" -> TaskInitiated(c, t, done)
        [] j.phase # "timeout" /\ j.hook = "expired" -> Update(c, t, Finalize(c.task[t]), TRUE)
        [] j.phase # "timeout" /\ j.hook = "cancel" -> TaskTerminated(c, t)
  BY DEF JobEnds
<1> HIDE DEF c
<1>9. Quietly(c, TaskExpired(c, t))
  <2> DEFINE e == SetState(c.task[t], "expired")
             m == TaskQueue(e, "expired")
  <2>1. Sound(e) /\ ~e.final /\ e.registered = c.task[t].registered
    BY <1>2, <1>4, <1>5, SetStateSound, Names
  <2>2. Sound(m) /\ m.registered = c.task[t].registered
    <3> HIDE DEF e
    <3> QED BY <2>1, QueueSound, Names
  <2>3. TaskExpired(c, t) = [c EXCEPT !.task[t] = m] BY DEF TaskExpired
  <2> HIDE DEF m
  <2> QED BY <2>2, <2>3, <1>7, PutQuiet
<1>10. Quietly(c, TaskInitiated(c, t, done)) /\ Quietly(c, TaskTerminated(c, t))
  BY <1>7, EndedQuiet, QuietSame DEF TaskInitiated
<1>11. Quietly(c, Update(c, t, Finalize(c.task[t]), TRUE))
  <2>1. Sound(Finalize(c.task[t])) /\ Finalize(c.task[t]).registered = c.task[t].registered
    BY <1>2, <1>5, FinalizeSound
  <2> QED BY <2>1, <1>7, UpdateQuiet
<1>12. j \in JobSet(TaskHooks, TaskState) BY <1>1 DEF Sound, MS, MediumSet
<1>13. j.hook \in {"initiate", "expired", "cancel"} BY <1>12 DEF JobSet, TaskHooks
<1>14. Quietly(c, JobEnds(s, t, j, done))
  BY <1>8, <1>9, <1>10, <1>11, <1>13, <1>7, QuietSame
<1> QED BY <1>6, <1>14, QuietTwice

(* A hook of a task that raises.                                           *)
LEMMA JobFailsQuiet ==
  ASSUME NEW s, Typed(s), NEW t \in Tasks, NEW j
  PROVE  Quietly(s, Update(s, t, FailJob(s.task[t], j, "error"), TRUE))
<1>1. Sound(s.task[t]) BY TypedSound
<1> QED BY <1>1, FailSound, UpdateQuiet

(* _kill_all_protocols() changes nothing but media and the stage.          *)
LEMMA KillQuiet ==
  ASSUME NEW s, Typed(s), NEW st \in DeathStages
  PROVE  /\ KillProtocols(s, st) \in States
         /\ Quietly([s EXCEPT !.death.stage = st], KillProtocols(s, st))
<1> DEFINE y == [s EXCEPT !.death.stage = st]
           f == [t \in Tasks |-> IF s.task[t].registered THEN Cleanup(s.task[t]) ELSE s.task[t]]
           g == [t \in Tasks |-> [s.info[t] EXCEPT !.failed =
                        @ \/ (s.task[t].registered /\ ~s.task[t].final)]]
           z == KillProtocols(s, st)
<1>1. ASSUME NEW t \in Tasks PROVE Sound(f[t]) /\ f[t].registered = s.task[t].registered
  <2>1. Sound(s.task[t]) BY TypedSound
  <2> QED BY <2>1, CleanupSound
<1>2. f \in [Tasks -> MS] BY <1>1 DEF Sound
<1>3. g \in [Tasks -> InfoSet]
  <2>1. ASSUME NEW t \in Tasks PROVE g[t] \in InfoSet
    <3>1. s.info[t] \in InfoSet /\ s.task[t] \in MS BY DEF Typed, States
    <3>2. (s.info[t].failed \/ (s.task[t].registered /\ ~s.task[t].final)) \in BOOLEAN
      OBVIOUS
    <3> QED BY <3>1, <3>2 DEF InfoSet
  <2> QED BY <2>1
<1>4. z = [s EXCEPT !.death.stage = st, !.task = f, !.info = g]
  BY DEF KillProtocols, Typed, States
<1> HIDE DEF f, g, z
<1>5. z \in States BY <1>2, <1>3, <1>4 DEF Typed, States, DeathSet
<1>6. /\ z.task = f /\ z.death = [s.death EXCEPT !.stage = st]
      /\ z.life = s.life /\ z.boot = s.boot /\ z.links = s.links
      /\ z.calls = s.calls /\ z.long = s.long /\ z.retry = s.retry
  BY <1>4 DEF Typed, States
<1>7. /\ y.task = s.task /\ y.death = [s.death EXCEPT !.stage = st]
      /\ y.life = s.life /\ y.boot = s.boot /\ y.links = s.links
      /\ y.calls = s.calls /\ y.long = s.long /\ y.retry = s.retry
  BY DEF Typed, States
<1> HIDE DEF y
<1> QED BY <1>1, <1>5, <1>6, <1>7 DEF Quietly, Sound, y, z

-----------------------------------------------------------------------------
(* A step about one retrying protocol                                      *)

Around(s, z, r) ==
  /\ Typed(z)
  /\ z.life = s.life /\ z.boot = s.boot /\ z.death = s.death /\ z.links = s.links
  /\ z.calls \ {r} = s.calls \ {r}
  /\ \A q \in Retrying : q # r => z.retry[q] = s.retry[q]
  /\ \A t \in Tasks : t[1] # r => z.task[t].registered = s.task[t].registered

(* Names of tasks, protocols and calls are different.                      *)
LEMMA Apart ==
  /\ Agent \notin Retrying /\ {"boot", "startup", "terminate"} \cap Retrying = {}
  /\ \A r \in Retrying, n \in 1..(MaxRetries + 2) : <<r, n>> \in Tasks /\ <<r, n>>[1] = r
  /\ \A t \in Tasks : t \notin Retrying /\ (t[1] = Agent \/ t[1] \in Retrying)
  /\ \A t \in Tasks : t[1] \in Retrying => \E n \in 1..(MaxRetries + 2) : t = <<t[1], n>>
BY RetryingAssumption DEF Tasks

(* A good state has its type.                                              *)
LEMMA GoodTyped == ASSUME NEW s, Good(s) PROVE Typed(s)
BY DEF Good, Typed

(* A retrying protocol of which nothing new began is as sound as before.   *)
LEMMA FitsSame ==
  ASSUME NEW s, NEW z, NEW r \in Retrying, RetryFits(s, r), z.retry[r] = s.retry[r],
         r \in z.calls => r \in s.calls,
         \A n \in 1..(MaxRetries + 2) : z.task[<<r, n>>].registered => s.task[<<r, n>>].registered
  PROVE  RetryFits(z, r)
BY DEF RetryFits

(* What changes only media keeps the state good,                           *)
LEMMA GoodQuiet == ASSUME NEW s, NEW z, Good(s), Quietly(s, z) PROVE Good(z)
<1>1. ASSUME NEW r \in Retrying PROVE RetryFits(z, r)
  <2>1. \A n \in 1..(MaxRetries + 2) : z.task[<<r, n>>].registered => s.task[<<r, n>>].registered
    BY Apart DEF Quietly
  <2>2. RetryFits(s, r) /\ z.retry[r] = s.retry[r] /\ z.calls = s.calls BY DEF Good, Quietly
  <2> QED BY <2>1, <2>2, FitsSame
<1> QED BY <1>1 DEF Good, Quietly

(* and so does what changes one retrying protocol, if that stays sound.    *)
LEMMA AroundGood ==
  ASSUME NEW s, NEW z, NEW r \in Retrying, Good(s), Around(s, z, r), RetryFits(z, r)
  PROVE  Good(z)
<1>1. ASSUME NEW q \in Retrying, q # r PROVE RetryFits(z, q)
  <2>1. \A n \in 1..(MaxRetries + 2) : z.task[<<q, n>>].registered => s.task[<<q, n>>].registered
    BY <1>1, Apart DEF Around
  <2>2. RetryFits(s, q) /\ z.retry[q] = s.retry[q] /\ (q \in z.calls => q \in s.calls)
    BY <1>1 DEF Good, Around
  <2> QED BY <2>1, <2>2, FitsSame
<1> QED BY <1>1 DEF Good, Around, Typed

(* The chain that starts the agent has no part in it.                      *)
LEMMA AroundOrdered ==
  ASSUME NEW s, NEW z, NEW r \in Retrying, Ordered(s), Around(s, z, r)
  PROVE  Ordered(z)
<1>1. \A c \in {"boot", "startup", "terminate"} : c \in z.calls <=> c \in s.calls
  BY Apart DEF Around
<1>2. z.life = s.life /\ z.boot = s.boot /\ z.death = s.death BY DEF Around
<1> QED BY <1>1, <1>2 DEF Ordered

(* remove() takes one protocol from the list.                              *)
LEMMA RemovedLong ==
  ASSUME NEW s \in States, NEW p
  PROVE  /\ RemoveFirst(s.long, p) \in Seq(Tasks \cup Retrying)
         /\ NotListed(s, p) \in States
         /\ NotListed(s, p) = [s EXCEPT !.long = RemoveFirst(s.long, p)]
         /\ \A q : q # p /\ Listed(s, q) => Listed(NotListed(s, p), q)
<1> DEFINE f == RemoveFirst(s.long, p)
           z == NotListed(s, p)
<1>1. s.long \in Seq(Tasks \cup Retrying) BY DEF States
<1>2. /\ f \in Seq(Tasks \cup Retrying)
      /\ \A i \in 1..Len(s.long) : s.long[i] # p => \E k \in 1..Len(f) : f[k] = s.long[i]
  BY <1>1, RemovedOnly
<1> HIDE DEF f
<1>3. z = [s EXCEPT !.long = f] BY DEF NotListed, f
<1> HIDE DEF z
<1>4. z \in States /\ z.long = f BY <1>2, <1>3 DEF States
<1>5. \A q : q # p /\ Listed(s, q) => Listed(z, q) BY <1>2, <1>4 DEF Listed
<1> QED BY <1>2, <1>3, <1>4, <1>5 DEF f, z

(* Two steps about one retrying protocol are one.                          *)
LEMMA AroundTwice ==
  ASSUME NEW s, NEW y, NEW z, NEW r, Around(s, y, r), Around(y, z, r)
  PROVE  Around(s, z, r)
BY DEF Around

(* A step that changes only media is about any of them.                    *)
LEMMA AroundQuiet ==
  ASSUME NEW s, NEW z, NEW r, Quietly(s, z) PROVE Around(s, z, r)
BY DEF Around, Quietly, Typed

(* The record of a retrying protocol, and its delayed call, change.        *)
Put(s, r, q, C) == [s EXCEPT !.calls = C, !.retry[r] = q]

(* The record of a retrying protocol and its delayed call change.          *)
LEMMA PutRetry ==
  ASSUME NEW s, Typed(s), NEW r \in Retrying, NEW q \in RetrySet, NEW C \in SUBSET Calls,
         C \ {r} = s.calls \ {r}
  PROVE  LET z == Put(s, r, q, C)
         IN  /\ Around(s, z, r)
             /\ z.retry[r] = q /\ z.calls = C /\ z.long = s.long /\ z.task = s.task
             /\ z.info = s.info
<1> DEFINE z == Put(s, r, q, C)
<1>1. z \in States
  <2>1. [s.retry EXCEPT ![r] = q] \in [Retrying -> RetrySet] BY DEF Put, Typed, States
  <2>2. z = [s EXCEPT !.calls = C, !.retry = [s.retry EXCEPT ![r] = q]] BY DEF Put, Typed, States
  <2> HIDE DEF z
  <2> QED BY <2>1, <2>2 DEF Typed, States
<1>2. /\ z.retry = [s.retry EXCEPT ![r] = q] /\ z.calls = C /\ z.long = s.long
      /\ z.task = s.task /\ z.info = s.info
      /\ z.life = s.life /\ z.boot = s.boot /\ z.death = s.death /\ z.links = s.links
  BY DEF Put, Typed, States
<1>3. s.retry \in [Retrying -> RetrySet] BY DEF Put, Typed, States
<1> HIDE DEF z
<1>4. Around(s, z, r) BY <1>1, <1>2, <1>3 DEF Around, Typed
<1>5. z.retry[r] = q BY <1>2, <1>3
<1> QED BY <1>2, <1>4, <1>5 DEF z

(* Its record alone changes.                                               *)
LEMMA PutRetryOnly ==
  ASSUME NEW s, Typed(s), NEW r \in Retrying, NEW q \in RetrySet
  PROVE  LET z == [s EXCEPT !.retry[r] = q]
         IN  /\ Around(s, z, r)
             /\ z.retry[r] = q /\ z.calls = s.calls /\ z.long = s.long /\ z.task = s.task
             /\ z.info = s.info
<1> DEFINE z == [s EXCEPT !.retry[r] = q]
<1> DEFINE C == s.calls
           y == Put(s, r, q, C)
<1>1. C \in SUBSET Calls BY DEF Typed, States
<1>2. z = y BY DEF Put, Typed, States
<1>3. C \ {r} = s.calls \ {r} OBVIOUS
<1> HIDE DEF z, C
<1>4. /\ Around(s, y, r)
      /\ y.retry[r] = q /\ y.calls = C /\ y.long = s.long /\ y.task = s.task
      /\ y.info = s.info
  BY <1>1, <1>3, PutRetry
<1> QED BY <1>2, <1>4 DEF z, C

(* It is taken from the list.                                              *)
LEMMA UnlistedAround ==
  ASSUME NEW s, Typed(s), NEW p, NEW r
  PROVE  LET z == NotListed(s, p)
         IN  /\ Around(s, z, r)
             /\ z.retry = s.retry /\ z.calls = s.calls /\ z.task = s.task /\ z.info = s.info
             /\ \A q : q # p /\ Listed(s, q) => Listed(z, q)
<1> DEFINE z == NotListed(s, p)
           f == RemoveFirst(s.long, p)
<1>1. z \in States /\ z = [s EXCEPT !.long = f] /\ \A q : q # p /\ Listed(s, q) => Listed(z, q)
  BY RemovedLong DEF Typed
<1> HIDE DEF z, f
<1>2. /\ z.retry = s.retry /\ z.calls = s.calls /\ z.task = s.task /\ z.info = s.info
      /\ z.life = s.life /\ z.boot = s.boot /\ z.death = s.death /\ z.links = s.links
  BY <1>1 DEF Typed, States
<1>3. Around(s, z, r) BY <1>1, <1>2 DEF Around, Typed
<1> QED BY <1>1, <1>2, <1>3 DEF z

(* cancel() of a retrying protocol                                         *)
LEMMA CancelRetryDoes ==
  ASSUME NEW s, Good(s), NEW r \in Retrying
  PROVE  LET z == CancelRetry(s, r)
             q == s.retry[r]
             p == z.retry[r]
         IN  /\ Around(s, z, r) /\ r \notin z.calls
             /\ \A t \in Tasks : z.task[t].registered = s.task[t].registered
             /\ p.cancelled /\ p.max = q.attempt - 1
             /\ p.attempt = q.attempt /\ p.bound = q.bound /\ p.initiator = q.initiator
             /\ p.started = q.started /\ p.tell = q.tell /\ p.alert = q.alert
             /\ z.long = s.long \/ z.long = RemoveFirst(s.long, r)
             /\ \A x : x # r /\ Listed(s, x) => Listed(z, x)
<1> DEFINE q == s.retry[r]
           q1 == [q EXCEPT !.max = q.attempt - 1, !.cancelled = TRUE]
           q2 == [q1 EXCEPT !.waiting = FALSE]
           q3 == [q1 EXCEPT !.delayed = FALSE]
           c == [s EXCEPT !.retry[r] = q1]
           d == [c EXCEPT !.retry[r] = q2]
           n == IF c.retry[r].waiting THEN NotListed(d, r) ELSE c
           e == [c EXCEPT !.calls = c.calls \ {r}, !.retry[r] = q3]
           z == CancelRetry(s, r)
           Kept(y) ==
             /\ Around(s, y, r)
             /\ \A t \in Tasks : y.task[t].registered = s.task[t].registered
             /\ LET p == y.retry[r]
                IN  /\ p.cancelled /\ p.max = q.attempt - 1
                    /\ p.attempt = q.attempt /\ p.bound = q.bound /\ p.initiator = q.initiator
                    /\ p.started = q.started /\ p.tell = q.tell /\ p.alert = q.alert
             /\ y.long = s.long \/ y.long = RemoveFirst(s.long, r)
             /\ \A x : x # r /\ Listed(s, x) => Listed(y, x)
<1>1. Typed(s) BY GoodTyped
<1>2. q \in RetrySet BY <1>1 DEF Typed, States
<1> DEFINE Said(p) ==
             /\ p.cancelled /\ p.max = q.attempt - 1
             /\ p.attempt = q.attempt /\ p.bound = q.bound /\ p.initiator = q.initiator
             /\ p.started = q.started /\ p.tell = q.tell /\ p.alert = q.alert
<1>31. q1 \in RetrySet /\ Said(q1) /\ q1.delayed = q.delayed /\ q1.waiting = q.waiting
  <2> HIDE DEF q
  <2>1. q.attempt - 1 \in Int BY <1>2 DEF RetrySet
  <2>2. q1 \in RetrySet BY <2>1, <1>2 DEF RetrySet
  <2>3. Said(q1) BY <1>2 DEF RetrySet
  <2>4. q1.delayed = q.delayed /\ q1.waiting = q.waiting BY <1>2 DEF RetrySet
  <2> QED BY <2>2, <2>3, <2>4
<1>32. q2 \in RetrySet /\ Said(q2)
  <2> HIDE DEF q1
  <2> QED BY <1>31 DEF RetrySet
<1>33. q3 \in RetrySet /\ Said(q3)
  <2> HIDE DEF q1
  <2> QED BY <1>31 DEF RetrySet
<1>3. /\ q1 \in RetrySet /\ q2 \in RetrySet /\ q3 \in RetrySet
      /\ Said(q1) /\ Said(q2) /\ Said(q3)
      /\ q1.delayed = q.delayed /\ q1.waiting = q.waiting
  BY <1>31, <1>32, <1>33
<1>4. z = IF c.retry[r].delayed THEN e
          ELSE IF n.retry[r].initiator THEN CleanupTask(n, Attempt(n, r)) ELSE n
  <2>1. c = [s EXCEPT !.retry[r].max = s.retry[r].attempt - 1, !.retry[r].cancelled = TRUE]
    BY <1>1 DEF Typed, States
  <2>2. c.retry[r] = q1 BY <1>1 DEF Typed, States
  <2>3. d = [c EXCEPT !.retry[r].waiting = FALSE] BY <2>2
  <2>4. e = [c EXCEPT !.calls = @ \ {r}, !.retry[r].delayed = FALSE] BY <2>2
  <2> HIDE DEF q1, q2, q3, c, d, e
  <2> QED BY <2>1, <2>3, <2>4 DEF CancelRetry
<1> HIDE DEF q1, q2, q3
<1>5. Kept(c) /\ c.retry[r] = q1 /\ c.calls = s.calls /\ c.task = s.task /\ c.long = s.long
  <2>1. /\ Around(s, c, r) /\ c.retry[r] = q1 /\ c.calls = s.calls /\ c.task = s.task
        /\ c.long = s.long
    BY <1>1, <1>3, PutRetryOnly
  <2> HIDE DEF c
  <2> QED BY <2>1, <1>3 DEF Listed
<1>6. Typed(c) BY <1>5 DEF Around
<1>7. Kept(e) /\ r \notin e.calls
  <2> DEFINE C == c.calls \ {r}
             y == Put(c, r, q3, C)
  <2>1. /\ Around(c, e, r) /\ e.retry[r] = q3 /\ e.calls = c.calls \ {r} /\ e.task = c.task
        /\ e.long = c.long
    <3> HIDE DEF c
    <3>1. C \in SUBSET Calls /\ C \ {r} = c.calls \ {r} BY <1>6 DEF Typed, States
    <3>2. e = y BY DEF Put
    <3> HIDE DEF C, e
    <3>3. /\ Around(c, y, r) /\ y.retry[r] = q3 /\ y.calls = C /\ y.task = c.task
          /\ y.long = c.long
      BY <1>3, <1>6, <3>1, PutRetry
    <3> QED BY <3>2, <3>3 DEF C
  <2> HIDE DEF c, e
  <2>2. Around(s, e, r) BY <1>5, <2>1, AroundTwice
  <2> QED BY <2>1, <2>2, <1>3, <1>5 DEF Listed
<1>8. Kept(n) /\ n.calls = s.calls /\ n.task = s.task /\ n.retry[r] \in {q1, q2}
  <2>1. CASE ~c.retry[r].waiting
    <3>1. n = c BY <2>1
    <3> HIDE DEF n, c, d
    <3> QED BY <3>1, <1>5
  <2>2. CASE c.retry[r].waiting
    <3>1. n = NotListed(d, r) BY <2>2
    <3>2. /\ Around(c, d, r) /\ d.retry[r] = q2 /\ d.calls = c.calls /\ d.task = c.task
          /\ d.long = c.long
      <4> HIDE DEF c
      <4> QED BY <1>3, <1>6, PutRetryOnly
    <3> HIDE DEF n, c, d
    <3>3. Typed(d) BY <3>2 DEF Around
    <3>4. /\ Around(d, n, r)
          /\ n.retry = d.retry /\ n.calls = d.calls /\ n.task = d.task
          /\ \A x : x # r /\ Listed(d, x) => Listed(n, x)
      BY <3>1, <3>3, UnlistedAround
    <3>5. n.long = RemoveFirst(s.long, r)
      <4>1. NotListed(d, r) = [d EXCEPT !.long = RemoveFirst(d.long, r)] BY <3>3, RemovedLong DEF Typed
      <4>2. NotListed(d, r).long = RemoveFirst(d.long, r) BY <4>1, <3>3 DEF Typed, States
      <4> QED BY <4>2, <3>1, <3>2, <1>5
    <3>6. Around(s, n, r) BY <1>5, <3>2, <3>4, AroundTwice
    <3>7. ASSUME NEW x, x # r, Listed(s, x) PROVE Listed(n, x)
      <4>1. Listed(d, x) BY <3>7, <3>2, <1>5 DEF Listed
      <4> QED BY <4>1, <3>7, <3>4
    <3> QED BY <3>2, <3>4, <3>5, <3>6, <3>7, <1>3, <1>5
  <2> QED BY <2>1, <2>2
<1>9. r \in s.calls => q.delayed BY DEF Good, RetryFits
<1>10. CASE c.retry[r].delayed
  <2>1. z = e BY <1>4, <1>10
  <2> HIDE DEF z, e, c, n, d
  <2>2. Kept(z) /\ r \notin z.calls BY <2>1, <1>7
  <2> QED BY <2>2 DEF z
<1>11. CASE ~c.retry[r].delayed
  <2>1. z = IF n.retry[r].initiator THEN CleanupTask(n, Attempt(n, r)) ELSE n BY <1>4, <1>11
  <2>2. ~q.delayed BY <1>11, <1>5, <1>3
  <2> HIDE DEF z, e, c, n, d
  <2>3. Typed(n) BY <1>8 DEF Around
  <2>4. CASE ~n.retry[r].initiator
    <3>1. Kept(z) /\ r \notin z.calls BY <2>1, <2>2, <2>4, <1>8, <1>9
    <3> QED BY <3>1 DEF z
  <2>5. CASE n.retry[r].initiator
    <3> DEFINE t == Attempt(n, r)
    <3>1. t = <<r, q.attempt>> BY <1>8, <1>3 DEF Attempt
    <3>2. q.initiator BY <2>5, <1>8, <1>3
    <3>3. q.attempt \in 1..(MaxRetries + 2)
      BY <3>2, <1>2, MaxRetriesAssumption DEF Good, RetryFits, RetrySet
    <3>4. t \in Tasks BY <3>1, <3>3, Apart
    <3> HIDE DEF t
    <3>5. Quietly(n, CleanupTask(n, t)) BY <2>3, <3>4, CleanupQuiet
    <3>6. z = CleanupTask(n, t) BY <2>1, <2>5 DEF t
    <3>7. Around(n, z, r) BY <3>5, <3>6, AroundQuiet
    <3>8. Around(s, z, r) BY <3>7, <1>8, AroundTwice
    <3>9. /\ \A u \in Tasks : z.task[u].registered = n.task[u].registered
          /\ z.calls = n.calls /\ z.retry = n.retry /\ z.long = n.long
      BY <3>5, <3>6 DEF Quietly
    <3>10. Kept(z) /\ r \notin z.calls BY <3>8, <3>9, <1>8, <1>9, <2>2 DEF Listed
    <3> QED BY <3>10 DEF z
  <2> QED BY <2>4, <2>5
<1> QED BY <1>10, <1>11

(* cancel() of a retrying protocol keeps it sound.                         *)
LEMMA CancelRetryGood ==
  ASSUME NEW s, Good(s), NEW r \in Retrying PROVE Good(CancelRetry(s, r))
<1> DEFINE z == CancelRetry(s, r)
           q == s.retry[r]
           p == z.retry[r]
<1>1. /\ Around(s, z, r) /\ r \notin z.calls
      /\ \A t \in Tasks : z.task[t].registered = s.task[t].registered
      /\ p.cancelled /\ p.max = q.attempt - 1
      /\ p.attempt = q.attempt /\ p.bound = q.bound /\ p.initiator = q.initiator
      /\ p.started = q.started /\ p.tell = q.tell /\ p.alert = q.alert
  BY CancelRetryDoes
<1>2. RetryFits(s, r) /\ q.attempt \in Nat BY DEF Good, States, RetrySet
<1>3. \A n \in 1..(MaxRetries + 2) : z.task[<<r, n>>].registered = s.task[<<r, n>>].registered
  BY <1>1, Apart
<1> HIDE DEF z
<1>4. RetryFits(z, r) BY <1>1, <1>2, <1>3, MaxRetriesAssumption DEF RetryFits
<1>5. Good(z) BY <1>1, <1>4, AroundGood
<1> QED BY <1>5 DEF z

(* _trigger_callbacks() tells whoever waits, and nothing else.             *)
LEMMA TriggerDoes ==
  ASSUME NEW s, Typed(s), NEW r \in Retrying, NEW result \in {"ok", "failed"}
  PROVE  LET z == TriggerCallbacks(s, r, result)
             q == s.retry[r]
             p == z.retry[r]
         IN  /\ Around(s, z, r) /\ z.calls = s.calls /\ z.task = s.task /\ z.long = s.long
             /\ ~p.waiting /\ p.tell \in {q.tell, result}
             /\ p.started = q.started /\ p.bound = q.bound /\ p.attempt = q.attempt
             /\ p.max = q.max /\ p.delayed = q.delayed /\ p.initiator = q.initiator
             /\ p.cancelled = q.cancelled /\ p.alert = q.alert
<1> DEFINE q == s.retry[r]
           p == [q EXCEPT !.waiting = FALSE, !.tell = result]
           z == TriggerCallbacks(s, r, result)
<1>1. q \in RetrySet BY DEF Typed, States
<1>2. CASE ~q.waiting
  <2>1. z = s BY <1>2 DEF TriggerCallbacks
  <2>2. Around(s, s, r) BY QuietSame, AroundQuiet
  <2> HIDE DEF z
  <2>3. /\ Around(s, z, r) /\ z.calls = s.calls /\ z.task = s.task /\ z.long = s.long
        /\ z.retry = s.retry
    BY <2>1, <2>2
  <2>4. z.retry[r] = q BY <2>3
  <2> HIDE DEF q
  <2> QED BY <1>2, <2>3, <2>4 DEF z, q
<1>3. CASE q.waiting
  <2>1. z = [s EXCEPT !.retry[r] = p]
    BY <1>3 DEF TriggerCallbacks, Typed, States
  <2>2. p \in RetrySet BY <1>1 DEF RetrySet
  <2>3. /\ ~p.waiting /\ p.tell = result
        /\ p.started = q.started /\ p.bound = q.bound /\ p.attempt = q.attempt
        /\ p.max = q.max /\ p.delayed = q.delayed /\ p.initiator = q.initiator
        /\ p.cancelled = q.cancelled /\ p.alert = q.alert
    <3> HIDE DEF q
    <3> QED BY <1>1 DEF RetrySet
  <2> HIDE DEF p, z
  <2>4. /\ Around(s, z, r)
        /\ z.retry[r] = p /\ z.calls = s.calls /\ z.long = s.long /\ z.task = s.task
    BY <2>1, <2>2, PutRetryOnly
  <2> HIDE DEF q
  <2> QED BY <2>3, <2>4 DEF z, q
<1> QED BY <1>2, <1>3

(* The notifier of a task that has failed, or that has not                 *)
LEMMA WaitAndRetryDoes ==
  ASSUME NEW s, Good(s), NEW r \in Retrying, s.retry[r].initiator, s.retry[r].tell = None,
         \A n \in 1..(MaxRetries + 2) : ~s.task[<<r, n>>].registered
  PROVE  LET z == WaitAndRetry(s, r)
             q == s.retry[r]
             p == z.retry[r]
         IN  /\ Around(s, z, r) /\ z.task = s.task /\ z.long = s.long
             /\ RetryFits(z, r)
             /\ p.cancelled = q.cancelled /\ p.bound = q.bound /\ p.attempt = q.attempt
             /\ p.waiting => r \in z.calls
<1> DEFINE q == s.retry[r]
           q1 == [q EXCEPT !.initiator = FALSE, !.alert = q.alert \/ q.attempt >= AlertAfter]
           q2 == [q1 EXCEPT !.delayed = TRUE]
           c == [s EXCEPT !.retry[r] = q1]
           z == WaitAndRetry(s, r)
           p == z.retry[r]
<1>1. Typed(s) BY GoodTyped
<1>2. q \in RetrySet BY <1>1 DEF Typed, States
<1>3. RetryFits(s, r) BY DEF Good
<1>4. q.attempt > 0 /\ r \notin s.calls /\ ~q.bound BY <1>2, <1>3 DEF RetryFits, RetrySet
<1>5. /\ q1 \in RetrySet /\ ~q1.initiator /\ q1.alert = (q.alert \/ q.attempt >= AlertAfter)
      /\ q1.started = q.started /\ q1.bound = q.bound /\ q1.attempt = q.attempt
      /\ q1.max = q.max /\ q1.tell = q.tell /\ q1.cancelled = q.cancelled
  <2> HIDE DEF q
  <2>1. (q.alert \/ q.attempt >= AlertAfter) \in BOOLEAN OBVIOUS
  <2> QED BY <1>2, <2>1 DEF RetrySet
<1>6. /\ q2 \in RetrySet /\ q2.delayed /\ q2.initiator = q1.initiator /\ q2.alert = q1.alert
      /\ q2.started = q1.started /\ q2.bound = q1.bound /\ q2.attempt = q1.attempt
      /\ q2.max = q1.max /\ q2.tell = q1.tell /\ q2.cancelled = q1.cancelled
  <2> HIDE DEF q1
  <2> QED BY <1>5 DEF RetrySet
<1>7. c = [s EXCEPT !.retry[r].initiator = FALSE,
                    !.retry[r].alert = @ \/ s.retry[r].attempt >= AlertAfter]
  BY <1>1 DEF Typed, States
<1>8. z = IF c.retry[r].attempt > c.retry[r].max THEN TriggerCallbacks(c, r, "failed")
          ELSE [c EXCEPT !.calls = @ \cup {r}, !.retry[r].delayed = TRUE]
  <2> HIDE DEF c
  <2> QED BY <1>7 DEF WaitAndRetry
<1> HIDE DEF q1
<1>9. /\ Around(s, c, r)
      /\ c.retry[r] = q1 /\ c.calls = s.calls /\ c.long = s.long /\ c.task = s.task
  BY <1>1, <1>5, PutRetryOnly
<1> HIDE DEF c, z
<1>10. Typed(c) BY <1>9 DEF Around
<1>11. CASE c.retry[r].attempt > c.retry[r].max
  <2>1. z = TriggerCallbacks(c, r, "failed") BY <1>8, <1>11
  <2>2. /\ Around(c, z, r) /\ z.calls = c.calls /\ z.task = c.task /\ z.long = c.long
        /\ ~p.waiting /\ p.tell \in {q1.tell, "failed"}
        /\ p.started = q1.started /\ p.bound = q1.bound /\ p.attempt = q1.attempt
        /\ p.max = q1.max /\ p.delayed = q1.delayed /\ p.initiator = q1.initiator
        /\ p.cancelled = q1.cancelled /\ p.alert = q1.alert
    BY <2>1, <1>9, <1>10, TriggerDoes
  <2>3. Around(s, z, r) BY <1>9, <2>2, AroundTwice
  <2>4. p.tell # "ok" BY <2>2, <1>5, Names
  <2>5. RetryFits(z, r)
    <3> HIDE DEF q2
    <3>1. q.attempt \in Nat /\ q.max \in Int /\ q.alert \in BOOLEAN BY <1>2 DEF RetrySet
    <3>2. q.alert => q.attempt >= AlertAfter BY <1>3 DEF RetryFits
    <3> QED BY <3>1, <3>2, <2>2, <2>4, <1>3, <1>4, <1>5, <1>9 DEF RetryFits
  <2> QED BY <2>2, <2>3, <2>5, <1>5, <1>9 DEF z
<1>12. CASE ~(c.retry[r].attempt > c.retry[r].max)
  <2> DEFINE C == c.calls \cup {r}
             y == Put(c, r, q2, C)
  <2>1. z = y BY <1>8, <1>9, <1>10, <1>12 DEF Put, Typed, States
  <2>2. C \in SUBSET Calls /\ C \ {r} = c.calls \ {r}
    BY <1>10 DEF Typed, States, Calls
  <2> HIDE DEF C, y
  <2>3. /\ Around(c, y, r) /\ y.retry[r] = q2 /\ y.calls = C /\ y.task = c.task
        /\ y.long = c.long
    BY <1>6, <1>10, <2>2, PutRetry DEF y
  <2>4. Around(s, z, r) BY <1>9, <2>1, <2>3, AroundTwice
  <2> HIDE DEF q2
  <2>5. RetryFits(z, r)
    <3>1. q.attempt \in Nat /\ q.max \in Int /\ q.alert \in BOOLEAN BY <1>2 DEF RetrySet
    <3>2. q.alert => q.attempt >= AlertAfter BY <1>3 DEF RetryFits
    <3>3. q.attempt <= q.max BY <1>5, <1>9, <1>12, <3>1
    <3>4. z.retry[r] = q2 /\ z.task = s.task BY <1>9, <2>1, <2>3
    <3>5. q2.tell = None BY <1>5, <1>6
    <3>6. q2.tell # "ok" BY <3>5, Names
    <3> QED BY <3>1, <3>2, <3>3, <3>4, <3>5, <3>6, <1>3, <1>4, <1>5, <1>6 DEF RetryFits
  <2>6. r \in z.calls BY <2>1, <2>3 DEF C
  <2> QED BY <2>1, <2>3, <2>4, <2>5, <2>6, <1>5, <1>6, <1>9 DEF z
<1> QED BY <1>11, <1>12

(* _finalize() resolves the alert and tells whoever waits.                 *)
LEMMA RetrySucceededDoes ==
  ASSUME NEW s, Good(s), NEW r \in Retrying, s.retry[r].initiator, s.retry[r].tell = None,
         \A n \in 1..(MaxRetries + 2) : ~s.task[<<r, n>>].registered
  PROVE  LET z == RetrySucceeded(s, r)
             q == s.retry[r]
             p == z.retry[r]
         IN  /\ Around(s, z, r) /\ z.task = s.task /\ z.long = s.long
             /\ RetryFits(z, r) /\ r \notin z.calls
             /\ p.cancelled = q.cancelled /\ p.bound = q.bound /\ p.attempt = q.attempt
             /\ ~p.waiting
<1> DEFINE q == s.retry[r]
           q1 == [q EXCEPT !.alert = q.alert /\ q.attempt <= AlertAfter]
           c == [s EXCEPT !.retry[r] = q1]
           z == RetrySucceeded(s, r)
           p == z.retry[r]
<1>1. Typed(s) BY GoodTyped
<1>2. q \in RetrySet BY <1>1 DEF Typed, States
<1>3. RetryFits(s, r) BY DEF Good
<1>4. q.attempt > 0 /\ r \notin s.calls /\ ~q.bound BY <1>2, <1>3 DEF RetryFits, RetrySet
<1>5. /\ q1 \in RetrySet /\ q1.alert = (q.alert /\ q.attempt <= AlertAfter)
      /\ q1.initiator = q.initiator
      /\ q1.started = q.started /\ q1.bound = q.bound /\ q1.attempt = q.attempt
      /\ q1.max = q.max /\ q1.tell = q.tell /\ q1.cancelled = q.cancelled
  <2> HIDE DEF q
  <2>1. (q.alert /\ q.attempt <= AlertAfter) \in BOOLEAN OBVIOUS
  <2> QED BY <1>2, <2>1 DEF RetrySet
<1>6. ~q1.alert
  <2>1. q.attempt \in Nat BY <1>2 DEF RetrySet
  <2>2. q.alert => q.attempt > AlertAfter BY <1>3 DEF RetryFits
  <2>3. q.attempt <= AlertAfter => ~(q.attempt > AlertAfter) BY <2>1, AlertAfterAssumption
  <2> HIDE DEF q, q1
  <2> QED BY <1>5, <2>2, <2>3
<1>7. c = [s EXCEPT !.retry[r].alert = @ /\ s.retry[r].attempt <= AlertAfter]
  BY <1>1 DEF Typed, States
<1>8. z = TriggerCallbacks(c, r, "ok")
  <2> HIDE DEF c
  <2> QED BY <1>7 DEF RetrySucceeded
<1> HIDE DEF q1
<1>9. /\ Around(s, c, r)
      /\ c.retry[r] = q1 /\ c.calls = s.calls /\ c.long = s.long /\ c.task = s.task
  BY <1>1, <1>5, PutRetryOnly
<1> HIDE DEF c, z
<1>10. Typed(c) BY <1>9 DEF Around
<1>11. /\ Around(c, z, r) /\ z.calls = c.calls /\ z.task = c.task /\ z.long = c.long
       /\ ~p.waiting /\ p.tell \in {q1.tell, "ok"}
       /\ p.started = q1.started /\ p.bound = q1.bound /\ p.attempt = q1.attempt
       /\ p.max = q1.max /\ p.delayed = q1.delayed /\ p.initiator = q1.initiator
       /\ p.cancelled = q1.cancelled /\ p.alert = q1.alert
  BY <1>8, <1>9, <1>10, TriggerDoes
<1>12. Around(s, z, r) BY <1>9, <1>11, AroundTwice
<1>13. RetryFits(z, r)
  BY <1>3, <1>4, <1>5, <1>6, <1>9, <1>11 DEF RetryFits
<1> QED BY <1>4, <1>5, <1>9, <1>11, <1>12, <1>13 DEF z

-----------------------------------------------------------------------------
(* The inductive invariant, but that nobody need go on with the retrying   *)
(* protocols X                                                             *)
InvBut(s, X) ==
  /\ Good(s)
  /\ InTime => Ordered(s) /\ \A r \in Retrying : r \notin X => Served(s, r)
  /\ Calm => Ending(s)
  /\ Calm => \A r \in Retrying : Reached(s, r)
Inv(s) == InvBut(s, {})

EndFits(z, r) ==
  /\ InTime => Served(z, r)
  /\ Calm => /\ z.death.stage # "none" => ~z.retry[r].bound
             /\ z.death.stage \in {"body", "rekill", "done"} /\ z.retry[r].cancelled => ~Runs(z, r)
  /\ Calm => Reached(z, r)

(* A step about one retrying protocol leaves the others in the list, and   *)
(* does not undo cancel().                                                 *)
Heeds(s, z, r) ==
  /\ s.retry[r].cancelled => z.retry[r].cancelled
  /\ \A x \in Retrying : x # r /\ Listed(s, x) => Listed(z, x)

(* What does not begin does not go on.                                     *)
LEMMA GoesLess ==
  ASSUME NEW s, NEW z, NEW r \in Retrying, z.retry[r] = s.retry[r],
         r \in z.calls => r \in s.calls,
         \A t \in Tasks : z.task[t].registered => s.task[t].registered
  PROVE  (Runs(z, r) => Runs(s, r)) /\ (Goes(z, r) => Goes(s, r))
BY Apart DEF Runs, Goes

(* A step about one retrying protocol leaves the others going.             *)
LEMMA AroundGoes ==
  ASSUME NEW s, NEW z, NEW r \in Retrying, Around(s, z, r), NEW q \in Retrying, q # r
  PROVE  Runs(z, q) = Runs(s, q) /\ Goes(z, q) = Goes(s, q)
<1>1. \A n \in 1..(MaxRetries + 2) : z.task[<<q, n>>].registered = s.task[<<q, n>>].registered
  BY Apart DEF Around
<1>2. Runs(z, q) = Runs(s, q) BY <1>1 DEF Runs
<1>3. z.retry[q] = s.retry[q] /\ (q \in z.calls <=> q \in s.calls) BY DEF Around
<1> QED BY <1>2, <1>3 DEF Goes

(* It keeps the invariant if it keeps what is claimed of that one.         *)
LEMMA AroundInv ==
  ASSUME NEW s, NEW z, NEW r \in Retrying, InvBut(s, {r}), Around(s, z, r), RetryFits(z, r),
         EndFits(z, r), Heeds(s, z, r)
  PROVE  Inv(z)
<1>1. Good(z) BY AroundGood DEF InvBut
<1>2. InTime => Ordered(z) BY AroundOrdered DEF InvBut
<1>3. /\ z.life = s.life /\ z.boot = s.boot /\ z.death = s.death /\ z.links = s.links
      /\ z.calls \ {r} = s.calls \ {r}
      /\ \A q \in Retrying : q # r => z.retry[q] = s.retry[q]
      /\ \A t \in Tasks : t[1] # r => z.task[t].registered = s.task[t].registered
  BY DEF Around
<1>4. ASSUME NEW q \in Retrying, InTime PROVE Served(z, q)
  <2>1. CASE q = r BY <1>4, <2>1 DEF EndFits
  <2>2. CASE q # r
    <3>1. Served(s, q) BY <1>4, <2>2 DEF InvBut
    <3>2. Goes(z, q) = Goes(s, q) BY <2>2, AroundGoes
    <3> QED BY <3>1, <3>2, <1>3, <2>2 DEF Served
  <2> QED BY <2>1, <2>2
<1>5. ASSUME Calm PROVE Ending(z)
  <2>1. Ending(s) BY <1>5 DEF InvBut
  <2>2. ASSUME NEW q \in Retrying
        PROVE  /\ z.death.stage # "none" => ~z.retry[q].bound
               /\ z.death.stage \in {"body", "rekill", "done"} /\ z.retry[q].cancelled => ~Runs(z, q)
    <3>1. CASE q = r BY <3>1, <1>5 DEF EndFits
    <3>2. CASE q # r
      <4>1. Runs(z, q) = Runs(s, q) BY <3>2, AroundGoes
      <4> QED BY <2>1, <3>2, <4>1, <1>3 DEF Ending
    <3> QED BY <3>1, <3>2
  <2>3. z.death.stage \in {"kill", "body", "rekill", "done"} => z.calls \subseteq Retrying
    BY <2>1, <1>3 DEF Ending
  <2>4. z.death.stage = "done" => \A t \in Tasks : z.task[t].registered => t[1] # Agent
    BY <2>1, <1>3, Apart DEF Ending
  <2> QED BY <2>1, <2>2, <2>3, <2>4, <1>3 DEF Ending
<1>6. ASSUME NEW q \in Retrying, Calm PROVE Reached(z, q)
  <2>1. CASE q = r BY <1>6, <2>1 DEF EndFits
  <2>2. CASE q # r
    <3>1. Reached(s, q) BY <1>6 DEF InvBut
    <3>2. Goes(z, q) = Goes(s, q) BY <2>2, AroundGoes
    <3>3. Listed(s, q) => Listed(z, q) BY <2>2 DEF Heeds
    <3>4. \A x \in Retrying : s.retry[x].cancelled => z.retry[x].cancelled
      BY <1>3 DEF Heeds
    <3> QED BY <3>1, <3>2, <3>3, <3>4, <1>3, <2>2 DEF Reached
  <2> QED BY <2>1, <2>2
<1> QED BY <1>1, <1>2, <1>4, <1>5, <1>6 DEF Inv, InvBut

(* A step that changes no retrying protocol and registers no task keeps     *)
(* what is claimed while nobody is told to go.                             *)
LEMMA QuietInv ==
  ASSUME NEW s, NEW z, Inv(s), Quietly(s, z) PROVE Inv(z)
<1>1. Good(z) BY GoodQuiet DEF Inv, InvBut
<1>2. /\ z.life = s.life /\ z.boot = s.boot /\ z.death = s.death /\ z.links = s.links
      /\ z.calls = s.calls /\ z.long = s.long /\ z.retry = s.retry
      /\ \A t \in Tasks : z.task[t].registered = s.task[t].registered
  BY DEF Quietly
<1>3. InTime => Ordered(z) BY <1>2 DEF Inv, InvBut, Ordered
<1>4. ASSUME NEW r \in Retrying PROVE Runs(z, r) = Runs(s, r) /\ Goes(z, r) = Goes(s, r)
  <2>1. Runs(z, r) = Runs(s, r)
    BY <1>2, Apart DEF Runs
  <2> QED BY <2>1, <1>2 DEF Goes
<1>5. ASSUME InTime PROVE \A r \in Retrying : Served(z, r)
  BY <1>2, <1>4, <1>5 DEF Inv, InvBut, Served
<1>6. ASSUME Calm PROVE Ending(z)
  BY <1>2, <1>4, <1>6 DEF Inv, InvBut, Ending
<1>7. ASSUME Calm PROVE \A r \in Retrying : Reached(z, r)
  BY <1>2, <1>4, <1>7 DEF Inv, InvBut, Reached, Listed
<1> QED BY <1>1, <1>3, <1>5, <1>6, <1>7 DEF Inv, InvBut

-----------------------------------------------------------------------------
(* The stages of _terminate_procedure()                                    *)

Dies(s, z) ==
  /\ Typed(z)
  /\ z.life = s.life /\ z.boot = s.boot /\ z.links = s.links /\ z.death.held = s.death.held
  /\ z.long = s.long /\ z.retry = s.retry /\ z.calls \subseteq s.calls
  /\ \A t \in Tasks : z.task[t].registered = s.task[t].registered

(* A stage of the termination that clears delayed calls or kills media.    *)
LEMMA DiesInv ==
  ASSUME NEW s, NEW z, NEW X, InvBut(s, X), Dies(s, z),
         \/ s.death.stage = "cancel" /\ z.death.stage \in {"kill", "body"} /\ z.calls = {}
         \/ s.death.stage = "kill" /\ z.death.stage = "body" /\ z.calls = {}
         \/ s.death.stage = "body" /\ z.death.stage = "rekill",
         z.death.stage = "body" => \A t \in Tasks : ~s.task[t].registered
  PROVE  Inv(z)
<1>1. /\ z.life = s.life /\ z.boot = s.boot /\ z.links = s.links
      /\ z.long = s.long /\ z.retry = s.retry /\ z.calls \subseteq s.calls
      /\ z.death.held = s.death.held
      /\ \A t \in Tasks : z.task[t].registered = s.task[t].registered
  BY DEF Dies
<1>2. ASSUME NEW r \in Retrying
      PROVE  RetryFits(z, r) /\ (Runs(z, r) => Runs(s, r)) /\ (Goes(z, r) => Goes(s, r))
  <2>1. \A n \in 1..(MaxRetries + 2) : z.task[<<r, n>>].registered => s.task[<<r, n>>].registered
    BY <1>1, Apart
  <2>2. z.retry[r] = s.retry[r] /\ (r \in z.calls => r \in s.calls) BY <1>1
  <2>3. RetryFits(s, r) BY DEF InvBut, Good
  <2> QED BY <1>1, <2>1, <2>2, <2>3, FitsSame, GoesLess
<1>3. Good(z) BY <1>2 DEF Dies, Typed, Good
<1>4. InTime => Ordered(z) /\ \A r \in Retrying : Served(z, r)
  BY <1>1 DEF InvBut, Ordered, Served
<1>5. ASSUME Calm PROVE Ending(z)
  <2>1. Ending(s) BY <1>5 DEF InvBut
  <2>2. ASSUME NEW r \in Retrying, z.death.stage \in {"body", "rekill", "done"}, z.retry[r].cancelled
        PROVE  ~Runs(z, r)
    <3>1. CASE z.death.stage = "body"
      <4>1. \A n \in 1..(MaxRetries + 2) : ~z.task[<<r, n>>].registered BY <3>1, <1>1, Apart
      <4> QED BY <4>1 DEF Runs
    <3>2. CASE z.death.stage # "body"
      <4>1. s.death.stage = "body" BY <2>2, <3>2
      <4> QED BY <4>1, <2>1, <2>2, <1>1, <1>2 DEF Ending
    <3> QED BY <3>1, <3>2
  <2>3. z.death.stage \in {"kill", "body", "rekill", "done"} => z.calls \subseteq Retrying
    BY <2>1, <1>1 DEF Ending
  <2>4. z.death.stage # "done" /\ z.death.stage # "none" /\ s.death.stage \in {"cancel", "kill", "body"}
    OBVIOUS
  <2>5. z.links = z.death.held BY <2>1, <2>4, <1>1 DEF Ending
  <2>6. \A r \in Retrying : ~z.retry[r].bound BY <2>1, <2>4, <1>1 DEF Ending
  <2> QED BY <2>2, <2>3, <2>4, <2>5, <2>6 DEF Ending
<1>6. ASSUME Calm PROVE \A r \in Retrying : Reached(z, r)
  BY <1>1, <1>2, <1>6 DEF InvBut, Reached
<1> QED BY <1>3, <1>4, <1>5, <1>6 DEF Inv, InvBut

(* _kill_all_protocols() is one,                                           *)
LEMMA KillDies ==
  ASSUME NEW s, Typed(s), NEW st \in DeathStages
  PROVE  /\ Dies(s, KillProtocols(s, st)) /\ KillProtocols(s, st).death.stage = st
         /\ KillProtocols(s, st).calls = s.calls
<1> DEFINE y == [s EXCEPT !.death.stage = st]
           z == KillProtocols(s, st)
<1>1. Quietly(y, z) BY KillQuiet
<1>2. /\ y.task = s.task /\ y.death.stage = st /\ y.death.held = s.death.held
      /\ y.life = s.life /\ y.boot = s.boot /\ y.links = s.links
      /\ y.calls = s.calls /\ y.long = s.long /\ y.retry = s.retry
  BY DEF Typed, States, DeathSet
<1> HIDE DEF y, z
<1>3. Typed(z) BY <1>1, QuietTyped
<1>4. Dies(s, z) /\ z.death.stage = st /\ z.calls = s.calls
  BY <1>1, <1>2, <1>3 DEF Dies, Quietly
<1> QED BY <1>4 DEF z

(* _cancel_all_delayed_calls() is another,                                 *)
LEMMA ClearedDies ==
  ASSUME NEW s, Typed(s)
  PROVE  /\ Dies(s, CancelAllDelayedCalls(s)) /\ CancelAllDelayedCalls(s).calls = {}
         /\ CancelAllDelayedCalls(s).death = s.death
         /\ Dies(s, AfterKill(s)) /\ AfterKill(s).calls = {} /\ AfterKill(s).death.stage = "body"
<1> DEFINE y == CancelAllDelayedCalls(s)
           z == AfterKill(s)
<1>1. y = [s EXCEPT !.calls = {}] BY DEF CancelAllDelayedCalls
<1>2. y \in States BY <1>1 DEF Typed, States
<1>3. /\ y.task = s.task /\ y.death = s.death
      /\ y.life = s.life /\ y.boot = s.boot /\ y.links = s.links
      /\ y.calls = {} /\ y.long = s.long /\ y.retry = s.retry
  BY <1>1 DEF Typed, States
<1>4. z = [y EXCEPT !.death.stage = "body"] BY DEF AfterKill
<1> HIDE DEF y, z
<1>5. z \in States
  <2>1. [y.death EXCEPT !.stage = "body"] \in DeathSet BY <1>2 DEF States, DeathSet, DeathStages
  <2>2. z = [y EXCEPT !.death = [y.death EXCEPT !.stage = "body"]] BY <1>4
  <2> QED BY <2>1, <2>2, <1>2 DEF States
<1>6. /\ z.task = s.task /\ z.death.stage = "body" /\ z.death.held = s.death.held
      /\ z.life = s.life /\ z.boot = s.boot /\ z.links = s.links
      /\ z.calls = {} /\ z.long = s.long /\ z.retry = s.retry
  BY <1>2, <1>3, <1>4 DEF States, DeathSet
<1>7. Dies(s, y) /\ Dies(s, z) BY <1>2, <1>3, <1>5, <1>6 DEF Dies, Typed
<1> QED BY <1>3, <1>6, <1>7 DEF y, z

(* and they follow each other.                                             *)
LEMMA DiesTwice ==
  ASSUME NEW s, NEW y, NEW z, Dies(s, y), Dies(y, z)
  PROVE  Dies(s, z)
BY DEF Dies

(* The procedure goes on when all protocols are gone,                      *)
LEMMA AfterKillInv ==
  ASSUME NEW s, NEW X, InvBut(s, X), s.death.stage \in {"cancel", "kill"}, Registered(s) = {}
  PROVE  Inv(AfterKill(s))
<1>1. Typed(s) BY GoodTyped DEF InvBut
<1>2. /\ Dies(s, AfterKill(s)) /\ AfterKill(s).calls = {} /\ AfterKill(s).death.stage = "body"
  BY <1>1, ClearedDies
<1>3. \A t \in Tasks : ~s.task[t].registered BY DEF Registered
<1> QED BY <1>2, <1>3, DiesInv

(* when all cancel() calls have ended,                                     *)
LEMMA AfterCancelInv ==
  ASSUME NEW s, Inv(s), s.death.stage = "cancel" PROVE Inv(AfterCancel(s))
<1> DEFINE c == CancelAllDelayedCalls(s)
<1>1. Typed(s) BY GoodTyped DEF Inv, InvBut
<1>2. Dies(s, c) /\ c.calls = {} /\ c.death = s.death BY <1>1, ClearedDies
<1>3. AfterCancel(s) = IF Registered(c) # {} THEN KillProtocols(c, "kill") ELSE AfterKill(c)
  BY DEF AfterCancel
<1> HIDE DEF c
<1>5. CASE Registered(c) = {}
  <2> DEFINE z == AfterKill(c)
  <2>1. Typed(c) BY <1>2 DEF Dies
  <2>2. Dies(c, z) /\ z.calls = {} /\ z.death.stage = "body" BY <2>1, ClearedDies
  <2> HIDE DEF z
  <2>3. Dies(s, z) BY <1>2, <2>2, DiesTwice
  <2>4. \A t \in Tasks : ~s.task[t].registered BY <1>2, <1>5 DEF Dies, Registered
  <2>5. Inv(z) BY <2>2, <2>3, <2>4, DiesInv DEF Inv
  <2> QED BY <2>5, <1>3, <1>5 DEF z
<1>6. CASE Registered(c) # {}
  <2> DEFINE z == KillProtocols(c, "kill")
  <2>1. "kill" \in DeathStages BY DEF DeathStages
  <2>2. Typed(c) BY <1>2 DEF Dies
  <2>3. Dies(c, z) /\ z.death.stage = "kill" /\ z.calls = {} BY <1>2, <2>1, <2>2, KillDies
  <2> HIDE DEF z
  <2>4. Dies(s, z) BY <1>2, <2>3, DiesTwice
  <2>5. Inv(z) BY <2>3, <2>4, DiesInv DEF Inv
  <2> QED BY <2>5, <1>3, <1>6 DEF z
<1> QED BY <1>5, <1>6

(* which any end of a job may bring about,                                 *)
LEMMA ProgressInv == ASSUME NEW s, Inv(s) PROVE Inv(Progress(s))
BY AfterCancelInv DEF Progress

(* and ends when nothing is registered any more,                           *)
LEMMA UnregisteredInv ==
  ASSUME NEW s, NEW X, InvBut(s, X), s.death.stage \in {"body", "rekill"}, Registered(s) = {}
  PROVE  Inv(Unregistered(s))
<1> DEFINE z == Unregistered(s)
<1>1. Typed(s) BY GoodTyped DEF InvBut
<1>2. z \in States
  <2>1. [s.death EXCEPT !.stage = "done"] \in DeathSet
    BY <1>1 DEF Typed, States, DeathSet, DeathStages
  <2>2. z = [s EXCEPT !.life = "terminated", !.death = [s.death EXCEPT !.stage = "done"],
                      !.links = s.links \ s.death.held]
    BY <1>1 DEF Unregistered, Typed, States
  <2> HIDE DEF z
  <2> QED BY <1>1, <2>1, <2>2 DEF Typed, States, Lives
<1>3. /\ z.task = s.task /\ z.death.stage = "done" /\ z.links = s.links \ s.death.held
      /\ z.life = "terminated" /\ z.boot = s.boot
      /\ z.calls = s.calls /\ z.long = s.long /\ z.retry = s.retry
  BY <1>1 DEF Unregistered, Typed, States, DeathSet
<1> HIDE DEF z
<1>4. \A t \in Tasks : ~z.task[t].registered BY <1>3 DEF Registered
<1>5. ASSUME NEW r \in Retrying
      PROVE  RetryFits(z, r) /\ ~Runs(z, r) /\ (Goes(z, r) => Goes(s, r))
  <2>1. RetryFits(s, r) BY DEF InvBut, Good
  <2>2. RetryFits(z, r) BY <2>1, <1>3 DEF RetryFits
  <2>3. ~Runs(z, r) BY <1>4, Apart DEF Runs
  <2> QED BY <2>2, <2>3, <1>3 DEF Goes
<1>6. Good(z) BY <1>1, <1>2, <1>3, <1>5 DEF Good, Typed
<1>7. InTime => Ordered(z) /\ \A r \in Retrying : Served(z, r)
  BY <1>3 DEF InvBut, Ordered, Served
<1>8. ASSUME Calm PROVE Ending(z)
  <2>1. Ending(s) BY <1>8 DEF InvBut
  <2>2. s.death.stage # "none" /\ s.death.stage \in {"kill", "body", "rekill", "done"}
        /\ s.death.stage \in {"cancel", "kill", "body", "rekill"}
    OBVIOUS
  <2> QED BY <1>3, <1>4, <1>5, <2>1, <2>2 DEF Ending
<1>9. ASSUME Calm PROVE \A r \in Retrying : Reached(z, r)
  BY <1>3, <1>5, <1>9 DEF InvBut, Reached
<1>10. Inv(z) BY <1>6, <1>7, <1>8, <1>9 DEF Inv, InvBut
<1> QED BY <1>10 DEF z

(* which it sees to after the agent has shut down.                         *)
LEMMA AfterBodyInv ==
  ASSUME NEW s, Inv(s), s.death.stage = "body" PROVE Inv(AfterBody(s))
<1>1. CASE Registered(s) = {}
  BY <1>1, UnregisteredInv DEF AfterBody, Inv
<1>2. CASE Registered(s) # {}
  <2> DEFINE z == KillProtocols(s, "rekill")
  <2>1. "rekill" \in DeathStages BY DEF DeathStages
  <2>2. Typed(s) BY GoodTyped DEF Inv, InvBut
  <2>3. Dies(s, z) /\ z.death.stage = "rekill" BY <2>1, <2>2, KillDies
  <2> HIDE DEF z
  <2>4. Inv(z) BY <2>3, DiesInv DEF Inv
  <2> QED BY <2>4, <1>2 DEF AfterBody, z
<1> QED BY <1>1, <1>2

(* The agent cancels its protocols, the one after the other.               *)
Leaves(s) ==
  /\ Good(s) /\ s.death.stage = "cancel"
  /\ InTime => Ordered(s)
  /\ Calm => Ending(s)

(* One turn of the loop cancels one protocol.                              *)
LEMMA CancelLeaves ==
  ASSUME NEW s, Leaves(s), NEW p \in Tasks \cup Retrying PROVE Leaves(Cancel(s, p))
<1>1. Typed(s) BY GoodTyped DEF Leaves
<1>2. CASE p \notin Retrying
  <2> DEFINE z == Cancel(s, p)
  <2>1. z = CancelTask(s, p) /\ p \in Tasks BY <1>2 DEF Cancel
  <2>2. Quietly(s, z) BY <1>1, <2>1, CancelTaskQuiet
  <2> HIDE DEF z
  <2>3. Good(z) BY <2>2, GoodQuiet DEF Leaves
  <2>4. /\ z.life = s.life /\ z.boot = s.boot /\ z.death = s.death /\ z.links = s.links
        /\ z.calls = s.calls /\ z.long = s.long /\ z.retry = s.retry
    BY <2>2 DEF Quietly
  <2>5. Leaves(z) BY <2>3, <2>4 DEF Leaves, Ordered, Ending
  <2> QED BY <2>5 DEF z
<1>3. CASE p \in Retrying
  <2> DEFINE z == CancelRetry(s, p)
  <2>1. Good(z) BY <1>3, CancelRetryGood DEF Leaves
  <2>2. Around(s, z, p) /\ z.retry[p].bound = s.retry[p].bound
    BY <1>3, CancelRetryDoes DEF Leaves
  <2> HIDE DEF z
  <2>3. InTime => Ordered(z) BY <1>3, <2>2, AroundOrdered DEF Leaves
  <2>4. ASSUME Calm PROVE Ending(z)
    <3>1. z.death = s.death /\ z.links = s.links BY <2>2 DEF Around
    <3>2. Ending(s) BY <2>4 DEF Leaves
    <3>3. \A r \in Retrying : z.retry[r].bound = s.retry[r].bound BY <2>2 DEF Around
    <3>4. z.death.stage = "cancel" BY <3>1 DEF Leaves
    <3> QED BY <3>1, <3>2, <3>3, <3>4 DEF Ending
  <2>5. z.death.stage = "cancel" BY <2>2 DEF Around, Leaves
  <2>6. Leaves(z) BY <2>1, <2>3, <2>4, <2>5 DEF Leaves
  <2> QED BY <2>6, <1>3 DEF z, Cancel
<1> QED BY <1>2, <1>3

(* What the loop has not yet come to is still where it was in the list.    *)
Waits(s, x, n, r) ==
  \/ Goes(x, r) => \E q \in Retrying : x.retry[q].cancelled
  \/ x.long = s.long /\ \E i \in (n + 1)..Len(s.long) : s.long[i] = r

(* No retrying protocol is passed over when only tasks are cancelled.      *)
LEMMA CancelWaits ==
  ASSUME NEW s, s \in States, NEW x, Leaves(x), NEW n \in 1..Len(s.long),
         NEW r \in Retrying, Waits(s, x, n - 1, r)
  PROVE  Waits(s, CancelNth(x, n), n, r)
<1>1. Typed(x) BY GoodTyped DEF Leaves
<1>2. CASE n > Len(x.long)
  <2>1. x.long # s.long BY <1>2
  <2>2. CancelNth(x, n) = x BY <1>2 DEF CancelNth
  <2> QED BY <2>1, <2>2 DEF Waits
<1>3. CASE ~(n > Len(x.long))
  <2> DEFINE p == x.long[n]
             z == Cancel(x, p)
  <2>0. x.long \in Seq(Tasks \cup Retrying) /\ s.long \in Seq(Tasks \cup Retrying)
    BY <1>1 DEF Typed, States
  <2>1. p \in Tasks \cup Retrying BY <1>3, <2>0
  <2>2. CancelNth(x, n) = z BY <1>3 DEF CancelNth
  <2>3. CASE p = r
    <3> HIDE DEF p
    <3>1. z = CancelRetry(x, r) BY <2>3 DEF Cancel
    <3>2. z.retry[r].cancelled BY <3>1, CancelRetryDoes DEF Leaves
    <3> QED BY <2>2, <3>2 DEF Waits
  <2>5. CASE p \in Retrying
    <3> HIDE DEF p
    <3>1. z = CancelRetry(x, p) BY <2>5 DEF Cancel
    <3>2. z.retry[p].cancelled BY <2>5, <3>1, CancelRetryDoes DEF Leaves
    <3> QED BY <2>2, <2>5, <3>2 DEF Waits
  <2>4. CASE p # r /\ p \notin Retrying
    <3>1. p \notin Retrying BY <2>4
    <3>2. p \in Tasks BY <2>1, <3>1
    <3>3. p = x.long[n] OBVIOUS
    <3> HIDE DEF p
    <3>4. z = CancelTask(x, p) BY <3>1 DEF Cancel
    <3>5. Quietly(x, z) BY <1>1, <3>2, <3>4, CancelTaskQuiet
    <3> HIDE DEF z
    <3>6. z.calls = x.calls /\ z.long = x.long /\ z.retry = x.retry
          /\ \A t \in Tasks : z.task[t].registered = x.task[t].registered
      BY <3>5 DEF Quietly
    <3>7. CASE Goes(x, r) => \E q \in Retrying : x.retry[q].cancelled
      <4>1. Goes(z, r) => Goes(x, r) BY <3>6, GoesLess
      <4> QED BY <3>6, <3>7, <4>1, <2>2 DEF Waits
    <3>8. CASE x.long = s.long /\ \E i \in ((n - 1) + 1)..Len(s.long) : s.long[i] = r
      <4>1. PICK i \in ((n - 1) + 1)..Len(s.long) : s.long[i] = r BY <3>8
      <4>2. i # n BY <4>1, <3>3, <3>8, <2>4
      <4>3. i \in (n + 1)..Len(s.long) BY <4>2
      <4> QED BY <4>1, <4>3, <3>6, <3>8, <2>2 DEF Waits
    <3> QED BY <3>7, <3>8 DEF Waits
  <2> QED BY <2>3, <2>4, <2>5
<1> QED BY <1>2, <1>3

(* After the loop what goes on was cancelled, or was passed over.          *)
LEMMA CancelLongRunningInv ==
  ASSUME NEW s, Leaves(s),
         Calm => \A r \in Retrying :
           Goes(s, r) /\ ~s.retry[r].cancelled => Listed(s, r)
  PROVE  Inv(CancelLongRunning(s))
<1> DEFINE Stays(x, n) == Leaves(x) /\ (Calm => \A r \in Retrying : Waits(s, x, n, r))
           T == [n \in 0..Len(s.long) |-> {x \in States : Stays(x, n)}]
           m == Len(s.long)
           z == CancelLongRunning(s)
<1>1. s \in States /\ m \in Nat BY DEF Leaves, Good, States
<1>2. s \in T[0]
  <2>1. ASSUME Calm, NEW r \in Retrying PROVE Waits(s, s, 0, r)
    BY <2>1 DEF Waits, Listed
  <2>2. 0 \in 0..m BY <1>1
  <2>3. s \in {x \in States : Stays(x, 0)} BY <1>1, <2>1
  <2> QED BY <2>2, <2>3
<1>3. ASSUME NEW n \in 1..m, NEW x \in T[n - 1] PROVE CancelNth(x, n) \in T[n]
  <2>1. n - 1 \in 0..m /\ n \in 0..m BY <1>1
  <2>2. Stays(x, n - 1) BY <2>1
  <2> DEFINE y == CancelNth(x, n)
  <2>3. Leaves(y)
    <3>1. CASE n > Len(x.long) BY <2>2, <3>1 DEF CancelNth
    <3>2. CASE ~(n > Len(x.long))
      <4>1. x.long \in Seq(Tasks \cup Retrying) BY <2>2 DEF Leaves, Good, States
      <4>2. x.long[n] \in Tasks \cup Retrying BY <3>2, <4>1
      <4>3. y = Cancel(x, x.long[n]) BY <3>2 DEF CancelNth
      <4> QED BY <2>2, <4>2, <4>3, CancelLeaves
    <3> QED BY <3>1, <3>2
  <2>4. ASSUME Calm, NEW r \in Retrying PROVE Waits(s, y, n, r)
    BY <1>1, <2>2, <2>4, CancelWaits
  <2> HIDE DEF y
  <2>5. y \in States BY <2>3 DEF Leaves, Good
  <2>6. y \in {w \in States : Stays(w, n)} BY <2>3, <2>4, <2>5
  <2> HIDE DEF Stays
  <2> QED BY <2>1, <2>6 DEF y
<1> HIDE DEF T, z
<1>4. z \in T[m]
  <2> HIDE DEF m
  <2> QED BY <1>1, <1>2, <1>3, LoopKeeps DEF z, m
<1>5. Stays(z, m)
  <2>1. m \in 0..m BY <1>1
  <2> HIDE DEF Stays, m
  <2> QED BY <1>4, <2>1 DEF T, m
<1>6. ASSUME Calm, NEW r \in Retrying PROVE Reached(z, r)
  <2>1. Waits(s, z, m, r) BY <1>5, <1>6
  <2>2. (m + 1)..m = {} BY <1>1
  <2>3. Goes(z, r) => \E q \in Retrying : z.retry[q].cancelled BY <2>1, <2>2 DEF Waits
  <2> QED BY <2>3, <1>5 DEF Reached, Leaves
<1>7. \A r \in Retrying : Served(z, r) BY <1>5 DEF Served, Leaves
<1>8. Inv(z) BY <1>5, <1>6, <1>7 DEF Inv, InvBut, Leaves
<1> QED BY <1>8 DEF z

(* A step of the chain that starts the agent, or of its surroundings.      *)
LEMMA ChainInv ==
  ASSUME NEW s, Inv(s), NEW z \in States,
         z.task = s.task, z.retry = s.retry, z.long = s.long, z.death = s.death,
         \A r \in Retrying : r \in z.calls <=> r \in s.calls,
         InTime => Ordered(z),
         Calm => s.death.stage = "none" \/ (z.links = s.links /\ z.calls \subseteq s.calls)
  PROVE  Inv(z)
<1>1. \A t \in Tasks : TaskFits(z.task[t]) BY DEF Inv, InvBut, Good
<1>2. ASSUME NEW r \in Retrying
      PROVE  RetryFits(z, r) /\ Runs(z, r) = Runs(s, r) /\ Goes(z, r) = Goes(s, r)
  <2>1. RetryFits(s, r) BY DEF Inv, InvBut, Good
  <2>2. RetryFits(z, r) BY <2>1, FitsSame
  <2>3. Runs(z, r) = Runs(s, r) BY DEF Runs
  <2> QED BY <2>2, <2>3 DEF Goes
<1>3. Good(z) BY <1>1, <1>2 DEF Good
<1>4. ASSUME InTime PROVE \A r \in Retrying : Served(z, r)
  BY <1>2, <1>4 DEF Inv, InvBut, Served
<1>5. ASSUME Calm PROVE Ending(z)
  <2>1. Ending(s) BY <1>5 DEF Inv, InvBut
  <2>2. CASE s.death.stage = "none" BY <2>2 DEF Ending
  <2>3. CASE z.links = s.links /\ z.calls \subseteq s.calls
    BY <2>1, <2>3, <1>2 DEF Ending
  <2> QED BY <2>2, <2>3, <1>5
<1>6. ASSUME Calm PROVE \A r \in Retrying : Reached(z, r)
  BY <1>2, <1>6 DEF Inv, InvBut, Reached, Listed
<1> QED BY <1>3, <1>4, <1>5, <1>6 DEF Inv, InvBut

(* _terminate_procedure() up to its first wait.                            *)
LEMMA TerminateProcedureInv ==
  ASSUME NEW s, Inv(s), InTime => s.boot \in {"done", "failed"},
         Calm /\ s.life \notin {"terminating", "terminated"} =>
           \A r \in Retrying : ~s.retry[r].bound
  PROVE  Inv(TerminateProcedure(s))
<1>1. CASE s.life \in {"terminating", "terminated"} BY <1>1 DEF TerminateProcedure
<1>2. CASE s.life \notin {"terminating", "terminated"}
  <2> DEFINE d == [stage |-> "cancel", held |-> s.links]
             y == [s EXCEPT !.life = "terminating", !.death = d]
  <2>1. TerminateProcedure(s) = Progress(CancelLongRunning(y)) BY <1>2 DEF TerminateProcedure
  <2>2. s \in States BY DEF Inv, InvBut, Good
  <2>3. d \in DeathSet /\ d.stage = "cancel" /\ d.held = s.links
    BY <2>2 DEF States, DeathSet, DeathStages
  <2> HIDE DEF d
  <2>4. y \in States
    BY <2>2, <2>3 DEF States, Lives
  <2>5. /\ y.life = "terminating" /\ y.death = d /\ y.boot = s.boot /\ y.links = s.links
        /\ y.calls = s.calls /\ y.task = s.task /\ y.long = s.long /\ y.retry = s.retry
    BY <2>2 DEF States
  <2> HIDE DEF y
  <2>6. ASSUME NEW r \in Retrying PROVE RetryFits(y, r) /\ Goes(y, r) = Goes(s, r)
    <3>1. RetryFits(s, r) BY DEF Inv, InvBut, Good
    <3>2. RetryFits(y, r) BY <3>1, <2>5, FitsSame
    <3> QED BY <3>2, <2>5 DEF Goes, Runs
  <2>7. Good(y) BY <2>4, <2>5, <2>6 DEF Good, Inv, InvBut
  <2>8. InTime => Ordered(y) BY <2>3, <2>5 DEF Inv, InvBut, Ordered
  <2>9. Calm => Ending(y) BY <2>3, <2>5, <1>2 DEF Ending
  <2>10. ASSUME Calm, NEW r \in Retrying, Goes(y, r), ~y.retry[r].cancelled
         PROVE  Listed(y, r)
    <3>1. s.death.stage = "none" BY <2>10, <1>2 DEF Calm, Inv, InvBut, Ordered
    <3>2. Reached(s, r) BY <2>10 DEF Inv, InvBut
    <3> QED BY <3>1, <3>2, <2>5, <2>6, <2>10 DEF Reached, Listed
  <2>11. Leaves(y) BY <2>3, <2>5, <2>7, <2>8, <2>9 DEF Leaves
  <2>12. Inv(CancelLongRunning(y)) BY <2>10, <2>11, CancelLongRunningInv
  <2> QED BY <2>1, <2>12, ProgressInv DEF y
<1> QED BY <1>1, <1>2

(* A medium is unregistered.                                               *)
LEMMA Removing ==
  ASSUME NEW s, Inv(s), NEW t \in Tasks
  PROVE  LET c == [s EXCEPT !.task[t] = Unregister(@)]
         IN  /\ InvBut(c, {t[1]}) /\ c.death = s.death /\ c.calls = s.calls
             /\ c.retry = s.retry /\ c.long = s.long /\ c.life = s.life
             /\ \A u \in Tasks : c.task[u].registered <=> u # t /\ s.task[u].registered
<1> DEFINE m == Unregister(s.task[t])
           c == [s EXCEPT !.task[t] = m]
<1>1. Typed(s) BY GoodTyped DEF Inv, InvBut
<1>2. Sound(m) /\ ~m.registered BY <1>1, TypedSound, UnregisterSound
<1> HIDE DEF m
<1>3. c \in States /\ \A u \in Tasks : c.task[u] = IF u = t THEN m ELSE s.task[u]
  BY <1>1, <1>2 DEF Typed, States, Sound
<1>4. /\ c.life = s.life /\ c.boot = s.boot /\ c.death = s.death /\ c.links = s.links
      /\ c.calls = s.calls /\ c.long = s.long /\ c.retry = s.retry
  BY <1>1 DEF Typed, States
<1> HIDE DEF c
<1>5. \A u \in Tasks : c.task[u].registered <=> u # t /\ s.task[u].registered BY <1>2, <1>3
<1>6. ASSUME NEW r \in Retrying
      PROVE  RetryFits(c, r) /\ (Runs(c, r) => Runs(s, r)) /\ (Goes(c, r) => Goes(s, r))
  <2>1. RetryFits(s, r) BY DEF Inv, InvBut, Good
  <2>2. RetryFits(c, r) BY <2>1, <1>4, <1>5, Apart, FitsSame
  <2> QED BY <2>2, <1>4, <1>5, GoesLess
<1>7. Good(c)
  <2>1. \A u \in Tasks : TaskFits(c.task[u]) BY <1>1, <1>2, <1>3 DEF Typed, Sound
  <2> QED BY <2>1, <1>3, <1>6 DEF Good
<1>8. InTime => Ordered(c) BY <1>4 DEF Inv, InvBut, Ordered
<1>9. ASSUME InTime, NEW r \in Retrying, r \notin {t[1]} PROVE Served(c, r)
  <2>1. Served(s, r) BY <1>9 DEF Inv, InvBut
  <2>2. \A n \in 1..(MaxRetries + 2) : <<r, n>> \in Tasks /\ <<r, n>> # t BY <1>9, Apart
  <2>3. Runs(c, r) = Runs(s, r) BY <2>2, <1>5 DEF Runs
  <2> QED BY <2>1, <2>3, <1>4 DEF Served, Goes
<1>10. Calm => Ending(c) BY <1>4, <1>5, <1>6 DEF Inv, InvBut, Ending
<1>11. Calm => \A r \in Retrying : Reached(c, r)
  BY <1>4, <1>6 DEF Inv, InvBut, Reached, Listed
<1>12. InvBut(c, {t[1]}) BY <1>7, <1>8, <1>9, <1>10, <1>11 DEF InvBut
<1>13. [s EXCEPT !.task[t] = Unregister(@)] = c
  BY <1>1 DEF c, m, Typed, States
<1> QED BY <1>4, <1>5, <1>12, <1>13

(* The procedure goes on when the last one is.                             *)
LEMMA UnregisterProtocolInv ==
  ASSUME NEW s, Inv(s), NEW t \in Tasks
  PROVE  LET z == UnregisterProtocol(s, t)
         IN  /\ InvBut(z, {t[1]})
             /\ z.death.stage = "none" <=> s.death.stage = "none"
             /\ z.life = s.life \/ (s.death.stage = "rekill" /\ z.life = "terminated")
             /\ z.calls \subseteq s.calls
             /\ z.retry = s.retry /\ z.long = s.long
             /\ \A u \in Tasks : z.task[u].registered <=> u # t /\ s.task[u].registered
<1> DEFINE c == [s EXCEPT !.task[t] = Unregister(@)]
           z == UnregisterProtocol(s, t)
           Kept(y) ==
             /\ InvBut(y, {t[1]})
             /\ y.death.stage = "none" <=> s.death.stage = "none"
             /\ y.life = s.life \/ (s.death.stage = "rekill" /\ y.life = "terminated")
             /\ y.calls \subseteq s.calls
             /\ y.retry = s.retry /\ y.long = s.long
             /\ \A u \in Tasks : y.task[u].registered <=> u # t /\ s.task[u].registered
<1>1. /\ InvBut(c, {t[1]}) /\ c.death = s.death /\ c.calls = s.calls
      /\ c.retry = s.retry /\ c.long = s.long /\ c.life = s.life
      /\ \A u \in Tasks : c.task[u].registered <=> u # t /\ s.task[u].registered
  BY Removing
<1>2. z = IF Registered(c) # {} THEN c
          ELSE CASE c.death.stage = "kill" -> AfterKill(c)
                 [] c.death.stage = "rekill" -> Unregistered(c)
                 [] OTHER -> c
  BY DEF UnregisterProtocol
<1> HIDE DEF c, z
<1>3. Kept(c) BY <1>1
<1>4. Typed(c) BY <1>1, GoodTyped DEF InvBut
<1>5. CASE Registered(c) = {} /\ c.death.stage = "kill"
  <2>1. z = AfterKill(c) BY <1>2, <1>5
  <2>2. Inv(z) BY <2>1, <1>1, <1>5, AfterKillInv
  <2>3. Dies(c, z) /\ z.death.stage = "body" BY <2>1, <1>4, ClearedDies
  <2>4. InvBut(z, {t[1]}) BY <2>2 DEF Inv, InvBut
  <2> QED BY <2>3, <2>4, <1>1, <1>5 DEF Dies, z
<1>6. CASE Registered(c) = {} /\ c.death.stage = "rekill"
  <2>1. z = Unregistered(c) BY <1>2, <1>6
  <2>2. Inv(z) BY <2>1, <1>1, <1>6, UnregisteredInv
  <2>3. /\ z.task = c.task /\ z.death.stage = "done" /\ z.life = "terminated"
        /\ z.calls = c.calls /\ z.long = c.long /\ z.retry = c.retry
    BY <2>1, <1>4 DEF Unregistered, Typed, States, DeathSet
  <2>4. InvBut(z, {t[1]}) BY <2>2 DEF Inv, InvBut
  <2> QED BY <2>3, <2>4, <1>1, <1>6 DEF z
<1>7. CASE ~(Registered(c) = {} /\ c.death.stage \in {"kill", "rekill"})
  <2>1. z = c BY <1>2, <1>7
  <2> QED BY <2>1, <1>3 DEF z
<1> QED BY <1>5, <1>6, <1>7

(* A step that makes no attempt and leaves the state of the agent.         *)
Attempts(s, z) == \A r \in Retrying : z.retry[r].attempt = s.retry[r].attempt
Keeps(s, z) == z.life = s.life /\ Attempts(s, z)

(* Two such steps are one.                                                 *)
LEMMA KeepsTwice ==
  ASSUME NEW s, NEW y, NEW z, Keeps(s, y), Keeps(y, z) PROVE Keeps(s, z)
BY DEF Keeps, Attempts

(* A step about a retrying protocol that makes no attempt.                 *)
LEMMA AroundKeeps ==
  ASSUME NEW s, NEW z, NEW r, Around(s, z, r), z.retry[r].attempt = s.retry[r].attempt
  PROVE  Keeps(s, z)
BY DEF Around, Keeps, Attempts

(* The states of an agent follow each other in one order only, and what was *)
(* cancelled is not attempted again.                                        *)
Leads(a, b) ==
  \/ a = "not_initiated" /\ b = "initiating"
  \/ a = "initiating" /\ b = "initiated"
  \/ a = "initiated" /\ b = "starting_up"
  \/ a = "starting_up" /\ b = "ready"
  \/ a = "ready" /\ b = "disconnected"
  \/ a = "disconnected" /\ b = "ready"
  \/ a \notin {"terminating", "terminated"} /\ b = "terminating"
  \/ a = "terminating" /\ b = "terminated"

Moves(s, z) ==
  /\ \A r \in Retrying :
       s.retry[r].cancelled /\ s.retry[r].attempt > 0 =>
         z.retry[r].attempt = s.retry[r].attempt
  /\ InTime => z.life = s.life \/ Leads(s.life, z.life)

(* Such a step is one of those that are allowed.                           *)
LEMMA KeepsMoves == ASSUME NEW s, NEW z, Keeps(s, z) PROVE Moves(s, z)
BY DEF Keeps, Attempts, Moves

(* A task of the agent, or a name that no list needs, leaves the list.     *)
LEMMA UnlistedInv ==
  ASSUME NEW s, NEW p, p \notin Retrying, InvBut(s, {Agent}) PROVE Inv(NotListed(s, p))
<1> DEFINE z == NotListed(s, p)
<1>1. Typed(s) BY GoodTyped DEF InvBut
<1>2. /\ Around(s, z, p)
      /\ z.retry = s.retry /\ z.calls = s.calls /\ z.task = s.task
      /\ \A q : q # p /\ Listed(s, q) => Listed(z, q)
  BY <1>1, UnlistedAround
<1> HIDE DEF z
<1>3. /\ z.life = s.life /\ z.boot = s.boot /\ z.death = s.death /\ z.links = s.links /\ Typed(z)
  BY <1>2 DEF Around
<1>4. ASSUME NEW r \in Retrying
      PROVE  RetryFits(z, r) /\ Runs(z, r) = Runs(s, r) /\ Goes(z, r) = Goes(s, r)
  <2>1. RetryFits(s, r) BY DEF InvBut, Good
  <2>2. RetryFits(z, r) BY <2>1, <1>2, FitsSame
  <2>3. Runs(z, r) = Runs(s, r) BY <1>2 DEF Runs
  <2> QED BY <2>2, <2>3, <1>2 DEF Goes
<1>5. Good(z) BY <1>3, <1>4 DEF Good, Typed
<1>6. InTime => Ordered(z) BY <1>2, <1>3 DEF InvBut, Ordered
<1>7. ASSUME InTime PROVE \A r \in Retrying : Served(z, r)
  BY <1>2, <1>3, <1>4, <1>7, Apart DEF InvBut, Served
<1>8. Calm => Ending(z) BY <1>2, <1>3, <1>4 DEF InvBut, Ending
<1>9. Calm => \A r \in Retrying : Reached(z, r)
  BY <1>2, <1>3, <1>4 DEF InvBut, Reached
<1>10. Inv(z) BY <1>5, <1>6, <1>7, <1>8, <1>9 DEF Inv, InvBut
<1> QED BY <1>10 DEF z

(* The notifier of a task unregisters it, and its retrying protocol        *)
(* succeeds or waits for the next attempt.                                 *)
LEMMA NotifyFinishInv ==
  ASSUME NEW s, Inv(s), NEW t \in Tasks, s.task[t].registered
  PROVE  LET z == NotifyFinish(s, t)
         IN  /\ Inv(z) /\ Attempts(s, z)
             /\ z.life = s.life \/ (s.death.stage = "rekill" /\ z.life = "terminated")
<1> DEFINE y == UnregisterProtocol(s, t)
           c == NotListed(y, t)
           r == t[1]
           w == WaitAndRetry(c, r)
           v == RetrySucceeded(c, r)
<1>1. /\ InvBut(y, {r})
      /\ y.death.stage = "none" <=> s.death.stage = "none"
      /\ y.life = s.life \/ (s.death.stage = "rekill" /\ y.life = "terminated")
      /\ y.calls \subseteq s.calls
      /\ y.retry = s.retry /\ y.long = s.long
      /\ \A u \in Tasks : y.task[u].registered <=> u # t /\ s.task[u].registered
  BY UnregisterProtocolInv
<1>2. NotifyFinish(s, t) =
        IF r = Agent THEN c ELSE IF s.info[t].failed THEN w ELSE v
  BY DEF NotifyFinish
<1>3. CASE r = Agent
  <2> HIDE DEF y
  <2>1. InvBut(y, {Agent}) BY <1>1, <1>3
  <2>2. t \notin Retrying BY Apart
  <2>3. Typed(y) BY <2>1, GoodTyped DEF InvBut
  <2>4. Around(y, c, r) /\ c.retry = y.retry BY <2>3, UnlistedAround
  <2>5. c.life = y.life BY <2>4 DEF Around
  <2>6. Inv(c) BY <2>1, <2>2, UnlistedInv
  <2> HIDE DEF c
  <2> QED BY <1>1, <1>2, <1>3, <2>4, <2>5, <2>6 DEF Attempts
<1>4. CASE r # Agent
  <2>1. r \in Retrying BY <1>4, Apart
  <2>2. PICK n \in 1..(MaxRetries + 2) : t = <<r, n>> BY <2>1, Apart
  <2>3. RetryFits(s, r) /\ Good(y) /\ Typed(y) BY <1>1, <2>1, GoodTyped DEF Inv, InvBut, Good
  <2> HIDE DEF y, r
  <2>4. /\ s.retry[r].initiator /\ s.retry[r].attempt = n /\ s.retry[r].tell = None
    BY <2>2, <2>3 DEF RetryFits
  <2>5. ~s.retry[r].bound
    BY <2>2, <2>3, <2>4, MaxRetriesAssumption DEF RetryFits
  <2>6. \A k \in 1..(MaxRetries + 2) : ~y.task[<<r, k>>].registered
    <3> SUFFICES ASSUME NEW k \in 1..(MaxRetries + 2), y.task[<<r, k>>].registered PROVE FALSE
      OBVIOUS
    <3>1. <<r, k>> # t /\ s.task[<<r, k>>].registered BY <1>1, <2>1, Apart
    <3>2. k = n BY <3>1, <2>3, <2>4 DEF RetryFits
    <3> QED BY <3>1, <3>2, <2>2
  <2>7. /\ Around(y, c, r)
        /\ c.retry = y.retry /\ c.calls = y.calls /\ c.task = y.task
        /\ \A q : q # t /\ Listed(y, q) => Listed(c, q)
    BY <2>3, UnlistedAround
  <2> HIDE DEF c
  <2>8. RetryFits(y, r) BY <2>1, <2>3 DEF Good
  <2>9. RetryFits(c, r) BY <2>1, <2>7, <2>8, FitsSame
  <2>10. Good(c) BY <2>1, <2>3, <2>7, <2>9, AroundGood
  <2>11. /\ c.retry[r].initiator /\ c.retry[r].tell = None
         /\ \A k \in 1..(MaxRetries + 2) : ~c.task[<<r, k>>].registered
    BY <1>1, <2>4, <2>6, <2>7
  <2>12. ASSUME NEW z, Around(c, z, r), z.task = c.task, z.long = c.long, RetryFits(z, r),
                z.retry[r].cancelled = s.retry[r].cancelled,
                z.retry[r].bound = s.retry[r].bound,
                z.retry[r].attempt = s.retry[r].attempt,
                z.retry[r].waiting => r \in z.calls
         PROVE  Inv(z) /\ Attempts(s, z) /\ z.life = y.life
    <3>1. Around(y, z, r) BY <2>7, <2>12, AroundTwice
    <3>2. ~Runs(z, r) BY <2>11, <2>12 DEF Runs
    <3>3. InTime => Served(z, r) BY <2>12 DEF Served, Goes
    <3>4. ASSUME Calm PROVE Reached(z, r)
      <4>1. z.death = y.death BY <3>1 DEF Around
      <4>2. Reached(s, r) BY <3>4, <2>1 DEF Inv, InvBut
      <4>3. Goes(s, r) BY <2>2 DEF Goes, Runs
      <4>4. CASE s.death.stage # "none"
        <5>1. PICK q \in Retrying : s.retry[q].cancelled BY <4>2, <4>3, <4>4 DEF Reached
        <5>2. z.retry[q].cancelled BY <5>1, <3>1, <1>1, <2>12 DEF Around
        <5> QED BY <5>2, <4>1, <4>4, <1>1 DEF Reached
      <4>5. CASE s.death.stage = "none"
        <5>1. ~s.retry[r].cancelled => Listed(s, r) BY <4>2, <4>3, <4>5 DEF Reached
        <5>2. Listed(s, r) => Listed(y, r) BY <1>1 DEF Listed
        <5>3. r # t BY <2>1, Apart
        <5>4. Listed(y, r) => Listed(z, r) BY <5>3, <2>7, <2>12 DEF Listed
        <5> QED BY <5>1, <5>2, <5>4, <4>1, <4>5, <1>1, <2>12 DEF Reached
      <4> QED BY <4>4, <4>5
    <3>5. EndFits(z, r) BY <3>2, <3>3, <3>4, <2>5, <2>12 DEF EndFits
    <3>8. Heeds(y, z, r)
      <4>1. z.retry[r].cancelled = y.retry[r].cancelled BY <1>1, <2>12
      <4>2. ASSUME NEW x \in Retrying, x # r, Listed(y, x) PROVE Listed(z, x)
        <5>1. x # t BY Apart
        <5>2. Listed(c, x) BY <4>2, <5>1, <2>7
        <5> QED BY <5>2, <2>12 DEF Listed
      <4> QED BY <4>1, <4>2 DEF Heeds
    <3>6. Inv(z) BY <3>1, <3>5, <3>8, <1>1, <2>1, <2>12, AroundInv
    <3>7. Attempts(s, z) /\ z.life = y.life BY <3>1, <1>1, <2>12 DEF Around, Attempts
    <3> QED BY <3>6, <3>7
  <2>13. Inv(w) /\ Attempts(s, w) /\ w.life = y.life
    <3>1. /\ Around(c, w, r) /\ w.task = c.task /\ w.long = c.long
          /\ RetryFits(w, r)
          /\ w.retry[r].cancelled = c.retry[r].cancelled
          /\ w.retry[r].bound = c.retry[r].bound
          /\ w.retry[r].attempt = c.retry[r].attempt
          /\ w.retry[r].waiting => r \in w.calls
      BY <2>1, <2>10, <2>11, WaitAndRetryDoes
    <3> HIDE DEF w
    <3> QED BY <3>1, <1>1, <2>7, <2>12
  <2>14. Inv(v) /\ Attempts(s, v) /\ v.life = y.life
    <3>1. /\ Around(c, v, r) /\ v.task = c.task /\ v.long = c.long
          /\ RetryFits(v, r)
          /\ v.retry[r].cancelled = c.retry[r].cancelled
          /\ v.retry[r].bound = c.retry[r].bound
          /\ v.retry[r].attempt = c.retry[r].attempt
          /\ ~v.retry[r].waiting
      BY <2>1, <2>10, <2>11, RetrySucceededDoes
    <3> HIDE DEF v
    <3> QED BY <3>1, <1>1, <2>7, <2>12
  <2> HIDE DEF w, v
  <2> QED BY <1>1, <1>2, <1>4, <2>13, <2>14
<1> QED BY <1>3, <1>4

(* A new task is registered, and the last of the list.                     *)
LEMMA InitiateDoes ==
  ASSUME NEW s, Typed(s), NEW t \in Tasks, NEW busy \in BOOLEAN
  PROVE  LET z == InitiateTask(s, t, busy)
         IN  /\ Typed(z)
             /\ z.life = s.life /\ z.boot = s.boot /\ z.death = s.death /\ z.links = s.links
             /\ z.calls = s.calls /\ z.retry = s.retry
             /\ \A u \in Tasks : z.task[u].registered <=> u = t \/ s.task[u].registered
             /\ \A x : Listed(s, x) => Listed(z, x)
<1> DEFINE m == NewTask
           i == [s.info[t] EXCEPT !.busy = busy]
           z == [s EXCEPT !.task[t] = m, !.info[t] = i, !.long = Append(s.long, t)]
<1>1. Sound(m) /\ m.registered BY NewSound
<1>2. i \in InfoSet BY DEF Typed, States, InfoSet
<1>3. s.long \in Seq(Tasks \cup Retrying) /\ Append(s.long, t) \in Seq(Tasks \cup Retrying)
  BY DEF Typed, States
<1>4. z = InitiateTask(s, t, busy)
  BY DEF InitiateTask, Typed, States
<1> HIDE DEF m, i
<1>5. z \in States /\ \A u \in Tasks : z.task[u] = IF u = t THEN m ELSE s.task[u]
  BY <1>1, <1>2, <1>3 DEF Typed, States, Sound
<1>6. /\ z.life = s.life /\ z.boot = s.boot /\ z.death = s.death /\ z.links = s.links
      /\ z.calls = s.calls /\ z.retry = s.retry /\ z.long = Append(s.long, t)
  BY DEF Typed, States
<1> HIDE DEF z
<1>7. Typed(z) BY <1>1, <1>5 DEF Typed, Sound
<1>8. ASSUME NEW x, Listed(s, x) PROVE Listed(z, x)
  <2>1. PICK k \in 1..Len(s.long) : s.long[k] = x BY <1>8 DEF Listed
  <2>2. k \in 1..Len(z.long) /\ z.long[k] = x BY <2>1, <1>3, <1>6
  <2> QED BY <2>2 DEF Listed
<1> QED BY <1>1, <1>4, <1>5, <1>6, <1>7, <1>8

(* cancel() makes no attempt.                                              *)
LEMMA CancelKeeps ==
  ASSUME NEW s, Good(s), NEW p \in Tasks \cup Retrying
  PROVE  Good(Cancel(s, p)) /\ Keeps(s, Cancel(s, p))
<1> DEFINE z == Cancel(s, p)
<1>1. CASE p \notin Retrying
  <2>1. z = CancelTask(s, p) /\ p \in Tasks BY <1>1 DEF Cancel
  <2>2. Quietly(s, z) BY <2>1, GoodTyped, CancelTaskQuiet
  <2> HIDE DEF z
  <2>3. Good(z) BY <2>2, GoodQuiet
  <2> QED BY <2>2, <2>3 DEF z, Quietly, Keeps, Attempts
<1>2. CASE p \in Retrying
  <2>1. z = CancelRetry(s, p) BY <1>2 DEF Cancel
  <2>2. /\ Good(z) /\ Around(s, z, p) /\ z.retry[p].attempt = s.retry[p].attempt
    BY <1>2, <2>1, CancelRetryGood, CancelRetryDoes
  <2> HIDE DEF z
  <2> QED BY <2>2, AroundKeeps DEF z
<1> QED BY <1>1, <1>2

(* The loop of cancel() calls makes none either,                           *)
LEMMA CancelLongRunningKeeps ==
  ASSUME NEW s, Good(s)
  PROVE  Good(CancelLongRunning(s)) /\ Keeps(s, CancelLongRunning(s))
<1> DEFINE Stays(x) == Good(x) /\ Keeps(s, x)
           T == [n \in 0..Len(s.long) |-> {x \in States : Stays(x)}]
           m == Len(s.long)
           z == CancelLongRunning(s)
<1>1. s \in States /\ m \in Nat BY DEF Good, States
<1>2. s \in T[0]
  <2>1. 0 \in 0..m BY <1>1
  <2>2. Stays(s) BY DEF Keeps, Attempts
  <2> QED BY <1>1, <2>1, <2>2
<1>3. ASSUME NEW n \in 1..m, NEW x \in T[n - 1] PROVE CancelNth(x, n) \in T[n]
  <2>1. n - 1 \in 0..m /\ n \in 0..m BY <1>1
  <2>2. Good(x) /\ Keeps(s, x) BY <2>1
  <2> DEFINE y == CancelNth(x, n)
  <2>3. Good(y) /\ Keeps(s, y)
    <3>1. CASE n > Len(x.long) BY <2>2, <3>1 DEF CancelNth
    <3>2. CASE ~(n > Len(x.long))
      <4>1. x.long \in Seq(Tasks \cup Retrying) BY <2>2 DEF Good, States
      <4>2. x.long[n] \in Tasks \cup Retrying BY <3>2, <4>1
      <4>3. y = Cancel(x, x.long[n]) BY <3>2 DEF CancelNth
      <4>4. Good(y) /\ Keeps(x, y) BY <2>2, <4>2, <4>3, CancelKeeps
      <4> QED BY <2>2, <4>4, KeepsTwice
    <3> QED BY <3>1, <3>2
  <2> HIDE DEF y
  <2>4. y \in States BY <2>3 DEF Good
  <2>5. y \in {w \in States : Stays(w)} BY <2>3, <2>4
  <2> HIDE DEF Stays
  <2> QED BY <2>1, <2>5 DEF y
<1> HIDE DEF T, z
<1>4. z \in T[m]
  <2> HIDE DEF m
  <2> QED BY <1>1, <1>2, <1>3, LoopKeeps DEF z, m
<1>5. Stays(z)
  <2>1. m \in 0..m BY <1>1
  <2> HIDE DEF Stays, m
  <2> QED BY <1>4, <2>1 DEF T, m
<1> QED BY <1>5 DEF z

(* and no stage of the termination does.                                   *)
LEMMA ProgressKeeps == ASSUME NEW s, Typed(s) PROVE Keeps(s, Progress(s))
<1> DEFINE c == CancelAllDelayedCalls(s)
<1>1. Dies(s, c) BY ClearedDies
<1>2. Progress(s) \in {s, AfterCancel(s)} BY DEF Progress
<1>3. AfterCancel(s) \in {KillProtocols(c, "kill"), AfterKill(c)} BY DEF AfterCancel
<1> HIDE DEF c
<1>4. Typed(c) /\ "kill" \in DeathStages BY <1>1 DEF Dies, DeathStages
<1>5. Dies(c, KillProtocols(c, "kill")) /\ Dies(c, AfterKill(c))
  BY <1>4, KillDies, ClearedDies
<1>6. Dies(c, AfterCancel(s)) BY <1>3, <1>5
<1>7. Dies(s, AfterCancel(s)) BY <1>1, <1>6, DiesTwice
<1> QED BY <1>2, <1>7 DEF Dies, Keeps, Attempts

(* The agent starts a task of its own.                                     *)
LEMMA StartInv ==
  ASSUME NEW s, Inv(s), NEW t \in Tasks, t[1] = Agent, NEW busy \in BOOLEAN,
         Calm => s.death.stage # "done"
  PROVE  Inv(InitiateTask(s, t, busy)) /\ Keeps(s, InitiateTask(s, t, busy))
<1> DEFINE z == InitiateTask(s, t, busy)
<1>1. Typed(s) BY GoodTyped DEF Inv, InvBut
<1>2. /\ Typed(z)
      /\ z.life = s.life /\ z.boot = s.boot /\ z.death = s.death /\ z.links = s.links
      /\ z.calls = s.calls /\ z.retry = s.retry
      /\ \A u \in Tasks : z.task[u].registered <=> u = t \/ s.task[u].registered
      /\ \A x : Listed(s, x) => Listed(z, x)
  BY <1>1, InitiateDoes
<1> HIDE DEF z
<1>3. ASSUME NEW r \in Retrying
      PROVE  RetryFits(z, r) /\ Runs(z, r) = Runs(s, r) /\ Goes(z, r) = Goes(s, r)
  <2>1. RetryFits(s, r) BY DEF Inv, InvBut, Good
  <2>2. \A n \in 1..(MaxRetries + 2) : <<r, n>> \in Tasks /\ <<r, n>> # t BY Apart
  <2>3. RetryFits(z, r) BY <2>1, <2>2, <1>2, FitsSame
  <2>4. Runs(z, r) = Runs(s, r) BY <2>2, <1>2 DEF Runs
  <2> QED BY <2>3, <2>4, <1>2 DEF Goes
<1>4. Good(z) BY <1>2, <1>3 DEF Good, Typed
<1>5. InTime => Ordered(z) BY <1>2 DEF Inv, InvBut, Ordered
<1>6. ASSUME InTime PROVE \A r \in Retrying : Served(z, r)
  BY <1>2, <1>3, <1>6 DEF Inv, InvBut, Served
<1>7. Calm => Ending(z) BY <1>2, <1>3 DEF Inv, InvBut, Ending
<1>8. Calm => \A r \in Retrying : Reached(z, r)
  BY <1>2, <1>3 DEF Inv, InvBut, Reached
<1>9. Inv(z) BY <1>4, <1>5, <1>6, <1>7, <1>8 DEF Inv, InvBut
<1>10. Keeps(s, z) BY <1>2 DEF Keeps, Attempts
<1> QED BY <1>9, <1>10 DEF z

(* The next attempt of a retrying protocol that has nothing left of the    *)
(* last one.                                                               *)
LEMMA BindDoes ==
  ASSUME NEW s, Good(s), NEW r \in Retrying, NEW busy \in BOOLEAN,
         s.retry[r].started, ~s.retry[r].bound, r \notin s.calls, ~s.retry[r].initiator,
         s.retry[r].tell = None, s.retry[r].attempt <= MaxRetries, ~Runs(s, r)
  PROVE  LET z == Bind(s, r, busy)
         IN  /\ Around(s, z, r) /\ RetryFits(z, r) /\ Runs(z, r)
             /\ z.retry[r].bound = s.retry[r].bound
             /\ z.retry[r].cancelled = s.retry[r].cancelled
             /\ \A x : Listed(s, x) => Listed(z, x)
<1> DEFINE q == s.retry[r]
           p == [q EXCEPT !.attempt = q.attempt + 1, !.initiator = TRUE]
           c == [s EXCEPT !.retry[r] = p]
           t == Attempt(c, r)
           z == InitiateTask(c, t, busy)
<1>1. Typed(s) /\ RetryFits(s, r) BY GoodTyped DEF Good
<1>2. q \in RetrySet BY <1>1 DEF Typed, States
<1>3. p \in RetrySet /\ p.attempt = q.attempt + 1 /\ p.initiator
      /\ p.started = q.started /\ p.bound = q.bound /\ p.max = q.max /\ p.delayed = q.delayed
      /\ p.tell = q.tell /\ p.cancelled = q.cancelled /\ p.alert = q.alert
  <2> HIDE DEF q
  <2>1. q.attempt + 1 \in Nat BY <1>2 DEF RetrySet
  <2> QED BY <2>1, <1>2 DEF RetrySet
<1>4. z = Bind(s, r, busy)
  <2>1. c = [s EXCEPT !.retry[r].attempt = @ + 1, !.retry[r].initiator = TRUE]
    BY <1>1 DEF Typed, States
  <2> HIDE DEF c
  <2> QED BY <2>1 DEF Bind
<1> HIDE DEF p
<1>5. /\ Around(s, c, r)
      /\ c.retry[r] = p /\ c.calls = s.calls /\ c.long = s.long /\ c.task = s.task
  BY <1>1, <1>3, PutRetryOnly
<1> HIDE DEF c
<1>6. t = <<r, p.attempt>> BY <1>5 DEF Attempt
<1>7. p.attempt \in 1..(MaxRetries + 2)
  BY <1>2, <1>3, MaxRetriesAssumption DEF RetrySet
<1>8. t \in Tasks /\ Typed(c) BY <1>5, <1>6, <1>7, Apart DEF Around
<1> HIDE DEF t
<1>9. /\ Typed(z)
      /\ z.life = c.life /\ z.boot = c.boot /\ z.death = c.death /\ z.links = c.links
      /\ z.calls = c.calls /\ z.retry = c.retry
      /\ \A u \in Tasks : z.task[u].registered <=> u = t \/ c.task[u].registered
      /\ \A x : Listed(c, x) => Listed(z, x)
  BY <1>8, InitiateDoes
<1> HIDE DEF z
<1>10. Around(s, z, r)
  <2>1. \A u \in Tasks : u[1] # r => u # t BY <1>6
  <2>2. \A u \in Tasks : c.task[u].registered \in BOOLEAN /\ z.task[u].registered \in BOOLEAN
    BY <1>8, <1>9 DEF Typed, States, MS, MediumSet
  <2>3. ASSUME NEW u \in Tasks, u[1] # r PROVE z.task[u].registered = c.task[u].registered
    BY <2>1, <2>2, <2>3, <1>9
  <2>4. Around(c, z, r) BY <2>3, <1>9 DEF Around
  <2> QED BY <2>4, <1>5, AroundTwice
<1>11. \A n \in 1..(MaxRetries + 2) : z.task[<<r, n>>].registered <=> n = p.attempt
  BY <1>5, <1>6, <1>9, Apart DEF Runs
<1>12. z.retry[r] = p /\ r \notin z.calls BY <1>5, <1>9
<1>13. q.attempt \in Nat /\ q.max \in Int BY <1>2 DEF RetrySet
<1>14. RetryFits(z, r)
  <2>1. /\ q.max <= MaxRetries
        /\ q.cancelled => q.max < q.attempt
        /\ q.alert => q.attempt >= AlertAfter
    BY <1>1 DEF RetryFits
  <2> HIDE DEF q
  <2>2. /\ p.attempt <= MaxRetries + 1 /\ p.max <= MaxRetries
        /\ p.cancelled => p.max < p.attempt
        /\ p.alert => p.attempt >= AlertAfter /\ p.attempt > AlertAfter
        /\ p.attempt > 0
    <3>1. p.attempt <= MaxRetries + 1 /\ p.attempt > 0
      BY <1>3, <1>13, MaxRetriesAssumption DEF q
    <3>2. p.max <= MaxRetries BY <1>3, <2>1
    <3>3. ASSUME p.cancelled PROVE p.max < p.attempt
      <4>1. q.max < q.attempt BY <1>3, <2>1, <3>3
      <4> QED BY <4>1, <1>3, <1>13
    <3>4. ASSUME p.alert PROVE p.attempt >= AlertAfter /\ p.attempt > AlertAfter
      <4>1. q.attempt >= AlertAfter BY <1>3, <2>1, <3>4
      <4> QED BY <4>1, <1>3, <1>13, AlertAfterAssumption
    <3> QED BY <3>1, <3>2, <3>3, <3>4
  <2>3. p.initiator /\ p.started /\ ~p.bound /\ p.tell = None BY <1>3 DEF q
  <2>4. None # "ok" BY Names
  <2> QED BY <2>2, <2>3, <2>4, <1>11, <1>12 DEF RetryFits
<1>15. Runs(z, r) BY <1>7, <1>11 DEF Runs
<1>16. \A x : Listed(s, x) => Listed(z, x) BY <1>5, <1>9 DEF Listed
<1> QED BY <1>3, <1>4, <1>10, <1>12, <1>14, <1>15, <1>16

(* An action becomes the state that the operation returns.                 *)
LEMMA BecomeInv ==
  ASSUME NEW s, Inv(s), Become(s) PROVE Inv(State')
<1>1. /\ State'.life = s.life /\ State'.boot = s.boot /\ State'.death = s.death
      /\ State'.links = s.links /\ State'.calls = s.calls /\ State'.task = s.task
      /\ State'.info = s.info /\ State'.long = s.long /\ State'.retry = s.retry
  BY DEF Become, State
<1>2. Typed(s) BY GoodTyped DEF Inv, InvBut
<1>3. State' \in States BY <1>1, <1>2 DEF State, Typed, States
<1>4. Quietly(s, State') BY <1>1, <1>2, <1>3 DEF Quietly, Typed
<1> QED BY <1>4, QuietInv

(* It is allowed if what the operation does is.                            *)
LEMMA BecomeMoves ==
  ASSUME NEW s, Inv(s), Moves(State, s), Become(s) PROVE Inv(State') /\ Moves(State, State')
<1>1. Inv(State') BY BecomeInv
<1>2. State'.life = s.life /\ State'.retry = s.retry BY DEF Become, State
<1>3. Moves(State, State') BY <1>2 DEF Moves
<1> QED BY <1>1, <1>3

(* An action on a medium, with the termination that may go on after it.    *)
LEMMA QuietStepInv ==
  ASSUME Inv(State), NEW z, Quietly(State, z), Become(Progress(z))
  PROVE  Inv(State') /\ Moves(State, State')
<1>1. Inv(Progress(z)) BY QuietInv, ProgressInv
<1>2. Typed(z) BY QuietTyped
<1>3. Keeps(State, z) BY DEF Quietly, Keeps, Attempts
<1>4. Keeps(z, Progress(z)) BY <1>2, ProgressKeeps
<1>5. Moves(State, Progress(z)) BY <1>3, <1>4, KeepsTwice, KeepsMoves
<1> QED BY <1>1, <1>5, BecomeMoves

(* What the variables say of the state, and after a step.                  *)
LEMMA Fields ==
  /\ State.life = life /\ State.boot = boot /\ State.death = death /\ State.links = links
  /\ State.calls = calls /\ State.task = task /\ State.info = info /\ State.long = long
  /\ State.retry = retry
  /\ State'.life = life' /\ State'.boot = boot' /\ State'.death = death'
  /\ State'.links = links' /\ State'.calls = calls' /\ State'.task = task'
  /\ State'.info = info' /\ State'.long = long' /\ State'.retry = retry'
BY DEF State

(* The type of the state is the type of the variables.                     *)
LEMMA StateTyped ==
  ASSUME State \in States
  PROVE  /\ life \in Lives /\ boot \in BootStages /\ death \in DeathSet
         /\ links \in SUBSET Connections /\ calls \in SUBSET Calls
         /\ task \in [Tasks -> MS] /\ info \in [Tasks -> InfoSet]
         /\ long \in Seq(Tasks \cup Retrying) /\ retry \in [Retrying -> RetrySet]
BY Fields DEF States

(* The invariant has the type of the state in it.                          *)
LEMMA InvTyped == ASSUME NEW s, Inv(s) PROVE Good(s) /\ Typed(s) /\ s \in States
BY GoodTyped DEF Inv, InvBut, Good

(* Until the agent is told to go its termination has not begun.            *)
LEMMA NotYet ==
  ASSUME NEW s, Inv(s), InTime, s.life \notin {"terminating", "terminated"}
  PROVE  s.death.stage = "none"
BY DEF Inv, InvBut, Ordered

(* The agent terminates, and makes no attempt.                             *)
LEMMA TerminateProcedureMoves ==
  ASSUME NEW s, Inv(s) PROVE Moves(s, TerminateProcedure(s))
<1>1. CASE s.life \in {"terminating", "terminated"}
  BY <1>1 DEF TerminateProcedure, Moves
<1>2. CASE s.life \notin {"terminating", "terminated"}
  <2> DEFINE d == [stage |-> "cancel", held |-> s.links]
             y == [s EXCEPT !.life = "terminating", !.death = d]
             c == CancelLongRunning(y)
  <2>1. TerminateProcedure(s) = Progress(c) BY <1>2 DEF TerminateProcedure
  <2>2. Good(s) /\ s \in States BY InvTyped
  <2>3. d \in DeathSet BY <2>2 DEF States, DeathSet, DeathStages
  <2> HIDE DEF d
  <2>4. y \in States BY <2>2, <2>3 DEF States, Lives
  <2>5. /\ y.life = "terminating" /\ y.calls = s.calls /\ y.task = s.task /\ y.retry = s.retry
    BY <2>2 DEF States
  <2> HIDE DEF y
  <2>6. \A r \in Retrying : RetryFits(y, r) BY <2>2, <2>5, FitsSame DEF Good
  <2>7. Good(y) BY <2>2, <2>4, <2>5, <2>6 DEF Good
  <2>8. Good(c) /\ Keeps(y, c) BY <2>7, CancelLongRunningKeeps
  <2> HIDE DEF c
  <2>9. Keeps(c, Progress(c)) BY <2>8, GoodTyped, ProgressKeeps
  <2>10. Keeps(y, Progress(c)) BY <2>8, <2>9, KeepsTwice
  <2>11. Leads(s.life, "terminating") BY <1>2 DEF Leads
  <2> QED BY <2>1, <2>5, <2>10, <2>11 DEF Keeps, Attempts, Moves
<1> QED BY <1>1, <1>2

(* The steps of the chain that starts the agent.                           *)
LEMMA BootInv ==
  ASSUME Inv(State), BootCall \/ BootStep \/ CallStartup \/ BootFails
  PROVE  Inv(State') /\ Moves(State, State')
<1> USE Fields
<1>1. /\ life \in Lives /\ boot \in BootStages /\ death \in DeathSet
      /\ links \in SUBSET Connections /\ calls \in SUBSET Calls
      /\ task \in [Tasks -> MS] /\ info \in [Tasks -> InfoSet]
      /\ long \in Seq(Tasks \cup Retrying) /\ retry \in [Retrying -> RetrySet]
  BY InvTyped, StateTyped
<1>2. /\ death' = death /\ task' = task /\ info' = info /\ long' = long /\ retry' = retry
  BY DEF BootCall, BootStep, CallStartup, BootFails
<1>3. /\ life' \in Lives /\ boot' \in BootStages
      /\ links' \in SUBSET Connections /\ calls' \in SUBSET Calls
  BY <1>1 DEF BootCall, BootStep, CallStartup, BootFails, Lives, BootStages, Calls
<1>4. State' \in States BY <1>1, <1>2, <1>3 DEF State, States
<1>5. \A r \in Retrying : r \in calls' <=> r \in calls
  BY Apart DEF BootCall, BootStep, CallStartup, BootFails
<1>6. ASSUME InTime PROVE Ordered(State') /\ death.stage = "none"
  <2>1. Ordered(State) BY <1>6 DEF Inv, InvBut
  <2>2. boot \notin {"done", "failed"}
    BY <2>1 DEF BootCall, BootStep, CallStartup, BootFails, Ordered
  <2>3. death.stage = "none" /\ life \notin {"terminating", "terminated"} /\ "terminate" \notin calls
    BY <2>1, <2>2 DEF Ordered
  <2>4. CASE BootCall BY <2>1, <2>3, <2>4, <1>2 DEF Ordered, BootCall
  <2>5. CASE BootStep BY <2>1, <2>3, <2>5, <1>2 DEF Ordered, BootStep
  <2>6. CASE CallStartup BY <2>1, <2>3, <2>6, <1>2 DEF Ordered, CallStartup
  <2>7. CASE BootFails BY <2>1, <2>3, <2>7, <1>2 DEF Ordered, BootFails
  <2> QED BY <2>3, <2>4, <2>5, <2>6, <2>7
<1>7. Inv(State') BY <1>2, <1>4, <1>5, <1>6, ChainInv DEF Calm
<1>8. ASSUME InTime PROVE life' = life \/ Leads(life, life')
  <2>1. Ordered(State) BY <1>8 DEF Inv, InvBut
  <2> QED BY <2>1 DEF Ordered, BootCall, BootStep, CallStartup, BootFails, Leads
<1> QED BY <1>2, <1>7, <1>8 DEF Moves

(* on_disconnect() and on_reconnect().                                     *)
LEMMA ConnectionInv ==
  ASSUME Inv(State), OnDisconnect \/ OnReconnect PROVE Inv(State') /\ Moves(State, State')
<1> USE Fields
<1>1. /\ boot' = boot /\ death' = death /\ task' = task /\ info' = info /\ long' = long
      /\ retry' = retry /\ links' = links /\ calls' = calls
  BY DEF OnDisconnect, OnReconnect
<1>2. life' \in Lives BY DEF OnDisconnect, OnReconnect, Lives
<1>3. State' \in States BY <1>1, <1>2, InvTyped, StateTyped DEF State, States
<1>4. InTime => Ordered(State')
  BY <1>1 DEF Inv, InvBut, Ordered, OnDisconnect, OnReconnect
<1>5. Inv(State') BY <1>1, <1>3, <1>4, ChainInv
<1>6. Leads(life, life') BY DEF OnDisconnect, OnReconnect, Leads
<1> QED BY <1>1, <1>5, <1>6 DEF Moves

(* terminate() asks for a call of _terminate(),                            *)
LEMMA TerminateInv ==
  ASSUME Inv(State), Terminate PROVE Inv(State') /\ Moves(State, State')
<1> USE Fields
<1>1. /\ boot' = boot /\ death' = death /\ task' = task /\ info' = info /\ long' = long
      /\ retry' = retry /\ links' = links /\ life' = life /\ calls' = calls \cup {"terminate"}
  BY DEF Terminate
<1>2. State' \in States BY <1>1, InvTyped, StateTyped DEF State, States, Calls
<1>3. InTime => Ordered(State')
  BY <1>1 DEF Inv, InvBut, Ordered, Terminate, Started, InTime
<1>4. InTime => death.stage = "none" BY NotYet DEF Terminate, Acting
<1>5. Inv(State') BY <1>1, <1>2, <1>3, <1>4, Apart, ChainInv DEF Calm
<1> QED BY <1>1, <1>5 DEF Moves

(* which is made,                                                          *)
LEMMA TerminateCallInv ==
  ASSUME Inv(State), TerminateCall PROVE Inv(State') /\ Moves(State, State')
<1> DEFINE s == [State EXCEPT !.calls = @ \ {"terminate"}]
<1> USE Fields
<1>0. State \in States BY InvTyped
<1>1. s \in States BY <1>0 DEF States
<1>2. /\ s.life = life /\ s.boot = boot /\ s.death = death /\ s.links = links
      /\ s.calls = calls \ {"terminate"} /\ s.task = task /\ s.info = info /\ s.long = long
      /\ s.retry = retry
  BY DEF State
<1> HIDE DEF s
<1>3. InTime => Ordered(s) BY <1>2 DEF Inv, InvBut, Ordered
<1>4. Inv(s) BY <1>1, <1>2, <1>3, Apart, ChainInv
<1>5. InTime => s.boot \in {"done", "failed"}
  BY <1>2 DEF Inv, InvBut, Ordered, TerminateCall
<1>6. Calm => \A r \in Retrying : ~s.retry[r].bound
  BY <1>2 DEF TerminateCall, Undisturbed, Calm
<1>7. Inv(TerminateProcedure(s)) BY <1>4, <1>5, <1>6, TerminateProcedureInv
<1>8. Become(TerminateProcedure(s)) BY DEF TerminateCall, s
<1>9. Moves(s, TerminateProcedure(s)) BY <1>4, TerminateProcedureMoves
<1>10. Moves(State, TerminateProcedure(s)) BY <1>2, <1>9 DEF Moves
<1> QED BY <1>7, <1>8, <1>10, BecomeMoves

(* and terminate_hard() does not wait for one.                             *)
LEMMA KillInv ==
  ASSUME Inv(State), Kill PROVE Inv(State') /\ Moves(State, State')
<1> USE Fields
<1>1. InTime => State.boot \in {"done", "failed"} BY DEF Kill, Started, InTime
<1>2. Calm => \A r \in Retrying : ~State.retry[r].bound BY DEF Kill, Undisturbed, Calm
<1>3. Inv(TerminateProcedure(State)) BY <1>1, <1>2, TerminateProcedureInv
<1> QED BY <1>3, TerminateProcedureMoves, BecomeMoves DEF Kill

(* What happens to a task.                                                 *)
LEMMA TaskStepsInv ==
  ASSUME Inv(State), NEW t \in Tasks,
         \/ TaskTerminate(t) \/ TaskFail(t) \/ TaskTimeout(t) \/ TaskGone(t)
         \/ \E j \in task[t].jobs : TaskJobEnds(t, j) \/ TaskJobFails(t, j)
  PROVE  Inv(State') /\ Moves(State, State')
<1> USE Fields
<1>1. Typed(State) /\ State \in States BY InvTyped
<1>2. CASE TaskTerminate(t)
  <2>1. Quietly(State, TaskTerminated(State, t)) BY <1>1, EndedQuiet
  <2>2. Become(Progress(TaskTerminated(State, t))) BY <1>2 DEF TaskTerminate
  <2> QED BY <2>1, <2>2, QuietStepInv
<1>3. CASE TaskFail(t)
  <2>1. Quietly(State, TaskFailed(State, t)) BY <1>1, EndedQuiet
  <2>2. Become(Progress(TaskFailed(State, t))) BY <1>3 DEF TaskFail
  <2> QED BY <2>1, <2>2, QuietStepInv
<1>4. CASE TaskTimeout(t)
  <2> DEFINE m == TimeoutTarget(task[t])
             z == [State EXCEPT !.task[t] = m]
  <2>1. Sound(m) /\ m.registered = task[t].registered
    <3>1. Sound(State.task[t]) BY <1>1, TypedSound
    <3> QED BY <3>1, <1>4, TimeoutSound DEF TaskTimeout
  <2>2. /\ task' = [task EXCEPT ![t] = m] /\ life' = life /\ boot' = boot /\ death' = death
        /\ links' = links /\ calls' = calls /\ info' = info /\ long' = long /\ retry' = retry
    BY <1>4 DEF TaskTimeout
  <2> HIDE DEF m
  <2>3. Quietly(State, z) BY <1>1, <2>1, PutQuiet
  <2>4. Inv(z) BY <2>3, QuietInv
  <2>5. /\ z.life = life /\ z.boot = boot /\ z.death = death /\ z.links = links
        /\ z.calls = calls /\ z.task = [task EXCEPT ![t] = m] /\ z.info = info /\ z.long = long
        /\ z.retry = retry
    BY DEF State
  <2> HIDE DEF z
  <2>6. Become(z) BY <2>2, <2>5 DEF Become
  <2>7. Moves(State, z) BY <2>3, KeepsMoves DEF Quietly, Keeps, Attempts
  <2> QED BY <2>4, <2>6, <2>7, BecomeMoves
<1>5. CASE TaskGone(t)
  <2> DEFINE z == NotifyFinish(State, t)
  <2>1. /\ Inv(z) /\ Attempts(State, z) /\ Become(z)
        /\ z.life = life \/ (death.stage = "rekill" /\ z.life = "terminated")
    BY <1>5, NotifyFinishInv DEF TaskGone
  <2> HIDE DEF z
  <2>2. InTime /\ death.stage = "rekill" => life = "terminating" BY DEF Inv, InvBut, Ordered
  <2>3. Moves(State, z) BY <2>1, <2>2 DEF Moves, Attempts, Leads
  <2> QED BY <2>1, <2>3, BecomeMoves
<1>6. CASE \E j \in task[t].jobs : TaskJobEnds(t, j) \/ TaskJobFails(t, j)
  <2>1. PICK j \in task[t].jobs : TaskJobEnds(t, j) \/ TaskJobFails(t, j) BY <1>6
  <2>2. CASE TaskJobEnds(t, j)
    <3>1. PICK done \in BOOLEAN : Become(Progress(JobEnds(State, t, j, done)))
      BY <2>2 DEF TaskJobEnds
    <3>2. Quietly(State, JobEnds(State, t, j, done)) BY <1>1, JobQuiet
    <3> QED BY <3>1, <3>2, QuietStepInv
  <2>3. CASE TaskJobFails(t, j)
    <3> DEFINE z == Update(State, t, FailJob(State.task[t], j, "error"), TRUE)
    <3>1. Become(Progress(z)) BY <2>3 DEF TaskJobFails
    <3>2. Quietly(State, z) BY <1>1, JobFailsQuiet
    <3> QED BY <3>1, <3>2, QuietStepInv
  <2> QED BY <2>1, <2>2, <2>3
<1> QED BY <1>2, <1>3, <1>4, <1>5, <1>6

(* initiate_protocol() of the agent.                                       *)
LEMMA StartTaskInv ==
  ASSUME Inv(State), NEW t \in Tasks, StartTask(t) PROVE Inv(State') /\ Moves(State, State')
<1> USE Fields
<1>1. PICK busy \in BOOLEAN : Become(InitiateTask(State, t, busy)) BY DEF StartTask
<1>2. Calm => State.death.stage # "done" BY NotYet DEF StartTask, Acting, Calm
<1>3. t[1] = Agent BY DEF StartTask
<1>4. Inv(InitiateTask(State, t, busy)) /\ Moves(State, InitiateTask(State, t, busy))
  BY <1>2, <1>3, StartInv, KeepsMoves
<1> QED BY <1>1, <1>4, BecomeMoves

(* The agent starts a retrying protocol, which will bind.                  *)
LEMMA StartRetryingInv ==
  ASSUME Inv(State), NEW r \in Retrying, StartRetrying(r) PROVE Inv(State') /\ Moves(State, State')
<1> DEFINE q == State.retry[r]
           p == [q EXCEPT !.started = TRUE, !.bound = TRUE, !.waiting = TRUE]
           c == [State EXCEPT !.retry[r] = p]
           z == State'
<1> USE Fields
<1>1. Typed(State) /\ Good(State) /\ State \in States BY InvTyped
<1>2. q \in RetrySet /\ RetryFits(State, r) BY <1>1 DEF States, Good
<1>3. /\ p \in RetrySet /\ p.started /\ p.bound /\ p.waiting
      /\ p.attempt = q.attempt /\ p.max = q.max /\ p.delayed = q.delayed
      /\ p.initiator = q.initiator /\ p.tell = q.tell /\ p.cancelled = q.cancelled
      /\ p.alert = q.alert
  <2> HIDE DEF q
  <2> QED BY <1>2 DEF RetrySet
<1>4. ~q.started BY DEF StartRetrying
<1>5. /\ life' = life /\ boot' = boot /\ death' = death /\ links' = links
      /\ calls' = calls /\ task' = task /\ info' = info /\ long' = Append(long, r)
  BY DEF StartRetrying
<1>6. retry' = [retry EXCEPT ![r] = p]
  BY DEF StartRetrying
<1> HIDE DEF p
<1>7. /\ z \in States /\ z.retry[r] = p
      /\ \A x \in Retrying : x # r => z.retry[x] = retry[x]
  BY <1>1, <1>3, <1>5, <1>6, StateTyped DEF State, States
<1>8. /\ z.life = life /\ z.boot = boot /\ z.death = death /\ z.links = links
      /\ z.calls = calls /\ z.task = task /\ z.long = Append(long, r)
  BY <1>5
<1> HIDE DEF z
<1>9. Around(State, z, r) BY <1>1, <1>7, <1>8 DEF Around, Typed
<1>10. q.attempt = 0
  <2>1. ~(q.attempt > 0) BY <1>2, <1>4 DEF RetryFits
  <2>2. q.attempt \in Nat BY <1>2 DEF RetrySet
  <2> QED BY <2>1, <2>2
<1>11. RetryFits(z, r) /\ r \notin calls
  BY <1>2, <1>3, <1>7, <1>8, <1>10, MaxRetriesAssumption DEF RetryFits
<1>12. EndFits(z, r)
  <2>1. Goes(z, r) BY <1>3, <1>7 DEF Goes
  <2>2. Calm => z.death.stage = "none"
    BY <1>8, NotYet DEF StartRetrying, Acting, Calm
  <2>3. Listed(z, r)
    <3>1. long \in Seq(Tasks \cup Retrying) BY <1>1, StateTyped
    <3>2. Len(long) + 1 \in 1..Len(z.long) /\ z.long[Len(long) + 1] = r BY <3>1, <1>8
    <3> QED BY <3>2 DEF Listed
  <2> QED BY <2>1, <2>2, <2>3 DEF EndFits, Served, Reached
<1>13. InvBut(State, {r}) BY DEF Inv, InvBut
<1>16. Heeds(State, z, r)
  <2>1. long \in Seq(Tasks \cup Retrying) BY <1>1, StateTyped
  <2>2. ASSUME NEW x \in Retrying, Listed(State, x) PROVE Listed(z, x)
    <3>1. PICK k \in 1..Len(long) : long[k] = x BY <2>2 DEF Listed
    <3>2. k \in 1..Len(z.long) /\ z.long[k] = x BY <3>1, <2>1, <1>8
    <3> QED BY <3>2 DEF Listed
  <2>3. q.cancelled => z.retry[r].cancelled BY <1>3, <1>7
  <2> QED BY <2>2, <2>3 DEF Heeds
<1>14. Inv(z) BY <1>9, <1>11, <1>12, <1>13, <1>16, AroundInv
<1>15. Moves(State, z) BY <1>3, <1>7, <1>9, AroundKeeps, KeepsMoves
<1> QED BY <1>14, <1>15 DEF z

(* The agent cancels a retrying protocol.                                  *)
LEMMA CancelRetryingInv ==
  ASSUME Inv(State), NEW r \in Retrying, CancelRetrying(r) PROVE Inv(State') /\ Moves(State, State')
<1> DEFINE z == CancelRetry(State, r)
<1> USE Fields
<1>1. Good(State) /\ InvBut(State, {r}) BY DEF Inv, InvBut
<1>2. Good(z) BY <1>1, CancelRetryGood
<1>3. /\ Around(State, z, r) /\ z.retry[r].cancelled
      /\ z.retry[r].attempt = State.retry[r].attempt
      /\ \A x : x # r /\ Listed(State, x) => Listed(z, x)
  BY <1>1, CancelRetryDoes
<1>4. Become(z) BY DEF CancelRetrying
<1> HIDE DEF z
<1>5. InTime => z.death.stage = "none"
  BY <1>3, NotYet DEF CancelRetrying, Acting, Around
<1>6. EndFits(z, r) BY <1>3, <1>5 DEF EndFits, Served, Reached, Calm
<1>7. RetryFits(z, r) BY <1>2 DEF Good
<1>10. Heeds(State, z, r) BY <1>3 DEF Heeds
<1>8. Inv(z) BY <1>1, <1>3, <1>6, <1>7, <1>10, AroundInv
<1>9. Moves(State, z) BY <1>3, AroundKeeps, KeepsMoves
<1> QED BY <1>4, <1>8, <1>9, BecomeMoves

(* What a retrying protocol that binds was, is kept by what it becomes.     *)
LEMMA BoundInv ==
  ASSUME NEW s, Inv(s), NEW r \in Retrying, Goes(s, r), ~Runs(s, r),
         NEW c, Good(c), Around(s, c, r), c.long = s.long,
         c.retry[r].cancelled = s.retry[r].cancelled,
         c.retry[r].started, ~c.retry[r].bound, r \notin c.calls, ~c.retry[r].initiator,
         c.retry[r].tell = None, c.retry[r].attempt <= MaxRetries, ~Runs(c, r),
         Calm /\ s.death.stage # "none" => ~s.retry[r].cancelled,
         ~(s.retry[r].cancelled /\ s.retry[r].attempt > 0),
         NEW busy \in BOOLEAN
  PROVE  Inv(Bind(c, r, busy)) /\ Moves(s, Bind(c, r, busy))
<1> DEFINE z == Bind(c, r, busy)
<1>1. /\ Around(c, z, r) /\ RetryFits(z, r) /\ Runs(z, r)
      /\ z.retry[r].bound = c.retry[r].bound
      /\ z.retry[r].cancelled = c.retry[r].cancelled
      /\ \A x : Listed(c, x) => Listed(z, x)
  BY BindDoes
<1> HIDE DEF z
<1>2. Around(s, z, r) BY <1>1, AroundTwice
<1>3. z.death = s.death BY <1>2 DEF Around
<1>4. ASSUME Calm PROVE Reached(z, r)
  <2>1. Reached(s, r) BY <1>4 DEF Inv, InvBut
  <2>2. Listed(s, r) => Listed(z, r) BY <1>1 DEF Listed
  <2>3. \A x \in Retrying : s.retry[x].cancelled => z.retry[x].cancelled
    BY <1>1, <1>2 DEF Around
  <2> QED BY <2>1, <2>2, <2>3, <1>1, <1>3, <1>4 DEF Reached
<1>5. EndFits(z, r) BY <1>1, <1>3, <1>4 DEF EndFits, Served, Goes
<1>6. InvBut(s, {r}) BY DEF Inv, InvBut
<1>9. Heeds(s, z, r)
  <2>1. \A x : Listed(s, x) => Listed(z, x) BY <1>1 DEF Listed
  <2> QED BY <2>1, <1>1 DEF Heeds
<1>7. Inv(z) BY <1>1, <1>2, <1>5, <1>6, <1>9, AroundInv
<1>8. Moves(s, z) BY <1>2 DEF Around, Moves
<1> QED BY <1>7, <1>8 DEF z

(* _bind() is called for the first time,                                   *)
LEMMA FirstBindInv ==
  ASSUME Inv(State), NEW r \in Retrying, FirstBind(r) PROVE Inv(State') /\ Moves(State, State')
<1> DEFINE q == State.retry[r]
           p == [q EXCEPT !.bound = FALSE]
           c == [State EXCEPT !.retry[r] = p]
<1> USE Fields
<1>1. Typed(State) /\ Good(State) BY InvTyped
<1>2. q \in RetrySet /\ RetryFits(State, r) BY <1>1 DEF Typed, States, Good
<1>3. /\ p \in RetrySet /\ ~p.bound
      /\ p.started = q.started /\ p.waiting = q.waiting
      /\ p.attempt = q.attempt /\ p.max = q.max /\ p.delayed = q.delayed
      /\ p.initiator = q.initiator /\ p.tell = q.tell /\ p.cancelled = q.cancelled
      /\ p.alert = q.alert
  <2> HIDE DEF q
  <2> QED BY <1>2 DEF RetrySet
<1>4. /\ q.bound /\ q.attempt = 0 /\ ~(q.attempt > 0) /\ q.started /\ ~q.initiator
      /\ q.tell = None /\ r \notin State.calls
      /\ ~Runs(State, r)
  <2>1. q.bound BY DEF FirstBind
  <2>2. q.attempt = 0 BY <1>2, <2>1 DEF RetryFits
  <2>3. ~(q.attempt > 0) BY <2>2
  <2>4. q.tell = None /\ ~q.initiator /\ r \notin State.calls BY <1>2, <2>3 DEF RetryFits
  <2>5. ~Runs(State, r) BY <1>2, <2>4 DEF RetryFits, Runs
  <2>6. q.started BY <1>2, <2>1 DEF RetryFits
  <2> QED BY <2>1, <2>2, <2>3, <2>4, <2>5, <2>6
<1>5. c = [State EXCEPT !.retry[r].bound = FALSE] OBVIOUS
<1> HIDE DEF p
<1>6. /\ Around(State, c, r)
      /\ c.retry[r] = p /\ c.calls = State.calls /\ c.long = State.long /\ c.task = State.task
  BY <1>1, <1>3, PutRetryOnly
<1>7. PICK busy \in BOOLEAN : Become(Bind(c, r, busy)) BY <1>5 DEF FirstBind
<1> HIDE DEF c
<1>8. RetryFits(c, r) BY <1>2, <1>3, <1>4, <1>6 DEF RetryFits
<1>9. Good(c) BY <1>1, <1>6, <1>8, AroundGood
<1>10. ~Runs(c, r) BY <1>4, <1>6 DEF Runs
<1>11. Calm => State.death.stage = "none" BY <1>4 DEF Inv, InvBut, Ending
<1>12. Goes(State, r) BY <1>4 DEF Goes
<1>13. c.retry[r].attempt <= MaxRetries BY <1>3, <1>4, <1>6, MaxRetriesAssumption
<1>14. Inv(Bind(c, r, busy)) /\ Moves(State, Bind(c, r, busy))
  BY <1>3, <1>4, <1>6, <1>9, <1>10, <1>11, <1>12, <1>13, BoundInv
<1> QED BY <1>7, <1>14, BecomeMoves

(* and again by the delayed call.                                          *)
LEMMA NextBindInv ==
  ASSUME Inv(State), NEW r \in Retrying, NextBind(r) PROVE Inv(State') /\ Moves(State, State')
<1> DEFINE q == State.retry[r]
           C == State.calls \ {r}
           c == [State EXCEPT !.calls = C]
           e == Put(State, r, q, C)
<1> USE Fields
<1>1. Typed(State) /\ Good(State) BY InvTyped
<1>2. q \in RetrySet /\ RetryFits(State, r) BY <1>1 DEF Typed, States, Good
<1>3. r \in State.calls BY DEF NextBind
<1>4. /\ q.delayed /\ ~q.initiator /\ q.attempt <= q.max /\ q.attempt > 0 /\ q.tell = None
      /\ q.max <= MaxRetries /\ q.attempt \in Nat /\ q.max \in Int
  BY <1>2, <1>3 DEF RetryFits, RetrySet
<1>5. /\ ~q.bound /\ q.started /\ ~q.cancelled /\ ~Runs(State, r)
  <2>1. q.bound => q.attempt = 0 BY <1>2 DEF RetryFits
  <2>2. ~q.bound BY <2>1, <1>4
  <2>3. q.started BY <1>2, <1>4 DEF RetryFits
  <2>4. q.cancelled => q.max < q.attempt BY <1>2 DEF RetryFits
  <2>5. ~q.cancelled BY <2>4, <1>4
  <2>6. ~Runs(State, r) BY <1>2, <1>4 DEF RetryFits, Runs
  <2> QED BY <2>2, <2>3, <2>5, <2>6
<1>6. PICK busy \in BOOLEAN : Become(Bind(c, r, busy)) BY DEF NextBind
<1>7. c = e
  BY <1>1 DEF Put, Typed, States
<1>8. C \in SUBSET Calls /\ C \ {r} = State.calls \ {r} BY <1>1 DEF Typed, States
<1> HIDE DEF c, C
<1>9. /\ Around(State, e, r)
      /\ e.retry[r] = q /\ e.calls = C /\ e.long = State.long /\ e.task = State.task
  BY <1>1, <1>2, <1>8, PutRetry
<1> HIDE DEF e
<1>10. r \notin C BY DEF C
<1>11. RetryFits(e, r) BY <1>2, <1>9, <1>10, FitsSame
<1>12. Good(e) BY <1>1, <1>9, <1>11, AroundGood
<1>13. ~Runs(e, r) BY <1>5, <1>9 DEF Runs
<1>14. Goes(State, r) BY <1>3 DEF Goes
<1>15. q.attempt <= MaxRetries BY <1>4, MaxRetriesAssumption
<1>16. Inv(Bind(e, r, busy)) /\ Moves(State, Bind(e, r, busy))
  BY <1>4, <1>5, <1>9, <1>10, <1>12, <1>13, <1>14, <1>15, BoundInv
<1> QED BY <1>6, <1>7, <1>16, BecomeMoves

(* Who waits for a retrying protocol is told of its end.                   *)
LEMMA RetryToldInv ==
  ASSUME Inv(State), NEW r \in Retrying, RetryTold(r) PROVE Inv(State') /\ Moves(State, State')
<1> DEFINE q == State.retry[r]
           p == [q EXCEPT !.tell = None, !.told = q.told + 1]
           c == [State EXCEPT !.retry[r] = p]
           z == NotListed(c, r)
<1> USE Fields
<1>1. Typed(State) /\ Good(State) BY InvTyped
<1>2. q \in RetrySet /\ RetryFits(State, r) BY <1>1 DEF Typed, States, Good
<1>3. /\ p \in RetrySet /\ p.tell = None
      /\ p.started = q.started /\ p.bound = q.bound /\ p.waiting = q.waiting
      /\ p.attempt = q.attempt /\ p.max = q.max /\ p.delayed = q.delayed
      /\ p.initiator = q.initiator /\ p.cancelled = q.cancelled
      /\ p.alert = q.alert
  <2> HIDE DEF q
  <2>1. q.told + 1 \in Nat BY <1>2 DEF RetrySet
  <2> QED BY <1>2, <2>1 DEF RetrySet
<1>4. q.tell # None BY DEF RetryTold
<1>5. ~Goes(State, r)
  <2>1. q.attempt > 0 BY <1>2, <1>4 DEF RetryFits
  <2>2. q.bound => q.attempt = 0 BY <1>2 DEF RetryFits
  <2>3. ~q.bound BY <2>1, <2>2
  <2>4. r \notin State.calls /\ ~Runs(State, r) BY <1>2, <1>4 DEF RetryFits, Runs
  <2> QED BY <2>3, <2>4 DEF Goes
<1>6. Become(z) BY DEF RetryTold
<1> HIDE DEF p
<1>7. /\ Around(State, c, r)
      /\ c.retry[r] = p /\ c.calls = State.calls /\ c.long = State.long /\ c.task = State.task
  BY <1>1, <1>3, PutRetryOnly
<1> HIDE DEF c
<1>8. Typed(c) BY <1>7 DEF Around
<1>9. /\ Around(c, z, r) /\ z.retry = c.retry /\ z.calls = c.calls /\ z.task = c.task
      /\ \A x : x # r /\ Listed(c, x) => Listed(z, x)
  BY <1>8, UnlistedAround
<1> HIDE DEF z
<1>10. Around(State, z, r) BY <1>7, <1>9, AroundTwice
<1>11. z.retry[r] = p /\ z.calls = State.calls /\ z.task = State.task BY <1>7, <1>9
<1>12. None # "ok" BY Names
<1>13. RetryFits(z, r) BY <1>2, <1>3, <1>11, <1>12 DEF RetryFits
<1>14. ~Goes(z, r) /\ ~Runs(z, r) BY <1>3, <1>5, <1>11 DEF Goes, Runs
<1>15. InTime => Served(z, r)
  <2> SUFFICES ASSUME InTime PROVE Served(z, r) OBVIOUS
  <2>1. Served(State, r) BY DEF Inv, InvBut
  <2>2. z.death = State.death BY <1>10 DEF Around
  <2> QED BY <2>1, <2>2, <1>3, <1>5, <1>11 DEF Served
<1>16. EndFits(z, r) BY <1>14, <1>15 DEF EndFits, Reached, Goes
<1>17. InvBut(State, {r}) BY DEF Inv, InvBut
<1>20. Heeds(State, z, r)
  <2>1. \A x : Listed(State, x) => Listed(c, x) BY <1>7 DEF Listed
  <2>2. q.cancelled => z.retry[r].cancelled BY <1>3, <1>11
  <2> QED BY <2>1, <2>2, <1>9 DEF Heeds
<1>18. Inv(z) BY <1>10, <1>13, <1>16, <1>17, <1>20, AroundInv
<1>19. Moves(State, z) BY <1>3, <1>10, <1>11, AroundKeeps, KeepsMoves
<1> QED BY <1>6, <1>18, <1>19, BecomeMoves

(* The agent has shut down.                                                *)
LEMMA BodyEndsInv ==
  ASSUME Inv(State), BodyEnds PROVE Inv(State') /\ Moves(State, State')
<1> USE Fields
<1> DEFINE z == AfterBody(State)
<1>1. Inv(z) /\ Become(z) BY AfterBodyInv DEF BodyEnds
<1>2. Typed(State) /\ "rekill" \in DeathStages BY InvTyped DEF DeathStages
<1>3. Keeps(State, KillProtocols(State, "rekill")) BY <1>2, KillDies DEF Dies, Keeps, Attempts
<1>4. Attempts(State, Unregistered(State)) /\ Unregistered(State).life = "terminated"
  BY <1>2 DEF Unregistered, Attempts, Typed, States
<1>5. InTime => life = "terminating" BY DEF BodyEnds, Inv, InvBut, Ordered
<1>6. Moves(State, Unregistered(State)) BY <1>4, <1>5 DEF Moves, Attempts, Leads
<1>7. z \in {KillProtocols(State, "rekill"), Unregistered(State)} BY DEF AfterBody
<1> HIDE DEF z
<1>8. Moves(State, z) BY <1>3, <1>6, <1>7, KeepsMoves
<1> QED BY <1>1, <1>8, BecomeMoves

(* Nothing happens.                                                        *)
LEMMA SameInv ==
  ASSUME Inv(State), UNCHANGED vars PROVE Inv(State') /\ Moves(State, State')
<1>1. State' = State BY DEF vars, State
<1> QED BY <1>1 DEF Moves

(* Every action keeps the invariant, and is allowed.                       *)
LEMMA NextInv ==
  ASSUME Inv(State), Next PROVE Inv(State') /\ Moves(State, State')
<1>1. CASE BootCall \/ BootStep \/ CallStartup \/ BootFails BY <1>1, BootInv
<1>2. CASE OnDisconnect \/ OnReconnect BY <1>2, ConnectionInv
<1>3. CASE Kill BY <1>3, KillInv
<1>4. CASE Terminate BY <1>4, TerminateInv
<1>5. CASE TerminateCall BY <1>5, TerminateCallInv
<1>6. CASE BodyEnds BY <1>6, BodyEndsInv
<1>7. CASE \E t \in Tasks :
             \/ StartTask(t) \/ TaskTerminate(t) \/ TaskFail(t) \/ TaskTimeout(t) \/ TaskGone(t)
             \/ \E j \in task[t].jobs : TaskJobEnds(t, j) \/ TaskJobFails(t, j)
  BY <1>7, StartTaskInv, TaskStepsInv
<1>8. CASE \E r \in Retrying :
             StartRetrying(r) \/ CancelRetrying(r) \/ FirstBind(r) \/ NextBind(r) \/ RetryTold(r)
  BY <1>8, StartRetryingInv, CancelRetryingInv, FirstBindInv, NextBindInv, RetryToldInv
<1> QED BY <1>1, <1>2, <1>3, <1>4, <1>5, <1>6, <1>7, <1>8 DEF Next

(* The agent before its start.                                             *)
LEMMA InitInv == ASSUME Init PROVE Inv(State)
<1> USE Fields
<1>1. NoMedium \in MS /\ TaskFits(NoMedium) /\ ~NoMedium.registered
  BY DEF NoMedium, MS, MediumSet, TaskFits
<1>2. [busy |-> FALSE, failed |-> FALSE] \in InfoSet BY DEF InfoSet
<1>3. NewRetry \in RetrySet BY MaxRetriesAssumption DEF NewRetry, RetrySet
<1>4. /\ task \in [Tasks -> MS] /\ \A t \in Tasks : task[t] = NoMedium
      /\ info \in [Tasks -> InfoSet] /\ retry \in [Retrying -> RetrySet]
      /\ \A r \in Retrying : retry[r] = NewRetry
  <2> HIDE DEF NoMedium, NewRetry
  <2> QED BY <1>1, <1>2, <1>3 DEF Init
<1>5. /\ life \in Lives /\ boot \in BootStages /\ death \in DeathSet /\ links \in SUBSET Connections
      /\ calls \in SUBSET Calls /\ long \in Seq(Tasks \cup Retrying)
  BY DEF Init, Lives, BootStages, DeathSet, DeathStages, Calls
<1>6. State \in States BY <1>4, <1>5 DEF State, States
<1>7. ASSUME NEW r \in Retrying PROVE RetryFits(State, r)
  <2>1. r \notin calls BY Apart DEF Init
  <2>2. \A n \in 1..(MaxRetries + 2) : ~task[<<r, n>>].registered BY <1>1, <1>4, Apart
  <2>3. /\ NewRetry.attempt = 0 /\ NewRetry.max = MaxRetries /\ ~NewRetry.cancelled
        /\ ~NewRetry.bound /\ ~NewRetry.initiator /\ NewRetry.tell = None /\ ~NewRetry.alert
    BY DEF NewRetry
  <2>4. None # "ok" BY Names
  <2> HIDE DEF NewRetry
  <2> QED BY <1>4, <2>1, <2>2, <2>3, <2>4, MaxRetriesAssumption DEF RetryFits
<1>8. Good(State) BY <1>1, <1>4, <1>6, <1>7 DEF Good
<1>9. Ordered(State) BY DEF Init, Ordered
<1>10. ASSUME NEW r \in Retrying PROVE ~Goes(State, r) /\ ~retry[r].waiting
  <2>1. ~NewRetry.bound /\ ~NewRetry.waiting BY DEF NewRetry
  <2>2. r \notin calls BY Apart DEF Init
  <2>3. \A n \in 1..(MaxRetries + 2) : ~task[<<r, n>>].registered BY <1>1, <1>4, Apart
  <2>4. ~Runs(State, r) BY <2>3 DEF Runs
  <2> HIDE DEF NewRetry
  <2> QED BY <1>4, <2>1, <2>2, <2>4 DEF Goes
<1>11. \A r \in Retrying : Served(State, r) /\ Reached(State, r)
  BY <1>10 DEF Served, Reached, Init
<1>12. Ending(State) BY DEF Ending, Init
<1> QED BY <1>8, <1>9, <1>11, <1>12 DEF Inv, InvBut

(* What the invariant says of the types,                                   *)
LEMMA InvTypeOK == ASSUME Inv(State) PROVE TypeOK
<1> USE Fields
<1>1. /\ life \in Lives /\ boot \in BootStages /\ death \in DeathSet
      /\ links \in SUBSET Connections /\ calls \in SUBSET Calls
      /\ task \in [Tasks -> MS] /\ info \in [Tasks -> InfoSet]
      /\ long \in Seq(Tasks \cup Retrying)
  BY InvTyped, StateTyped
<1>2. \A t \in Tasks : ~task[t].asserted BY DEF Inv, InvBut, Good, TaskFits
<1>3. \A r \in Retrying, n \in 1..(MaxRetries + 2) :
        task[<<r, n>>].registered => retry[r].initiator /\ retry[r].attempt = n
  BY DEF Inv, InvBut, Good, RetryFits
<1> QED BY <1>1, <1>2, <1>3 DEF TypeOK, DeathSet, Calls, MS, InfoSet

(* What is left when the agent is terminated.                              *)
LEMMA InvEnd ==
  ASSUME Inv(State), Calm, life = "terminated"
  PROVE  /\ links = {} /\ \A r \in Retrying : ~retry[r].bound
         /\ \A r \in calls : r \in Retrying /\ ~retry[r].cancelled
         /\ \A t \in Registered(State) : t[1] \in Retrying /\ ~retry[t[1]].cancelled
<1> USE Fields
<1>1. death.stage = "done" BY DEF Inv, InvBut, Ordered, Calm
<1>2. /\ links = {} /\ \A r \in Retrying : ~retry[r].bound
      /\ calls \subseteq Retrying
      /\ \A r \in Retrying : retry[r].cancelled => ~Runs(State, r)
      /\ \A t \in Tasks : task[t].registered => t[1] # Agent
  BY <1>1 DEF Inv, InvBut, Ending
<1>3. ASSUME NEW r \in calls PROVE ~retry[r].cancelled
  <2>1. r \in Retrying BY <1>2
  <2>2. State \in States /\ RetryFits(State, r) BY <2>1 DEF Inv, InvBut, Good
  <2>3. retry[r].attempt \in Nat /\ retry[r].max \in Int
    BY <2>1, <2>2, StateTyped DEF RetrySet
  <2>4. retry[r].attempt <= retry[r].max BY <2>2 DEF RetryFits
  <2>5. retry[r].cancelled => retry[r].max < retry[r].attempt BY <2>2 DEF RetryFits
  <2> QED BY <2>3, <2>4, <2>5
<1>4. ASSUME NEW t \in Registered(State) PROVE t[1] \in Retrying /\ ~retry[t[1]].cancelled
  <2>1. t \in Tasks /\ task[t].registered BY DEF Registered
  <2>2. t[1] \in Retrying BY <1>2, <2>1, Apart
  <2>3. Runs(State, t[1]) BY <2>1, <2>2, Apart DEF Runs
  <2> QED BY <1>2, <2>2, <2>3
<1> QED BY <1>2, <1>3, <1>4

(* of an agent at its end,                                                 *)
LEMMA InvQuiet == ASSUME Inv(State), Calm PROVE Quiet
<1> SUFFICES ASSUME life = "terminated"
             PROVE  /\ links = {} /\ \A r \in Retrying : ~retry[r].bound
                    /\ \A r \in Left : r \in Retrying /\ ~retry[r].cancelled
                    /\ Left # {} => \E r \in Retrying : retry[r].cancelled
  BY DEF Quiet
<1> USE Fields
<1>1. /\ links = {} /\ \A r \in Retrying : ~retry[r].bound
      /\ \A r \in calls : r \in Retrying /\ ~retry[r].cancelled
      /\ \A t \in Registered(State) : t[1] \in Retrying /\ ~retry[t[1]].cancelled
  BY InvEnd
<1>2. death.stage # "none" BY DEF Inv, InvBut, Ordered, Calm
<1>3. ASSUME NEW r \in Retrying, Goes(State, r) PROVE \E q \in Retrying : retry[q].cancelled
  BY <1>2, <1>3 DEF Inv, InvBut, Reached
<1>4. \A r \in calls : Goes(State, r) BY DEF Goes
<1>5. ASSUME NEW t \in Registered(State) PROVE Goes(State, t[1])
  <2>1. t \in Tasks /\ task[t].registered /\ t[1] \in Retrying BY <1>1, <1>5 DEF Registered
  <2> QED BY <2>1, Apart DEF Goes, Runs
<1>6. ASSUME NEW r \in Left PROVE r \in Retrying /\ ~retry[r].cancelled /\ Goes(State, r)
  BY <1>1, <1>4, <1>5 DEF Left
<1> QED BY <1>1, <1>3, <1>6

(* of those who wait for a retrying protocol,                              *)
LEMMA InvStranded == ASSUME Inv(State), InTime PROVE NeverStranded
<1> USE Fields
<1> SUFFICES ASSUME NEW r \in Retrying, retry[r].waiting, life \notin {"terminating", "terminated"},
                    ~retry[r].cancelled
             PROVE  \/ retry[r].bound \/ r \in calls
                    \/ retry[r].initiator /\ task[Attempt(State, r)].registered
  BY DEF NeverStranded
<1>1. Goes(State, r)
  <2>1. death.stage = "none" BY NotYet
  <2> QED BY <2>1 DEF Inv, InvBut, Served
<1>2. ASSUME Runs(State, r) PROVE retry[r].initiator /\ task[Attempt(State, r)].registered
  <2>1. PICK n \in 1..(MaxRetries + 2) : task[<<r, n>>].registered BY <1>2 DEF Runs
  <2>2. retry[r].initiator /\ retry[r].attempt = n
    BY <2>1 DEF Inv, InvBut, Good, RetryFits
  <2> QED BY <2>1, <2>2 DEF Attempt
<1> QED BY <1>1, <1>2 DEF Goes

(* and of the alert.                                                       *)
LEMMA InvAlert == ASSUME Inv(State) PROVE AlertResolved
BY Fields DEF Inv, InvBut, Good, RetryFits, AlertResolved

(* The steps that are allowed are those that the watchers are promised.    *)
LEMMA MovesPromised ==
  ASSUME Moves(State, State'), InTime PROVE life' = life \/ Promised!LifeNext
<1>1. life' = life \/ Leads(life, life') BY Fields DEF Moves
<1>2. ASSUME NEW k \in 1..4, life = Promised!StartUp[k], life' = Promised!StartUp[k + 1]
      PROVE  Promised!LifeNext
  BY <1>2 DEF Promised!LifeNext, Promised!StartsUp
<1>3. /\ Promised!StartUp[1] = "not_initiated" /\ Promised!StartUp[2] = "initiating"
      /\ Promised!StartUp[3] = "initiated" /\ Promised!StartUp[4] = "starting_up"
      /\ Promised!StartUp[5] = "ready"
  BY DEF Promised!StartUp
<1>4. /\ 1 + 1 = 2 /\ 2 + 1 = 3 /\ 3 + 1 = 4 /\ 4 + 1 = 5
      /\ 1 \in 1..4 /\ 2 \in 1..4 /\ 3 \in 1..4 /\ 4 \in 1..4
  OBVIOUS
<1>5. CASE life = "not_initiated" /\ life' = "initiating" BY <1>2, <1>3, <1>4, <1>5
<1>6. CASE life = "initiating" /\ life' = "initiated" BY <1>2, <1>3, <1>4, <1>6
<1>7. CASE life = "initiated" /\ life' = "starting_up" BY <1>2, <1>3, <1>4, <1>7
<1>8. CASE life = "starting_up" /\ life' = "ready" BY <1>2, <1>3, <1>4, <1>8
<1>9. CASE \/ life = "ready" /\ life' = "disconnected"
           \/ life = "disconnected" /\ life' = "ready"
           \/ life \notin {"terminating", "terminated"} /\ life' = "terminating"
           \/ life = "terminating" /\ life' = "terminated"
  BY <1>9 DEF Promised!LifeNext, Promised!LosesConnection, Promised!RegainsConnection,
              Promised!Goes, Promised!Ends
<1> QED BY <1>1, <1>5, <1>6, <1>7, <1>8, <1>9 DEF Leads

(* A step, or none.                                                        *)
LEMMA StepInv == ASSUME Inv(State), [Next]_vars PROVE Inv(State') /\ Moves(State, State')
BY NextInv, SameInv

-----------------------------------------------------------------------------
(* The theorems                                                            *)

(* The inductive invariant holds in every state of an agent.               *)
THEOREM LifeInvariant == Spec => []Inv(State)
<1>1. Init => Inv(State) BY InitInv
<1>2. Inv(State) /\ [Next]_vars => Inv(State)' BY StepInv
<1> QED BY <1>1, <1>2, PTL DEF Spec

(* The state has its type whatever the surroundings do: a registered task  *)
(* is the one that its retrying protocol waits for, and no medium of a     *)
(* task is called once it was finalized.                                   *)
THEOREM LifeTypeCorrect == Spec => []TypeOK
<1>1. Inv(State) => TypeOK BY InvTypeOK
<1> QED BY <1>1, LifeInvariant, PTL

(* If the agent is told to go when it has started, its terminate procedure *)
(* closes the connections and leaves nothing but retrying protocols that   *)
(* were not cancelled while another one was, however many tasks and        *)
(* retrying protocols there are and however they end while it goes: the    *)
(* loop of _cancel_long_running_protocols() passes over the one after a    *)
(* protocol that cancel() takes from the list.                             *)
THEOREM TerminatedIsQuiet ==
  ASSUME Calm PROVE Spec => []Quiet
<1>1. Inv(State) => Quiet BY InvQuiet
<1> QED BY <1>1, LifeInvariant, PTL

(* Whatever the surroundings do, cancel() of a retrying protocol stops it  *)
(* after the running attempt, and the attempt that succeeds resolves the   *)
(* alert that the failures before it have raised.                          *)
THEOREM RetriesStop == Spec => []AlertResolved /\ CancelStops
<1>1. Inv(State) => AlertResolved BY InvAlert
<1>2. Inv(State) /\ [Next]_vars =>
        [\A r \in Retrying : retry[r].cancelled /\ retry[r].attempt > 0 =>
            retry'[r].attempt = retry[r].attempt]_vars
  BY StepInv, Fields DEF Moves
<1>3. Spec => []Inv(State) /\ [][Next]_vars BY LifeInvariant DEF Spec
<1> QED BY <1>1, <1>2, <1>3, PTL DEF CancelStops

(* _wait_and_retry(): if the agent is not killed while it starts, a        *)
(* retrying protocol that somebody waits for goes on until it has          *)
(* succeeded, given up or been cancelled, and then it stops.               *)
THEOREM RetriesGoOn ==
  ASSUME InTime PROVE Spec => RetriesSound
<1>1. Inv(State) => NeverStranded BY InvStranded
<1> QED BY <1>1, LifeInvariant, RetriesStop, PTL DEF RetriesSound

(* AgencyAgentState: the states of an agent that is not killed while it    *)
(* starts go the way that those who watch them expect.                     *)
THEOREM LifeCycleImplemented ==
  ASSUME InTime PROVE Spec => ImplementsLifeCycle
<1>1. Init => Promised!LifeInit BY DEF Init, Promised!LifeInit
<1>2. Inv(State) /\ [Next]_vars => [Promised!LifeNext]_life
  BY StepInv, MovesPromised
<1>3. Spec => Init /\ []Inv(State) /\ [][Next]_vars BY LifeInvariant DEF Spec
<1> QED BY <1>1, <1>2, <1>3, PTL DEF ImplementsLifeCycle, Promised!LifeSpec
=================================================================================
