-------------------------- MODULE AgencyMiddleProofs --------------------------
(***************************************************************************)
(* What the methods of AgencyMiddleBase keep true of any medium, for every *)
(* set of hooks, states and timers.                                        *)
(***************************************************************************)
EXTENDS AgencyMiddle, TLAPS

(* The jobs of a medium are well formed. *)
LEMMA JobType ==
  ASSUME NEW Hooks, NEW States, NEW hook \in Hooks, NEW need \in States \cup {AnyState},
         NEW phase \in Phases, NEW last \in BOOLEAN
  PROVE  Job(hook, need, phase, last) \in JobSet(Hooks, States)
BY DEF Job, JobSet

(* call_agent_side() adds a job or none. *)
LEMMA AddJobType ==
  ASSUME NEW Hooks, NEW States, NEW Timers,
         NEW p \in MediumSet(Hooks, States, Timers), NEW j \in JobSet(Hooks, States)
  PROVE  /\ AddJob(p, j) \in MediumSet(Hooks, States, Timers)
         /\ AddJob(p, j).state = p.state
         /\ AddJob(p, j).timer = p.timer
         /\ AddJob(p, j).jobs \subseteq p.jobs \cup {j}
BY DEF AddJob, MediumSet

LEMMA CallAgentSideType ==
  ASSUME NEW Hooks, NEW States, NEW Timers, NEW p \in MediumSet(Hooks, States, Timers),
         NEW hook \in Hooks, NEW need \in States \cup {AnyState}
  PROVE  LET q == CallAgentSide(p, hook, need)
             j == Job(hook, need, "queued", FALSE)
         IN  /\ q \in MediumSet(Hooks, States, Timers)
             /\ q.state = p.state
             /\ q.timer = p.timer
             /\ q.jobs \subseteq p.jobs \cup {j}
<1>1. Job(hook, need, "queued", FALSE) \in JobSet(Hooks, States)
  BY JobType DEF Phases
<1>2. CASE hook \in FailingHooks \/ p.final
  <2> DEFINE j == Job(hook, need, "queued", FALSE)
  <2>1. CallAgentSide(p, hook, need) = AddJob(p, j)
    BY <1>2 DEF CallAgentSide
  <2> HIDE DEF j
  <2>2. j \in JobSet(Hooks, States)
    BY <1>1 DEF j
  <2>3. /\ AddJob(p, j) \in MediumSet(Hooks, States, Timers)
        /\ AddJob(p, j).state = p.state
        /\ AddJob(p, j).timer = p.timer
        /\ AddJob(p, j).jobs \subseteq p.jobs \cup {j}
    BY <2>2, AddJobType
  <2> QED BY <2>1, <2>3 DEF j
<1>3. CASE ~(hook \in FailingHooks \/ p.final)
  BY <1>3 DEF CallAgentSide
<1> QED BY <1>2, <1>3

LEMMA RunAndTerminateType ==
  ASSUME NEW Hooks, NEW States, NEW Timers, NEW p \in MediumSet(Hooks, States, Timers),
         NEW hook \in Hooks, NEW need \in States \cup {AnyState}
  PROVE  LET q == RunAndTerminate(p, hook, need)
             j == Job(hook, need, "queued", TRUE)
         IN  /\ q \in MediumSet(Hooks, States, Timers)
             /\ q.state = p.state
             /\ q.timer = p.timer
             /\ q.jobs \subseteq p.jobs \cup {j}
<1>1. Job(hook, need, "queued", TRUE) \in JobSet(Hooks, States)
  BY JobType DEF Phases
<1> QED BY <1>1, AddJobType DEF RunAndTerminate

LEMMA SetStateType ==
  ASSUME NEW Hooks, NEW States, NEW Timers, NEW p \in MediumSet(Hooks, States, Timers),
         NEW s \in States
  PROVE  LET q == SetState(p, s)
         IN  /\ q \in MediumSet(Hooks, States, Timers)
             /\ q.state = s
             /\ q.timer = p.timer
             /\ q.jobs = p.jobs
             /\ q.final = p.final
BY DEF SetState, MediumSet

LEMMA SetTimeoutType ==
  ASSUME NEW Hooks, NEW States, NEW Timers, NEW p \in MediumSet(Hooks, States, Timers),
         NEW s, NEW hook, Timer(s, hook) \in Timers
  PROVE  LET q == SetTimeout(p, s, hook)
         IN  /\ q \in MediumSet(Hooks, States, Timers)
             /\ q.state = p.state
             /\ q.timer = Timer(s, hook)
             /\ q.jobs = p.jobs
BY DEF SetTimeout, MediumSet

LEMMA CancelTimeoutType ==
  ASSUME NEW Hooks, NEW States, NEW Timers, NEW p \in MediumSet(Hooks, States, Timers)
  PROVE  LET q == CancelTimeout(p)
         IN  /\ q \in MediumSet(Hooks, States, Timers)
             /\ q.state = p.state
             /\ q.timer = NoTimer
             /\ q.jobs = p.jobs
BY DEF CancelTimeout, MediumSet

(* finalize() changes neither the state nor, once called, anything. *)
LEMMA FinalizeType ==
  ASSUME NEW Hooks, NEW States, NEW Timers, NEW p \in MediumSet(Hooks, States, Timers)
  PROVE  LET q == Finalize(p)
         IN  /\ q \in MediumSet(Hooks, States, Timers)
             /\ q.state = p.state
             /\ q.timer \in {p.timer, NoTimer}
             /\ q.jobs \subseteq p.jobs
BY DEF Finalize, MediumSet

LEMMA CleanupType ==
  ASSUME NEW Hooks, NEW States, NEW Timers, NEW p \in MediumSet(Hooks, States, Timers)
  PROVE  LET q == Cleanup(p)
         IN  /\ q \in MediumSet(Hooks, States, Timers)
             /\ q.state = p.state
             /\ q.timer = NoTimer
             /\ q.jobs = {}
BY DEF Cleanup, MediumSet

LEMMA UnregisterType ==
  ASSUME NEW Hooks, NEW States, NEW Timers, NEW p \in MediumSet(Hooks, States, Timers)
  PROVE  LET q == Unregister(p)
         IN  /\ q \in MediumSet(Hooks, States, Timers)
             /\ q.state = p.state
             /\ q.timer = p.timer
             /\ q.jobs = p.jobs
BY DEF Unregister, MediumSet

LEMMA DropJobType ==
  ASSUME NEW Hooks, NEW States, NEW Timers, NEW p \in MediumSet(Hooks, States, Timers),
         NEW j
  PROVE  LET q == DropJob(p, j)
         IN  /\ q \in MediumSet(Hooks, States, Timers)
             /\ q.state = p.state
             /\ q.timer = p.timer
             /\ q.jobs = p.jobs \ {j}
BY DEF DropJob, MediumSet

LEMMA EndJobType ==
  ASSUME NEW Hooks, NEW States, NEW Timers, NEW p \in MediumSet(Hooks, States, Timers),
         NEW j
  PROVE  LET q == EndJob(p, j)
         IN  /\ q \in MediumSet(Hooks, States, Timers)
             /\ q.state = p.state
             /\ q.timer \in {p.timer, NoTimer}
             /\ q.jobs \subseteq p.jobs
<1>1. /\ DropJob(p, j) \in MediumSet(Hooks, States, Timers)
      /\ DropJob(p, j).state = p.state
      /\ DropJob(p, j).timer = p.timer
      /\ DropJob(p, j).jobs \subseteq p.jobs
  BY DropJobType
<1> QED BY <1>1, FinalizeType DEF EndJob

(* A job that starts becomes a running job; nothing else is added. *)
LEMMA StartJobType ==
  ASSUME NEW Hooks, NEW States, NEW Timers, NEW p \in MediumSet(Hooks, States, Timers),
         NEW j \in p.jobs
  PROVE  LET q == StartJob(p, j)
         IN  /\ q \in MediumSet(Hooks, States, Timers)
             /\ q.state = p.state
             /\ q.timer \in {p.timer, NoTimer}
             /\ \A k \in q.jobs : k \in p.jobs \/ k.phase = "running"
<1>1. CASE j.hook \in FailingHooks /\ Ready(p, j)
  <2>1. j \in JobSet(Hooks, States)
    BY DEF MediumSet
  <2>2. /\ [j EXCEPT !.phase = "running"] \in JobSet(Hooks, States)
        /\ [j EXCEPT !.phase = "running"].phase = "running"
    BY <2>1 DEF JobSet, Phases
  <2> QED BY <1>1, <2>2 DEF StartJob, MediumSet
<1>2. CASE ~(j.hook \in FailingHooks /\ Ready(p, j))
  <2>1. StartJob(p, j) = EndJob(p, j)
    BY <1>2 DEF StartJob
  <2> QED BY <2>1, EndJobType
<1> QED BY <1>1, <1>2

(* A hook that raises leaves the medium in its error state, finalized. *)
LEMMA FailJobType ==
  ASSUME NEW Hooks, NEW States, NEW Timers, NEW p \in MediumSet(Hooks, States, Timers),
         NEW j, NEW s \in States
  PROVE  LET q == FailJob(p, j, s)
         IN  /\ q \in MediumSet(Hooks, States, Timers)
             /\ q.state = s
             /\ q.timer \in {p.timer, NoTimer}
             /\ q.jobs \subseteq p.jobs
<1>1. /\ DropJob(p, j) \in MediumSet(Hooks, States, Timers)
      /\ DropJob(p, j).timer = p.timer
      /\ DropJob(p, j).jobs \subseteq p.jobs
  BY DropJobType
<1>2. /\ SetState(DropJob(p, j), s) \in MediumSet(Hooks, States, Timers)
      /\ SetState(DropJob(p, j), s).state = s
      /\ SetState(DropJob(p, j), s).timer = p.timer
      /\ SetState(DropJob(p, j), s).jobs \subseteq p.jobs
  BY <1>1, SetStateType
<1> QED BY <1>2, FinalizeType DEF FailJob

(* A timer sets the state it carries, if any, and queues its callback. *)
LEMMA TimeoutTargetType ==
  ASSUME NEW Hooks, NEW States, NEW Timers, NEW p \in MediumSet(Hooks, States, Timers),
         p.timer \in Timers, p.timer.state \in States \cup {AnyState}, p.timer.hook \in Hooks
  PROVE  LET q == TimeoutTarget(p)
             j == Job(p.timer.hook, p.timer.state, "timeout", FALSE)
         IN  /\ q \in MediumSet(Hooks, States, Timers)
             /\ q.state = IF p.timer.state = AnyState THEN p.state ELSE p.timer.state
             /\ q.timer = NoTimer
             /\ q.jobs \subseteq p.jobs \cup {j}
<1> DEFINE t == p.timer
           r == [p EXCEPT !.timer = NoTimer,
                          !.state = IF t.state = AnyState THEN @ ELSE t.state]
<1>1. /\ r \in MediumSet(Hooks, States, Timers)
      /\ r.state = IF t.state = AnyState THEN p.state ELSE t.state
      /\ r.timer = NoTimer
      /\ r.jobs = p.jobs
  BY DEF MediumSet
<1>2. Job(t.hook, t.state, "timeout", FALSE) \in JobSet(Hooks, States)
  BY JobType DEF Phases
<1>3. TimeoutTarget(p) = AddJob(r, Job(t.hook, t.state, "timeout", FALSE))
  BY DEF TimeoutTarget
<1> DEFINE j == Job(t.hook, t.state, "timeout", FALSE)
<1> HIDE DEF r, j
<1>4. j \in JobSet(Hooks, States)
  BY <1>2 DEF j
<1>5. /\ AddJob(r, j) \in MediumSet(Hooks, States, Timers)
      /\ AddJob(r, j).state = r.state
      /\ AddJob(r, j).timer = r.timer
      /\ AddJob(r, j).jobs \subseteq r.jobs \cup {j}
  BY <1>1, <1>4, AddJobType
<1> QED BY <1>1, <1>3, <1>5 DEF j
=============================================================================
