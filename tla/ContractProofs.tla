----------------------------- MODULE ContractProofs -----------------------------
(***************************************************************************)
(* Proofs about Contract, for any set of contractors, any nesting and any  *)
(* faults.                                                                 *)
(***************************************************************************)
EXTENDS Contract, AgencyMiddleProofs

Managers == MediumSet(ManagerHooks, ManagerStates, ManagerTimers)
Mediums  == MediumSet(ContractorHooks, ContractState, ContractorTimers)

-----------------------------------------------------------------------------
(* Messages *)

(* Messages are told apart by their kind and their contractor. *)
LEMMA MsgInjective ==
  ASSUME NEW k, NEW l, NEW c, NEW d
  PROVE  Msg(k, c) = Msg(l, d) <=> k = l /\ c = d
BY DEF Msg

LEMMA MsgToAll ==
  ASSUME NEW k, NEW l, NEW c, NEW cs
  PROVE  Msg(k, c) \in ToAll(l, cs) <=> k = l /\ c \in cs
BY MsgInjective DEF ToAll

LEMMA MsgType ==
  ASSUME NEW k \in ManagerKinds \cup ContractorKinds, NEW c \in Contractors
  PROVE  Msg(k, c) \in MessageSet
BY DEF Msg, MessageSet

LEMMA ToAllType ==
  ASSUME NEW k \in ManagerKinds \cup ContractorKinds, NEW cs \in SUBSET Contractors
  PROVE  ToAll(k, cs) \subseteq MessageSet
BY MsgType DEF ToAll

-----------------------------------------------------------------------------
(* The manager's private methods *)

LEMMA OnEventType ==
  ASSUME NEW v \in [Contractors -> ContractorStates], NEW cs, NEW before,
         NEW after \in ContractorStates
  PROVE  OnEvent(v, cs, before, after) \in [Contractors -> ContractorStates]
BY DEF OnEvent

(* _goto_closed_or_expired() closes the contract if there is a bid, and    *)
(* ends it otherwise.                                                      *)
LEMMA GotoType ==
  ASSUME NEW p \in Managers, NEW v
  PROVE  LET q == GotoClosedOrExpired(p, v)
         IN  /\ q \in Managers
             /\ \/ /\ With(v, {"bid"}) # {}
                   /\ q.state = "closed"
                   /\ q.timer = Timer("expired", "expired")
                \/ /\ With(v, {"bid"}) = {}
                   /\ q.state = "expired"
                   /\ q.timer = p.timer
             /\ \A j \in q.jobs : j \in p.jobs \/ j.phase = "queued"
<1>1. CASE With(v, {"bid"}) # {}
  <2> DEFINE a == SetTimeout(p, "expired", "expired")
             b == SetState(a, "closed")
             j == Job("closed", "closed", "queued", FALSE)
  <2>0. /\ "closed" \in ManagerStates /\ "closed" \in ManagerHooks
        /\ Timer("expired", "expired") \in ManagerTimers
    BY DEF ManagerStates, ManagerHooks, ManagerTimers
  <2>1. /\ a \in Managers
        /\ a.timer = Timer("expired", "expired")
        /\ a.jobs = p.jobs
    BY <2>0, SetTimeoutType DEF Managers
  <2> HIDE DEF a
  <2>2. /\ b \in Managers
        /\ b.state = "closed"
        /\ b.timer = Timer("expired", "expired")
        /\ b.jobs = p.jobs
    BY <2>0, <2>1, SetStateType DEF Managers
  <2> HIDE DEF b
  <2>3. /\ CallAgentSide(b, "closed", "closed") \in Managers
        /\ CallAgentSide(b, "closed", "closed").state = b.state
        /\ CallAgentSide(b, "closed", "closed").timer = b.timer
        /\ CallAgentSide(b, "closed", "closed").jobs \subseteq b.jobs \cup {j}
    BY <2>0, <2>2, CallAgentSideType DEF Managers
  <2>4. GotoClosedOrExpired(p, v) = CallAgentSide(b, "closed", "closed")
    BY <1>1 DEF GotoClosedOrExpired, a, b
  <2>5. j.phase = "queued"
    BY DEF Job
  <2> HIDE DEF j
  <2> QED BY <1>1, <2>2, <2>3, <2>4, <2>5
<1>2. CASE With(v, {"bid"}) = {}
  <2> DEFINE a == SetState(p, "expired")
             j == Job("expired", "expired", "queued", TRUE)
  <2>0. "expired" \in ManagerStates /\ "expired" \in ManagerHooks
    BY DEF ManagerStates, ManagerHooks
  <2>1. /\ a \in Managers
        /\ a.state = "expired"
        /\ a.timer = p.timer
        /\ a.jobs = p.jobs
    BY <2>0, SetStateType DEF Managers
  <2> HIDE DEF a
  <2>2. /\ RunAndTerminate(a, "expired", "expired") \in Managers
        /\ RunAndTerminate(a, "expired", "expired").state = a.state
        /\ RunAndTerminate(a, "expired", "expired").timer = a.timer
        /\ RunAndTerminate(a, "expired", "expired").jobs \subseteq a.jobs \cup {j}
    BY <2>0, <2>1, RunAndTerminateType DEF Managers
  <2>3. GotoClosedOrExpired(p, v) = RunAndTerminate(a, "expired", "expired")
    BY <1>2 DEF GotoClosedOrExpired, a
  <2>4. j.phase = "queued"
    BY DEF Job
  <2> HIDE DEF j
  <2> QED BY <1>2, <2>1, <2>2, <2>3, <2>4
<1> QED BY <1>1, <1>2

(* The check after an answer leaves the manager alone, or closes it or     *)
(* ends it with the announce timer cancelled.                              *)
LEMMA CheckType ==
  ASSUME NEW p \in Managers, NEW v
  PROVE  LET q == CheckIfShouldGotoClose(p, v)
         IN  /\ q \in Managers
             /\ \/ q = p
                \/ /\ With(v, {"bid"}) # {}
                   /\ q.state = "closed"
                   /\ q.timer = Timer("expired", "expired")
                \/ /\ With(v, {"bid"}) = {}
                   /\ q.state = "expired"
                   /\ q.timer = NoTimer
             /\ \A j \in q.jobs : j \in p.jobs \/ j.phase = "queued"
<1>1. CASE p.state # "terminated" /\ AllAnswered(v)
  <2> DEFINE a == CancelTimeout(p)
  <2>1. /\ a \in Managers
        /\ a.timer = NoTimer
        /\ a.jobs = p.jobs
    BY CancelTimeoutType DEF Managers
  <2>2. CheckIfShouldGotoClose(p, v) = GotoClosedOrExpired(a, v)
    BY <1>1 DEF CheckIfShouldGotoClose
  <2> HIDE DEF a
  <2> QED BY <2>1, <2>2, GotoType
<1>2. CASE ~(p.state # "terminated" /\ AllAnswered(v))
  BY <1>2 DEF CheckIfShouldGotoClose
<1> QED BY <1>1, <1>2

-----------------------------------------------------------------------------
(***************************************************************************)
(* The inductive invariant.  Held contractors are those that were granted  *)
(* and still count; once one has been granted the manager has left the     *)
(* announcement behind for good, because no bid is left for the late       *)
(* checks of bid() to find.                                                *)
(***************************************************************************)
Held == {"granted", "completed", "cancelled", "acknowledged"}
Late == mgr.state \notin {"initiated", "announced", "closed"}
NoBids == \A c \in Contractors : view[c] # "bid"

GrantInv ==
  \A c \in Contractors :
    /\ view[c] \in Held => Sent("grant", c)
    /\ Sent("grant", c) => view[c] \in Held \cup {"elected"} /\ Late /\ NoBids

AnswerInv ==
  \A c \in Contractors : Sent("rejection", c) => view[c] \in {"rejected", "elected"}

ReportInv ==
  \A c \in Contractors : view[c] \in {"completed", "acknowledged"} => Sent("report", c)

TimerInv ==
  mgr.timer = Timer("aborted", "aborted") => Late /\ NoBids

JobInv ==
  \A j \in mgr.jobs : j.phase = "timeout" => Timer(j.need, j.hook) \in ManagerTimers

AckInv ==
  \A c \in Contractors : Sent("ack", c) =>
    /\ Sent("grant", c)
    /\ mgr.state \notin {"granted", "cancelled"}
    /\ \A d \in Contractors : view[d] # "granted"

CancelInv ==
  \A c \in Contractors :
    /\ view[c] = "cancelled" => Sent("cancellation", c)
    /\ Sent("cancellation", c) =>
         Sent("grant", c) /\ mgr.state \notin {"granted", "completed"}

(* The part of the invariant about the manager and the messages. *)
ManagerInv ==
  /\ GrantInv /\ AnswerInv /\ ReportInv
  /\ TimerInv /\ JobInv
  /\ AckInv /\ CancelInv
  /\ OneAnswer /\ AckOrCancel /\ NoBidForgotten

Inv == TypeOK /\ ManagerInv

USE DEF managerVars, netVars

-----------------------------------------------------------------------------
(* Steps that only change the medium of the manager *)

(* What such a step may do to the manager without breaking the invariant. *)
QuietStep ==
  \/ /\ mgr'.state = mgr.state
     /\ mgr'.timer \in {mgr.timer, NoTimer}
  \/ /\ mgr'.state \in {"expired", "wtf"}
     /\ mgr'.timer \in {mgr.timer, NoTimer}
  \/ /\ ~NoBids
     /\ mgr'.state = "closed"
     /\ mgr'.timer = Timer("expired", "expired")
  \/ /\ NoBids
     /\ mgr'.state = "aborted"
     /\ mgr'.timer = NoTimer

LEMMA QuietInv ==
  ASSUME ManagerInv, QuietStep, JobInv', UNCHANGED <<view, sent>>
  PROVE  ManagerInv'
<1> USE DEF Sent, Late, NoBids
<1>1. NoTimer # Timer("aborted", "aborted") /\ Timer("expired", "expired") # Timer("aborted", "aborted")
  BY DEF NoTimer, Timer, None
<1>2. GrantInv'
  BY DEF ManagerInv, QuietStep, GrantInv
<1>3. AnswerInv' /\ ReportInv' /\ OneAnswer' /\ AckOrCancel'
  BY DEF ManagerInv, AnswerInv, ReportInv, OneAnswer, AckOrCancel
<1>4. TimerInv'
  BY <1>1 DEF ManagerInv, QuietStep, TimerInv
<1>5. AckInv'
  BY DEF ManagerInv, QuietStep, AckInv
<1>6. CancelInv'
  BY DEF ManagerInv, QuietStep, CancelInv
<1>7. NoBidForgotten'
  BY DEF ManagerInv, QuietStep, NoBidForgotten, With
<1> QED BY <1>2, <1>3, <1>4, <1>5, <1>6, <1>7 DEF ManagerInv

(* Jobs that are not timer callbacks are no concern of the invariant. *)
LEMMA JobsStay ==
  ASSUME JobInv, \A j \in mgr'.jobs : j \in mgr.jobs \/ j.phase # "timeout"
  PROVE  JobInv'
BY DEF JobInv

LEMMA ManagerTypeFacts ==
  ASSUME ManagerTypeOK
  PROVE  mgr \in Managers /\ mgr.state \in ManagerStates
<1>1. mgr \in Managers /\ mgr.state # None
  BY DEF ManagerTypeOK, Managers
<1> QED BY <1>1 DEF Managers, MediumSet

LEMMA ManagerTimeoutKeeps ==
  ASSUME ManagerTypeOK, ManagerInv, ManagerTimeout
  PROVE  mgr' \in Managers /\ mgr'.state # None /\ QuietStep /\ JobInv'
<1> DEFINE t == mgr.timer
           j == Job(t.hook, t.state, "timeout", FALSE)
<1>1. mgr \in Managers /\ mgr.state \in ManagerStates
  BY ManagerTypeFacts
<1>2. t \in ManagerTimers
  BY <1>1 DEF ManagerTimeout, Managers, MediumSet
<1>3. /\ t.state \in ManagerStates \cup {AnyState} /\ t.hook \in ManagerHooks
      /\ \/ t.state \in {"wtf", "expired"}
         \/ t.state = AnyState
         \/ t.state = "aborted" /\ t = Timer("aborted", "aborted")
      /\ t = Timer(t.state, t.hook)
  BY <1>2 DEF ManagerTimers, Timer, ManagerStates, ManagerHooks
<1>4. /\ mgr' \in Managers
      /\ mgr'.state = IF t.state = AnyState THEN mgr.state ELSE t.state
      /\ mgr'.timer = NoTimer
      /\ mgr'.jobs \subseteq mgr.jobs \cup {j}
  <2>1. mgr' = TimeoutTarget(mgr)
    BY DEF ManagerTimeout
  <2> HIDE DEF j
  <2>2. /\ TimeoutTarget(mgr) \in Managers
        /\ TimeoutTarget(mgr).state = IF t.state = AnyState THEN mgr.state ELSE t.state
        /\ TimeoutTarget(mgr).timer = NoTimer
        /\ TimeoutTarget(mgr).jobs \subseteq mgr.jobs \cup {j}
    BY <1>1, <1>2, <1>3, TimeoutTargetType DEF Managers, j
  <2> QED BY <2>1, <2>2
<1>5. mgr'.state # None
  BY <1>1, <1>3, <1>4 DEF AnyState, None, ManagerStates
<1>6. j.phase = "timeout" /\ j.hook = t.hook /\ j.need = t.state
  BY DEF Job
<1>7. JobInv'
  <2> HIDE DEF j, t
  <2> QED BY <1>2, <1>3, <1>4, <1>6 DEF ManagerInv, JobInv
<1>8. QuietStep
  BY <1>3, <1>4 DEF QuietStep, ManagerInv, TimerInv, AnyState
<1> QED BY <1>4, <1>5, <1>7, <1>8

(* The callback of a timer, run as a job. *)
LEMMA TimeoutCallbackKeeps ==
  ASSUME ManagerTypeOK, ManagerInv, NEW j \in mgr.jobs, j.phase = "timeout",
         mgr' = TimeoutCallback(DropJob(mgr, j), j)
  PROVE  mgr' \in Managers /\ mgr'.state # None /\ QuietStep /\ JobInv'
<1> DEFINE p == DropJob(mgr, j)
<1>1. mgr \in Managers /\ mgr.state \in ManagerStates
  BY ManagerTypeFacts
<1>2. /\ p \in Managers
      /\ p.state = mgr.state
      /\ p.timer = mgr.timer
      /\ p.jobs \subseteq mgr.jobs
  BY <1>1, DropJobType DEF Managers
<1>3. /\ j.hook \in {"initiate_expire", "announce_expire", "expired", "aborted"}
      /\ j.hook = "aborted" => j.need = "aborted"
  BY DEF ManagerInv, JobInv, ManagerTimers, Timer
<1>4. mgr' = TimeoutCallback(p, j)
  OBVIOUS
<1> HIDE DEF p
<1> SUFFICES /\ mgr' \in Managers /\ mgr'.state # None /\ QuietStep
             /\ \A k \in mgr'.jobs : k \in mgr.jobs \/ k.phase # "timeout"
  BY JobsStay DEF ManagerInv
<1>5. CASE ~Ready(p, j)
  <2>1. mgr' = p
    BY <1>4, <1>5 DEF TimeoutCallback
  <2> QED BY <1>1, <1>2, <2>1 DEF QuietStep, None, ManagerStates
<1>6. CASE Ready(p, j) /\ j.hook = "initiate_expire"
  <2>1. mgr' = Finalize(p)
    BY <1>4, <1>6 DEF TimeoutCallback
  <2>2. /\ Finalize(p) \in Managers
        /\ Finalize(p).state = p.state
        /\ Finalize(p).timer \in {p.timer, NoTimer}
        /\ Finalize(p).jobs \subseteq p.jobs
    BY <1>2, FinalizeType DEF Managers
  <2> QED BY <1>1, <1>2, <2>1, <2>2 DEF QuietStep, None, ManagerStates
<1>7. CASE Ready(p, j) /\ j.hook = "announce_expire"
  <2>1. CASE p.state = "announced"
    <3>1. mgr' = GotoClosedOrExpired(p, view)
      BY <1>4, <1>7, <2>1 DEF TimeoutCallback
    <3>2. /\ mgr' \in Managers
          /\ \/ /\ With(view, {"bid"}) # {}
                /\ mgr'.state = "closed"
                /\ mgr'.timer = Timer("expired", "expired")
             \/ /\ With(view, {"bid"}) = {}
                /\ mgr'.state = "expired"
                /\ mgr'.timer = p.timer
          /\ \A k \in mgr'.jobs : k \in p.jobs \/ k.phase = "queued"
      BY <1>2, <3>1, GotoType
    <3> QED BY <1>2, <3>2 DEF QuietStep, NoBids, With, None
  <2>2. CASE p.state # "announced"
    <3>1. mgr' = p
      BY <1>4, <1>7, <2>2 DEF TimeoutCallback
    <3> QED BY <1>1, <1>2, <3>1 DEF QuietStep, None, ManagerStates
  <2> QED BY <2>1, <2>2
<1>8. CASE Ready(p, j) /\ j.hook = "expired"
  <2> DEFINE k == Job("expired", AnyState, "queued", TRUE)
  <2>1. mgr' = RunAndTerminate(p, "expired", AnyState)
    BY <1>4, <1>8 DEF TimeoutCallback
  <2>2. "expired" \in ManagerHooks
    BY DEF ManagerHooks
  <2>3. k.phase = "queued"
    BY DEF Job
  <2>4. /\ RunAndTerminate(p, "expired", AnyState) \in Managers
        /\ RunAndTerminate(p, "expired", AnyState).state = p.state
        /\ RunAndTerminate(p, "expired", AnyState).timer = p.timer
        /\ RunAndTerminate(p, "expired", AnyState).jobs \subseteq p.jobs \cup {k}
    BY <1>2, <2>2, RunAndTerminateType DEF Managers
  <2> HIDE DEF k
  <2> QED BY <1>1, <1>2, <2>1, <2>3, <2>4 DEF QuietStep, None, ManagerStates
<1>9. CASE Ready(p, j) /\ j.hook = "aborted"
  <2> DEFINE a == SetState(p, "aborted")
             k == Job("aborted", "aborted", "queued", TRUE)
  <2>1. mgr' = RunAndTerminate(a, "aborted", "aborted")
    BY <1>4, <1>9 DEF TimeoutCallback
  <2>2. "aborted" \in ManagerHooks /\ "aborted" \in ManagerStates
    BY DEF ManagerHooks, ManagerStates
  <2>3. k.phase = "queued"
    BY DEF Job
  <2>4. mgr.state = "aborted"
    BY <1>2, <1>3, <1>9 DEF Ready, AnyState
  <2>5. /\ a \in Managers
        /\ a.state = "aborted"
        /\ a.timer = p.timer
        /\ a.jobs = p.jobs
    BY <1>2, <2>2, SetStateType DEF Managers
  <2> HIDE DEF a
  <2>6. /\ RunAndTerminate(a, "aborted", "aborted") \in Managers
        /\ RunAndTerminate(a, "aborted", "aborted").state = a.state
        /\ RunAndTerminate(a, "aborted", "aborted").timer = a.timer
        /\ RunAndTerminate(a, "aborted", "aborted").jobs \subseteq a.jobs \cup {k}
    BY <2>2, <2>5, RunAndTerminateType DEF Managers
  <2> HIDE DEF k
  <2> QED BY <1>2, <2>1, <2>3, <2>4, <2>5, <2>6 DEF QuietStep, None
<1> QED BY <1>3, <1>5, <1>6, <1>7, <1>8, <1>9

LEMMA ManagerJobKeeps ==
  ASSUME ManagerTypeOK, ManagerInv, NEW j \in mgr.jobs, ManagerJob(j) \/ ManagerJobFails(j)
  PROVE  mgr' \in Managers /\ mgr'.state # None /\ QuietStep /\ JobInv'
<1>1. mgr \in Managers /\ mgr.state \in ManagerStates
  BY ManagerTypeFacts
<1>2. j.phase \in Phases
  BY <1>1 DEF Managers, MediumSet, JobSet
<1>3. CASE ManagerJob(j) /\ j.phase = "timeout"
  <2>1. mgr' = TimeoutCallback(DropJob(mgr, j), j)
    BY <1>3 DEF ManagerJob
  <2> QED BY <1>3, <2>1, TimeoutCallbackKeeps
<1>4. CASE ManagerJob(j) /\ j.phase = "queued"
  <2>1. mgr' = StartJob(mgr, j)
    BY <1>4 DEF ManagerJob
  <2>2. /\ mgr' \in Managers
        /\ mgr'.state = mgr.state
        /\ mgr'.timer \in {mgr.timer, NoTimer}
        /\ \A k \in mgr'.jobs : k \in mgr.jobs \/ k.phase = "running"
    BY <1>1, <2>1, StartJobType DEF Managers
  <2> QED BY <1>1, <2>2, JobsStay DEF QuietStep, None, ManagerStates, ManagerInv
<1>5. CASE ManagerJob(j) /\ j.phase = "running"
  <2>1. mgr' = EndJob(mgr, j)
    BY <1>5 DEF ManagerJob
  <2>2. /\ mgr' \in Managers
        /\ mgr'.state = mgr.state
        /\ mgr'.timer \in {mgr.timer, NoTimer}
        /\ mgr'.jobs \subseteq mgr.jobs
    BY <1>1, <2>1, EndJobType DEF Managers
  <2> QED BY <1>1, <2>2, JobsStay DEF QuietStep, None, ManagerStates, ManagerInv
<1>6. CASE ManagerJobFails(j)
  <2>1. mgr' = FailJob(mgr, j, "wtf") /\ "wtf" \in ManagerStates
    BY <1>6 DEF ManagerJobFails, ManagerStates
  <2>2. /\ mgr' \in Managers
        /\ mgr'.state = "wtf"
        /\ mgr'.timer \in {mgr.timer, NoTimer}
        /\ mgr'.jobs \subseteq mgr.jobs
    BY <1>1, <2>1, FailJobType DEF Managers
  <2> QED BY <2>2, JobsStay DEF QuietStep, None, ManagerInv
<1> QED BY <1>2, <1>3, <1>4, <1>5, <1>6 DEF Phases

(* Every action of ManagerRuns is a quiet step. *)
LEMMA ManagerRunsKeeps ==
  ASSUME ManagerTypeOK, NetTypeOK, ManagerInv, ManagerRuns
  PROVE  ManagerTypeOK' /\ NetTypeOK' /\ ManagerInv'
<1>1. mgr \in Managers /\ mgr.state \in ManagerStates
  BY ManagerTypeFacts
<1>2. /\ UNCHANGED <<view, sent, rcvd>>
      /\ bidding' \subseteq Contractors /\ completing' \in BOOLEAN
  BY DEF ManagerRuns, ManagerTypeOK, ManagerTimeout, ManagerGone, KillManager,
         CompletedReturns, CompletedFails, BidHandled, BidFails, ManagerJob, ManagerJobFails
<1> SUFFICES mgr' \in Managers /\ mgr'.state # None /\ QuietStep /\ JobInv'
  BY <1>2, QuietInv DEF ManagerTypeOK, NetTypeOK, Managers
<1> USE DEF QuietStep, None, ManagerStates, ManagerInv
<1>3. CASE ManagerTimeout
  BY <1>3, ManagerTimeoutKeeps
<1>4. CASE ManagerGone
  <2>1. /\ mgr' \in Managers
        /\ mgr'.state = mgr.state
        /\ mgr'.timer = mgr.timer
        /\ mgr'.jobs = mgr.jobs
    BY <1>1, <1>4, UnregisterType DEF Managers, ManagerGone
  <2> QED BY <1>1, <2>1, JobsStay
<1>5. CASE KillManager
  <2>1. /\ mgr' \in Managers
        /\ mgr'.state = mgr.state
        /\ mgr'.timer = NoTimer
        /\ mgr'.jobs = {}
    BY <1>1, <1>5, CleanupType DEF Managers, KillManager
  <2> QED BY <1>1, <2>1, JobsStay
<1>6. CASE CompletedReturns
  <2>1. /\ mgr' \in Managers
        /\ mgr'.state = mgr.state
        /\ mgr'.timer \in {mgr.timer, NoTimer}
        /\ mgr'.jobs \subseteq mgr.jobs
    BY <1>1, <1>6, FinalizeType DEF Managers, CompletedReturns
  <2> QED BY <1>1, <2>1, JobsStay
<1>7. CASE CompletedFails \/ \E c \in Contractors : BidFails(c)
  <2>1. UNCHANGED mgr
    BY <1>7 DEF CompletedFails, BidFails
  <2> QED BY <1>1, <2>1, JobsStay
<1>8. ASSUME NEW c \in Contractors, BidHandled(c)
      PROVE  mgr' \in Managers /\ mgr'.state # None /\ QuietStep /\ JobInv'
  <2>1. mgr' = CheckIfShouldGotoClose(mgr, view)
    BY <1>8 DEF BidHandled
  <2>2. /\ mgr' \in Managers
        /\ \/ mgr' = mgr
           \/ /\ With(view, {"bid"}) # {}
              /\ mgr'.state = "closed"
              /\ mgr'.timer = Timer("expired", "expired")
           \/ /\ With(view, {"bid"}) = {}
              /\ mgr'.state = "expired"
              /\ mgr'.timer = NoTimer
        /\ \A j \in mgr'.jobs : j \in mgr.jobs \/ j.phase = "queued"
    BY <1>1, <2>1, CheckType
  <2> QED BY <1>1, <2>2, JobsStay DEF NoBids, With
<1>9. ASSUME NEW j \in mgr.jobs, ManagerJob(j) \/ ManagerJobFails(j)
      PROVE  mgr' \in Managers /\ mgr'.state # None /\ QuietStep /\ JobInv'
  BY <1>9, ManagerJobKeeps
<1> QED BY <1>3, <1>4, <1>5, <1>6, <1>7, <1>8, <1>9 DEF ManagerRuns

-----------------------------------------------------------------------------
(* Steps that change the manager's view of the contractors or send messages *)

StepOK ==
  /\ mgr' \in Managers /\ mgr'.state # None
  /\ view' \in [Contractors -> ContractorStates]
  /\ sent \subseteq sent' /\ sent' \subseteq MessageSet
  /\ ManagerInv'

LEMMA AnnounceKeeps ==
  ASSUME ManagerTypeOK, NetTypeOK, ManagerInv, Announce
  PROVE  StepOK
<1> DEFINE a == SetState(mgr, "announced")
           X == ToAll("announcement", Recipients)
<1>1. mgr \in Managers /\ mgr.state = "initiated"
  BY ManagerTypeFacts DEF Announce
<1>2. /\ "announced" \in ManagerStates
      /\ Timer(AnyState, "announce_expire") \in ManagerTimers
      /\ Timer(AnyState, "announce_expire") # Timer("aborted", "aborted")
  BY DEF ManagerStates, ManagerTimers, Timer
<1>3. a \in Managers /\ a.state = "announced" /\ a.jobs = mgr.jobs
  BY <1>1, <1>2, SetStateType DEF Managers
<1> HIDE DEF a
<1>4. /\ SetTimeout(a, AnyState, "announce_expire") \in Managers
      /\ SetTimeout(a, AnyState, "announce_expire").state = a.state
      /\ SetTimeout(a, AnyState, "announce_expire").timer = Timer(AnyState, "announce_expire")
      /\ SetTimeout(a, AnyState, "announce_expire").jobs = a.jobs
  BY <1>2, <1>3, SetTimeoutType DEF Managers
<1>5. mgr' = SetTimeout(a, AnyState, "announce_expire")
  BY DEF Announce, a
<1>6. /\ mgr' \in Managers
      /\ mgr'.state = "announced"
      /\ mgr'.timer # Timer("aborted", "aborted")
      /\ mgr'.jobs = mgr.jobs
  BY <1>2, <1>3, <1>4, <1>5
<1>7. X \subseteq MessageSet
  <2>1. "announcement" \in ManagerKinds \cup ContractorKinds /\ Recipients \in SUBSET Contractors
    BY DEF ManagerKinds, Recipients
  <2> QED BY <2>1, ToAllType
<1>8. sent' = sent \cup X /\ UNCHANGED view
  BY DEF Announce, Post
<1>9. \A k \in {"grant", "rejection", "ack", "cancellation", "report"}, c \in Contractors :
        Sent(k, c)' <=> Sent(k, c)
  BY <1>8, MsgToAll DEF Sent
<1> HIDE DEF X
<1>10. GrantInv'
  BY <1>1, <1>8, <1>9 DEF ManagerInv, GrantInv, Late, NoBids
<1>11. AnswerInv' /\ ReportInv' /\ OneAnswer' /\ AckOrCancel'
  BY <1>8, <1>9 DEF ManagerInv, AnswerInv, ReportInv, OneAnswer, AckOrCancel
<1>12. TimerInv' /\ JobInv' /\ NoBidForgotten'
  BY <1>6 DEF ManagerInv, TimerInv, JobInv, NoBidForgotten
<1>13. AckInv' /\ CancelInv'
  BY <1>1, <1>6, <1>8, <1>9 DEF ManagerInv, AckInv, CancelInv
<1> QED BY <1>6, <1>7, <1>8, <1>10, <1>11, <1>12, <1>13
       DEF StepOK, ManagerInv, None, ManagerTypeOK, NetTypeOK

LEMMA RejectKeeps ==
  ASSUME ManagerTypeOK, NetTypeOK, ManagerInv, NEW c \in Contractors, Reject(c)
  PROVE  StepOK
<1>1. mgr \in Managers /\ mgr.state \in ManagerStates /\ UNCHANGED mgr
  BY ManagerTypeFacts DEF Reject
<1>2. /\ view[c] = "bid"
      /\ view' \in [Contractors -> ContractorStates]
      /\ view'[c] = "rejected"
      /\ \A d \in Contractors : d # c => view'[d] = view[d]
  BY DEF Reject, OnEvent, ManagerTypeOK, ContractorStates
<1>3. sent' = sent \cup {Msg("rejection", c)}
  BY DEF Reject, Post
<1>4. Msg("rejection", c) \in MessageSet
  BY MsgType DEF ManagerKinds
<1>5. /\ \A d \in Contractors : Sent("rejection", d)' <=> Sent("rejection", d) \/ d = c
      /\ \A k \in {"grant", "ack", "cancellation", "report"}, d \in Contractors :
           Sent(k, d)' <=> Sent(k, d)
  BY <1>3, MsgInjective DEF Sent
<1>6. GrantInv'
  BY <1>1, <1>2, <1>5 DEF ManagerInv, GrantInv, Late, NoBids, Held
<1>7. AnswerInv' /\ ReportInv' /\ AckOrCancel'
  BY <1>2, <1>5 DEF ManagerInv, AnswerInv, ReportInv, AckOrCancel
<1>8. OneAnswer'
  BY <1>2, <1>5 DEF ManagerInv, OneAnswer, GrantInv, Held
<1>9. TimerInv' /\ JobInv' /\ NoBidForgotten'
  BY <1>1, <1>2 DEF ManagerInv, TimerInv, JobInv, NoBidForgotten, NoBids, Late, With
<1>10. AckInv' /\ CancelInv'
  BY <1>1, <1>2, <1>5 DEF ManagerInv, AckInv, CancelInv
<1> QED BY <1>1, <1>2, <1>3, <1>4, <1>6, <1>7, <1>8, <1>9, <1>10
       DEF StepOK, ManagerInv, None, ManagerStates, NetTypeOK

LEMMA ElectKeeps ==
  ASSUME ManagerTypeOK, NetTypeOK, ManagerInv, NEW c \in Contractors, Elect(c)
  PROVE  StepOK
<1>1. mgr \in Managers /\ mgr.state \in ManagerStates /\ UNCHANGED <<mgr, sent>>
  BY ManagerTypeFacts DEF Elect
<1>2. /\ view' \in [Contractors -> ContractorStates]
      /\ view'[c] = "elected"
      /\ \A d \in Contractors : d # c => view'[d] = view[d]
  BY DEF Elect, ManagerTypeOK, ContractorStates
<1>3. \A k, d : Sent(k, d)' <=> Sent(k, d)
  BY <1>1 DEF Sent
<1>4. GrantInv'
  BY <1>1, <1>2, <1>3 DEF ManagerInv, GrantInv, Late, NoBids, Held
<1>5. AnswerInv' /\ ReportInv' /\ OneAnswer' /\ AckOrCancel'
  BY <1>2, <1>3 DEF ManagerInv, AnswerInv, ReportInv, OneAnswer, AckOrCancel
<1>6. TimerInv' /\ JobInv' /\ NoBidForgotten'
  BY <1>1, <1>2 DEF ManagerInv, TimerInv, JobInv, NoBidForgotten, NoBids, Late, With
<1>7. AckInv' /\ CancelInv'
  BY <1>1, <1>2, <1>3 DEF ManagerInv, AckInv, CancelInv
<1> QED BY <1>1, <1>2, <1>4, <1>5, <1>6, <1>7
       DEF StepOK, ManagerInv, None, ManagerStates, NetTypeOK

LEMMA GrantKeeps ==
  ASSUME ManagerTypeOK, NetTypeOK, ManagerInv, NEW cs \in SUBSET Contractors, Grant(cs)
  PROVE  StepOK
<1> DEFINE others == With(view, {"bid"}) \ cs
           a == SetState(mgr, "granted")
           b == SetTimeout(a, "aborted", "aborted")
<1>1. mgr \in Managers /\ mgr.state \in {"closed", "announced"}
  BY ManagerTypeFacts DEF Grant
<1>2. "granted" \in ManagerStates /\ Timer("aborted", "aborted") \in ManagerTimers
  BY DEF ManagerStates, ManagerTimers
<1>3. a \in Managers /\ a.state = "granted" /\ a.jobs = mgr.jobs
  BY <1>1, <1>2, SetStateType DEF Managers
<1>4. mgr' = b
  BY DEF Grant
<1> HIDE DEF a
<1>5. b \in Managers /\ b.state = a.state /\ b.jobs = a.jobs
  BY <1>2, <1>3, SetTimeoutType DEF Managers
<1> HIDE DEF b
<1>6. mgr' \in Managers /\ mgr'.state = "granted" /\ mgr'.jobs = mgr.jobs
  BY <1>3, <1>4, <1>5
<1>7. /\ view' \in [Contractors -> ContractorStates]
      /\ \A d \in Contractors :
           /\ d \in cs => view[d] = "bid" /\ view'[d] = "granted"
           /\ d \in others <=> view[d] = "bid" /\ d \notin cs
           /\ d \in others => view'[d] = "rejected"
           /\ d \notin cs /\ d \notin others => view'[d] = view[d]
  BY DEF Grant, OnEvent, With, ManagerTypeOK, ContractorStates
<1>8. sent' = sent \cup ToAll("grant", cs) \cup ToAll("rejection", others)
  BY DEF Grant, Post
<1>9. others \in SUBSET Contractors
  BY DEF With
<1> HIDE DEF others
<1>10. ToAll("grant", cs) \subseteq MessageSet /\ ToAll("rejection", others) \subseteq MessageSet
  BY <1>9, ToAllType DEF ManagerKinds
<1>11. \A d \in Contractors :
        /\ Sent("grant", d)' <=> Sent("grant", d) \/ d \in cs
        /\ Sent("rejection", d)' <=> Sent("rejection", d) \/ d \in others
        /\ \A k \in {"ack", "cancellation", "report"} : Sent(k, d)' <=> Sent(k, d)
  BY <1>8, MsgToAll DEF Sent
<1>12. \A d \in Contractors : ~Sent("grant", d) /\ ~Sent("ack", d) /\ ~Sent("cancellation", d)
  BY <1>1 DEF ManagerInv, GrantInv, AckInv, CancelInv, Late
<1>13. GrantInv'
  BY <1>6, <1>7, <1>11, <1>12 DEF ManagerInv, GrantInv, Late, NoBids, Held
<1>14. AnswerInv' /\ ReportInv' /\ OneAnswer' /\ AckOrCancel'
  BY <1>7, <1>11, <1>12 DEF ManagerInv, AnswerInv, ReportInv, OneAnswer, AckOrCancel
<1>15. TimerInv' /\ JobInv' /\ NoBidForgotten'
  BY <1>6, <1>7 DEF ManagerInv, TimerInv, JobInv, NoBidForgotten, NoBids, Late, With
<1>16. AckInv' /\ CancelInv'
  BY <1>7, <1>11, <1>12 DEF ManagerInv, AckInv, CancelInv
<1> QED BY <1>6, <1>7, <1>8, <1>10, <1>13, <1>14, <1>15, <1>16
       DEF StepOK, ManagerInv, None, NetTypeOK

(* cancel(), called by the agent or for the defection of a contractor. *)
LEMMA CancelAllKeeps ==
  ASSUME ManagerTypeOK, NetTypeOK, ManagerInv, mgr.state \in {"granted", "cancelled"}, CancelAll
  PROVE  StepOK
<1> DEFINE cs == With(view, {"granted", "completed"})
           a == SetState(mgr, "cancelled")
           b == RunAndTerminate(a, "cancelled", "cancelled")
           j == Job("cancelled", "cancelled", "queued", TRUE)
<1>1. mgr \in Managers
  BY ManagerTypeFacts
<1>2. "cancelled" \in ManagerStates /\ "cancelled" \in ManagerHooks
  BY DEF ManagerStates, ManagerHooks
<1>3. a \in Managers /\ a.state = "cancelled" /\ a.timer = mgr.timer /\ a.jobs = mgr.jobs
  BY <1>1, <1>2, SetStateType DEF Managers
<1>4. /\ mgr' \in {a, b}
      /\ view' = OnEvent(view, cs, {"granted", "completed"}, "cancelled")
      /\ sent' = sent \cup ToAll("cancellation", cs)
  BY DEF CancelAll, Post
<1> HIDE DEF a
<1>5. /\ b \in Managers
      /\ b.state = a.state
      /\ b.timer = a.timer
      /\ b.jobs \subseteq a.jobs \cup {j}
  <2>1. a \in MediumSet(ManagerHooks, ManagerStates, ManagerTimers)
    BY <1>3 DEF Managers
  <2> QED BY <1>2, <2>1, RunAndTerminateType DEF Managers
<1>6. j.phase = "queued"
  BY DEF Job
<1> HIDE DEF b, j
<1>7. /\ mgr' \in Managers /\ mgr'.state = "cancelled" /\ mgr'.timer = mgr.timer
      /\ \A k \in mgr'.jobs : k \in mgr.jobs \/ k.phase # "timeout"
  BY <1>3, <1>4, <1>5, <1>6
<1>8. /\ view' \in [Contractors -> ContractorStates]
      /\ cs \in SUBSET Contractors
      /\ \A d \in Contractors :
           /\ d \in cs <=> view[d] \in {"granted", "completed"}
           /\ d \in cs => view'[d] = "cancelled"
           /\ d \notin cs => view'[d] = view[d]
  BY <1>4 DEF OnEvent, With, ManagerTypeOK, ContractorStates
<1> HIDE DEF cs
<1>9. ToAll("cancellation", cs) \subseteq MessageSet
  BY <1>8, ToAllType DEF ManagerKinds
<1>10. \A d \in Contractors :
        /\ Sent("cancellation", d)' <=> Sent("cancellation", d) \/ d \in cs
        /\ \A k \in {"grant", "rejection", "ack", "report"} : Sent(k, d)' <=> Sent(k, d)
  BY <1>4, MsgToAll DEF Sent
<1>11. NoBids /\ \A d \in Contractors : ~Sent("ack", d)
  BY DEF ManagerInv, NoBidForgotten, NoBids, With, AckInv
<1>12. GrantInv'
  BY <1>7, <1>8, <1>10, <1>11 DEF ManagerInv, GrantInv, Late, NoBids, Held
<1>13. AnswerInv' /\ ReportInv' /\ OneAnswer' /\ AckOrCancel' /\ AckInv'
  BY <1>8, <1>10, <1>11 DEF ManagerInv, AnswerInv, ReportInv, OneAnswer, AckOrCancel, AckInv
<1>14. JobInv'
  BY <1>7, JobsStay DEF ManagerInv
<1>15. TimerInv' /\ NoBidForgotten'
  BY <1>7, <1>8, <1>11 DEF TimerInv, NoBidForgotten, NoBids, Late, With
<1>16. CancelInv'
  BY <1>7, <1>8, <1>10 DEF ManagerInv, GrantInv, CancelInv, Held
<1> QED BY <1>4, <1>7, <1>8, <1>9, <1>12, <1>13, <1>14, <1>15, <1>16
       DEF StepOK, ManagerInv, None, NetTypeOK

LEMMA TerminateKeeps ==
  ASSUME ManagerTypeOK, NetTypeOK, ManagerInv, Terminate
  PROVE  StepOK
<1> DEFINE cs == With(view, {"bid"})
           a == SetState(mgr, "terminated")
           b == Finalize(a)
<1>1. mgr \in Managers /\ mgr.state \in ManagerStates
  BY ManagerTypeFacts
<1>2. "terminated" \in ManagerStates
  BY DEF ManagerStates
<1>3. a \in Managers /\ a.state = "terminated" /\ a.timer = mgr.timer /\ a.jobs = mgr.jobs
  BY <1>1, <1>2, SetStateType DEF Managers
<1>4. /\ mgr' = b \/ mgr' = mgr
      /\ view' = OnEvent(view, cs, {"bid"}, "rejected")
      /\ sent' = sent \cup ToAll("rejection", cs)
  BY DEF Terminate, Post
<1> HIDE DEF a
<1>5. b \in Managers /\ b.state = a.state /\ b.timer \in {a.timer, NoTimer} /\ b.jobs \subseteq a.jobs
  BY <1>3, FinalizeType DEF Managers
<1> HIDE DEF b
<1>6. /\ mgr' \in Managers /\ mgr'.state \in {"terminated", mgr.state}
      /\ mgr'.timer \in {mgr.timer, NoTimer}
      /\ mgr'.jobs \subseteq mgr.jobs
  BY <1>1, <1>3, <1>4, <1>5
<1>7. /\ view' \in [Contractors -> ContractorStates]
      /\ cs \in SUBSET Contractors
      /\ \A d \in Contractors :
           /\ d \in cs <=> view[d] = "bid"
           /\ d \in cs => view'[d] = "rejected"
           /\ d \notin cs => view'[d] = view[d]
  BY <1>4 DEF OnEvent, With, ManagerTypeOK, ContractorStates
<1> HIDE DEF cs
<1>8. ToAll("rejection", cs) \subseteq MessageSet
  BY <1>7, ToAllType DEF ManagerKinds
<1>9. \A d \in Contractors :
        /\ Sent("rejection", d)' <=> Sent("rejection", d) \/ d \in cs
        /\ \A k \in {"grant", "cancellation", "ack", "report"} : Sent(k, d)' <=> Sent(k, d)
  BY <1>4, MsgToAll DEF Sent
<1>10. NoBids'
  BY <1>7 DEF NoBids
<1>11. NoTimer # Timer("aborted", "aborted")
  BY DEF NoTimer, Timer, None
<1>12. GrantInv'
  BY <1>6, <1>7, <1>9, <1>10 DEF ManagerInv, GrantInv, Late, Held
<1>13. AnswerInv' /\ ReportInv' /\ AckOrCancel'
  BY <1>7, <1>9 DEF ManagerInv, AnswerInv, ReportInv, AckOrCancel
<1>14. OneAnswer'
  BY <1>7, <1>9 DEF ManagerInv, OneAnswer, GrantInv, Held
<1>15. TimerInv' /\ JobInv' /\ NoBidForgotten'
  BY <1>6, <1>7, <1>10, <1>11
     DEF ManagerInv, TimerInv, JobInv, NoBidForgotten, NoBids, Late, With
<1>16. AckInv' /\ CancelInv'
  BY <1>6, <1>7, <1>9 DEF ManagerInv, AckInv, CancelInv
<1> QED BY <1>1, <1>4, <1>6, <1>7, <1>8, <1>12, <1>13, <1>14, <1>15, <1>16
       DEF StepOK, ManagerInv, None, ManagerStates, NetTypeOK

LEMMA OnBidKeeps ==
  ASSUME ManagerTypeOK, NetTypeOK, ManagerInv, NEW c \in Contractors, OnBid(c)
  PROVE  StepOK
<1>1. mgr \in Managers /\ mgr.state = "announced" /\ UNCHANGED <<mgr, sent>>
  BY ManagerTypeFacts DEF OnBid
<1>2. /\ view' \in [Contractors -> ContractorStates]
      /\ view[c] = None
      /\ view'[c] = "bid"
      /\ \A d \in Contractors : d # c => view'[d] = view[d]
  BY DEF OnBid, ManagerTypeOK, ContractorStates
<1>3. \A k, d : Sent(k, d)' <=> Sent(k, d)
  BY <1>1 DEF Sent
<1>4. \A d \in Contractors : ~Sent("grant", d) /\ view[d] \notin Held
  BY <1>1 DEF ManagerInv, GrantInv, Late
<1>5. GrantInv'
  BY <1>1, <1>2, <1>3, <1>4 DEF GrantInv, Held
<1>6. AnswerInv' /\ ReportInv' /\ OneAnswer' /\ AckOrCancel'
  BY <1>2, <1>3, <1>4 DEF ManagerInv, AnswerInv, ReportInv, OneAnswer, AckOrCancel, None
<1>7. TimerInv' /\ JobInv' /\ NoBidForgotten'
  BY <1>1 DEF ManagerInv, TimerInv, JobInv, NoBidForgotten, Late
<1>8. AckInv' /\ CancelInv'
  BY <1>1, <1>2, <1>3, <1>4 DEF ManagerInv, AckInv, CancelInv, Held
<1> QED BY <1>1, <1>2, <1>5, <1>6, <1>7, <1>8
       DEF StepOK, ManagerInv, None, NetTypeOK

LEMMA OnRefusalKeeps ==
  ASSUME ManagerTypeOK, NetTypeOK, ManagerInv, NEW c \in Contractors, OnRefusal(c)
  PROVE  StepOK
<1>1. mgr \in Managers /\ mgr.state = "announced" /\ UNCHANGED sent
  BY ManagerTypeFacts DEF OnRefusal
<1>2. /\ view' \in [Contractors -> ContractorStates]
      /\ view[c] = None
      /\ view'[c] = "refused"
      /\ \A d \in Contractors : d # c => view'[d] = view[d]
  BY DEF OnRefusal, ManagerTypeOK, ContractorStates
<1>3. mgr' = CheckIfShouldGotoClose(mgr, view')
  BY DEF OnRefusal
<1>4. /\ mgr' \in Managers
      /\ \/ mgr' = mgr
         \/ mgr'.state = "closed" /\ mgr'.timer = Timer("expired", "expired")
         \/ mgr'.state = "expired" /\ mgr'.timer = NoTimer
      /\ \A j \in mgr'.jobs : j \in mgr.jobs \/ j.phase # "timeout"
  BY <1>1, <1>3, CheckType
<1>5. \A k, d : Sent(k, d)' <=> Sent(k, d)
  BY <1>1 DEF Sent
<1>6. \A d \in Contractors : ~Sent("grant", d) /\ view[d] \notin Held
  BY <1>1 DEF ManagerInv, GrantInv, Late
<1>7. mgr'.state \in {"announced", "closed", "expired"}
  BY <1>1, <1>4
<1>8. mgr'.timer # Timer("aborted", "aborted")
  BY <1>1, <1>4 DEF ManagerInv, TimerInv, Late, NoTimer, Timer, None
<1>9. GrantInv'
  BY <1>2, <1>5, <1>6 DEF GrantInv, Held
<1>10. AnswerInv' /\ ReportInv' /\ OneAnswer' /\ AckOrCancel'
  BY <1>2, <1>5, <1>6 DEF ManagerInv, AnswerInv, ReportInv, OneAnswer, AckOrCancel, None
<1>11. JobInv'
  BY <1>4, JobsStay DEF ManagerInv
<1>12. TimerInv' /\ NoBidForgotten'
  BY <1>7, <1>8 DEF TimerInv, NoBidForgotten
<1>13. AckInv' /\ CancelInv'
  BY <1>2, <1>5, <1>6, <1>7 DEF ManagerInv, AckInv, CancelInv, Held
<1> QED BY <1>1, <1>2, <1>4, <1>7, <1>9, <1>10, <1>11, <1>12, <1>13
       DEF StepOK, ManagerInv, None, NetTypeOK

LEMMA OnReportKeeps ==
  ASSUME ManagerTypeOK, NetTypeOK, ManagerInv, NEW c \in Contractors, OnReport(c)
  PROVE  StepOK
<1> DEFINE v == OnEvent(view, {c}, {"granted"}, "completed")
           done == With(v, {"completed"})
<1>1. mgr \in Managers /\ mgr.state = "granted"
  BY ManagerTypeFacts DEF OnReport
<1>2. Sent("report", c)
  BY DEF OnReport, Take, Sent
<1>3. /\ v \in [Contractors -> ContractorStates]
      /\ view[c] = "granted" => v[c] = "completed"
      /\ view[c] # "granted" => v[c] = view[c]
      /\ \A d \in Contractors : d # c => v[d] = view[d]
  BY DEF OnEvent, ManagerTypeOK, ContractorStates
<1>4. NoBids /\ \A d \in Contractors :
        ~Sent("ack", d) /\ ~Sent("cancellation", d) /\ view[d] # "cancelled"
  BY <1>1 DEF ManagerInv, NoBidForgotten, NoBids, With, AckInv, CancelInv
<1>5. \A d \in Contractors :
        /\ v[d] \in Held <=> view[d] \in Held
        /\ v[d] \in {"rejected", "elected"} <=> view[d] \in {"rejected", "elected"}
        /\ v[d] \in {"completed", "acknowledged"} => Sent("report", d)
        /\ v[d] \notin {"bid", "cancelled"}
  <2>1. \A d \in Contractors : view[d] \in {"completed", "acknowledged"} => Sent("report", d)
    BY DEF ManagerInv, ReportInv
  <2>2. \A d \in Contractors : view[d] # "bid"
    BY <1>4 DEF NoBids
  <2> QED BY <1>2, <1>3, <1>4, <2>1, <2>2 DEF Held
<1>6. CASE With(v, {"granted"}) = {}
  <2> DEFINE a == SetState(mgr, "completed")
  <2>1. "completed" \in ManagerStates
    BY DEF ManagerStates
  <2>2. a \in Managers /\ a.state = "completed" /\ a.jobs = mgr.jobs
    BY <1>1, <2>1, SetStateType DEF Managers
  <2>3. /\ mgr' = CancelTimeout(a)
        /\ view' = OnEvent(v, done, {"completed"}, "acknowledged")
        /\ sent' = sent \cup ToAll("ack", done)
    BY <1>6 DEF OnReport, Post
  <2> HIDE DEF a, v
  <2>4. /\ CancelTimeout(a) \in Managers
        /\ CancelTimeout(a).state = a.state
        /\ CancelTimeout(a).timer = NoTimer
        /\ CancelTimeout(a).jobs = a.jobs
    BY <2>2, CancelTimeoutType DEF Managers
  <2>5. /\ mgr' \in Managers /\ mgr'.state = "completed"
        /\ mgr'.timer = NoTimer /\ mgr'.jobs = mgr.jobs
    BY <2>2, <2>3, <2>4
  <2>6. /\ view' \in [Contractors -> ContractorStates]
        /\ done \in SUBSET Contractors
        /\ \A d \in Contractors :
             /\ v[d] # "granted"
             /\ d \in done <=> v[d] = "completed"
             /\ d \in done => view'[d] = "acknowledged"
             /\ d \notin done => view'[d] = v[d]
    BY <1>3, <1>6, <2>3 DEF OnEvent, With, ContractorStates
  <2> HIDE DEF done
  <2>7. ToAll("ack", done) \subseteq MessageSet
    BY <2>6, ToAllType DEF ManagerKinds
  <2>8. \A d \in Contractors :
          /\ Sent("ack", d)' <=> Sent("ack", d) \/ d \in done
          /\ \A k \in {"grant", "rejection", "cancellation", "report"} : Sent(k, d)' <=> Sent(k, d)
    BY <2>3, MsgToAll DEF Sent
  <2>9. GrantInv'
    BY <1>3, <1>5, <2>5, <2>6, <2>8 DEF ManagerInv, GrantInv, Late, NoBids, Held
  <2>10. AnswerInv' /\ ReportInv' /\ OneAnswer' /\ AckOrCancel'
    BY <1>4, <1>5, <2>6, <2>8 DEF ManagerInv, AnswerInv, ReportInv, OneAnswer, AckOrCancel
  <2>11. TimerInv' /\ JobInv' /\ NoBidForgotten'
    BY <1>5, <2>5, <2>6
       DEF ManagerInv, TimerInv, JobInv, NoBidForgotten, With, NoTimer, Timer, None
  <2>12. AckInv' /\ CancelInv'
    BY <1>4, <1>5, <2>5, <2>6, <2>8 DEF ManagerInv, GrantInv, AckInv, CancelInv, Held
  <2> QED BY <2>3, <2>5, <2>6, <2>7, <2>9, <2>10, <2>11, <2>12
         DEF StepOK, ManagerInv, None, NetTypeOK
<1>7. CASE With(v, {"granted"}) # {}
  <2>1. view' = v /\ UNCHANGED <<mgr, sent>>
    BY <1>7 DEF OnReport
  <2>2. \A k, d : Sent(k, d)' <=> Sent(k, d)
    BY <2>1 DEF Sent
  <2> HIDE DEF v
  <2>3. GrantInv'
    BY <1>3, <1>5, <2>1, <2>2 DEF ManagerInv, GrantInv, Late, NoBids, Held
  <2>4. AnswerInv' /\ ReportInv' /\ OneAnswer' /\ AckOrCancel'
    BY <1>5, <2>1, <2>2 DEF ManagerInv, AnswerInv, ReportInv, OneAnswer, AckOrCancel
  <2>5. TimerInv' /\ JobInv' /\ NoBidForgotten'
    BY <1>5, <2>1 DEF ManagerInv, TimerInv, JobInv, NoBidForgotten, Late, NoBids, With
  <2>6. AckInv' /\ CancelInv'
    BY <1>4, <1>5, <2>1, <2>2 DEF ManagerInv, AckInv, CancelInv
  <2> QED BY <1>1, <1>3, <2>1, <2>3, <2>4, <2>5, <2>6
         DEF StepOK, ManagerInv, None, NetTypeOK
<1> QED BY <1>6, <1>7

(* Every step of the manager preserves the invariant. *)
LEMMA ManagerKeeps ==
  ASSUME ManagerTypeOK, NetTypeOK, ManagerInv, ManagerNext
  PROVE  ManagerTypeOK' /\ NetTypeOK' /\ ManagerInv'
<1>1. CASE ManagerCalled
  <2>1. UNCHANGED <<bidding, completing, rcvd>>
    BY <1>1 DEF ManagerCalled, Announce, Cancel, Terminate, Reject, Elect, Grant
  <2>2. StepOK
    <3>1. ASSUME Cancel PROVE StepOK
      BY <3>1, CancelAllKeeps DEF Cancel
    <3> QED BY <1>1, <3>1, AnnounceKeeps, TerminateKeeps, RejectKeeps, ElectKeeps, GrantKeeps
           DEF ManagerCalled
  <2> QED BY <2>1, <2>2 DEF StepOK, ManagerTypeOK, NetTypeOK, Managers
<1>2. CASE ManagerReceives
  <2> PICK c \in Contractors : OnBid(c) \/ OnRefusal(c) \/ OnReport(c) \/ OnDefection(c)
    BY <1>2 DEF ManagerReceives
  <2>1. /\ bidding' \subseteq Contractors /\ completing' \in BOOLEAN
        /\ rcvd' \subseteq sent
    BY DEF OnBid, OnRefusal, OnReport, OnDefection, Take, ManagerTypeOK, NetTypeOK
  <2>2. StepOK
    <3>1. ASSUME OnDefection(c) PROVE StepOK
      BY <3>1, CancelAllKeeps DEF OnDefection
    <3> QED BY <3>1, OnBidKeeps, OnRefusalKeeps, OnReportKeeps
  <2> QED BY <2>1, <2>2 DEF StepOK, ManagerTypeOK, NetTypeOK, Managers
<1>3. CASE ManagerRuns
  BY <1>3, ManagerRunsKeeps
<1> QED BY <1>1, <1>2, <1>3 DEF ManagerNext

-----------------------------------------------------------------------------
(* Steps of the contractors *)

(* A contractor changes nothing of the manager and sends none of its       *)
(* messages.                                                               *)
LEMMA ContractorInv ==
  ASSUME ManagerInv, UNCHANGED managerVars, sent \subseteq sent',
         \A m \in sent' : m \in sent \/ m.kind \in ContractorKinds
  PROVE  ManagerInv'
<1>1. \A k \in {"grant", "rejection", "ack", "cancellation"}, c \in Contractors :
        Sent(k, c)' <=> Sent(k, c)
  BY DEF Sent, Msg, ContractorKinds
<1>2. \A c \in Contractors : Sent("report", c) => Sent("report", c)'
  BY DEF Sent
<1>3. GrantInv' /\ AnswerInv' /\ ReportInv'
  BY <1>1, <1>2 DEF ManagerInv, GrantInv, AnswerInv, ReportInv, Late, NoBids
<1>4. TimerInv' /\ JobInv' /\ NoBidForgotten'
  BY DEF ManagerInv, TimerInv, JobInv, NoBidForgotten, Late, NoBids, With
<1>5. AckInv' /\ CancelInv' /\ OneAnswer' /\ AckOrCancel'
  BY <1>1 DEF ManagerInv, AckInv, CancelInv, OneAnswer, AckOrCancel
<1> QED BY <1>3, <1>4, <1>5 DEF ManagerInv

(* The mediums of contractors are closed under the methods of the base class. *)
LEMMA MediumsClosed ==
  ASSUME NEW p \in Mediums
  PROVE  /\ \A s \in ContractState : SetState(p, s) \in Mediums
         /\ \A t \in ContractorTimers : SetTimeout(p, t.state, t.hook) \in Mediums
         /\ \A h \in ContractorHooks, s \in ContractState \cup {AnyState} :
              CallAgentSide(p, h, s) \in Mediums /\ RunAndTerminate(p, h, s) \in Mediums
         /\ Finalize(p) \in Mediums /\ Cleanup(p) \in Mediums /\ Unregister(p) \in Mediums
         /\ \A j : DropJob(p, j) \in Mediums /\ EndJob(p, j) \in Mediums
         /\ \A j \in p.jobs : StartJob(p, j) \in Mediums /\ FailJob(p, j, "wtf") \in Mediums
<1>1. \A s \in ContractState : SetState(p, s) \in Mediums
  BY SetStateType DEF Mediums
<1>2. \A t \in ContractorTimers : SetTimeout(p, t.state, t.hook) \in Mediums
  <2>1. \A t \in ContractorTimers : Timer(t.state, t.hook) \in ContractorTimers
    BY DEF ContractorTimers, Timer
  <2> QED BY <2>1, SetTimeoutType DEF Mediums
<1>3. \A h \in ContractorHooks, s \in ContractState \cup {AnyState} :
        CallAgentSide(p, h, s) \in Mediums /\ RunAndTerminate(p, h, s) \in Mediums
  BY CallAgentSideType, RunAndTerminateType DEF Mediums
<1>4. Finalize(p) \in Mediums /\ Cleanup(p) \in Mediums /\ Unregister(p) \in Mediums
  BY FinalizeType, CleanupType, UnregisterType DEF Mediums
<1>5. \A j : DropJob(p, j) \in Mediums /\ EndJob(p, j) \in Mediums
  BY DropJobType, EndJobType DEF Mediums
<1>6. \A j \in p.jobs : StartJob(p, j) \in Mediums /\ FailJob(p, j, "wtf") \in Mediums
  <2>1. "wtf" \in ContractState
    BY DEF ContractState
  <2> QED BY <2>1, StartJobType, FailJobType DEF Mediums
<1> QED BY <1>1, <1>2, <1>3, <1>4, <1>5, <1>6

LEMMA Armed ==
  ASSUME NEW p \in Mediums, NEW s \in ContractState, NEW t \in ContractState, NEW h,
         Timer(t, h) \in ContractorTimers
  PROVE  SetTimeout(SetState(p, s), t, h) \in Mediums
<1>1. SetState(p, s) \in Mediums
  BY MediumsClosed
<1> QED BY <1>1, SetTimeoutType DEF Mediums

LEMMA Ending ==
  ASSUME NEW p \in Mediums, NEW s \in ContractState, NEW h \in ContractorHooks
  PROVE  RunAndTerminate(SetState(p, s), h, s) \in Mediums
<1>1. SetState(p, s) \in Mediums
  BY MediumsClosed
<1> QED BY <1>1, MediumsClosed

LEMMA NewMedium ==
  CallAgentSide([NoMedium EXCEPT !.state = "initiated", !.registered = TRUE],
                "initiate", "initiated") \in Mediums
<1> DEFINE p == [NoMedium EXCEPT !.state = "initiated", !.registered = TRUE]
<1>1. p \in Mediums
  BY DEF NoMedium, Mediums, MediumSet, ContractState
<1> HIDE DEF p
<1>2. "initiate" \in ContractorHooks /\ "initiated" \in ContractState
  BY DEF ContractorHooks, ContractState
<1>3. CallAgentSide(p, "initiate", "initiated") \in Mediums
  BY <1>1, <1>2, MediumsClosed
<1> QED BY <1>3 DEF p

(* The timer of a contractor and its callback. *)
LEMMA ContractorTimeoutType ==
  ASSUME NEW p \in Mediums, p.timer # NoTimer
  PROVE  TimeoutTarget(p) \in Mediums
<1>1. p.timer \in ContractorTimers
  BY DEF Mediums, MediumSet
<1>2. p.timer.state \in ContractState \cup {AnyState} /\ p.timer.hook \in ContractorHooks
  BY <1>1 DEF ContractorTimers, Timer, ContractState, ContractorHooks
<1> QED BY <1>1, <1>2, TimeoutTargetType DEF Mediums

LEMMA ContractorJobType ==
  ASSUME NEW p \in Mediums, NEW j \in p.jobs
  PROVE  (CASE j.phase = "timeout" -> ContractorCallback(DropJob(p, j), j)
            [] j.phase = "queued"  -> StartJob(p, j)
            [] j.phase = "running" -> EndJob(p, j)) \in Mediums
<1>1. j.hook \in ContractorHooks /\ j.phase \in Phases
  BY DEF Mediums, MediumSet, JobSet
<1>2. ContractorCallback(DropJob(p, j), j) \in Mediums
  <2>1. DropJob(p, j) \in Mediums
    BY MediumsClosed
  <2>2. RunAndTerminate(DropJob(p, j), j.hook, AnyState) \in Mediums
    BY <1>1, <2>1, MediumsClosed
  <2> QED BY <2>1, <2>2 DEF ContractorCallback
<1>3. StartJob(p, j) \in Mediums /\ EndJob(p, j) \in Mediums
  BY MediumsClosed
<1> QED BY <1>1, <1>2, <1>3 DEF Phases

(* What every step of a contractor does: its medium stays well formed, and *)
(* it sends messages of its own kinds only.                                *)
LEMMA ContractorKeeps ==
  ASSUME ContractorTypeOK, NetTypeOK, NEW c \in Contractors, ContractorNext(c)
  PROVE  /\ ContractorTypeOK' /\ NetTypeOK'
         /\ sent \subseteq sent'
         /\ \A m \in sent' : m \in sent \/ m.kind \in ContractorKinds
<1> DEFINE p == con[c]
<1>1. p \in Mediums
  BY DEF ContractorTypeOK, Mediums
<1>2. \A q : Become(c, q) /\ q \in Mediums => ContractorTypeOK'
  BY DEF Become, ContractorTypeOK, Mediums
<1>3. \A k \in ContractorKinds, d \in Contractors :
        Msg(k, d) \in MessageSet /\ Msg(k, d).kind \in ContractorKinds
  BY DEF Msg, MessageSet
<1> DEFINE NetOK == /\ NetTypeOK'
                    /\ sent \subseteq sent'
                    /\ \A m \in sent' : m \in sent \/ m.kind \in ContractorKinds
<1>4. ASSUME UNCHANGED sent, rcvd' \subseteq sent PROVE NetOK
  BY <1>4 DEF NetTypeOK
<1>5. ASSUME NEW k \in ContractorKinds, NEW d \in Contractors,
             sent' = sent \cup {Msg(k, d)}, UNCHANGED rcvd
      PROVE  NetOK
  BY <1>3, <1>5 DEF NetTypeOK
<1>6. CASE ContractorReceives(c)
  <2>1. CASE AnswerDuplicate(c)
    <3>1. NetOK
      BY <1>5, <2>1 DEF AnswerDuplicate, Post, ContractorKinds
    <3> QED BY <2>1, <3>1 DEF AnswerDuplicate, ContractorTypeOK
  <2>2. CASE ~AnswerDuplicate(c)
    <3>1. NetOK
      <4>1. UNCHANGED sent
        BY <1>6, <2>2 DEF ContractorReceives, CreateContractor, OnAnnounce, OnReject, OnGrant,
              OnAck, OnCancelInGranted, OnCancelInCompleted
      <4>2. rcvd' \subseteq sent
        BY <1>6, <2>2 DEF ContractorReceives, CreateContractor, AnnouncementReaches, OnAnnounce,
              OnReject, OnGrant, OnAck, OnCancelInGranted, OnCancelInCompleted, Take, NetTypeOK
      <4> QED BY <4>1, <4>2, <1>4
    <3>2. CASE CreateContractor(c)
      BY <1>2, <3>1, <3>2, NewMedium DEF CreateContractor
    <3>3. CASE OnAnnounce(c)
      <4>1. /\ "announced" \in ContractState /\ "closed" \in ContractState
            /\ "announced" \in ContractorHooks
            /\ Timer("closed", "announce_expired") \in ContractorTimers
        BY DEF ContractState, ContractorHooks, ContractorTimers
      <4>2. SetTimeout(SetState(p, "announced"), "closed", "announce_expired") \in Mediums
        BY <1>1, <4>1, Armed
      <4> DEFINE a == SetTimeout(SetState(p, "announced"), "closed", "announce_expired")
      <4> HIDE DEF a
      <4>3. CallAgentSide(a, "announced", "announced") \in Mediums
        BY <4>1, <4>2, MediumsClosed DEF a
      <4> QED BY <1>2, <3>1, <3>3, <4>3 DEF OnAnnounce, a
    <3>4. CASE OnReject(c)
      <4>1. "rejected" \in ContractState /\ "rejected" \in ContractorHooks
        BY DEF ContractState, ContractorHooks
      <4>2. RunAndTerminate(SetState(p, "rejected"), "rejected", "rejected") \in Mediums
        BY <1>1, <4>1, Ending
      <4> QED BY <1>2, <3>1, <3>4, <4>2 DEF OnReject
    <3>5. CASE OnGrant(c)
      <4>1. /\ "granted" \in ContractState /\ "expired" \in ContractState
            /\ "granted" \in ContractorHooks
            /\ Timer("expired", "cancelled") \in ContractorTimers
        BY DEF ContractState, ContractorHooks, ContractorTimers
      <4>2. SetTimeout(SetState(p, "granted"), "expired", "cancelled") \in Mediums
        BY <1>1, <4>1, Armed
      <4> DEFINE a == SetTimeout(SetState(p, "granted"), "expired", "cancelled")
      <4> HIDE DEF a
      <4>3. CallAgentSide(a, "granted", "granted") \in Mediums
        BY <4>1, <4>2, MediumsClosed DEF a
      <4> QED BY <1>2, <3>1, <3>5, <4>3 DEF OnGrant, a
    <3>6. CASE OnAck(c)
      <4>1. "acknowledged" \in ContractState /\ "acknowledged" \in ContractorHooks
        BY DEF ContractState, ContractorHooks
      <4>2. RunAndTerminate(SetState(p, "acknowledged"), "acknowledged", "acknowledged") \in Mediums
        BY <1>1, <4>1, Ending
      <4> QED BY <1>2, <3>1, <3>6, <4>2 DEF OnAck
    <3>7. CASE OnCancelInGranted(c)
      <4>1. "cancelled" \in ContractState /\ "cancelled" \in ContractorHooks
        BY DEF ContractState, ContractorHooks
      <4>2. RunAndTerminate(SetState(p, "cancelled"), "cancelled", "cancelled") \in Mediums
        BY <1>1, <4>1, Ending
      <4> QED BY <1>2, <3>1, <3>7, <4>2 DEF OnCancelInGranted
    <3>8. CASE OnCancelInCompleted(c)
      <4>1. "aborted" \in ContractState /\ "aborted" \in ContractorHooks
        BY DEF ContractState, ContractorHooks
      <4>2. RunAndTerminate(SetState(p, "aborted"), "aborted", "aborted") \in Mediums
        BY <1>1, <4>1, Ending
      <4> QED BY <1>2, <3>1, <3>8, <4>2 DEF OnCancelInCompleted
    <3> QED BY <1>6, <2>2, <3>2, <3>3, <3>4, <3>5, <3>6, <3>7, <3>8 DEF ContractorReceives
  <2> QED BY <2>1, <2>2
<1>7. CASE ContractorCalled(c)
  <2>1. CASE Bid(c)
    <3>1. /\ "bid" \in ContractState /\ "expired" \in ContractState
          /\ Timer("expired", "bid_expired") \in ContractorTimers
      BY DEF ContractState, ContractorTimers
    <3>2. SetTimeout(SetState(p, "bid"), "expired", "bid_expired") \in Mediums
      BY <1>1, <3>1, Armed
    <3>3. NetOK
      <4> DEFINE k == IF c \in Nested THEN "nestedbid" ELSE "bid"
      <4>1. k \in ContractorKinds
        BY DEF ContractorKinds
      <4>2. sent' = sent \cup {Msg(k, c)} /\ UNCHANGED rcvd
        BY <2>1 DEF Bid, Post
      <4> HIDE DEF k
      <4> QED BY <4>1, <4>2, <1>5
    <3> QED BY <1>2, <2>1, <3>2, <3>3 DEF Bid
  <2>2. CASE Refuse(c)
    <3>1. "refused" \in ContractState
      BY DEF ContractState
    <3>2. SetState(p, "refused") \in Mediums
      BY <1>1, <3>1, MediumsClosed
    <3>3. Finalize(SetState(p, "refused")) \in Mediums
      BY <3>2, MediumsClosed
    <3>4. NetOK
      <4>1. CASE c \in Nested
        BY <1>4, <2>2, <4>1 DEF Refuse, Post, NetTypeOK
      <4>2. CASE c \notin Nested
        BY <1>5, <2>2, <4>2 DEF Refuse, Post, ContractorKinds
      <4> QED BY <4>1, <4>2
    <3> QED BY <1>2, <2>2, <3>3, <3>4 DEF Refuse
  <2>3. CASE Defect(c)
    <3>1. "defected" \in ContractState
      BY DEF ContractState
    <3>2. SetState(p, "defected") \in Mediums
      BY <1>1, <3>1, MediumsClosed
    <3>3. Finalize(SetState(p, "defected")) \in Mediums
      BY <3>2, MediumsClosed
    <3>4. NetOK
      BY <1>5, <2>3 DEF Defect, Post, ContractorKinds
    <3> QED BY <1>2, <2>3, <3>3, <3>4 DEF Defect
  <2>4. CASE Complete(c)
    <3>1. /\ "completed" \in ContractState /\ "aborted" \in ContractState
          /\ Timer("aborted", "aborted") \in ContractorTimers
      BY DEF ContractState, ContractorTimers
    <3>2. SetTimeout(SetState(p, "completed"), "aborted", "aborted") \in Mediums
      BY <1>1, <3>1, Armed
    <3>3. NetOK
      BY <1>5, <2>4 DEF Complete, Post, ContractorKinds
    <3> QED BY <1>2, <2>4, <3>2, <3>3 DEF Complete
  <2>5. ASSUME NEW n \in Nested, Handover(c, n)
        PROVE  ContractorTypeOK' /\ NetOK
    <3>1. "delegated" \in ContractState
      BY DEF ContractState
    <3>2. SetState(p, "delegated") \in Mediums
      BY <1>1, <3>1, MediumsClosed
    <3>3. Finalize(SetState(p, "delegated")) \in Mediums
      BY <3>2, MediumsClosed
    <3>4. n \in Contractors /\ "bid" \in ContractorKinds
      BY NestedAssumption DEF ContractorKinds
    <3>5. NetOK
      BY <1>5, <2>5, <3>4 DEF Handover, Post
    <3> QED BY <1>2, <2>5, <3>3, <3>5 DEF Handover
  <2> QED BY <1>7, <2>1, <2>2, <2>3, <2>4, <2>5 DEF ContractorCalled
<1>8. CASE ContractorRuns(c)
  <2>1. NetOK
    <3>1. UNCHANGED netVars
      BY <1>8 DEF ContractorRuns, ContractorTimeout, KillContractor, ContractorGone,
                  ContractorJob, ContractorJobFails
    <3> QED BY <3>1, <1>4 DEF NetTypeOK
  <2>2. CASE ContractorTimeout(c)
    BY <1>1, <1>2, <2>1, <2>2, ContractorTimeoutType DEF ContractorTimeout
  <2>3. CASE KillContractor(c)
    BY <1>1, <1>2, <2>1, <2>3, MediumsClosed DEF KillContractor
  <2>4. CASE ContractorGone(c)
    BY <1>1, <1>2, <2>1, <2>4, MediumsClosed DEF ContractorGone
  <2>5. ASSUME NEW j \in p.jobs, ContractorJob(c, j)
        PROVE  ContractorTypeOK' /\ NetOK
    BY <1>1, <1>2, <2>1, <2>5, ContractorJobType DEF ContractorJob
  <2>6. ASSUME NEW j \in p.jobs, ContractorJobFails(c, j)
        PROVE  ContractorTypeOK' /\ NetOK
    <3>1. FailJob(p, j, "wtf") \in Mediums
      BY <1>1, MediumsClosed
    <3> QED BY <1>2, <2>1, <2>6, <3>1 DEF ContractorJobFails
  <2> QED BY <1>8, <2>2, <2>3, <2>4, <2>5, <2>6 DEF ContractorRuns
<1> QED BY <1>6, <1>7, <1>8 DEF ContractorNext

-----------------------------------------------------------------------------
(* The theorems *)

LEMMA InitInv == Init => Inv
<1> SUFFICES ASSUME Init PROVE Inv
  OBVIOUS
<1> USE DEF Init
<1> DEFINE p == [NoMedium EXCEPT !.state = "initiated", !.registered = TRUE]
           q == SetTimeout(p, "wtf", "initiate_expire")
<1>1. /\ "initiate" \in ManagerHooks /\ "initiated" \in ManagerStates
      /\ Timer("wtf", "initiate_expire") \in ManagerTimers
      /\ Timer("wtf", "initiate_expire") # Timer("aborted", "aborted")
  BY DEF ManagerHooks, ManagerStates, ManagerTimers, Timer
<1>2. p \in Managers /\ p.state = "initiated" /\ p.jobs = {}
  BY DEF NoMedium, Managers, MediumSet, ManagerStates
<1> HIDE DEF p
<1>3. /\ q \in Managers /\ q.state = "initiated" /\ q.jobs = {}
      /\ q.timer = Timer("wtf", "initiate_expire")
  BY <1>1, <1>2, SetTimeoutType DEF Managers
<1> HIDE DEF q
<1> DEFINE j == Job("initiate", "initiated", "queued", FALSE)
<1>4. /\ CallAgentSide(q, "initiate", "initiated") \in Managers
      /\ CallAgentSide(q, "initiate", "initiated").state = q.state
      /\ CallAgentSide(q, "initiate", "initiated").timer = q.timer
      /\ CallAgentSide(q, "initiate", "initiated").jobs \subseteq q.jobs \cup {j}
  BY <1>1, <1>3, CallAgentSideType DEF Managers
<1>5. mgr = CallAgentSide(q, "initiate", "initiated")
  BY DEF ManagerInit, p, q
<1>6. j.phase = "queued"
  BY DEF Job
<1> HIDE DEF j
<1>7. /\ mgr \in Managers /\ mgr.state = "initiated"
      /\ mgr.timer # Timer("aborted", "aborted")
      /\ \A k \in mgr.jobs : k.phase = "queued"
  BY <1>1, <1>3, <1>4, <1>5, <1>6
<1>8. /\ view \in [Contractors -> ContractorStates]
      /\ \A c \in Contractors : view[c] = None
      /\ bidding = {} /\ completing = FALSE /\ sent = {} /\ rcvd = {}
  BY DEF ManagerInit, NetInit, ContractorStates
<1>9. ContractorTypeOK
  <2>1. NoMedium \in Mediums
    BY DEF NoMedium, Mediums, MediumSet
  <2> QED BY <2>1 DEF ContractorInit, ContractorTypeOK, Mediums
<1>10. TypeOK
  BY <1>7, <1>8, <1>9 DEF TypeOK, ManagerTypeOK, NetTypeOK, Managers, None
<1>11. ManagerInv
  <2>1. GrantInv /\ AnswerInv /\ ReportInv /\ AckInv /\ CancelInv /\ OneAnswer /\ AckOrCancel
    BY <1>8 DEF GrantInv, AnswerInv, ReportInv, AckInv, CancelInv, OneAnswer, AckOrCancel,
               Sent, Held, None
  <2>2. TimerInv /\ JobInv /\ NoBidForgotten
    BY <1>7 DEF TimerInv, JobInv, NoBidForgotten
  <2> QED BY <2>1, <2>2 DEF ManagerInv
<1> QED BY <1>10, <1>11 DEF Inv

LEMMA NextInv == Inv /\ [Next]_vars => Inv'
<1> SUFFICES ASSUME Inv, [Next]_vars PROVE Inv'
  OBVIOUS
<1> USE DEF Inv, TypeOK
<1>1. CASE ManagerNext /\ UNCHANGED con
  BY <1>1, ManagerKeeps DEF ContractorTypeOK
<1>2. ASSUME NEW c \in Contractors, ContractorNext(c), UNCHANGED managerVars
      PROVE  Inv'
  <2>1. /\ ContractorTypeOK' /\ NetTypeOK'
        /\ sent \subseteq sent'
        /\ \A m \in sent' : m \in sent \/ m.kind \in ContractorKinds
    BY <1>2, ContractorKeeps
  <2>2. ManagerInv'
    BY <1>2, <2>1, ContractorInv
  <2>3. ManagerTypeOK'
    BY <1>2 DEF ManagerTypeOK
  <2> QED BY <2>1, <2>2, <2>3
<1>3. CASE UNCHANGED vars
  <2>1. UNCHANGED managerVars /\ UNCHANGED netVars /\ UNCHANGED con
    BY <1>3 DEF vars
  <2>2. ManagerInv'
    BY <2>1, ContractorInv
  <2>3. NetTypeOK' /\ ManagerTypeOK' /\ ContractorTypeOK'
    BY <2>1 DEF NetTypeOK, ManagerTypeOK, ContractorTypeOK
  <2> QED BY <2>2, <2>3
<1> QED BY <1>1, <1>2, <1>3 DEF Next

(* The invariant holds throughout, for any contractors and any faults. *)
THEOREM Invariance == Spec => []Inv
BY InitInv, NextInv, PTL DEF Spec

(* Every variable keeps its type: no operation of either medium, in any    *)
(* order and with any hook failing, leaves a state, timer or job that the  *)
(* next one does not know.                                                 *)
THEOREM TypeCorrect == Spec => []TypeOK
<1>1. Inv => TypeOK
  BY DEF Inv
<1> QED BY <1>1, Invariance, PTL

(* No Acknowledgement is sent while a granted contractor has not reported. *)
THEOREM AcknowledgedTogether == Spec => []AckOnlyWhenAllReported
<1>1. Inv => AckOnlyWhenAllReported
  <2> SUFFICES ASSUME Inv, NEW c \in Contractors, Sent("ack", c),
                      NEW d \in Contractors, Sent("grant", d)
               PROVE  Sent("report", d) \/ view[d] = "elected"
    BY DEF AckOnlyWhenAllReported
  <2>1. view[d] \in Held \cup {"elected"}
    BY DEF Inv, ManagerInv, GrantInv
  <2>2. view[d] # "granted"
    BY DEF Inv, ManagerInv, AckInv
  <2>3. view[d] # "cancelled"
    BY DEF Inv, ManagerInv, CancelInv, AckOrCancel
  <2> QED BY <2>1, <2>2, <2>3 DEF Held, Inv, ManagerInv, ReportInv
<1> QED BY <1>1, Invariance, PTL

(* A contract is never acknowledged to one contractor and cancelled to     *)
(* another.                                                                *)
THEOREM NeverBoth == Spec => []AckOrCancel
<1>1. Inv => AckOrCancel
  BY DEF Inv, ManagerInv
<1> QED BY <1>1, Invariance, PTL

(* A contract is acknowledged to everybody in it, or cancelled.            *)
THEOREM AcknowledgedAsAWhole == Spec => []AllOrNothing
BY AcknowledgedTogether, NeverBoth, PTL DEF AllOrNothing

(* No bid is both granted and rejected. *)
THEOREM AnsweredOnce == Spec => []OneAnswer
<1>1. Inv => OneAnswer
  BY DEF Inv, ManagerInv
<1> QED BY <1>1, Invariance, PTL

(* A manager that has granted or terminated leaves no bid unanswered. *)
THEOREM EveryBidAnswered == Spec => []NoBidForgotten
<1>1. Inv => NoBidForgotten
  BY DEF Inv, ManagerInv
<1> QED BY <1>1, Invariance, PTL

(* The late checks of bid() never reopen a granted contract. *)
THEOREM GrantedForGood == Spec => []NotReopened
<1>1. Inv => NotReopened
  BY DEF Inv, ManagerInv, GrantInv, Late, NotReopened
<1> QED BY <1>1, Invariance, PTL

-----------------------------------------------------------------------------
(***************************************************************************)
(* The manager and the contractors implement ContractOutcome, and a         *)
(* contractor that has handed a nested bid over is answered by nobody.      *)
(* Both rest on what the contractors do, which the invariant above leaves   *)
(* out.                                                                     *)
(***************************************************************************)
(* The steps of the contractors *)

(* The state in which the methods of the base class leave a contractor. *)
LEMMA StateAfter ==
  ASSUME NEW p \in Mediums
  PROVE  /\ \A j : AddJob(p, j).state = p.state
         /\ \A s : SetState(p, s).state = s
         /\ \A s, h : SetTimeout(p, s, h).state = p.state
         /\ \A h, s : CallAgentSide(p, h, s).state = p.state
         /\ \A h, s : RunAndTerminate(p, h, s).state = p.state
         /\ Finalize(p).state = p.state
         /\ Cleanup(p).state = p.state
         /\ Unregister(p).state = p.state
<1>1. \A j : AddJob(p, j).state = p.state
  BY DEF AddJob, Mediums, MediumSet
<1> QED BY <1>1 DEF SetState, SetTimeout, CallAgentSide, RunAndTerminate, Finalize,
                    Cleanup, Unregister, Mediums, MediumSet

(* A timer, a job or the end of a contractor never makes it answer. *)
Overdue == {"closed", "expired", "aborted", "wtf"}

LEMMA TimerMoves ==
  ASSUME NEW p \in Mediums, p.timer # NoTimer
  PROVE  TimeoutTarget(p).state \in Overdue
<1>1. p.timer \in ContractorTimers
  BY DEF Mediums, MediumSet
<1>2. /\ p.timer.state \in {"closed", "expired", "aborted"} /\ p.timer.hook \in ContractorHooks
      /\ p.timer.state \in ContractState \cup {AnyState} /\ p.timer.state # AnyState
  BY <1>1 DEF ContractorTimers, Timer, ContractState, ContractorHooks, AnyState
<1> DEFINE r == [p EXCEPT !.timer = NoTimer, !.state = p.timer.state]
           j == Job(p.timer.hook, p.timer.state, "timeout", FALSE)
<1>3. r \in Mediums /\ r.state = p.timer.state
  BY <1>2 DEF Mediums, MediumSet
<1>4. TimeoutTarget(p) = AddJob(r, j)
  BY <1>2 DEF TimeoutTarget
<1> HIDE DEF r, j
<1>5. AddJob(r, j).state = r.state
  BY <1>3, StateAfter
<1> QED BY <1>2, <1>3, <1>4, <1>5 DEF Overdue

LEMMA JobMoves ==
  ASSUME NEW p \in Mediums, NEW j \in p.jobs
  PROVE  /\ (CASE j.phase = "timeout" -> ContractorCallback(DropJob(p, j), j)
               [] j.phase = "queued"  -> StartJob(p, j)
               [] j.phase = "running" -> EndJob(p, j)).state = p.state
         /\ FailJob(p, j, "wtf").state = "wtf"
<1>1. j.phase \in Phases
  BY DEF Mediums, MediumSet, JobSet
<1>2. DropJob(p, j) \in Mediums /\ DropJob(p, j).state = p.state
  BY DropJobType DEF Mediums
<1>3. ContractorCallback(DropJob(p, j), j).state = p.state
  BY <1>2, StateAfter DEF ContractorCallback
<1>4. StartJob(p, j).state = p.state /\ EndJob(p, j).state = p.state
  BY StartJobType, EndJobType DEF Mediums
<1>5. "wtf" \in ContractState
  BY DEF ContractState
<1>6. FailJob(p, j, "wtf").state = "wtf"
  BY <1>5, FailJobType DEF Mediums
<1> QED BY <1>1, <1>3, <1>4, <1>6 DEF Phases

Unanswered == {None, "initiated", "announced"}

(* What a step of contractor c does: c starts its job only when granted,   *)
(* reports only that job, and answers the announcement once, with a bid, a *)
(* handover or a refusal.                                                  *)
ContractorMove(c) ==
  /\ \A d \in Contractors : d # c => con'[d] = con[d]
  /\ con'[c].state = "granted" => con[c].state = "granted" \/ Sent("grant", c)
  /\ con'[c].state = "delegated" =>
       con[c].state = "delegated" \/ (con[c].state = "announced" /\ c \notin Nested)
  /\ con'[c].state \in Unanswered => con[c].state \in Unanswered
  /\ sent \subseteq sent'
  /\ \A d \in Contractors :
       /\ Sent("report", d)' => Sent("report", d) \/ (d = c /\ con[c].state = "granted")
       /\ Sent("bid", d)' =>
            Sent("bid", d) \/ d \in Nested \/ (d = c /\ con'[c].state = "bid")

LEMMA ContractorMoves ==
  ASSUME ContractorTypeOK, NEW c \in Contractors, ContractorNext(c)
  PROVE  ContractorMove(c)
<1> DEFINE p == con[c]
           Same == \A d \in Contractors :
                     /\ Sent("report", d)' <=> Sent("report", d)
                     /\ Sent("bid", d)' <=> Sent("bid", d)
<1>1. p \in Mediums
  BY DEF ContractorTypeOK, Mediums
<1>2. ASSUME NEW q, Become(c, q)
      PROVE  con'[c] = q /\ \A d \in Contractors : d # c => con'[d] = con[d]
  BY <1>2 DEF Become, ContractorTypeOK
<1>3. UNCHANGED sent => Same /\ sent \subseteq sent'
  BY DEF Sent
<1>4. \A k, d : Post({Msg(k, d)}) =>
        /\ sent \subseteq sent'
        /\ \A l, e : Sent(l, e)' <=> Sent(l, e) \/ (l = k /\ e = d)
  BY MsgInjective DEF Post, Sent
<1> USE DEF Unanswered, ContractorMove
<1>5. CASE ContractorReceives(c)
  <2>1. CASE CreateContractor(c)
    <3> DEFINE r == [NoMedium EXCEPT !.state = "initiated", !.registered = TRUE]
    <3>1. r \in Mediums /\ r.state = "initiated"
      BY DEF NoMedium, Mediums, MediumSet, ContractState
    <3>2. p.state = None /\ Become(c, CallAgentSide(r, "initiate", "initiated")) /\ UNCHANGED sent
      BY <2>1 DEF CreateContractor
    <3> HIDE DEF r
    <3>3. CallAgentSide(r, "initiate", "initiated").state = "initiated"
      BY <3>1, StateAfter
    <3> QED BY <1>2, <1>3, <3>2, <3>3
  <2>2. CASE OnAnnounce(c)
    <3> DEFINE a == SetState(p, "announced")
               b == SetTimeout(a, "closed", "announce_expired")
    <3>1. a \in Mediums /\ a.state = "announced"
      BY <1>1, MediumsClosed, StateAfter DEF ContractState
    <3>2. b.state = a.state
      <4> HIDE DEF a
      <4> QED BY <3>1, StateAfter
    <3>3. b \in Mediums
      BY <1>1, Armed DEF ContractState, ContractorTimers
    <3>4. /\ p.state = "initiated" /\ Become(c, CallAgentSide(b, "announced", "announced"))
          /\ UNCHANGED sent
      BY <2>2 DEF OnAnnounce, netVars
    <3> HIDE DEF a, b
    <3>5. CallAgentSide(b, "announced", "announced").state = "announced"
      BY <3>1, <3>2, <3>3, StateAfter
    <3> QED BY <1>2, <1>3, <3>4, <3>5
  <2>3. CASE AnswerDuplicate(c)
    <3>1. UNCHANGED con /\ Post({Msg("duplicate", c)})
      BY <2>3 DEF AnswerDuplicate, netVars
    <3> QED BY <1>4, <3>1
  <2>4. CASE OnGrant(c)
    <3> DEFINE a == SetState(p, "granted")
               b == SetTimeout(a, "expired", "cancelled")
    <3>1. a \in Mediums /\ a.state = "granted"
      BY <1>1, MediumsClosed, StateAfter DEF ContractState
    <3>2. b.state = a.state
      <4> HIDE DEF a
      <4> QED BY <3>1, StateAfter
    <3>3. b \in Mediums
      BY <1>1, Armed DEF ContractState, ContractorTimers
    <3>4. /\ Sent("grant", c) /\ Become(c, CallAgentSide(b, "granted", "granted"))
          /\ UNCHANGED sent
      BY <2>4 DEF OnGrant, Take, Sent
    <3> HIDE DEF a, b
    <3>5. CallAgentSide(b, "granted", "granted").state = "granted"
      BY <3>1, <3>2, <3>3, StateAfter
    <3>6. con'[c].state = "granted" /\ \A d \in Contractors : d # c => con'[d] = con[d]
      BY <1>2, <3>4, <3>5
    <3> QED BY <1>3, <3>4, <3>6 DEF None
  <2>5. ASSUME NEW s \in {"rejected", "acknowledged", "cancelled", "aborted"},
               Become(c, RunAndTerminate(SetState(p, s), s, s)), UNCHANGED sent
        PROVE  ContractorMove(c)
    <3>1. SetState(p, s) \in Mediums /\ SetState(p, s).state = s
      BY <1>1, MediumsClosed, StateAfter DEF ContractState
    <3>2. RunAndTerminate(SetState(p, s), s, s).state = s
      BY <3>1, StateAfter
    <3>3. con'[c].state = s /\ \A d \in Contractors : d # c => con'[d] = con[d]
      BY <1>2, <2>5, <3>2
    <3> QED BY <1>3, <2>5, <3>3 DEF None
  <2> QED BY <1>5, <2>1, <2>2, <2>3, <2>4, <2>5
         DEF ContractorReceives, OnReject, OnAck, OnCancelInGranted, OnCancelInCompleted
<1>6. CASE ContractorCalled(c)
  <2>1. ASSUME NEW s \in {"bid", "completed"}, NEW t \in {"expired", "aborted"}, NEW h,
               Become(c, SetTimeout(SetState(p, s), t, h))
        PROVE  con'[c].state = s
    <3>1. SetState(p, s) \in Mediums /\ SetState(p, s).state = s
      BY <1>1, MediumsClosed, StateAfter DEF ContractState
    <3>2. SetTimeout(SetState(p, s), t, h).state = s
      BY <3>1, StateAfter
    <3> QED BY <1>2, <2>1, <3>2
  <2>2. ASSUME NEW s \in {"refused", "defected", "delegated"},
               Become(c, Finalize(SetState(p, s)))
        PROVE  con'[c].state = s
    <3>1. SetState(p, s) \in Mediums /\ SetState(p, s).state = s
      BY <1>1, MediumsClosed, StateAfter DEF ContractState
    <3>2. Finalize(SetState(p, s)).state = s
      BY <3>1, StateAfter
    <3> QED BY <1>2, <2>2, <3>2
  <2>3. CASE Bid(c)
    <3> DEFINE k == IF c \in Nested THEN "nestedbid" ELSE "bid"
    <3>1. con'[c].state = "bid"
      BY <2>1, <2>3 DEF Bid
    <3>2. Post({Msg(k, c)}) /\ k \in {"bid", "nestedbid"}
      BY <2>3 DEF Bid
    <3> HIDE DEF k
    <3> QED BY <1>2, <1>4, <2>3, <3>1, <3>2 DEF Bid, None
  <2>4. CASE Refuse(c)
    <3>1. con'[c].state = "refused"
      BY <2>2, <2>4 DEF Refuse
    <3>2. sent \subseteq sent' /\ Same
      <4>1. CASE c \in Nested
        <5>1. sent' = sent
          BY <2>4, <4>1 DEF Refuse, Post
        <5> QED BY <1>3, <5>1
      <4>2. CASE c \notin Nested
        <5>1. Post({Msg("refusal", c)})
          BY <2>4, <4>2 DEF Refuse
        <5> QED BY <1>4, <5>1
      <4> QED BY <4>1, <4>2
    <3> QED BY <1>2, <2>4, <3>1, <3>2 DEF Refuse, None
  <2>5. CASE Defect(c)
    <3>1. con'[c].state = "defected"
      BY <2>2, <2>5 DEF Defect
    <3> QED BY <1>2, <1>4, <2>5, <3>1 DEF Defect, None
  <2>6. CASE Complete(c)
    <3>1. con'[c].state = "completed"
      BY <2>1, <2>6 DEF Complete
    <3> QED BY <1>2, <1>4, <2>6, <3>1 DEF Complete, None
  <2>7. ASSUME NEW n \in Nested, Handover(c, n)
        PROVE  ContractorMove(c)
    <3>1. con'[c].state = "delegated"
      BY <2>2, <2>7 DEF Handover
    <3> QED BY <1>2, <1>4, <2>7, <3>1 DEF Handover, None
  <2> QED BY <1>6, <2>3, <2>4, <2>5, <2>6, <2>7 DEF ContractorCalled
<1>7. CASE ContractorRuns(c)
  <2>1. UNCHANGED sent
    BY <1>7 DEF ContractorRuns, ContractorTimeout, KillContractor, ContractorGone,
                ContractorJob, ContractorJobFails, netVars
  <2> SUFFICES /\ con'[c].state \in Overdue \cup {p.state}
               /\ \A d \in Contractors : d # c => con'[d] = con[d]
    BY <1>3, <2>1 DEF Overdue, None
  <2>2. CASE ContractorTimeout(c)
    BY <1>1, <1>2, <2>2, TimerMoves DEF ContractorTimeout
  <2>3. CASE KillContractor(c) \/ ContractorGone(c)
    BY <1>1, <1>2, <2>3, StateAfter DEF KillContractor, ContractorGone
  <2>4. ASSUME NEW j \in p.jobs, ContractorJob(c, j) \/ ContractorJobFails(c, j)
        PROVE  /\ con'[c].state \in Overdue \cup {p.state}
               /\ \A d \in Contractors : d # c => con'[d] = con[d]
    <3> DEFINE r == CASE j.phase = "timeout" -> ContractorCallback(DropJob(p, j), j)
                      [] j.phase = "queued"  -> StartJob(p, j)
                      [] j.phase = "running" -> EndJob(p, j)
    <3>1. Become(c, r) \/ Become(c, FailJob(p, j, "wtf"))
      BY <2>4 DEF ContractorJob, ContractorJobFails
    <3>2. r.state = p.state /\ FailJob(p, j, "wtf").state = "wtf"
      BY <1>1, JobMoves
    <3> HIDE DEF r
    <3> QED BY <1>2, <3>1, <3>2 DEF Overdue
  <2> QED BY <1>7, <2>2, <2>3, <2>4 DEF ContractorRuns
<1> QED BY <1>5, <1>6, <1>7 DEF ContractorNext

-----------------------------------------------------------------------------
(***************************************************************************)
(* The invariant about both sides: a contractor works only when granted,   *)
(* the manager answers only bids that were sent, and a contractor that is  *)
(* announced to directly bids in its own name or hands over, never both.   *)
(***************************************************************************)
WorkInv ==
  \A c \in Contractors :
    con[c].state = "granted" \/ Sent("report", c) => Sent("grant", c)

BidInv ==
  \A c \in Contractors :
    view[c] = "bid" \/ Sent("grant", c) \/ Sent("rejection", c) => Sent("bid", c)

DelegateInv ==
  \A c \in Contractors :
    /\ con[c].state = "delegated" => c \notin Nested
    /\ c \notin Nested /\ Sent("bid", c) => con[c].state \notin Unanswered \cup {"delegated"}

BothInv == WorkInv /\ BidInv /\ DelegateInv
FullInv == Inv /\ BothInv

(* What every step of the manager does: it answers a contractor only while *)
(* it has its bid, and takes a bid only if it was sent.                    *)
ManagerMove ==
  /\ sent \subseteq sent'
  /\ \A c \in Contractors :
       /\ view'[c] = "bid" => view[c] = "bid" \/ Sent("bid", c)
       /\ Sent("grant", c)' => Sent("grant", c) \/ view[c] = "bid"
       /\ Sent("rejection", c)' => Sent("rejection", c) \/ view[c] = "bid"
       /\ Sent("bid", c)' => Sent("bid", c)
       /\ Sent("report", c)' => Sent("report", c)

LEMMA ManagerMoves ==
  ASSUME ManagerTypeOK, ManagerNext
  PROVE  ManagerMove
<1> USE DEF ManagerMove
<1>1. ASSUME NEW k \in ManagerKinds, NEW cs, Post(ToAll(k, cs))
      PROVE  /\ sent \subseteq sent'
             /\ \A l, c : Sent(l, c)' <=> Sent(l, c) \/ (l = k /\ c \in cs)
  BY <1>1, MsgToAll DEF Post, Sent
<1>2. ASSUME UNCHANGED sent,
             \A c \in Contractors : view'[c] = "bid" => view[c] = "bid" \/ Sent("bid", c)
      PROVE  ManagerMove
  BY <1>2 DEF Sent
<1>3. ASSUME NEW v \in [Contractors -> ContractorStates], NEW cs, NEW before, NEW after,
             after # "bid"
      PROVE  \A c \in Contractors :
               OnEvent(v, cs, before, after)[c] = "bid" => v[c] = "bid"
  BY <1>3 DEF OnEvent
<1>4. CASE ManagerCalled
  <2>1. CASE Announce
    <3>1. Post(ToAll("announcement", Recipients)) /\ UNCHANGED view
      BY <2>1 DEF Announce
    <3> QED BY <1>1, <3>1 DEF ManagerKinds
  <2>2. CASE Cancel
    <3> DEFINE cs == With(view, {"granted", "completed"})
    <3>1. /\ view' = OnEvent(view, cs, {"granted", "completed"}, "cancelled")
          /\ Post(ToAll("cancellation", cs))
      BY <2>2 DEF Cancel, CancelAll
    <3> HIDE DEF cs
    <3> QED BY <1>1, <1>3, <3>1 DEF ManagerTypeOK, ManagerKinds
  <2>3. CASE Terminate
    <3> DEFINE cs == With(view, {"bid"})
    <3>1. /\ view' = OnEvent(view, cs, {"bid"}, "rejected")
          /\ Post(ToAll("rejection", cs))
          /\ \A c \in cs : view[c] = "bid"
      BY <2>3 DEF Terminate, With
    <3> HIDE DEF cs
    <3> QED BY <1>1, <1>3, <3>1 DEF ManagerTypeOK, ManagerKinds
  <2>4. ASSUME NEW c \in Contractors, Reject(c) PROVE ManagerMove
    <3>1. /\ view' = OnEvent(view, {c}, {"bid"}, "rejected") /\ view[c] = "bid"
          /\ sent' = sent \cup {Msg("rejection", c)}
      BY <2>4 DEF Reject, Post
    <3>2. /\ sent \subseteq sent'
          /\ \A l, d : Sent(l, d)' <=> Sent(l, d) \/ (l = "rejection" /\ d = c)
      BY <3>1, MsgInjective DEF Sent
    <3> QED BY <1>3, <3>1, <3>2 DEF ManagerTypeOK
  <2>5. ASSUME NEW c \in Contractors, Elect(c) PROVE ManagerMove
    BY <1>2, <2>5 DEF Elect, ManagerTypeOK
  <2>6. ASSUME NEW cs \in SUBSET Contractors, Grant(cs) PROVE ManagerMove
    <3> DEFINE others == With(view, {"bid"}) \ cs
    <3>1. /\ view' = OnEvent(OnEvent(view, cs, {"bid"}, "granted"), others, {"bid"}, "rejected")
          /\ sent' = sent \cup ToAll("grant", cs) \cup ToAll("rejection", others)
          /\ \A c \in cs \cup others : view[c] = "bid"
      BY <2>6 DEF Grant, Post, With
    <3> HIDE DEF others
    <3>2. /\ sent \subseteq sent'
          /\ \A l, c : Sent(l, c)' <=> \/ Sent(l, c)
                                       \/ l = "grant" /\ c \in cs
                                       \/ l = "rejection" /\ c \in others
      BY <3>1, MsgToAll DEF Sent
    <3>3. \A c \in Contractors : view'[c] = "bid" => view[c] = "bid"
      BY <3>1 DEF OnEvent
    <3> QED BY <3>1, <3>2, <3>3
  <2> QED BY <1>4, <2>1, <2>2, <2>3, <2>4, <2>5, <2>6 DEF ManagerCalled
<1>5. CASE ManagerReceives
  <2> PICK c \in Contractors : OnBid(c) \/ OnRefusal(c) \/ OnReport(c) \/ OnDefection(c)
    BY <1>5 DEF ManagerReceives
  <2>1. CASE OnBid(c)
    <3>1. UNCHANGED sent /\ Sent("bid", c) /\ view' = [view EXCEPT ![c] = "bid"]
      BY <2>1 DEF OnBid, Take, Sent
    <3> QED BY <1>2, <3>1 DEF ManagerTypeOK
  <2>2. CASE OnRefusal(c)
    <3>1. UNCHANGED sent /\ view' = [view EXCEPT ![c] = "refused"]
      BY <2>2 DEF OnRefusal
    <3> QED BY <1>2, <3>1 DEF ManagerTypeOK
  <2>3. CASE OnReport(c)
    <3> DEFINE v == OnEvent(view, {c}, {"granted"}, "completed")
               cs == With(v, {"completed"})
    <3>1. v \in [Contractors -> ContractorStates]
      BY OnEventType DEF ManagerTypeOK, ContractorStates
    <3>2. \A d \in Contractors : v[d] = "bid" => view[d] = "bid"
      BY <1>3 DEF ManagerTypeOK
    <3>3. \/ /\ view' = OnEvent(v, cs, {"completed"}, "acknowledged")
             /\ Post(ToAll("ack", cs))
          \/ view' = v /\ UNCHANGED sent
      BY <2>3 DEF OnReport
    <3> HIDE DEF v, cs
    <3>4. CASE view' = v /\ UNCHANGED sent
      BY <1>2, <3>2, <3>4
    <3>5. CASE /\ view' = OnEvent(v, cs, {"completed"}, "acknowledged")
               /\ Post(ToAll("ack", cs))
      BY <1>1, <1>3, <3>1, <3>2, <3>5 DEF ManagerKinds
    <3> QED BY <3>3, <3>4, <3>5
  <2>4. CASE OnDefection(c)
    <3> DEFINE cs == With(view, {"granted", "completed"})
    <3>1. /\ view' = OnEvent(view, cs, {"granted", "completed"}, "cancelled")
          /\ Post(ToAll("cancellation", cs))
      BY <2>4 DEF OnDefection, CancelAll
    <3> HIDE DEF cs
    <3> QED BY <1>1, <1>3, <3>1 DEF ManagerTypeOK, ManagerKinds
  <2> QED BY <2>1, <2>2, <2>3, <2>4
<1>6. CASE ManagerRuns
  <2>1. UNCHANGED <<view, sent>>
    BY <1>6 DEF ManagerRuns, ManagerTimeout, ManagerGone, KillManager, CompletedReturns,
                CompletedFails, BidHandled, BidFails, ManagerJob, ManagerJobFails, netVars
  <2> QED BY <1>2, <2>1
<1> QED BY <1>4, <1>5, <1>6 DEF ManagerNext

LEMMA BothInit == Init => BothInv
<1> SUFFICES ASSUME Init PROVE BothInv
  OBVIOUS
<1>1. /\ \A c \in Contractors : view[c] = None /\ con[c].state = None
      /\ sent = {}
  BY DEF Init, ManagerInit, NetInit, ContractorInit, NoMedium
<1> QED BY <1>1 DEF BothInv, WorkInv, BidInv, DelegateInv, Sent, None, Unanswered

LEMMA BothNext == FullInv /\ [Next]_vars => BothInv'
<1> SUFFICES ASSUME FullInv, [Next]_vars PROVE BothInv'
  OBVIOUS
<1> USE DEF FullInv, Inv, TypeOK, BothInv
<1>1. CASE ManagerNext /\ UNCHANGED con
  <2>1. ManagerMove
    BY <1>1, ManagerMoves
  <2>2. WorkInv'
    BY <1>1, <2>1 DEF WorkInv, ManagerMove, Sent
  <2>3. BidInv'
    BY <2>1 DEF BidInv, ManagerMove, Sent
  <2>4. DelegateInv'
    BY <1>1, <2>1 DEF DelegateInv, ManagerMove
  <2> QED BY <2>2, <2>3, <2>4
<1>2. ASSUME NEW c \in Contractors, ContractorNext(c), UNCHANGED managerVars
      PROVE  BothInv'
  <2>1. ContractorMove(c)
    BY <1>2, ContractorMoves
  <2>2. \A k \in {"grant", "rejection"}, d \in Contractors : Sent(k, d)' => Sent(k, d)
    <3>1. \A m \in sent' : m \in sent \/ m.kind \in ContractorKinds
      BY <1>2, ContractorKeeps
    <3> QED BY <3>1 DEF Sent, Msg, ContractorKinds
  <2>3. \A k, d : Sent(k, d) => Sent(k, d)'
    BY <2>1 DEF ContractorMove, Sent
  <2>4. WorkInv'
    BY <2>1, <2>3 DEF WorkInv, ContractorMove
  <2>5. BidInv'
    BY <1>2, <2>2, <2>3 DEF BidInv, managerVars
  <2>6. DelegateInv'
    BY <2>1 DEF DelegateInv, ContractorMove, Unanswered, None
  <2> QED BY <2>4, <2>5, <2>6
<1>3. CASE UNCHANGED vars
  BY <1>3 DEF vars, managerVars, netVars, WorkInv, BidInv, DelegateInv, Sent
<1> QED BY <1>1, <1>2, <1>3 DEF Next

(* The whole invariant holds throughout. *)
THEOREM FullInvariance == Spec => []FullInv
<1>1. Init => FullInv
  BY InitInv, BothInit DEF FullInv
<1>2. FullInv /\ [Next]_vars => FullInv'
  BY NextInv, BothNext DEF FullInv
<1> QED BY <1>1, <1>2, PTL DEF Spec

(* A contractor that has handed a nested bid over is neither granted nor   *)
(* rejected: the answer goes to the nested contractor.                     *)
THEOREM DelegatedOut == Spec => []DelegatedIsOut
<1>1. FullInv => DelegatedIsOut
  BY DEF FullInv, BothInv, BidInv, DelegateInv, DelegatedIsOut
<1> QED BY <1>1, FullInvariance, PTL

-----------------------------------------------------------------------------
(***************************************************************************)
(* The refinement.  InContract and Outcome depend on four kinds of         *)
(* messages and on who has been elected.                                   *)
(***************************************************************************)
Stutter == UNCHANGED <<InContract("grant"), InContract("report"), Outcome>>

(* A step that moves nobody in or out of the contract changes nothing that *)
(* the jobs see.                                                           *)
LEMMA NothingSeen ==
  ASSUME \A c \in Contractors :
           /\ \A k \in {"grant", "report", "ack", "cancellation"} : Sent(k, c)' <=> Sent(k, c)
           /\ view'[c] = "elected" <=> view[c] = "elected"
  PROVE  Stutter
<1>1. \A k \in {"grant", "report"} : InContract(k)' = InContract(k)
  BY DEF InContract
<1>2. /\ (\E c \in Contractors : Sent("ack", c))' <=> \E c \in Contractors : Sent("ack", c)
      /\ (\E c \in Contractors : Sent("cancellation", c))' <=>
           \E c \in Contractors : Sent("cancellation", c)
  OBVIOUS
<1>3. Outcome' = Outcome
  BY <1>2 DEF Outcome
<1> QED BY <1>1, <1>3 DEF Stutter

LEMMA OutcomeInit == Init => Jobs!Init
<1> SUFFICES ASSUME Init PROVE Jobs!Init
  OBVIOUS
<1>1. \A k, c : ~Sent(k, c)
  BY DEF Init, NetInit, Sent
<1> QED BY <1>1 DEF Jobs!Init, InContract, Outcome

(* A contractor's report is seen while the contractor is in the contract. *)
LEMMA ContractorRefines ==
  ASSUME FullInv, NEW c \in Contractors, ContractorNext(c), UNCHANGED managerVars
  PROVE  Jobs!Report(c) \/ Stutter
<1> USE DEF FullInv, Inv, TypeOK, BothInv
<1>1. ContractorMove(c)
  BY ContractorMoves
<1>2. /\ UNCHANGED view
      /\ \A k \in {"grant", "ack", "cancellation"}, d \in Contractors : Sent(k, d)' <=> Sent(k, d)
  <2>1. \A m \in sent' : m \in sent \/ m.kind \in ContractorKinds
    BY ContractorKeeps
  <2> QED BY <1>1, <2>1 DEF ContractorMove, Sent, Msg, ContractorKinds, managerVars
<1>3. \A d \in Contractors : Sent("report", d)' <=>
        Sent("report", d) \/ (d = c /\ Sent("report", c)')
  BY <1>1 DEF ContractorMove, Sent
<1>4. CASE Sent("report", c)' /\ ~Sent("report", c) /\ view[c] # "elected"
  <2>1. c \in InContract("grant")
    BY <1>1, <1>4 DEF ContractorMove, WorkInv, InContract
  <2>2. InContract("grant")' = InContract("grant")
    BY <1>2 DEF InContract
  <2>3. InContract("report")' = InContract("report") \cup {c}
    BY <1>2, <1>3, <1>4 DEF InContract
  <2>4. Outcome' = Outcome
    BY <1>2 DEF Outcome
  <2> QED BY <2>1, <2>2, <2>3, <2>4 DEF Jobs!Report
<1>5. CASE Sent("report", c)' /\ ~Sent("report", c) /\ view[c] = "elected"
  <2>1. InContract("grant")' = InContract("grant") /\ InContract("report")' = InContract("report")
    BY <1>2, <1>3, <1>5 DEF InContract
  <2>2. Outcome' = Outcome
    BY <1>2 DEF Outcome
  <2> QED BY <2>1, <2>2 DEF Stutter
<1>6. CASE Sent("report", c)' <=> Sent("report", c)
  BY <1>2, <1>3, <1>6, NothingSeen
<1>7. Sent("report", c) => Sent("report", c)'
  BY <1>3
<1> QED BY <1>4, <1>5, <1>6, <1>7

(* All the jobs are awarded at once, the first time. *)
LEMMA GrantRefines ==
  ASSUME FullInv, NEW cs \in SUBSET Contractors, Grant(cs)
  PROVE  Jobs!Award(cs)
<1> DEFINE others == With(view, {"bid"}) \ cs
<1>1. mgr.state \in {"closed", "announced"}
  BY DEF Grant
<1>2. \A d \in Contractors : ~Sent("grant", d) /\ ~Sent("ack", d) /\ ~Sent("cancellation", d)
  BY <1>1 DEF FullInv, Inv, ManagerInv, GrantInv, AckInv, CancelInv, Late
<1>3. \A d \in Contractors :
        /\ d \in cs => view'[d] = "granted"
        /\ view'[d] = "elected" <=> view[d] = "elected"
  BY DEF Grant, OnEvent, With, FullInv, Inv, TypeOK, ManagerTypeOK
<1>4. sent' = sent \cup ToAll("grant", cs) \cup ToAll("rejection", others)
  BY DEF Grant, Post
<1> HIDE DEF others
<1>5. \A d \in Contractors :
        /\ Sent("grant", d)' <=> Sent("grant", d) \/ d \in cs
        /\ \A k \in {"ack", "cancellation", "report"} : Sent(k, d)' <=> Sent(k, d)
  BY <1>4, MsgToAll DEF Sent
<1>6. InContract("grant") = {} /\ InContract("grant")' = cs
  BY <1>2, <1>3, <1>5 DEF InContract
<1>7. InContract("report")' = InContract("report")
  BY <1>3, <1>5 DEF InContract
<1>8. Outcome = "open" /\ Outcome' = Outcome
  BY <1>2, <1>5 DEF Outcome
<1> QED BY <1>6, <1>7, <1>8 DEF Jobs!Award

(* An elected contractor leaves the contract. *)
LEMMA ElectRefines ==
  ASSUME FullInv, NEW c \in Contractors, Elect(c)
  PROVE  Jobs!Withdraw(c)
<1>1. UNCHANGED sent /\ view' = [view EXCEPT ![c] = "elected"]
  BY DEF Elect
<1>2. \A d \in Contractors : view'[d] = "elected" <=> d = c \/ view[d] = "elected"
  BY <1>1 DEF FullInv, Inv, TypeOK, ManagerTypeOK
<1>3. \A k, d : Sent(k, d)' <=> Sent(k, d)
  BY <1>1 DEF Sent
<1>4. \A k \in {"grant", "report"} : InContract(k)' = InContract(k) \ {c}
  BY <1>2, <1>3 DEF InContract
<1>5. Outcome' = Outcome
  BY <1>3 DEF Outcome
<1> QED BY <1>4, <1>5 DEF Jobs!Withdraw

(* cancel() abandons the contract, unless there is nobody to cancel or it  *)
(* is abandoned already.                                                   *)
LEMMA CancelAllRefines ==
  ASSUME FullInv, mgr.state \in {"granted", "cancelled"}, CancelAll
  PROVE  Jobs!Abandon \/ Stutter
<1> DEFINE cs == With(view, {"granted", "completed"})
<1>1. /\ view' = OnEvent(view, cs, {"granted", "completed"}, "cancelled")
      /\ sent' = sent \cup ToAll("cancellation", cs)
      /\ cs \subseteq Contractors
      /\ \A d \in cs : view[d] \in {"granted", "completed"}
  BY DEF CancelAll, Post, With
<1> HIDE DEF cs
<1>2. \A d \in Contractors : view'[d] = "elected" <=> view[d] = "elected"
  BY <1>1 DEF OnEvent
<1>3. \A d \in Contractors :
        /\ Sent("cancellation", d)' <=> Sent("cancellation", d) \/ d \in cs
        /\ \A k \in {"grant", "ack", "report"} : Sent(k, d)' <=> Sent(k, d)
  BY <1>1, MsgToAll DEF Sent
<1>4. \A d \in Contractors : ~Sent("ack", d)
  BY DEF FullInv, Inv, ManagerInv, AckInv
<1>5. CASE cs = {}
  BY <1>2, <1>3, <1>5, NothingSeen
<1>6. CASE cs # {}
  <2>1. InContract("grant")' = InContract("grant") /\ InContract("report")' = InContract("report")
    BY <1>2, <1>3 DEF InContract
  <2>2. Outcome' = "cancelled" /\ Outcome \in {"open", "cancelled"}
    BY <1>1, <1>3, <1>4, <1>6 DEF Outcome
  <2>3. InContract("grant") # {}
    BY <1>1, <1>6 DEF FullInv, Inv, ManagerInv, GrantInv, Held, InContract
  <2> QED BY <2>1, <2>2, <2>3 DEF Jobs!Abandon, Stutter
<1> QED BY <1>5, <1>6

(* The last report acknowledges every job that is still in the contract. *)
LEMMA OnReportRefines ==
  ASSUME FullInv, NEW c \in Contractors, OnReport(c)
  PROVE  Jobs!Acknowledge \/ Stutter
<1> DEFINE v == OnEvent(view, {c}, {"granted"}, "completed")
           cs == With(v, {"completed"})
<1>1. /\ mgr.state = "granted" /\ Sent("report", c)
      /\ \/ /\ With(v, {"granted"}) = {}
            /\ view' = OnEvent(v, cs, {"completed"}, "acknowledged")
            /\ sent' = sent \cup ToAll("ack", cs)
         \/ view' = v /\ UNCHANGED sent
  BY DEF OnReport, Post, Take, Sent
<1>2. /\ \A d \in Contractors : /\ v[d] \in {view[d], "completed"}
                                /\ v[d] = "elected" <=> view[d] = "elected"
                                /\ d # c => v[d] = view[d]
      /\ cs \subseteq Contractors /\ \A d \in cs : v[d] = "completed"
  BY DEF OnEvent, With
<1>3. \A d \in cs : view[d] \in {"granted", "completed"}
  BY DEF OnEvent, With
<1>4. With(v, {"granted"}) = {} => \A d \in Contractors : v[d] # "granted"
  BY DEF With
<1>5. \A d \in Contractors :
        OnEvent(v, cs, {"completed"}, "acknowledged")[d] = "elected" <=> v[d] = "elected"
  <2> HIDE DEF v, cs
  <2> QED BY DEF OnEvent
<1> HIDE DEF v, cs
<1>6. CASE view' = v /\ UNCHANGED sent
  BY <1>2, <1>6, NothingSeen DEF Sent
<1>7. CASE /\ With(v, {"granted"}) = {}
           /\ view' = OnEvent(v, cs, {"completed"}, "acknowledged")
           /\ sent' = sent \cup ToAll("ack", cs)
  <2>1. \A d \in Contractors :
          /\ Sent("ack", d)' <=> Sent("ack", d) \/ d \in cs
          /\ \A k \in {"grant", "cancellation", "report"} : Sent(k, d)' <=> Sent(k, d)
          /\ view'[d] = "elected" <=> view[d] = "elected"
    BY <1>2, <1>5, <1>7, MsgToAll DEF Sent
  <2>2. CASE cs = {}
    BY <2>1, <2>2, NothingSeen
  <2>3. CASE cs # {}
    <3>1. InContract("grant")' = InContract("grant") /\ InContract("report")' = InContract("report")
      BY <2>1 DEF InContract
    <3>2. \A d \in Contractors : ~Sent("ack", d) /\ ~Sent("cancellation", d)
      BY <1>1 DEF FullInv, Inv, ManagerInv, AckInv, CancelInv
    <3>3. Outcome = "open" /\ Outcome' = "acknowledged"
      BY <1>2, <2>1, <2>3, <3>2 DEF Outcome
    <3>4. InContract("grant") # {}
      BY <1>2, <1>3, <2>3 DEF FullInv, Inv, ManagerInv, GrantInv, Held, InContract
    <3>5. ASSUME NEW d \in Contractors, Sent("grant", d), view[d] # "elected"
          PROVE  Sent("report", d)
      <4>1. view[d] \in Held
        BY <3>5 DEF FullInv, Inv, ManagerInv, GrantInv
      <4>2. view[d] # "cancelled"
        BY <3>2 DEF FullInv, Inv, ManagerInv, CancelInv
      <4>3. CASE view[d] = "granted"
        BY <1>1, <1>2, <1>4, <1>7, <4>3
      <4>4. CASE view[d] \in {"completed", "acknowledged"}
        BY <4>4 DEF FullInv, Inv, ManagerInv, ReportInv
      <4> QED BY <4>1, <4>2, <4>3, <4>4 DEF Held
    <3>6. InContract("grant") = InContract("report")
      BY <3>5 DEF InContract, FullInv, BothInv, WorkInv
    <3> QED BY <3>1, <3>3, <3>4, <3>6 DEF Jobs!Acknowledge
  <2> QED BY <2>2, <2>3
<1> QED BY <1>1, <1>6, <1>7

(* The manager's other steps do not concern the jobs. *)
LEMMA QuietRefines ==
  ASSUME FullInv,
         \/ Announce \/ Terminate \/ ManagerRuns
         \/ \E c \in Contractors : Reject(c) \/ OnBid(c) \/ OnRefusal(c)
  PROVE  Stutter
<1> SUFFICES \A c \in Contractors :
               /\ \A k \in {"grant", "report", "ack", "cancellation"} :
                    Sent(k, c)' <=> Sent(k, c)
               /\ view'[c] = "elected" <=> view[c] = "elected"
  BY NothingSeen
<1> USE DEF FullInv, Inv, TypeOK, ManagerTypeOK, ContractorStates
<1>1. CASE Announce
  <2>1. UNCHANGED view /\ sent' = sent \cup ToAll("announcement", Recipients)
    BY <1>1 DEF Announce, Post
  <2> QED BY <2>1, MsgToAll DEF Sent
<1>2. CASE Terminate
  <2> DEFINE cs == With(view, {"bid"})
  <2>1. /\ view' = OnEvent(view, cs, {"bid"}, "rejected")
        /\ sent' = sent \cup ToAll("rejection", cs)
    BY <1>2 DEF Terminate, Post
  <2> HIDE DEF cs
  <2>2. \A c \in Contractors : view'[c] = "elected" <=> view[c] = "elected"
    BY <2>1 DEF OnEvent
  <2> QED BY <2>1, <2>2, MsgToAll DEF Sent
<1>3. CASE ManagerRuns
  <2>1. UNCHANGED <<view, sent>>
    BY <1>3 DEF ManagerRuns, ManagerTimeout, ManagerGone, KillManager, CompletedReturns,
                CompletedFails, BidHandled, BidFails, ManagerJob, ManagerJobFails, netVars
  <2> QED BY <2>1 DEF Sent
<1>4. ASSUME NEW c \in Contractors, Reject(c)
      PROVE  \A d \in Contractors :
               /\ \A k \in {"grant", "report", "ack", "cancellation"} :
                    Sent(k, d)' <=> Sent(k, d)
               /\ view'[d] = "elected" <=> view[d] = "elected"
  <2>1. /\ view' = OnEvent(view, {c}, {"bid"}, "rejected")
        /\ sent' = sent \cup {Msg("rejection", c)}
    BY <1>4 DEF Reject, Post
  <2>2. \A d \in Contractors : view'[d] = "elected" <=> view[d] = "elected"
    BY <2>1 DEF OnEvent
  <2> QED BY <2>1, <2>2, MsgInjective DEF Sent
<1>5. ASSUME NEW c \in Contractors, OnBid(c) \/ OnRefusal(c)
      PROVE  \A d \in Contractors :
               /\ \A k \in {"grant", "report", "ack", "cancellation"} :
                    Sent(k, d)' <=> Sent(k, d)
               /\ view'[d] = "elected" <=> view[d] = "elected"
  <2>1. /\ UNCHANGED sent /\ view[c] = None
        /\ view' = [view EXCEPT ![c] = "bid"] \/ view' = [view EXCEPT ![c] = "refused"]
    BY <1>5 DEF OnBid, OnRefusal
  <2> QED BY <2>1 DEF Sent, None
<1> QED BY <1>1, <1>2, <1>3, <1>4, <1>5

LEMMA NextRefines ==
  ASSUME FullInv, [Next]_vars
  PROVE  [Jobs!Next]_<<InContract("grant"), InContract("report"), Outcome>>
<1>1. ASSUME Stutter
      PROVE  [Jobs!Next]_<<InContract("grant"), InContract("report"), Outcome>>
  BY <1>1 DEF Stutter
<1>2. CASE ManagerNext /\ UNCHANGED con
  <2>1. ASSUME NEW cs \in SUBSET Contractors, Grant(cs) PROVE Jobs!Next
    BY <2>1, GrantRefines DEF Jobs!Next
  <2>2. ASSUME NEW c \in Contractors, Elect(c) PROVE Jobs!Next
    BY <2>2, ElectRefines DEF Jobs!Next
  <2>3. ASSUME NEW c \in Contractors, OnReport(c) PROVE Jobs!Next \/ Stutter
    BY <2>3, OnReportRefines DEF Jobs!Next
  <2>4. ASSUME Cancel \/ \E c \in Contractors : OnDefection(c) PROVE Jobs!Next \/ Stutter
    <3>1. mgr.state \in {"granted", "cancelled"} /\ CancelAll
      BY <2>4 DEF Cancel, OnDefection
    <3> QED BY <3>1, CancelAllRefines DEF Jobs!Next
  <2> QED BY <1>1, <1>2, <2>1, <2>2, <2>3, <2>4, QuietRefines
         DEF ManagerNext, ManagerCalled, ManagerReceives
<1>3. ASSUME NEW c \in Contractors, ContractorNext(c), UNCHANGED managerVars
      PROVE  Jobs!Next \/ Stutter
  BY <1>3, ContractorRefines DEF Jobs!Next
<1>4. CASE UNCHANGED vars
  <2>1. UNCHANGED <<sent, view>>
    BY <1>4 DEF vars, netVars, managerVars
  <2>2. Stutter
    BY <2>1, NothingSeen DEF Sent
  <2> QED BY <1>1, <2>2
<1> QED BY <1>1, <1>2, <1>3, <1>4 DEF Next

(* The manager and the contractors implement ContractOutcome: the jobs are *)
(* awarded once and together, acknowledged only when every one still in    *)
(* the contract has been reported, and never both acknowledged and         *)
(* cancelled.                                                              *)
THEOREM Refinement == Spec => ImplementsOutcome
<1>1. Init => Jobs!Init
  BY OutcomeInit
<1>2. FullInv /\ [Next]_vars => [Jobs!Next]_(Jobs!outcomeVars)
  BY NextRefines DEF Jobs!outcomeVars
<1> QED BY <1>1, <1>2, FullInvariance, PTL DEF Spec, ImplementsOutcome, Jobs!Spec
=================================================================================
