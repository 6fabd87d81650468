----------------------------- MODULE AgencyMiddle -----------------------------
(***************************************************************************)
(* The base class of every protocol medium (agencies/common.py,            *)
(* AgencyMiddleBase with StateMachineMixin).  A medium is one record:      *)
(*   state       the protocol state (None before the medium is created)    *)
(*   timer       the one pending timeout: the state it will set and the    *)
(*               hook it will call, or NoTimer                             *)
(*   jobs        _agent_jobs: agent-side calls queued with call_next or    *)
(*               running as Deferreds                                      *)
(*   final       _finalize_called                                          *)
(*   registered  the agency still dispatches messages to it                *)
(*   asserted    call_agent_side() has failed its assertion                *)
(* The operators below return the medium as the method of the same name    *)
(* leaves it.                                                              *)
(***************************************************************************)

CONSTANT FailingHooks   \* the agent-side hooks that may raise, by name

None == "none"
AnyState  == "any"      \* ensure_state=None

(* set_timeout() keeps one timer: the state to set and the callback. *)
NoTimer == [state |-> None, hook |-> None]
Timer(state, hook) == [state |-> state, hook |-> hook]

(***************************************************************************)
(* One agent-side call.  A "timeout" job is the callback of a timer, which *)
(* _timeout_target passes through call_agent_side; a "queued" job waits    *)
(* for the reactor; a "running" one has called the hook and waits for its  *)
(* Deferred.  "last" jobs finalize the medium when they end.  What a hook  *)
(* calls on the medium is an action of its own, so a job matters for its   *)
(* end and its failure only: the job of a hook that does not fail is not   *)
(* kept if it is not last, and is "queued" until its end if it is.         *)
(***************************************************************************)
Phases == {"timeout", "queued", "running"}
Job(hook, need, phase, last) ==
  [hook |-> hook, need |-> need, phase |-> phase, last |-> last]

JobSet(Hooks, States) ==
  [hook : Hooks, need : States \cup {AnyState}, phase : Phases, last : BOOLEAN]

MediumSet(Hooks, States, Timers) ==
  [state : States \cup {None}, timer : Timers \cup {NoTimer},
   jobs : SUBSET JobSet(Hooks, States),
   final : BOOLEAN, registered : BOOLEAN, asserted : BOOLEAN]

(* Before the agency has created the medium. *)
NoMedium ==
  [state |-> None, timer |-> NoTimer, jobs |-> {},
   final |-> FALSE, registered |-> FALSE, asserted |-> FALSE]

SetState(p, s) == [p EXCEPT !.state = s]

CancelTimeout(p) == [p EXCEPT !.timer = NoTimer]
SetTimeout(p, s, hook) == [p EXCEPT !.timer = Timer(s, hook)]

(* The method asserts that finalize() has not been called: past that point *)
(* the exception leaves the medium as it is.                               *)
AddJob(p, j) ==
  [p EXCEPT !.jobs = IF p.final THEN @ ELSE @ \cup {j}, !.asserted = @ \/ p.final]
CallAgentSide(p, hook, need) ==
  IF hook \in FailingHooks \/ p.final THEN AddJob(p, Job(hook, need, "queued", FALSE)) ELSE p
RunAndTerminate(p, hook, need) == AddJob(p, Job(hook, need, "queued", TRUE))

(* finalize(), with the cleanup() that ends it. *)
Finalize(p) ==
  IF p.final THEN p
  ELSE [p EXCEPT !.final = TRUE, !.timer = NoTimer, !.jobs = {}]

(* cleanup() called by the agency on a medium it kills: the state stays. *)
Cleanup(p) == [p EXCEPT !.timer = NoTimer, !.jobs = {}, !.final = TRUE]

(* The notifier of finalize() runs later and unregisters the medium. *)
Unregister(p) == [p EXCEPT !.registered = FALSE]

(* _timeout_target(): set the state, if one was given, and queue the callback. *)
TimeoutTarget(p) ==
  LET t == p.timer
      q == [p EXCEPT !.timer = NoTimer, !.state = IF t.state = AnyState THEN @ ELSE t.state]
  IN  AddJob(q, Job(t.hook, t.state, "timeout", FALSE))

Ready(p, j) == j.need = AnyState \/ p.state = j.need
DropJob(p, j) == [p EXCEPT !.jobs = @ \ {j}]

(* The end of a job; the finalize() chained to a last job follows. *)
EndJob(p, j) == IF j.last THEN Finalize(DropJob(p, j)) ELSE DropJob(p, j)

(* A queued job calls its hook only if the state is still the one it needs. *)
StartJob(p, j) ==
  IF j.hook \in FailingHooks /\ Ready(p, j)
  THEN [p EXCEPT !.jobs = (@ \ {j}) \cup {[j EXCEPT !.phase = "running"]}]
  ELSE EndJob(p, j)

(* _error_handler(): the hook raised. *)
FailJob(p, j, errorState) == Finalize(SetState(DropJob(p, j), errorState))
=============================================================================
