---------------------------------- MODULE Death ----------------------------------
(***************************************************************************)
(* The death of one agent as its monitors handle it: the HandleDeath tasks *)
(* of the monitor agents (agents/monitor/monitor_agent.py), the collective *)
(* solver that elects the one who resolves it (agents/base/problem.py) and *)
(* the attempts to restart or to bury the agent.                           *)
(*                                                                         *)
(* The document of the agent is its revision and the number of its         *)
(* instance.  The contract between a monitor and the one that it asks is   *)
(* abstract: the announcement is answered at once, and the grant waits.    *)
(* The hosts that start agents and the partners that volunteer to restart  *)
(* them may do so, or fail, at any time.  The 60 seconds of a solver go on *)
(* while its monitor resolves the death: SolverExpires cancels what the    *)
(* attempt is waiting for, and what the attempt does then depends on where *)
(* it is.                                                                  *)
(***************************************************************************)
EXTENDS Naturals, Sequences, SequencesExt

CONSTANTS
  Monitors,     \* the monitor agents
  Brothers,     \* those among the partners in the agent's descriptor, in order
  Partnered,    \* those that have the agent as a partner
  Cases,        \* what may happen: see Case
  MaxAttempts,  \* bound: attempts that a volunteer spoils
  MaxInstances  \* bound: instances of the agent that hosts or volunteers start

Strategies == {"buryme", "local", "wherever", "monitor"}

(* A case: the restart strategy of the agent, what volunteers do, how many *)
(* monitors crash, how many grants expire although the resolver is well,   *)
(* whether the resolver's own solver expires before it is done, and        *)
(* whether an announcement may be lost.                                    *)
Case == [strategy : Strategies, helpers : SUBSET {"starts", "stops", "touches"},
         crashes : Nat, slow : Nat, expires : BOOLEAN, lost : BOOLEAN]

ASSUME BrothersAssumption ==
  /\ Brothers \in Seq(Monitors) /\ IsInjective(Brothers) /\ Partnered \subseteq Monitors
  /\ Cases \subseteq Case /\ MaxAttempts \in Nat /\ MaxInstances \in Nat

VARIABLES
  case,      \* the case, which only uses up its crashes and slow grants
  up,        \* the monitors that run
  doc,       \* the agent's document
  running,   \* does an instance of the agent run?
  buried,    \* have the partners been told that the agent is buried?
  known,     \* MonitoredPartner.instance_id of each monitor, 0 without a partner
  watching,  \* the monitors whose intensive care will report the death
  news,      \* the monitors that have yet to hear what became of the agent
  helper,    \* the partner that took the responsibility from each monitor
  hd         \* the HandleDeath task of each monitor and its collective solver

deathVars == <<case, up, doc, running, buried, known, watching, news, helper, hd>>

Tries == 3   \* grants (20 s each) before the solver (60 s) expires

Idle ==
  [task     |-> "none",    \* the entry in handler_tasks
   rev      |-> 0,         \* the copy of the document: its revision
   instance |-> 0,         \*   and the instance that died
   solver   |-> "none",    \* the collective solver
   ahead    |-> 0,         \* how many of Brothers it thinks to be there before it
   tries    |-> 0,         \* grants that expired
   answer   |-> "none",    \* what the one who was asked does about it
   attempt  |-> "none",    \* where the attempt to resolve it here is
   count    |-> 0,         \* how many there were
   timer    |-> FALSE,     \* is _timeout_waiting_for_restart() scheduled?
   telling  |-> FALSE]     \* are 'restarted' notifications being stored?

Handlers ==
  [task : {"none", "fetching", "open", "failed"}, rev : Nat, instance : Nat,
   solver : {"none", "announced", "granted", "local", "gone"}, ahead : 0..Len(Brothers),
   tries : 0..Tries, answer : {"none", "waits", "ready", "broken"},
   attempt : {"none", "flag", "asking", "waiting", "starting", "moving", "burying",
              "lost", "adopting", "done"},
   count : Nat, timer : BOOLEAN, telling : BOOLEAN]

-----------------------------------------------------------------------------
(* The task and its solver *)

(* The brothers before a monitor, which comes last if it is not among them. *)
Place(m) ==
  IF m \in ToSet(Brothers) THEN (CHOOSE k \in 1..Len(Brothers) : Brothers[k] = m) - 1
                           ELSE Len(Brothers)

(* Whom a monitor asks: its left neighbour.  As nobody else is ever removed *)
(* from its list, those that stay are the first of Brothers.               *)
Left(m) == Brothers[hd[m].ahead]

Asks(m, r) == hd[m].solver = "granted" /\ Left(m) = r

(* _retry() of a handler. *)
Retry(h) ==
  [h EXCEPT !.attempt = IF case.strategy = "buryme" THEN "burying" ELSE "flag",
            !.count = @ + 1, !.timer = FALSE]

(* _iterate() of a solver, with so many brothers ahead.                    *)
Iterate(h, ahead) ==
  IF ahead = 0
  THEN Retry([h EXCEPT !.solver = "local", !.ahead = 0])
  ELSE [h EXCEPT !.solver = "announced", !.ahead = ahead, !.answer = "none"]

(* The task of m ends, and h is left of it: those who wait for its         *)
(* solution are answered.                                                  *)
Closed(m, h, answer) ==
  [x \in Monitors |->
     IF x = m THEN h
     ELSE IF Asks(x, m) /\ hd[x].answer = "waits" THEN [hd[x] EXCEPT !.answer = answer]
     ELSE hd[x]]

(* It leaves handler_tasks unless it fails, or has failed before.          *)
Ended(m, failed) ==
  IF failed \/ hd[m].task = "failed"
  THEN Closed(m, [Idle EXCEPT !.task = "failed"], "broken")
  ELSE Closed(m, Idle, "ready")

Set(m, h) == hd' = [hd EXCEPT ![m] = h]

(* handle_agent_death(): the clerk reports a death, maybe after the agent  *)
(* was restarted by another monitor.                                       *)
HandleAgentDeath(m) ==
  /\ m \in watching \cap up
  /\ ~running \/ known[m] < doc.instance
  /\ watching' = watching \ {m}
  /\ hd' = IF hd[m].task = "none" THEN [hd EXCEPT ![m].task = "fetching"] ELSE hd
  /\ UNCHANGED <<case, up, doc, running, buried, known, news, helper>>

(* _fetch_descriptor(), and _start_collective_solver() with the result.    *)
FetchDescriptor(m) ==
  LET fetched == [hd[m] EXCEPT !.task = "open", !.rev = doc.rev, !.instance = doc.instance]
  IN  /\ m \in up /\ hd[m].task = "fetching"
      /\ hd' = IF doc.deleted THEN Ended(m, TRUE)
               ELSE [hd EXCEPT ![m] = Iterate(fetched, Place(m))]
      /\ UNCHANGED <<case, up, doc, running, buried, known, watching, news, helper>>

(* Mutant: whoever has no task for the death takes it for solved.          *)
SolvedUnlessHandled(m) ==
  LET theirs == hd[Left(m)].task
      answer == IF theirs \in {"fetching", "open"} THEN "waits" ELSE "ready"
  IN  /\ m \in up /\ hd[m].solver = "announced" /\ Left(m) \in up
      /\ Set(m, [hd[m] EXCEPT !.solver = "granted", !.answer = answer])
      /\ UNCHANGED <<case, up, doc, running, buried, known, watching, news, helper>>

(* The one who is asked gets the announcement: handling_death_requested()  *)
(* finds the task, starts one, or knows that the death has been solved; it *)
(* bids whatever it finds, and is granted.                                 *)
HandlingDeathRequested(m) ==
  LET r == Left(m)
      theirs == hd[r].task
      starts == theirs = "none" /\ known[r] # 0 /\ known[r] = hd[m].instance
      answer == IF theirs \in {"fetching", "open"} \/ starts THEN "waits"
                ELSE IF theirs = "failed" \/ known[r] = 0 THEN "broken" ELSE "ready"
  IN  /\ m \in up /\ hd[m].solver = "announced"
      /\ r \in up
      /\ hd' = [hd EXCEPT ![m].solver = "granted", ![m].answer = answer,
                          ![r].task = IF starts THEN "fetching" ELSE @]
      /\ UNCHANGED <<case, up, doc, running, buried, known, watching, news, helper>>

(* Nobody bids in time: the one who was asked is removed.                  *)
AnnounceExpires(m) ==
  /\ m \in up /\ hd[m].solver = "announced"
  /\ Left(m) \notin up \/ case.lost
  /\ Set(m, Iterate(hd[m], hd[m].ahead - 1))
  /\ UNCHANGED <<case, up, doc, running, buried, known, watching, news, helper>>

(* Mutant: the one who was asked is removed when its grant expires too.    *)
GrantExpiresRemoves(m) ==
  LET late == Left(m) \in up /\ hd[m].answer # "broken"
  IN  /\ m \in up /\ hd[m].solver = "granted"
      /\ late => case.slow > 0
      /\ case' = IF late THEN [case EXCEPT !.slow = @ - 1] ELSE case
      /\ Set(m, Iterate(hd[m], hd[m].ahead - 1))
      /\ UNCHANGED <<up, doc, running, buried, known, watching, news, helper>>

(* The grant expires: the solver asks the same one again, until it expires *)
(* itself.                                                                 *)
GrantExpires(m) ==
  LET tried == hd[m].tries + 1
      late == Left(m) \in up /\ hd[m].answer # "broken"
  IN  /\ m \in up /\ hd[m].solver = "granted"
      /\ late => case.slow > 0
      /\ case' = IF late THEN [case EXCEPT !.slow = @ - 1] ELSE case
      /\ Set(m, [hd[m] EXCEPT !.tries = tried, !.answer = "none",
                              !.solver = IF tried < Tries THEN "announced" ELSE "gone"])
      /\ UNCHANGED <<up, doc, running, buried, known, watching, news, helper>>

(* The one who was asked has the solution: solve_for() calls               *)
(* restart_handeled() of m, which ends the task, and reports.              *)
RestartHandled(m) ==
  /\ m \in up /\ hd[m].solver = "granted"
  /\ Left(m) \in up /\ hd[m].answer = "ready"
  /\ hd' = Ended(m, FALSE)
  /\ UNCHANGED <<case, up, doc, running, buried, known, watching, news, helper>>

-----------------------------------------------------------------------------
(* The attempts *)

Attempts(m, attempt) == m \in up /\ hd[m].attempt = attempt

(* A document saved from the copy of m: refused if somebody else saved it. *)
Current(m) == ~doc.deleted /\ hd[m].rev = doc.rev

Saved(m, h, n) ==
  /\ doc' = [doc EXCEPT !.rev = @ + n]
  /\ Set(m, [h EXCEPT !.rev = doc.rev + n])

(* _set_restart_flag(); a conflict skips the partners, because             *)
(* _ensure_someone_took_responsability() is called in any case.            *)
SetRestartFlag(m) ==
  /\ Attempts(m, "flag")
  /\ \/ Current(m) /\ Saved(m, [hd[m] EXCEPT !.attempt = "asking"], 1)
     \/ ~Current(m) /\ Set(m, [hd[m] EXCEPT !.attempt = "starting"]) /\ UNCHANGED doc
  /\ UNCHANGED <<case, up, running, buried, known, watching, news, helper>>

(* Mutant: a volunteer is waited for without a timer.                      *)
PartnersAnswerUntimed(m) ==
  /\ Attempts(m, "asking")
  /\ watching' = watching \ (ToSet(Brothers) \cap up)
  /\ \/ /\ case.helpers # {} /\ hd[m].count <= MaxAttempts /\ helper[m] = "none"
        /\ helper' = [helper EXCEPT ![m] = "working"]
        /\ Set(m, [hd[m] EXCEPT !.attempt = "waiting"])
     \/ /\ Set(m, [hd[m] EXCEPT !.attempt = "starting"])
        /\ UNCHANGED helper
  /\ UNCHANGED <<case, up, doc, running, buried, known, news>>

(* The partners have answered the 'died' notifications.  The monitors      *)
(* among them stop watching; another partner may take the responsibility.  *)
PartnersAnswer(m) ==
  /\ Attempts(m, "asking")
  /\ watching' = watching \ (ToSet(Brothers) \cap up)
  /\ \/ /\ case.helpers # {} /\ hd[m].count <= MaxAttempts /\ helper[m] = "none"
        /\ helper' = [helper EXCEPT ![m] = "working"]
        /\ Set(m, [hd[m] EXCEPT !.attempt = "waiting", !.timer = TRUE])
     \/ /\ Set(m, [hd[m] EXCEPT !.attempt = "starting"])
        /\ UNCHANGED helper
  /\ UNCHANGED <<case, up, doc, running, buried, known, news>>

(* A new instance is started and writes its number to the document.        *)
StartAgent ==
  /\ ~doc.deleted /\ doc.instance < MaxInstances
  /\ running' = TRUE
  /\ doc' = [doc EXCEPT !.rev = @ + 1, !.instance = @ + 1]

(* The partner restarts the agent and reports to the monitor, or stops     *)
(* trying, maybe after it has changed the document.                        *)
HelperEnds(m) ==
  /\ helper[m] = "working"
  /\ \/ /\ "starts" \in case.helpers
        /\ StartAgent
        /\ helper' = [helper EXCEPT ![m] = "reporting"]
     \/ /\ "stops" \in case.helpers
        /\ helper' = [helper EXCEPT ![m] = "none"]
        /\ UNCHANGED <<doc, running>>
     \/ /\ "touches" \in case.helpers /\ ~doc.deleted
        /\ helper' = [helper EXCEPT ![m] = "none"]
        /\ doc' = [doc EXCEPT !.rev = @ + 1]
        /\ UNCHANGED running
  /\ UNCHANGED <<case, up, buried, known, watching, news, hd>>

(* restart_complete(), if the report arrives and the monitor still has a   *)
(* task.                                                                   *)
RestartComplete(m) ==
  /\ helper[m] = "reporting"
  /\ helper' = [helper EXCEPT ![m] = "none"]
  /\ \/ m \in up /\ hd[m].task # "none"
        /\ Set(m, [hd[m] EXCEPT !.timer = FALSE, !.telling = TRUE])
     \/ UNCHANGED hd
  /\ UNCHANGED <<case, up, doc, running, buried, known, watching, news>>

(* _timeout_waiting_for_restart(): the volunteer's own task has expired.   *)
WaitingTimeout(m) ==
  /\ m \in up /\ hd[m].timer /\ helper[m] = "none"
  /\ Set(m, Retry(hd[m]))
  /\ UNCHANGED <<case, up, doc, running, buried, known, watching, news, helper>>

(* _local_restart_failed() *)
RestartFailed(h) ==
  [h EXCEPT !.attempt = IF case.strategy = "wherever" THEN "moving" ELSE "burying"]

(* _restart_yourself(): a host of the shard starts the agent, or none.     *)
RestartYourself(m) ==
  /\ Attempts(m, "starting")
  /\ \/ /\ StartAgent
        /\ Set(m, [hd[m] EXCEPT !.attempt = "done", !.telling = TRUE])
     \/ Set(m, RestartFailed(hd[m])) /\ UNCHANGED <<doc, running>>
  /\ UNCHANGED <<case, up, buried, known, watching, news, helper>>

(* The strategy "wherever": the host partner and the shard are removed     *)
(* from the document, and GloballyStartAgent starts the agent somewhere or *)
(* fails; a conflict fails the task and leaves the agent dead.             *)
Move(m) ==
  /\ Attempts(m, "moving")
  /\ \/ /\ Current(m)
        /\ running' = TRUE
        /\ doc' = [doc EXCEPT !.rev = @ + 3, !.instance = @ + 1]
        /\ Set(m, [hd[m] EXCEPT !.attempt = "done", !.telling = TRUE])
     \/ /\ Current(m)
        /\ Saved(m, [hd[m] EXCEPT !.attempt = "lost"], 2)
        /\ UNCHANGED running
     \/ ~Current(m) /\ hd' = Ended(m, TRUE) /\ UNCHANGED <<doc, running>>
  /\ UNCHANGED <<case, up, buried, known, watching, news, helper>>

Listeners == {b \in Monitors : known[b] # 0}

(* _send_restarted_notifications(), stored: the death is handled, which    *)
(* ends the task when the attempt has nothing else to do.                  *)
RestartedTold(m) ==
  /\ m \in up /\ hd[m].telling
  /\ news' = news \cup Listeners
  /\ hd' = IF hd[m].attempt \in {"none", "waiting", "done"} THEN Ended(m, FALSE)
           ELSE [hd EXCEPT ![m].telling = FALSE]
  /\ UNCHANGED <<case, up, doc, running, buried, known, watching, helper>>

(* _send_buried_notifications(), stored, and the document deleted, unless  *)
(* somebody has changed it.                                                *)
BuriedTold(m) ==
  /\ Attempts(m, "burying") \/ Attempts(m, "lost")
  /\ buried' = TRUE
  /\ news' = news \cup Listeners
  /\ doc' = IF Current(m) THEN [doc EXCEPT !.deleted = TRUE] ELSE doc
  /\ hd' = IF case.strategy = "monitor" THEN [hd EXCEPT ![m].attempt = "adopting"]
           ELSE Ended(m, hd[m].attempt = "lost")
  /\ UNCHANGED <<case, up, running, known, watching, helper>>

(* The strategy "monitor": _checkup_partners() and _adopt_notifications(). *)
Adopt(m) ==
  /\ Attempts(m, "adopting")
  /\ hd' = Ended(m, FALSE)
  /\ UNCHANGED <<case, up, doc, running, buried, known, watching, news, helper>>

(* The solver of the one who resolves the death expires: the task for the  *)
(* solver cancels the call that the attempt is waiting for, once.          *)
ExpiresOver(m) ==      \* what fails is ignored, or taken for an answer
  /\ hd[m].attempt \in {"asking", "burying", "lost", "adopting", "done"}
  /\ Set(m, [hd[m] EXCEPT !.solver = "gone"])
  /\ UNCHANGED <<doc, running, helper>>

ExpiresSaving(m) ==    \* _set_restart_flag(): the save may be done or not
  /\ hd[m].attempt = "flag"
  /\ Set(m, [hd[m] EXCEPT !.solver = "gone", !.attempt = "starting"])
  /\ \/ Current(m) /\ doc' = [doc EXCEPT !.rev = @ + 1]
     \/ UNCHANGED doc
  /\ UNCHANGED <<running, helper>>

ExpiresAsking(m) ==    \* nobody's answer counts, and a partner may be at work
  /\ hd[m].attempt = "asking"
  /\ Set(m, [hd[m] EXCEPT !.solver = "gone", !.attempt = "starting"])
  /\ \/ /\ case.helpers # {} /\ hd[m].count <= MaxAttempts /\ helper[m] = "none"
        /\ helper' = [helper EXCEPT ![m] = "working"]
     \/ UNCHANGED helper
  /\ UNCHANGED <<doc, running>>

ExpiresWaiting(m) ==   \* _wait_handled() fails, the delayed call stays
  /\ hd[m].attempt = "waiting"
  /\ hd' = Closed(m, [hd[m] EXCEPT !.solver = "gone", !.task = "failed"], "broken")
  /\ UNCHANGED <<doc, running, helper>>

ExpiresStarting(m) ==  \* _local_restart_failed(), though a host may start it
  /\ hd[m].attempt = "starting"
  /\ Set(m, RestartFailed([hd[m] EXCEPT !.solver = "gone"]))
  /\ StartAgent \/ UNCHANGED <<doc, running>>
  /\ UNCHANGED helper

ExpiresMoving(m) ==    \* not a ProtocolFailed: the chain fails, and the task
  /\ hd[m].attempt \in {"moving", "adopting"}
  /\ hd' = Ended(m, TRUE)
  /\ \/ /\ hd[m].attempt = "moving" /\ Current(m)
        /\ \/ /\ running' = TRUE
              /\ doc' = [doc EXCEPT !.rev = @ + 3, !.instance = @ + 1]
           \/ doc' = [doc EXCEPT !.rev = @ + 2] /\ UNCHANGED running
     \/ UNCHANGED <<doc, running>>
  /\ UNCHANGED helper

SolverExpires(m) ==
  /\ m \in up /\ hd[m].solver = "local" /\ case.expires
  /\ \/ ExpiresOver(m) \/ ExpiresSaving(m) \/ ExpiresAsking(m) \/ ExpiresWaiting(m)
     \/ ExpiresStarting(m) \/ ExpiresMoving(m)
  /\ UNCHANGED <<case, up, buried, known, watching, news>>

-----------------------------------------------------------------------------
(* A 'restarted' or 'buried' notification reaches a monitor.               *)
Hear(m) ==
  /\ m \in news \cap up
  /\ news' = news \ {m}
  /\ known' = [known EXCEPT ![m] = IF buried THEN 0 ELSE doc.instance]
  /\ watching' = IF buried THEN watching \ {m} ELSE watching
  /\ UNCHANGED <<case, up, doc, running, buried, helper, hd>>

(* A monitor dies; nothing that it was doing is stored. *)
MonitorCrash(m) ==
  /\ m \in up /\ case.crashes > 0
  /\ case' = [case EXCEPT !.crashes = @ - 1]
  /\ up' = up \ {m}
  /\ Set(m, Idle)
  /\ UNCHANGED <<doc, running, buried, known, watching, news, helper>>

DeathInit ==
  /\ case \in Cases
  /\ up = Monitors
  /\ doc = [rev |-> 1, instance |-> 1, deleted |-> FALSE]
  /\ running = FALSE /\ buried = FALSE
  /\ known = [m \in Monitors |-> IF m \in Partnered THEN 1 ELSE 0]
  /\ watching = Partnered
  /\ news = {}
  /\ helper = [m \in Monitors |-> "none"]
  /\ hd = [m \in Monitors |-> Idle]

TaskSteps(m) ==
  \/ HandleAgentDeath(m) \/ FetchDescriptor(m)
  \/ HandlingDeathRequested(m) \/ AnnounceExpires(m) \/ GrantExpires(m)
  \/ RestartHandled(m)

AttemptSteps(m) ==
  \/ SetRestartFlag(m) \/ PartnersAnswer(m) \/ HelperEnds(m) \/ RestartComplete(m)
  \/ WaitingTimeout(m) \/ RestartYourself(m) \/ Move(m)
  \/ RestartedTold(m) \/ BuriedTold(m) \/ Adopt(m) \/ SolverExpires(m)

DeathNext ==
  \E m \in Monitors : TaskSteps(m) \/ AttemptSteps(m) \/ Hear(m) \/ MonitorCrash(m)

DeathSpec == DeathInit /\ [][DeathNext]_deathVars

-----------------------------------------------------------------------------
DeathTypeOK ==
  /\ case \in Case /\ up \subseteq Monitors
  /\ doc \in [rev : Nat, instance : Nat, deleted : BOOLEAN]
  /\ running \in BOOLEAN /\ buried \in BOOLEAN
  /\ known \in [Monitors -> Nat]
  /\ watching \subseteq Monitors /\ news \subseteq Monitors
  /\ helper \in [Monitors -> {"none", "working", "reporting"}]
  /\ hd \in [Monitors -> Handlers]

(* No announcement is lost, and all monitors but one, who may have asked   *)
(* for the agent to be handled, are partners in its descriptor.            *)
Heard ==
  /\ \A c \in Cases : ~c.lost
  /\ \A m, n \in Monitors \ ToSet(Brothers) : m = n

(* All brothers are partners, and nobody changes the document of an agent  *)
(* that may be moved but the one who moves it.  If monitors crash, nothing *)
(* takes longer than the solvers of the others have time for; if none      *)
(* does, any grant may be late and any solver may expire.                  *)
Mild ==
  /\ Heard /\ ToSet(Brothers) \subseteq Partnered
  /\ \A c \in Cases :
       /\ c.expires => c.crashes = 0 /\ c.strategy # "wherever"
       /\ ~c.expires => c.slow + c.crashes < Tries
       /\ c.strategy = "wherever" => c.crashes = 0 /\ "touches" \notin c.helpers

(* One monitor resolves a death: the solvers of the others wait for it, or *)
(* for one who waits for it, also when monitors crash or solvers expire.   *)
Resolver(m) == hd[m].solver = "local" \/ hd[m].attempt # "none"
OneResolver == \A m, n \in up : Resolver(m) /\ Resolver(n) => m = n

Settled == running \/ buried

(* Does a monitor do something about the death, other than to wait for     *)
(* another one?                                                            *)
Works(m) ==
  \/ hd[m].task = "fetching"
  \/ hd[m].solver = "announced"
  \/ hd[m].attempt = "waiting" /\ (hd[m].timer \/ helper[m] # "none")
  \/ hd[m].attempt \notin {"none", "waiting", "done"}
  \/ hd[m].telling

InProgress(m) == Works(m) \/ hd[m].solver = "granted"

(* No monitor is left with a death that nobody resolves: a task that has   *)
(* failed, or whose solver has expired, stays in handler_tasks and keeps   *)
(* all later reports of the death from being handled.  Then somebody else  *)
(* works on it, or the same monitor though its task has failed.            *)
NeverStranded ==
  \A m \in up : hd[m].task # "none" /\ ~Settled =>
    InProgress(m) \/ \E r \in up : Works(r)

(* The handling of a death is one monitor's affair and comes to an end.    *)
DeathSafe == OneResolver /\ NeverStranded

(* A monitor's task ends well only when the agent has been restarted or    *)
(* buried, whoever did it.                                                 *)
EndsWhenSettled ==
  [][\A m \in up \cap up' : hd[m].task # "none" /\ hd'[m].task = "none" => Settled']_deathVars

-----------------------------------------------------------------------------
(* What the code says and does not do *)

(* agents/monitor/monitor_agent.py, handling_death_requested(): "we don't  *)
(* yet know about the death or we have already solved it we need to check  *)
(* the instance_id to know which is the case".                             *)
NoLiveAgentRestarted ==
  [][doc'.instance > doc.instance => ~running]_deathVars

(* The same, HandleDeath: "the restart of agent[id=agent_id] has been      *)
(* completed. This lets us terminate our HandleDeath task"                 *)
NoTaskLeft == \A m \in up : hd[m].task # "none" => InProgress(m)

(* Somebody remembers the death until it is settled.                       *)
DeathRemembered ==
  Settled \/ up = {} \/ watching \cap up # {} \/ \E m \in up : hd[m].task # "none"
=============================================================================
