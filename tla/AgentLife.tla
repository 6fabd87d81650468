------------------------------- MODULE AgentLife -------------------------------
(***************************************************************************)
(* One agent in its agency (agencies/agency.py, AgencyAgent): the chain    *)
(* that starts it, the registry of its protocols, its delayed calls, and   *)
(* the procedure that terminates it.  Its protocols are tasks              *)
(* (agencies/tasks.py), started by the agent or by a retrying protocol     *)
(* (agencies/retrying.py), which starts another task when one has failed.  *)
(*                                                                         *)
(* Most of this is chains of callbacks: the end of the last protocol goes  *)
(* on with the termination before it tells the one who waits for that      *)
(* protocol.  So an operation is a function from the state s to the state  *)
(* after it, and an action is one turn of the reactor.                     *)
(***************************************************************************)
EXTENDS AgencyMiddle, Integers, Sequences, SequencesExt, FiniteSets

CONSTANTS
  MaxTasks,     \* bound: tasks that the agent starts itself
  Retrying,     \* retrying protocols: the agent starts each of them at most once
  MaxRetries,   \* max_retries of each of them
  AlertAfter,   \* alert_after of each of them
  Habits        \* what the surroundings do: kill the agent while it starts up
                \* ("early") or between a call_next() and its call ("abrupt"), start tasks while its tasks are killed ("restless")
                \* or retrying protocols in its shutdown ("persistent"), cancel
                \* retrying protocols ("cancel")

ASSUME MaxTasksAssumption == MaxTasks \in Nat
ASSUME MaxRetriesAssumption == MaxRetries \in Nat
ASSUME AlertAfterAssumption == AlertAfter \in Nat
ASSUME HabitsAssumption == Habits \subseteq {"early", "abrupt", "restless", "persistent", "cancel"}

VARIABLES
  life,     \* AgencyAgentState
  boot,     \* how far the chain of initiate() has come
  death,    \* how far _terminate_procedure() has come, and which one it is
  links,    \* the connections to messaging and database that are open
  calls,    \* _delayed_calls
  task,     \* the medium of each task
  info,     \* of each task: may it be cancelled, has it failed
  long,     \* _long_running_protocols, in order
  retry     \* the retrying protocols

vars == <<life, boot, death, links, calls, task, info, long, retry>>

(* A task is known by who starts it and when. *)
Agent == "agent"
Lives == {"not_initiated", "initiating", "initiated", "starting_up", "ready",
          "disconnected", "terminating", "terminated"}
Tasks == ({Agent} \X (1..MaxTasks)) \cup (Retrying \X (1..(MaxRetries + 2)))
ASSUME RetryingAssumption ==
  IsFiniteSet(Retrying) /\ Retrying \cap (Tasks \cup {Agent, "boot", "startup", "terminate"}) = {}

Connections == {"messaging", "database"}
BootStages == {"idle", "messaging", "descriptor", "lock", "configuration", "initiate",
               "called", "startup", "done", "failed"}
DeathStages == {"none", "cancel", "kill", "body", "rekill", "done"}
TaskHooks == {"initiate", "expired", "cancel"}
TaskState == {"performing", "completed", "expired", "error"}

State == [life |-> life, boot |-> boot, death |-> death, links |-> links, calls |-> calls,
          task |-> task, info |-> info, long |-> long, retry |-> retry]
Become(next) ==
  \E s \in {next} :
    /\ life' = s.life /\ boot' = s.boot /\ death' = s.death /\ links' = s.links
    /\ calls' = s.calls /\ task' = s.task /\ info' = s.info /\ long' = s.long
    /\ retry' = s.retry

Registered(s) == {t \in Tasks : s.task[t].registered}
NotListed(s, p) == [s EXCEPT !.long = RemoveFirst(@, p)]

-----------------------------------------------------------------------------
(* AgencyTask *)

(* The first result that a medium is finalized with stays. *)
Update(s, t, medium, failed) ==
  [s EXCEPT !.task[t] = medium, !.info[t].failed = IF s.task[t].final THEN @ ELSE failed]

TaskQueue(p, hook) == AddJob(p, Job(hook, AnyState, "queued", hook = "cancel"))

(* initiate_protocol() with the initiate() of the medium that it creates.  *)
(* The timer is never due if the task has no timeout.                      *)
NewTask ==
  LET p == [NoMedium EXCEPT !.state = "performing", !.registered = TRUE]
  IN  TaskQueue(SetTimeout(p, "expired", "expired"), "initiate")

InitiateTask(s, t, busy) ==
  [s EXCEPT !.task[t] = NewTask, !.info[t].busy = busy, !.long = Append(@, t)]

CleanupTask(s, t) == Update(s, t, Cleanup(s.task[t]), TRUE)

(* Mutant: a task that has finished is cancelled again. *)
CancelFinishedTask(s, t) ==
  IF s.info[t].busy THEN s ELSE [s EXCEPT !.task[t] = TaskQueue(@, "cancel")]

(* cancel() of the medium: a busy task cannot be cancelled. *)
CancelTask(s, t) ==
  IF s.info[t].busy \/ s.task[t].final THEN s
  ELSE [s EXCEPT !.task[t] = TaskQueue(@, "cancel")]

TaskTerminated(s, t) == Update(s, t, Finalize(SetState(s.task[t], "completed")), FALSE)
TaskFailed(s, t) == Update(s, t, Finalize(SetState(s.task[t], "error")), TRUE)

(* The agent's initiate() returns a result: NOT_DONE_YET or another. *)
TaskInitiated(s, t, done) ==
  IF done /\ s.task[t].state = "performing" THEN TaskTerminated(s, t) ELSE s

(* _expired(), called by the timer: the result of expired() is not awaited *)
(* by anybody else.                                                        *)
TaskExpired(s, t) ==
  [s EXCEPT !.task[t] = TaskQueue(SetState(@, "expired"), "expired")]

JobEnds(s, t, j, done) ==
  LET c == [s EXCEPT !.task[t] = DropJob(@, j)]
  IN  CASE j.phase = "timeout" /\ Ready(c.task[t], j) -> TaskExpired(c, t)
        [] j.phase = "timeout" /\ ~Ready(c.task[t], j) -> c
        [] j.phase # "timeout" /\ j.hook = "initiate" -> TaskInitiated(c, t, done)
        [] j.phase # "timeout" /\ j.hook = "expired" -> Update(c, t, Finalize(c.task[t]), TRUE)
        [] j.phase # "timeout" /\ j.hook = "cancel" -> TaskTerminated(c, t)

-----------------------------------------------------------------------------
(* RetryingProtocol *)

NewRetry ==
  [started |-> FALSE, bound |-> FALSE, attempt |-> 0, max |-> MaxRetries, delayed |-> FALSE,
   initiator |-> FALSE, waiting |-> FALSE, tell |-> None, told |-> 0, cancelled |-> FALSE,
   alert |-> FALSE]

Attempt(s, r) == <<r, s.retry[r].attempt>>

(* _bind() *)
Bind(s, r, busy) ==
  LET c == [s EXCEPT !.retry[r].attempt = @ + 1, !.retry[r].initiator = TRUE]
  IN  InitiateTask(c, Attempt(c, r), busy)

TriggerCallbacks(s, r, result) ==
  IF s.retry[r].waiting
  THEN [s EXCEPT !.retry[r].waiting = FALSE, !.retry[r].tell = result] ELSE s

(* Mutant: the attempt after the alert does not resolve it. *)
SucceedLate(s, r) ==
  TriggerCallbacks([s EXCEPT !.retry[r].alert = @ /\ s.retry[r].attempt <= AlertAfter + 1], r, "ok")

(* _finalize() *)
RetrySucceeded(s, r) ==
  TriggerCallbacks([s EXCEPT !.retry[r].alert = @ /\ s.retry[r].attempt <= AlertAfter], r, "ok")

WaitAndRetry(s, r) ==
  LET c == [s EXCEPT !.retry[r].initiator = FALSE,
                     !.retry[r].alert = @ \/ s.retry[r].attempt >= AlertAfter]
  IN  IF c.retry[r].attempt > c.retry[r].max THEN TriggerCallbacks(c, r, "failed")
      ELSE [c EXCEPT !.calls = @ \cup {r}, !.retry[r].delayed = TRUE]

(* Mutant: max_retries stays. *)
CancelAttempt(s, r) ==
  LET n == NotListed([s EXCEPT !.retry[r].waiting = FALSE, !.retry[r].cancelled = TRUE], r)
  IN  IF s.retry[r].delayed THEN [n EXCEPT !.calls = @ \ {r}, !.retry[r].delayed = FALSE]
      ELSE IF n.retry[r].initiator THEN CleanupTask(n, Attempt(n, r)) ELSE n

(* cancel(): delayed is never reset when the call is made, so from the     *)
(* second attempt on nothing but max_retries changes.                      *)
CancelRetry(s, r) ==
  LET c == [s EXCEPT !.retry[r].max = s.retry[r].attempt - 1, !.retry[r].cancelled = TRUE]
      n == IF c.retry[r].waiting THEN NotListed([c EXCEPT !.retry[r].waiting = FALSE], r) ELSE c
  IN  IF c.retry[r].delayed THEN [c EXCEPT !.calls = @ \ {r}, !.retry[r].delayed = FALSE]
      ELSE IF n.retry[r].initiator THEN CleanupTask(n, Attempt(n, r)) ELSE n

-----------------------------------------------------------------------------
(* _terminate_procedure() *)

Cancel(s, p) == IF p \in Retrying THEN CancelRetry(s, p) ELSE CancelTask(s, p)

(* The loop is over the list itself, from which cancel() may remove the    *)
(* protocol it is called on: the next one is passed over.                  *)
CancelNth(s, n) == IF n > Len(s.long) THEN s ELSE Cancel(s, s.long[n])
CancelLongRunning(s) ==
  LET After[n \in 0..Len(s.long)] == IF n = 0 THEN s ELSE CancelNth(After[n - 1], n)
  IN  After[Len(s.long)]

CancelAllDelayedCalls(s) == [s EXCEPT !.calls = {}]

(* _kill_all_protocols(), when there are any. *)
KillProtocols(s, stage) ==
  [s EXCEPT !.death.stage = stage,
            !.task = [t \in Tasks |-> IF @[t].registered THEN Cleanup(@[t]) ELSE @[t]],
            !.info = [t \in Tasks |-> [s.info[t] EXCEPT !.failed =
                        @ \/ (s.task[t].registered /\ ~s.task[t].final)]]]

Unregistered(s) ==
  [s EXCEPT !.life = "terminated", !.death.stage = "done", !.links = @ \ s.death.held]

(* Mutant: what shutdown_agent() started is left alone. *)
AfterBodyAtOnce(s) == Unregistered(s)
AfterBody(s) == IF Registered(s) # {} THEN KillProtocols(s, "rekill") ELSE Unregistered(s)
AfterKill(s) == [CancelAllDelayedCalls(s) EXCEPT !.death.stage = "body"]
AfterCancel(s) ==
  LET c == CancelAllDelayedCalls(s)
  IN  IF Registered(c) # {} THEN KillProtocols(c, "kill") ELSE AfterKill(c)

(* The list of cancel() calls is waited for. *)
Cancelling(s) == \E t \in Tasks : \E j \in s.task[t].jobs : j.hook = "cancel"
Progress(s) == IF s.death.stage = "cancel" /\ ~Cancelling(s) THEN AfterCancel(s) ELSE s

(* Mutant: terminate() is not obeyed before the agent is ready. *)
TerminateReady(s) ==
  IF s.life \notin {"ready", "disconnected"} THEN s
  ELSE Progress(CancelLongRunning(
         [s EXCEPT !.life = "terminating", !.death = [stage |-> "cancel", held |-> s.links]]))

TerminateProcedure(s) ==
  IF s.life \in {"terminating", "terminated"} THEN s
  ELSE Progress(CancelLongRunning(
         [s EXCEPT !.life = "terminating", !.death = [stage |-> "cancel", held |-> s.links]]))

(* Mutant: only the first wait is ended. *)
UnregisterOnce(s, t) ==
  LET c == [s EXCEPT !.task[t] = Unregister(@)]
  IN  IF Registered(c) = {} /\ c.death.stage = "kill" THEN AfterKill(c) ELSE c

(* unregister_protocol(): the procedure waits for the last one. *)
UnregisterProtocol(s, t) ==
  LET c == [s EXCEPT !.task[t] = Unregister(@)]
  IN  IF Registered(c) # {} THEN c
      ELSE CASE c.death.stage = "kill" -> AfterKill(c)
             [] c.death.stage = "rekill" -> Unregistered(c)
             [] OTHER -> c

(* The notifier of a task: the agency first, then the retrying protocol.   *)
NotifyFinish(s, t) ==
  LET c == NotListed(UnregisterProtocol(s, t), t)
      r == t[1]
  IN  IF r = Agent THEN c
      ELSE IF s.info[t].failed THEN WaitAndRetry(c, r) ELSE RetrySucceeded(c, r)

-----------------------------------------------------------------------------
(* The start of the agent *)

Acting == life \in {"initiating", "initiated", "starting_up", "ready", "disconnected"}

Started == "early" \in Habits \/ boot \in {"done", "failed"}

Undisturbed == "abrupt" \in Habits \/ \A r \in Retrying : ~retry[r].bound

BootCall ==
  /\ "boot" \in calls
  /\ calls' = calls \ {"boot"} /\ boot' = "messaging"
  /\ UNCHANGED <<life, death, links, task, info, long, retry>>

(* What the chain waits for is done, and it goes on to the next wait. *)
BootStep ==
  /\ \/ /\ boot = "messaging" /\ boot' = "descriptor" /\ links' = links \cup Connections
        /\ UNCHANGED <<life, calls>>
     \/ /\ \/ boot = "descriptor" /\ boot' = "lock"
           \/ boot = "lock" /\ boot' = "configuration"
        /\ UNCHANGED <<life, calls, links>>
     \/ /\ boot = "configuration" /\ boot' = "initiate" /\ life' = "initiating"
        /\ UNCHANGED <<calls, links>>
     \/ /\ boot = "initiate" /\ boot' = "called" /\ life' = "initiated"
        /\ calls' = calls \cup {"startup"}
        /\ UNCHANGED links
     \/ /\ boot = "startup" /\ boot' = "done" /\ life' = "ready"
        /\ UNCHANGED <<calls, links>>
  /\ UNCHANGED <<death, task, info, long, retry>>

CallStartup ==
  /\ "startup" \in calls
  /\ calls' = calls \ {"startup"} /\ boot' = "startup" /\ life' = "starting_up"
  /\ UNCHANGED <<death, links, task, info, long, retry>>

(* _startup_error() *)
BootFails ==
  /\ boot \notin {"idle", "called", "done", "failed"}
  /\ boot' = "failed" /\ calls' = calls \cup {"terminate"}
  /\ UNCHANGED <<life, death, links, task, info, long, retry>>

(* Mutant: an agent in any state is disconnected, *)
DisconnectAny ==
  /\ life # "disconnected" /\ life' = "disconnected"
  /\ UNCHANGED <<boot, death, links, calls, task, info, long, retry>>

(* or its delayed calls are cancelled. *)
DisconnectCalls ==
  /\ life = "ready" /\ life' = "disconnected" /\ calls' = {}
  /\ UNCHANGED <<boot, death, links, task, info, long, retry>>

OnDisconnect ==
  /\ life = "ready" /\ life' = "disconnected"
  /\ UNCHANGED <<boot, death, links, calls, task, info, long, retry>>

OnReconnect ==
  /\ life = "disconnected" /\ life' = "ready"
  /\ UNCHANGED <<boot, death, links, calls, task, info, long, retry>>

(* Its end *)

(* terminate_hard() and on_killed() of the medium; _terminate() of the     *)
(* agency's shutdown goes the same way.                                    *)
Kill ==
  /\ life \notin {"terminating", "terminated"}
  /\ Started /\ Undisturbed
  /\ Become(TerminateProcedure(State))

Terminate ==
  /\ Acting /\ Started
  /\ calls' = calls \cup {"terminate"}
  /\ UNCHANGED <<life, boot, death, links, task, info, long, retry>>

TerminateCall ==
  /\ "terminate" \in calls /\ Undisturbed
  /\ Become(TerminateProcedure([State EXCEPT !.calls = @ \ {"terminate"}]))

(* The agent's on_agent_killed() or shutdown_agent(), with the deletion of *)
(* the descriptor, has ended or failed.                                    *)
BodyEnds ==
  /\ death.stage = "body"
  /\ Become(AfterBody(State))

(* What the agent does *)

StartTask(t) ==
  /\ t[1] = Agent /\ task[t].state = None
  /\ \A u \in Tasks : u[1] = Agent /\ u[2] < t[2] => task[u].state # None
  /\ \/ Acting \/ death.stage = "body"
     \/ ("restless" \in Habits /\ death.stage \in {"kill", "rekill"})
  /\ \E busy \in BOOLEAN : Become(InitiateTask(State, t, busy))

StartRetrying(r) ==
  /\ ~retry[r].started
  /\ Acting \/ ("persistent" \in Habits /\ death.stage = "body")
  /\ long' = Append(long, r)
  /\ retry' = [retry EXCEPT ![r].started = TRUE, ![r].bound = TRUE, ![r].waiting = TRUE]
  /\ UNCHANGED <<life, boot, death, links, calls, task, info>>

CancelRetrying(r) ==
  /\ "cancel" \in Habits /\ Acting /\ retry[r].started /\ ~retry[r].cancelled
  /\ Become(CancelRetry(State, r))

TaskTerminate(t) ==
  /\ task[t].registered /\ Become(Progress(TaskTerminated(State, t)))

TaskFail(t) ==
  /\ task[t].registered /\ Become(Progress(TaskFailed(State, t)))

(* What the reactor does *)

TaskTimeout(t) ==
  /\ task[t].timer # NoTimer
  /\ task' = [task EXCEPT ![t] = TimeoutTarget(@)]
  /\ UNCHANGED <<life, boot, death, links, calls, info, long, retry>>

TaskJobEnds(t, j) == \E done \in BOOLEAN : Become(Progress(JobEnds(State, t, j, done)))

TaskJobFails(t, j) ==
  /\ j.phase # "timeout"
  /\ Become(Progress(Update(State, t, FailJob(task[t], j, "error"), TRUE)))

TaskGone(t) ==
  /\ task[t].final /\ task[t].registered
  /\ Become(NotifyFinish(State, t))

(* The first attempt is not among the delayed calls of the agent. *)
FirstBind(r) ==
  /\ retry[r].bound
  /\ \E busy \in BOOLEAN :
       Become(Bind([State EXCEPT !.retry[r].bound = FALSE], r, busy))

NextBind(r) ==
  /\ r \in calls
  /\ \E busy \in BOOLEAN : Become(Bind([State EXCEPT !.calls = @ \ {r}], r, busy))

RetryTold(r) ==
  /\ retry[r].tell # None
  /\ Become(NotListed([State EXCEPT !.retry[r].tell = None, !.retry[r].told = @ + 1], r))

-----------------------------------------------------------------------------
Init ==
  /\ life = "not_initiated" /\ boot = "idle" /\ death = [stage |-> "none", held |-> {}]
  /\ links = {} /\ calls = {"boot"} /\ long = <<>>
  /\ task = [t \in Tasks |-> NoMedium]
  /\ info = [t \in Tasks |-> [busy |-> FALSE, failed |-> FALSE]]
  /\ retry = [r \in Retrying |-> NewRetry]

Next ==
  \/ BootCall \/ BootStep \/ CallStartup \/ BootFails \/ OnDisconnect \/ OnReconnect
  \/ Kill \/ Terminate \/ TerminateCall \/ BodyEnds
  \/ \E t \in Tasks :
       \/ StartTask(t) \/ TaskTerminate(t) \/ TaskFail(t) \/ TaskTimeout(t) \/ TaskGone(t)
       \/ \E j \in task[t].jobs : TaskJobEnds(t, j) \/ TaskJobFails(t, j)
  \/ \E r \in Retrying :
       StartRetrying(r) \/ CancelRetrying(r) \/ FirstBind(r) \/ NextBind(r) \/ RetryTold(r)

Spec == Init /\ [][Next]_vars

(* The state has its type; above all, a registered task is the one that    *)
(* its retrying protocol waits for, and no medium was called once it was   *)
(* finalized.                                                              *)
TypeOK ==
  /\ life \in Lives /\ boot \in BootStages /\ links \subseteq Connections
  /\ death \in [stage : DeathStages, held : SUBSET Connections]
  /\ calls \subseteq {"boot", "startup", "terminate"} \cup Retrying
  /\ task \in [Tasks -> MediumSet(TaskHooks, TaskState, {Timer("expired", "expired")})]
  /\ info \in [Tasks -> [busy : BOOLEAN, failed : BOOLEAN]]
  /\ long \in Seq(Tasks \cup Retrying)
  /\ \A t \in Tasks : ~task[t].asserted
  /\ \A r \in Retrying, n \in 1..(MaxRetries + 2) :
       task[<<r, n>>].registered => retry[r].initiator /\ retry[r].attempt = n

-----------------------------------------------------------------------------
(* interface/agent.py: "terminated - Agent is terminated and unregistered".*)
(* _terminate_procedure(): "Cancel all long running protocols", "Kill all  *)
(* protocols".  Nothing goes on in an agent that is terminated, and nothing *)
(* will be started in it, but a retrying protocol that the loop has passed *)
(* over: it was not cancelled, and another one was.                        *)
Left == calls \cup {t[1] : t \in Registered(State)}
Quiet ==
  life = "terminated" =>
    /\ links = {} /\ \A r \in Retrying : ~retry[r].bound
    /\ \A r \in Left : r \in Retrying /\ ~retry[r].cancelled
    /\ Left # {} => \E r \in Retrying : retry[r].cancelled

(* cancel() of a retrying protocol: there is no attempt after it, but for  *)
(* the first.                                                              *)
CancelStops ==
  [][\A r \in Retrying :
       retry[r].cancelled /\ retry[r].attempt > 0 => retry'[r].attempt = retry[r].attempt]_vars

(* _wait_and_retry(): while somebody waits for a retrying protocol that was *)
(* not cancelled there is an attempt, or a call that will make one, unless *)
(* the agent goes away.                                                    *)
NeverStranded ==
  \A r \in Retrying :
    retry[r].waiting /\ life \notin {"terminating", "terminated"} =>
      \/ retry[r].bound \/ r \in calls \/ retry[r].cancelled
      \/ retry[r].initiator /\ task[Attempt(State, r)].registered

(* alert_after: the alert that failures have raised is resolved by the     *)
(* attempt that succeeds.                                                  *)
AlertResolved == \A r \in Retrying : retry[r].tell = "ok" => ~retry[r].alert

(* A retrying protocol goes on until it has succeeded, given up or been    *)
(* cancelled, and then it stops.                                           *)
RetriesSound == [](NeverStranded /\ AlertResolved) /\ CancelStops

(* interface/agent.py, AgencyAgentState: the states of the agent go the    *)
(* way that those who watch them expect.                                   *)
Promised == INSTANCE AgentLifeCycle
ImplementsLifeCycle == Promised!LifeSpec

-----------------------------------------------------------------------------
(* Delayed calls are made, hooks end, notifiers fire: as long as anything   *)
(* is due, now and then something that is due is done.                     *)
Due ==
  UNION { {<<"call", c>> : c \in {d \in calls : d = "terminate" /\ Undisturbed}},
          {<<"body", c>> : c \in {d \in {death.stage} : d = "body"}},
          {<<"bind", r>> : r \in {q \in Retrying : retry[q].bound}},
          {<<"gone", t>> : t \in {u \in Registered(State) : task[u].final}},
          UNION { {<<"job", t, j>> : j \in task[t].jobs} : t \in Tasks } }
Fairness == []<>(Due = {}) \/ []<><<Due \ Due' # {}>>_vars
FairSpec == Spec /\ Fairness

(* _terminate_procedure() does not wait for ever for the protocols that it *)
(* cancels and kills.                                                      *)
TerminationEnds == life = "terminating" ~> life = "terminated"

(* AgencyAgent.terminate(): an agent that is told to go, or that could not *)
(* start, does go.                                                         *)
TerminateIsObeyed == "terminate" \in calls ~> life \in {"terminating", "terminated"}

(* An agent that is told to go is terminated in the end.                   *)
GoesWhenTold == TerminateIsObeyed /\ TerminationEnds
=============================================================================
