-------------------------------- MODULE Requests --------------------------------
(***************************************************************************)
(* The request protocol (agencies/requests.py) between some requesters and *)
(* one agent, whose DialogInterest (agencies/protocols.py) creates one     *)
(* replier for each request and never more than Concurrency at a time.     *)
(* As in Contract, the agents may call the media at any time, messages are *)
(* delivered in any order and possibly never, and a message is taken at    *)
(* most once.                                                              *)
(***************************************************************************)
EXTENDS AgencyMiddle, FiniteSets, Naturals

CONSTANTS
  Requesters,    \* the requests: each requester posts one
  Concurrency,   \* the interest's limit on concurrent repliers
  MaxReplies,    \* bound: how often the agent calls reply() for one request
  AgentDies      \* the agency may kill the replying agent

ASSUME RequestersAssumption == IsFiniteSet(Requesters)
ASSUME ConcurrencyAssumption == Concurrency \in Nat \ {0}
ASSUME MaxRepliesAssumption == MaxReplies \in Nat
ASSUME AgentDiesAssumption == AgentDies \in BOOLEAN

VARIABLES
  req,      \* the medium of each requester
  rep,      \* the medium of the replier of each request
  asked,    \* the requests that have been posted
  taken,    \* the requests the agent's channel has taken
  replies,  \* the number of replies posted to each requester
  heard,    \* the replies each requester's channel has taken
  queue,    \* the interest's queue of requests
  active,   \* the interest's count of running repliers
  calls,    \* the requests whose call_next(medium.on_message) is pending
  open      \* the interest has not been revoked

requestVars == <<req, asked, heard>>
interestVars == <<queue, active, calls, open>>
vars == <<requestVars, rep, taken, replies, interestVars>>

RequestState == {"requested", "closed", "wtf"}
RequesterHooks == {"initiate", "got_reply", "closed"}
ReplierHooks == {"requested", "finalize"}
RequesterTimers == {Timer("closed", "closed")}
ReplierTimers == {Timer("closed", "finalize")}

-----------------------------------------------------------------------------
(* AgencyRequester *)

(* Mutant: the requester waits for its reply without a timeout. *)
NewRequesterUntimed ==
  CallAgentSide([NoMedium EXCEPT !.state = "requested", !.registered = TRUE],
                "initiate", "requested")

NewRequester ==
  CallAgentSide(SetTimeout([NoMedium EXCEPT !.state = "requested", !.registered = TRUE],
                           "closed", "closed"),
                "initiate", "requested")

Request(q) ==
  /\ req[q].state = "requested" /\ q \notin asked
  /\ asked' = asked \cup {q}
  /\ UNCHANGED <<req, heard, rep, taken, replies, interestVars>>

(* Mutant: the timeout goes on while the agent handles the reply. *)
OnReplyTimed(q) ==
  /\ req[q].registered /\ req[q].state = "requested"
  /\ heard[q] < replies[q]
  /\ heard' = [heard EXCEPT ![q] = @ + 1]
  /\ req' = [req EXCEPT ![q] = RunAndTerminate(@, "got_reply", "requested")]
  /\ UNCHANGED <<asked, rep, taken, replies, interestVars>>

(* The state stays "requested", so that another reply is handled as well. *)
OnReply(q) ==
  /\ req[q].registered /\ req[q].state = "requested"
  /\ heard[q] < replies[q]
  /\ heard' = [heard EXCEPT ![q] = @ + 1]
  /\ req' = [req EXCEPT ![q] = RunAndTerminate(CancelTimeout(@), "got_reply", "requested")]
  /\ UNCHANGED <<asked, rep, taken, replies, interestVars>>

RequesterTimeout(q) ==
  /\ req[q].timer # NoTimer
  /\ req' = [req EXCEPT ![q] = TimeoutTarget(@)]
  /\ UNCHANGED <<asked, heard, rep, taken, replies, interestVars>>

(* The callback of the timer is _run_and_terminate of closed(). *)
RequesterCallback(p, j) == IF Ready(p, j) THEN RunAndTerminate(p, j.hook, AnyState) ELSE p

RequesterJob(q, j) ==
  /\ req' = [req EXCEPT ![q] = CASE j.phase = "timeout" -> RequesterCallback(DropJob(@, j), j)
                                 [] j.phase = "queued"  -> StartJob(@, j)
                                 [] j.phase = "running" -> EndJob(@, j)]
  /\ UNCHANGED <<asked, heard, rep, taken, replies, interestVars>>

RequesterJobFails(q, j) ==
  /\ j.phase = "running"
  /\ req' = [req EXCEPT ![q] = FailJob(@, j, "wtf")]
  /\ UNCHANGED <<asked, heard, rep, taken, replies, interestVars>>

RequesterGone(q) ==
  /\ req[q].final /\ req[q].registered
  /\ req' = [req EXCEPT ![q] = Unregister(@)]
  /\ UNCHANGED <<asked, heard, rep, taken, replies, interestVars>>

-----------------------------------------------------------------------------
(* The interest *)

NewReplier == [NoMedium EXCEPT !.state = "requested", !.registered = TRUE]

(* _process_message(): the replier is created at once, the message is      *)
(* handed to it by a later call.                                           *)
Process(q, r) ==
  /\ rep' = [r EXCEPT ![q] = NewReplier]
  /\ calls' = calls \cup {q}

(* A request that is expired when it is queued is one that expires there. *)
ScheduleMessage(q) ==
  /\ open /\ q \in asked \ taken
  /\ taken' = taken \cup {q}
  /\ IF active >= Concurrency
     THEN queue' = queue \cup {q} /\ UNCHANGED <<rep, calls, active>>
     ELSE Process(q, rep) /\ active' = active + 1 /\ UNCHANGED queue
  /\ UNCHANGED <<requestVars, replies, open>>

(* Mutant: a finalized replier is processed again. *)
MessageProcessedTwice(q) ==
  /\ rep[q].final
  /\ active' = active - 1
  /\ rep' = [rep EXCEPT ![q] = Unregister(@)]
  /\ UNCHANGED <<requestVars, taken, replies, queue, calls, open>>

(* Mutant: the slot is not released before it is given away. *)
MessageProcessedLeaks(q) ==
  /\ rep[q].final /\ rep[q].registered
  /\ IF queue = {}
     THEN /\ active' = active - 1
          /\ rep' = [rep EXCEPT ![q] = Unregister(@)]
          /\ UNCHANGED <<queue, calls>>
     ELSE \E n \in queue :
            /\ queue' = queue \ {n} /\ active' = active + 1
            /\ Process(n, [rep EXCEPT ![q] = Unregister(@)])
  /\ UNCHANGED <<requestVars, taken, replies, open>>

(* Mutant: the queue is not looked at when a replier ends. *)
MessageProcessedOnly(q) ==
  /\ rep[q].final /\ rep[q].registered
  /\ active' = active - 1
  /\ rep' = [rep EXCEPT ![q] = Unregister(@)]
  /\ UNCHANGED <<requestVars, taken, replies, queue, calls, open>>

(* _message_processed(), by the notifier of finalize(): the slot is given  *)
(* to a queued request, or freed if the queue is empty or every request in *)
(* it has expired; then the replier is unregistered.                       *)
MessageProcessed(q) ==
  LET r == [rep EXCEPT ![q] = Unregister(@)]
  IN  /\ rep[q].final /\ rep[q].registered
      /\ \/ /\ active' = active - 1 /\ queue' = {}
            /\ rep' = r /\ UNCHANGED calls
         \/ \E n \in queue, expired \in SUBSET queue :
              /\ n \notin expired
              /\ queue' = queue \ (expired \cup {n})
              /\ Process(n, r)
              /\ UNCHANGED active
      /\ UNCHANGED <<requestVars, taken, replies, open>>

(* _kill_all_protocols(), with the pending calls that it cancels. *)
KillAgent ==
  /\ AgentDies /\ open
  /\ open' = FALSE /\ queue' = {} /\ calls' = {}
  /\ rep' = [q \in Requesters |-> IF rep[q].registered THEN Cleanup(rep[q]) ELSE rep[q]]
  /\ UNCHANGED <<requestVars, taken, replies, active>>

-----------------------------------------------------------------------------
(* AgencyReplier *)

OnRequest(q) ==
  /\ q \in calls
  /\ calls' = calls \ {q}
  /\ rep' = [rep EXCEPT ![q] = IF @.state = "requested"
                               THEN CallAgentSide(SetTimeout(@, "closed", "finalize"),
                                                  "requested", "requested")
                               ELSE @]
  /\ UNCHANGED <<requestVars, taken, replies, queue, active, open>>

(* Mutant: the replier is closed but not finalized. *)
ReplyKept(q) ==
  /\ rep[q].state # None /\ q \notin calls
  /\ replies[q] < MaxReplies
  /\ replies' = [replies EXCEPT ![q] = @ + 1]
  /\ rep' = [rep EXCEPT ![q] = SetState(CancelTimeout(@), "closed")]
  /\ UNCHANGED <<requestVars, taken, interestVars>>

(* reply() checks no state at all. *)
Reply(q) ==
  /\ rep[q].state # None /\ q \notin calls
  /\ replies[q] < MaxReplies
  /\ replies' = [replies EXCEPT ![q] = @ + 1]
  /\ rep' = [rep EXCEPT ![q] = Finalize(SetState(CancelTimeout(@), "closed"))]
  /\ UNCHANGED <<requestVars, taken, interestVars>>

ReplierTimeout(q) ==
  /\ rep[q].timer # NoTimer
  /\ rep' = [rep EXCEPT ![q] = TimeoutTarget(@)]
  /\ UNCHANGED <<requestVars, taken, replies, interestVars>>

(* The callback of the timer is finalize(). *)
ReplierJob(q, j) ==
  /\ rep' = [rep EXCEPT ![q] = CASE j.phase = "timeout" -> IF Ready(@, j) THEN Finalize(@)
                                                           ELSE DropJob(@, j)
                                 [] j.phase = "queued"  -> StartJob(@, j)
                                 [] j.phase = "running" -> EndJob(@, j)]
  /\ UNCHANGED <<requestVars, taken, replies, interestVars>>

ReplierJobFails(q, j) ==
  /\ j.phase = "running"
  /\ rep' = [rep EXCEPT ![q] = FailJob(@, j, "wtf")]
  /\ UNCHANGED <<requestVars, taken, replies, interestVars>>

-----------------------------------------------------------------------------
Init ==
  /\ req = [q \in Requesters |-> NewRequester]
  /\ rep = [q \in Requesters |-> NoMedium]
  /\ asked = {} /\ taken = {} /\ queue = {} /\ calls = {}
  /\ replies = [q \in Requesters |-> 0]
  /\ heard = [q \in Requesters |-> 0]
  /\ active = 0
  /\ open = TRUE

RequesterNext(q) ==
  \/ Request(q) \/ OnReply(q) \/ RequesterTimeout(q) \/ RequesterGone(q)
  \/ \E j \in req[q].jobs : RequesterJob(q, j) \/ RequesterJobFails(q, j)

ReplierNext(q) ==
  \/ ScheduleMessage(q) \/ MessageProcessed(q)
  \/ OnRequest(q) \/ Reply(q) \/ ReplierTimeout(q)
  \/ \E j \in rep[q].jobs : ReplierJob(q, j) \/ ReplierJobFails(q, j)

Next == KillAgent \/ \E q \in Requesters : RequesterNext(q) \/ ReplierNext(q)

Spec == Init /\ [][Next]_vars

(* The requesters, the interest and the repliers have their types. *)
TypeOK ==
  /\ req \in [Requesters -> MediumSet(RequesterHooks, RequestState, RequesterTimers)]
  /\ rep \in [Requesters -> MediumSet(ReplierHooks, RequestState, ReplierTimers)]
  /\ asked \subseteq Requesters /\ taken \subseteq asked
  /\ replies \in [Requesters -> 0..MaxReplies]
  /\ heard \in [Requesters -> 0..MaxReplies]
  /\ queue \subseteq Requesters /\ calls \subseteq Requesters
  /\ active \in Nat /\ open \in BOOLEAN

-----------------------------------------------------------------------------
(* Running repliers, as the agency's table of protocols has them. *)
Running == {q \in Requesters : rep[q].registered}

(* A slot of the interest is held by exactly one registered replier,       *)
(* however it ends: a slot is neither lost nor given twice.                *)
SlotsConserved == active = Cardinality(Running)

(* The interest never runs more than its limit (the assertion of           *)
(* _process_message()), and a request waits only while it is reached.      *)
WaitsOnlyWhenFull ==
  /\ active <= Concurrency
  /\ queue # {} => active = Concurrency

(* The agent learns one outcome of a request: a reply or its expiration,   *)
(* although a reply may come in when the timer is due.                     *)
OneOutcome ==
  \A q \in Requesters :
    \A j, k \in req[q].jobs : ~(j.hook = "got_reply" /\ k.hook = "closed")

-----------------------------------------------------------------------------
(* The reactor fires due timers and runs queued calls, and the agents'     *)
(* hooks end; nothing is assumed of messages, and reply() need not come.   *)
Fairness ==
  \A q \in Requesters :
    /\ WF_vars(RequesterTimeout(q))
    /\ WF_vars(\E j \in req[q].jobs : RequesterJob(q, j))
    /\ WF_vars(OnRequest(q))
    /\ WF_vars(ReplierTimeout(q))
    /\ WF_vars(\E j \in rep[q].jobs : ReplierJob(q, j))
    /\ WF_vars(MessageProcessed(q))

FairSpec == Spec /\ Fairness

(* Whoever waits for a request to finish is woken up. *)
RequestFinishes == \A q \in Requesters : <>req[q].final

(* A request that waits in the queue gets its slot, expires there, or is   *)
(* dropped with the interest.                                              *)
QueueDrains == \A q \in Requesters : q \in queue ~> q \notin queue

(* Neither a requester nor a request in the queue waits for ever.          *)
RequestsEnd == RequestFinishes /\ QueueDrains

-----------------------------------------------------------------------------
(* What the interfaces say and the code does not do *)

(* interface/requests.py on the states: "closed: The request expire or a   *)
(* response has been received from all repliers."                          *)
ClosedWhenAnswered ==
  \A q \in Requesters : req[q].final /\ heard[q] > 0 => req[q].state # "requested"

(* agencies/common.py, call_agent_side(): the agent is not called after    *)
(* finalize().                                                             *)
NoReplyAfterFinalize == \A q \in Requesters : ~req[q].asserted
=============================================================================
