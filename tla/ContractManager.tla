---------------------------- MODULE ContractManager ----------------------------
(***************************************************************************)
(* AgencyManager (agencies/contracts.py): the agency's side of the manager *)
(* of a contract.  The agent-side manager is user code: it may call any    *)
(* method of the medium at any time, and each of its hooks may return at   *)
(* once, return a Deferred that fires later, or fail.                      *)
(***************************************************************************)
EXTENDS ContractNet, AgencyMiddle

VARIABLES
  mgr,        \* the medium
  view,       \* ManagerContractors: the state of each registered contractor
  bidding,    \* the contractors whose bid the agent's bid() still handles
  completing  \* the agent's completed() is still running

managerVars == <<mgr, view, bidding, completing>>

ManagerStates ==
  {"initiated", "announced", "closed", "terminated", "granted", "expired",
   "completed", "cancelled", "aborted", "wtf"}
ManagerHooks ==
  {"initiate", "initiate_expire", "announce_expire", "closed", "expired",
   "cancelled", "aborted"}
ManagerTimers ==
  {Timer("wtf", "initiate_expire"), Timer(AnyState, "announce_expire"),
   Timer("expired", "expired"), Timer("aborted", "aborted")}

(* None marks a contractor that is not registered. *)
ContractorStates ==
  {"bid", "refused", "rejected", "elected", "granted", "completed",
   "cancelled", "acknowledged", None}

With(v, states) == {c \in Contractors : v[c] \in states}

(***************************************************************************)
(* ManagerContractor.on_event() for a set of contractors: each one moves   *)
(* from a state in before to after, and is sent the message if it moved;   *)
(* an event in any other state is ignored.                                 *)
(***************************************************************************)
OnEvent(v, cs, before, after) ==
  [c \in Contractors |-> IF c \in cs /\ v[c] \in before THEN after ELSE v[c]]

-----------------------------------------------------------------------------
(* Private methods *)

(* Mutant: the closed contract waits for the agent without a timeout. *)
GotoClosedUntimed(p, v) ==
  IF With(v, {"bid"}) # {}
  THEN CallAgentSide(SetState(CancelTimeout(p), "closed"), "closed", "closed")
  ELSE RunAndTerminate(SetState(p, "expired"), "expired", "expired")

GotoClosedOrExpired(p, v) ==
  IF With(v, {"bid"}) # {}
  THEN CallAgentSide(SetState(SetTimeout(p, "expired", "expired"), "closed"),
                     "closed", "closed")
  ELSE RunAndTerminate(SetState(p, "expired"), "expired", "expired")

(* expected_bids is None, and the test false, for a broadcast. *)
AllAnswered(v) ==
  /\ ~Broadcast
  /\ Recipients # {}
  /\ Cardinality({c \in Contractors : v[c] # None}) >= Cardinality(Recipients)

CheckIfShouldGotoClose(p, v) ==
  IF p.state # "terminated" /\ AllAnswered(v)
  THEN GotoClosedOrExpired(CancelTimeout(p), v)
  ELSE p

(* _on_cancel and cancel(): with nobody to cancel the method fails on its  *)
(* unbound variable before it terminates the protocol.                     *)
CancelAll ==
  LET to_cancel == With(view, {"granted", "completed"})
      q == SetState(mgr, "cancelled")
  IN  /\ view' = OnEvent(view, to_cancel, {"granted", "completed"}, "cancelled")
      /\ Post(ToAll("cancellation", to_cancel))
      /\ mgr' = IF to_cancel # {} THEN RunAndTerminate(q, "cancelled", "cancelled") ELSE q

-----------------------------------------------------------------------------
(* The medium is created, registered and initiated. *)

ManagerInit ==
  /\ mgr = CallAgentSide(
             SetTimeout([NoMedium EXCEPT !.state = "initiated", !.registered = TRUE],
                        "wtf", "initiate_expire"),
             "initiate", "initiated")
  /\ view = [c \in Contractors |-> None]
  /\ bidding = {}
  /\ completing = FALSE

-----------------------------------------------------------------------------
(* Methods the agent calls *)

(* Mutant: the end of the announce period is taken for the end of the contract. *)
AnnounceThenExpire ==
  /\ mgr.state = "initiated"
  /\ mgr' = SetTimeout(SetState(mgr, "announced"), "expired", "announce_expire")
  /\ Post(ToAll("announcement", Recipients))
  /\ UNCHANGED <<view, bidding, completing, rcvd>>

Announce ==
  /\ mgr.state = "initiated"
  /\ mgr' = SetTimeout(SetState(mgr, "announced"), AnyState, "announce_expire")
  /\ Post(ToAll("announcement", Recipients))
  /\ UNCHANGED <<view, bidding, completing, rcvd>>

Reject(c) ==
  /\ mgr.state \in {"announced", "granted", "closed"}
  /\ view[c] = "bid"
  /\ view' = OnEvent(view, {c}, {"bid"}, "rejected")
  /\ Post({Msg("rejection", c)})
  /\ UNCHANGED <<mgr, bidding, completing, rcvd>>

(* Mutant: the bids that are not granted are not rejected. *)
GrantForgetsOthers(cs) ==
  /\ mgr.state \in {"closed", "announced"}
  /\ cs \subseteq With(view, {"bid"})
  /\ mgr' = SetTimeout(SetState(mgr, "granted"), "aborted", "aborted")
  /\ view' = OnEvent(view, cs, {"bid"}, "granted")
  /\ Post(ToAll("grant", cs))
  /\ UNCHANGED <<bidding, completing, rcvd>>

(* Mutant: bids may be granted one call after another. *)
GrantAgain(cs) ==
  /\ mgr.state \in {"closed", "announced", "granted"}
  /\ cs \subseteq With(view, {"bid"})
  /\ mgr' = SetTimeout(SetState(mgr, "granted"), "aborted", "aborted")
  /\ view' = OnEvent(view, cs, {"bid"}, "granted")
  /\ Post(ToAll("grant", cs))
  /\ UNCHANGED <<bidding, completing, rcvd>>

(* Mutant: every bid is rejected, the granted ones too. *)
GrantRejectsAll(cs) ==
  LET bids == With(view, {"bid"})
  IN  /\ mgr.state \in {"closed", "announced"}
      /\ cs \subseteq bids
      /\ mgr' = SetTimeout(SetState(mgr, "granted"), "aborted", "aborted")
      /\ view' = OnEvent(OnEvent(view, cs, {"bid"}, "granted"), bids, {"bid"}, "rejected")
      /\ Post(ToAll("grant", cs) \cup ToAll("rejection", bids))
      /\ UNCHANGED <<bidding, completing, rcvd>>

(* The bids in cs are granted, every other one is rejected. *)
Grant(cs) ==
  LET others == With(view, {"bid"}) \ cs
  IN  /\ mgr.state \in {"closed", "announced"}
      /\ cs \subseteq With(view, {"bid"})
      /\ mgr' = SetTimeout(SetState(mgr, "granted"), "aborted", "aborted")
      /\ view' = OnEvent(OnEvent(view, cs, {"bid"}, "granted"),
                         others, {"bid"}, "rejected")
      /\ Post(ToAll("grant", cs) \cup ToAll("rejection", others))
      /\ UNCHANGED <<bidding, completing, rcvd>>

(* elect() checks no state at all. *)
Elect(c) ==
  /\ view[c] # None
  /\ view' = [view EXCEPT ![c] = "elected"]
  /\ UNCHANGED <<mgr, bidding, completing, sent, rcvd>>

Cancel ==
  /\ mgr.state \in {"granted", "cancelled"}
  /\ CancelAll
  /\ UNCHANGED <<bidding, completing, rcvd>>

(* Mutant: terminate() tells nobody. *)
TerminateSilently ==
  /\ mgr' = IF mgr.state \in {"expired", "cancelled", "aborted", "wtf"}
            THEN mgr ELSE Finalize(SetState(mgr, "terminated"))
  /\ UNCHANGED <<view, bidding, completing, netVars>>

Terminate ==
  LET bids == With(view, {"bid"})
  IN  /\ view' = OnEvent(view, bids, {"bid"}, "rejected")
      /\ Post(ToAll("rejection", bids))
      /\ mgr' = IF mgr.state \in {"expired", "cancelled", "aborted", "wtf"}
                THEN mgr ELSE Finalize(SetState(mgr, "terminated"))
      /\ UNCHANGED <<bidding, completing, rcvd>>

-----------------------------------------------------------------------------
(* Messages *)

(* Registering a contractor twice raises, so a second answer has no effect. *)
OnBid(c) ==
  /\ mgr.registered /\ mgr.state = "announced"
  /\ Take("bid", c)
  /\ view[c] = None
  /\ view' = [view EXCEPT ![c] = "bid"]
  /\ bidding' = bidding \cup {c}
  /\ UNCHANGED <<mgr, completing, sent>>

(* The agent's bid() has returned, or its Deferred has fired. *)
BidHandled(c) ==
  /\ c \in bidding
  /\ bidding' = bidding \ {c}
  /\ mgr' = CheckIfShouldGotoClose(mgr, view)
  /\ UNCHANGED <<view, completing, netVars>>

(* bid() has no error handler: the check after it is skipped. *)
BidFails(c) ==
  /\ DirectHooksFail
  /\ c \in bidding
  /\ bidding' = bidding \ {c}
  /\ UNCHANGED <<mgr, view, completing, netVars>>

(* A Duplicate from a contractor not yet registered counts as a refusal. *)
OnRefusal(c) ==
  /\ mgr.registered /\ mgr.state = "announced"
  /\ Take("refusal", c) \/ Take("duplicate", c)
  /\ view[c] = None
  /\ view' = [view EXCEPT ![c] = "refused"]
  /\ mgr' = CheckIfShouldGotoClose(mgr, view')
  /\ UNCHANGED <<bidding, completing, sent>>

(* Mutant: the first report completes the contract. *)
OnFirstReport(c) ==
  LET v == OnEvent(view, {c}, {"granted"}, "completed")
      done == With(v, {"completed"})
  IN  /\ mgr.registered /\ mgr.state = "granted"
      /\ Take("report", c)
      /\ view[c] # None
      /\ mgr' = CancelTimeout(SetState(mgr, "completed"))
      /\ view' = OnEvent(v, done, {"completed"}, "acknowledged")
      /\ Post(ToAll("ack", done))
      /\ completing' = TRUE
      /\ UNCHANGED bidding

(* Mutant: each report is acknowledged as it comes in. *)
OnReportAckEach(c) ==
  LET v == OnEvent(view, {c}, {"granted"}, "acknowledged")
      done == With(v, {"granted"}) = {}
  IN  /\ mgr.registered /\ mgr.state = "granted"
      /\ Take("report", c)
      /\ view[c] # None
      /\ mgr' = IF done THEN CancelTimeout(SetState(mgr, "completed")) ELSE mgr
      /\ view' = v
      /\ Post({Msg("ack", c)})
      /\ completing' = (completing \/ done)
      /\ UNCHANGED bidding

OnReport(c) ==
  LET v == OnEvent(view, {c}, {"granted"}, "completed")
      done == With(v, {"completed"})
  IN  /\ mgr.registered /\ mgr.state = "granted"
      /\ Take("report", c)
      /\ view[c] # None
      /\ IF With(v, {"granted"}) = {}
         THEN /\ mgr' = CancelTimeout(SetState(mgr, "completed"))
              /\ view' = OnEvent(v, done, {"completed"}, "acknowledged")
              /\ Post(ToAll("ack", done))
              /\ completing' = TRUE
         ELSE /\ view' = v
              /\ UNCHANGED <<mgr, completing, sent>>
      /\ UNCHANGED bidding

CompletedReturns ==
  /\ completing
  /\ completing' = FALSE
  /\ mgr' = Finalize(mgr)
  /\ UNCHANGED <<view, bidding, netVars>>

(* completed() has no error handler either: finalize() is not called. *)
CompletedFails ==
  /\ DirectHooksFail
  /\ completing
  /\ completing' = FALSE
  /\ UNCHANGED <<mgr, view, bidding, netVars>>

OnDefection(c) ==
  /\ mgr.registered /\ mgr.state = "granted"
  /\ Take("defection", c)
  /\ view[c] # None
  /\ CancelAll
  /\ UNCHANGED <<bidding, completing>>

-----------------------------------------------------------------------------
(* Timers and agent-side calls *)

ManagerTimeout ==
  /\ mgr.timer # NoTimer
  /\ mgr' = TimeoutTarget(mgr)
  /\ UNCHANGED <<view, bidding, completing, netVars>>

(* The callback of a timer. *)
TimeoutCallback(p, j) ==
  IF Ready(p, j)
  THEN CASE j.hook = "initiate_expire" -> Finalize(p)
         [] j.hook = "announce_expire" -> IF p.state = "announced"
                                          THEN GotoClosedOrExpired(p, view) ELSE p
         [] j.hook = "expired"         -> RunAndTerminate(p, "expired", AnyState)
         [] j.hook = "aborted"         -> RunAndTerminate(SetState(p, "aborted"),
                                                          "aborted", "aborted")
  ELSE p

ManagerJob(j) ==
  /\ j \in mgr.jobs
  /\ mgr' = CASE j.phase = "timeout" -> TimeoutCallback(DropJob(mgr, j), j)
              [] j.phase = "queued"  -> StartJob(mgr, j)
              [] j.phase = "running" -> EndJob(mgr, j)
  /\ UNCHANGED <<view, bidding, completing, netVars>>

ManagerJobFails(j) ==
  /\ j \in mgr.jobs /\ j.phase = "running"
  /\ mgr' = FailJob(mgr, j, "wtf")
  /\ UNCHANGED <<view, bidding, completing, netVars>>

KillManager ==
  /\ AgentsDie
  /\ mgr.registered
  /\ mgr' = Cleanup(mgr)
  /\ UNCHANGED <<view, bidding, completing, netVars>>

ManagerGone ==
  /\ mgr.final /\ mgr.registered
  /\ mgr' = Unregister(mgr)
  /\ UNCHANGED <<view, bidding, completing, netVars>>

-----------------------------------------------------------------------------
ManagerCalled ==
  \/ Announce \/ Cancel \/ Terminate
  \/ \E c \in Contractors : Reject(c) \/ Elect(c)
  \/ \E cs \in SUBSET Contractors : Grant(cs)

ManagerReceives ==
  \E c \in Contractors : OnBid(c) \/ OnRefusal(c) \/ OnReport(c) \/ OnDefection(c)

ManagerRuns ==
  \/ ManagerTimeout \/ ManagerGone \/ KillManager
  \/ CompletedReturns \/ CompletedFails
  \/ \E c \in Contractors : BidHandled(c) \/ BidFails(c)
  \/ \E j \in mgr.jobs : ManagerJob(j) \/ ManagerJobFails(j)

ManagerNext == ManagerCalled \/ ManagerReceives \/ ManagerRuns

ManagerTypeOK ==
  /\ mgr \in MediumSet(ManagerHooks, ManagerStates, ManagerTimers)
  /\ mgr.state # None
  /\ view \in [Contractors -> ContractorStates]
  /\ bidding \subseteq Contractors
  /\ completing \in BOOLEAN
=============================================================================
