--------------------------- MODULE ContractContractor ---------------------------
(***************************************************************************)
(* AgencyContractor (agencies/contracts.py): the agency's side of each     *)
(* contractor, created by a DialogInterest (agencies/protocols.py) when    *)
(* the announcement arrives.  As for the manager, the agent may call the   *)
(* medium at any time.  A nested contractor answers the nested manager     *)
(* that announced to it, which is not modelled here: its bid reaches the   *)
(* contract's manager when the contractor above it hands the bid over.     *)
(***************************************************************************)
EXTENDS ContractNet, AgencyMiddle

VARIABLE con   \* the medium of each contractor

ContractState ==
  {"initiated", "announced", "closed", "bid", "refused", "delegated", "rejected",
   "granted", "expired", "completed", "defected", "cancelled", "acknowledged",
   "aborted", "wtf"}
ContractorHooks ==
  {"initiate", "announced", "announce_expired", "bid_expired", "rejected",
   "granted", "cancelled", "acknowledged", "aborted"}
ContractorTimers ==
  {Timer("closed", "announce_expired"), Timer("expired", "bid_expired"),
   Timer("expired", "cancelled"), Timer("aborted", "aborted")}

ContractorInit == con = [c \in Contractors |-> NoMedium]

Become(c, p) == con' = [con EXCEPT ![c] = p]

-----------------------------------------------------------------------------
(* Messages *)

(* A nested contractor is announced to while a contractor above it, which  *)
(* runs the nested manager, has not answered yet.                          *)
AnnouncementReaches(c) ==
  IF c \in Nested
  THEN (\E d \in Recipients : con[d].state = "announced") /\ UNCHANGED rcvd
  ELSE Take("announcement", c)

(* The first message creates, initiates and registers the medium. *)
CreateContractor(c) ==
  /\ con[c].state = None
  /\ AnnouncementReaches(c)
  /\ Become(c, CallAgentSide([NoMedium EXCEPT !.state = "initiated", !.registered = TRUE],
                             "initiate", "initiated"))
  /\ UNCHANGED sent

(* The announcement is handed to the new medium by a call_next(), which a  *)
(* terminating agent cancels.                                              *)
OnAnnounce(c) ==
  /\ con[c].state = "initiated" /\ ~con[c].final
  /\ Become(c, CallAgentSide(
                 SetTimeout(SetState(con[c], "announced"), "closed", "announce_expired"),
                 "announced", "announced"))
  /\ UNCHANGED netVars

(* A second copy of the announcement, with a known traversal_id, is answered *)
(* by the channel itself.                                                    *)
AnswerDuplicate(c) ==
  /\ c \in Revisited \ Nested
  /\ con[c].state # None
  /\ Post({Msg("duplicate", c)})
  /\ UNCHANGED <<con, rcvd>>

OnReject(c) ==
  /\ con[c].registered /\ con[c].state = "bid"
  /\ Take("rejection", c)
  /\ Become(c, RunAndTerminate(SetState(con[c], "rejected"), "rejected", "rejected"))
  /\ UNCHANGED sent

OnGrant(c) ==
  /\ con[c].registered /\ con[c].state = "bid"
  /\ Take("grant", c)
  /\ Become(c, CallAgentSide(
                 SetTimeout(SetState(con[c], "granted"), "expired", "cancelled"),
                 "granted", "granted"))
  /\ UNCHANGED sent

OnCancelInGranted(c) ==
  /\ con[c].registered /\ con[c].state = "granted"
  /\ Take("cancellation", c)
  /\ Become(c, RunAndTerminate(SetState(con[c], "cancelled"), "cancelled", "cancelled"))
  /\ UNCHANGED sent

OnCancelInCompleted(c) ==
  /\ con[c].registered /\ con[c].state = "completed"
  /\ Take("cancellation", c)
  /\ Become(c, RunAndTerminate(SetState(con[c], "aborted"), "aborted", "aborted"))
  /\ UNCHANGED sent

(* The timer of complete() stays armed while acknowledged() runs. *)
OnAck(c) ==
  /\ con[c].registered /\ con[c].state = "completed"
  /\ Take("ack", c)
  /\ Become(c, RunAndTerminate(SetState(con[c], "acknowledged"),
                               "acknowledged", "acknowledged"))
  /\ UNCHANGED sent

-----------------------------------------------------------------------------
(* Methods the agent calls *)

Bid(c) ==
  /\ con[c].state = "announced"
  /\ Become(c, SetTimeout(SetState(con[c], "bid"), "expired", "bid_expired"))
  /\ Post({Msg(IF c \in Nested THEN "nestedbid" ELSE "bid", c)})
  /\ UNCHANGED rcvd

(* Mutant: the reply_to of the nested bid is not copied. *)
HandoverInOwnName(c, n) ==
  /\ c \notin Nested /\ n \in Nested
  /\ con[c].state = "announced"
  /\ Sent("nestedbid", n)
  /\ Become(c, Finalize(SetState(con[c], "delegated")))
  /\ Post({Msg("bid", c)})
  /\ UNCHANGED rcvd

(* The bid of the nested contractor n is sent on in its own name. *)
Handover(c, n) ==
  /\ c \notin Nested /\ n \in Nested
  /\ con[c].state = "announced"
  /\ Sent("nestedbid", n)
  /\ Become(c, Finalize(SetState(con[c], "delegated")))
  /\ Post({Msg("bid", n)})
  /\ UNCHANGED rcvd

Refuse(c) ==
  /\ con[c].state = "announced"
  /\ Become(c, Finalize(SetState(con[c], "refused")))
  /\ Post(IF c \in Nested THEN {} ELSE {Msg("refusal", c)})
  /\ UNCHANGED rcvd

Defect(c) ==
  /\ con[c].state = "granted"
  /\ Become(c, Finalize(SetState(con[c], "defected")))
  /\ Post({Msg("defection", c)})
  /\ UNCHANGED rcvd

(* Mutant: the contractor waits for the acknowledgement without a timeout. *)
CompleteUntimed(c) ==
  /\ con[c].state = "granted"
  /\ Become(c, CancelTimeout(SetState(con[c], "completed")))
  /\ Post({Msg("report", c)})
  /\ UNCHANGED rcvd

Complete(c) ==
  /\ con[c].state = "granted"
  /\ Become(c, SetTimeout(SetState(con[c], "completed"), "aborted", "aborted"))
  /\ Post({Msg("report", c)})
  /\ UNCHANGED rcvd

-----------------------------------------------------------------------------
(* Timers and agent-side calls *)

ContractorTimeout(c) ==
  /\ con[c].timer # NoTimer
  /\ Become(c, TimeoutTarget(con[c]))
  /\ UNCHANGED netVars

(* The callback of every timer is _run_and_terminate of its hook. *)
ContractorCallback(p, j) ==
  IF Ready(p, j) THEN RunAndTerminate(p, j.hook, AnyState) ELSE p

ContractorJob(c, j) ==
  /\ Become(c, CASE j.phase = "timeout" -> ContractorCallback(DropJob(con[c], j), j)
                 [] j.phase = "queued"  -> StartJob(con[c], j)
                 [] j.phase = "running" -> EndJob(con[c], j))
  /\ UNCHANGED netVars

ContractorJobFails(c, j) ==
  /\ j.phase = "running"
  /\ Become(c, FailJob(con[c], j, "wtf"))
  /\ UNCHANGED netVars

KillContractor(c) ==
  /\ AgentsDie
  /\ con[c].registered
  /\ Become(c, Cleanup(con[c]))
  /\ UNCHANGED netVars

ContractorGone(c) ==
  /\ con[c].final /\ con[c].registered
  /\ Become(c, Unregister(con[c]))
  /\ UNCHANGED netVars

-----------------------------------------------------------------------------
ContractorReceives(c) ==
  \/ CreateContractor(c) \/ OnAnnounce(c) \/ AnswerDuplicate(c)
  \/ OnReject(c) \/ OnGrant(c) \/ OnAck(c)
  \/ OnCancelInGranted(c) \/ OnCancelInCompleted(c)

ContractorCalled(c) ==
  \/ Bid(c) \/ Refuse(c) \/ Defect(c) \/ Complete(c)
  \/ \E n \in Nested : Handover(c, n)

ContractorRuns(c) ==
  \/ ContractorTimeout(c) \/ KillContractor(c) \/ ContractorGone(c)
  \/ \E j \in con[c].jobs : ContractorJob(c, j) \/ ContractorJobFails(c, j)

ContractorNext(c) == ContractorReceives(c) \/ ContractorCalled(c) \/ ContractorRuns(c)

ContractorTypeOK ==
  con \in [Contractors -> MediumSet(ContractorHooks, ContractState, ContractorTimers)]
=============================================================================
