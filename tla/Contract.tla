-------------------------------- MODULE Contract --------------------------------
(***************************************************************************)
(* One contract: its manager, its contractors and the messages between     *)
(* them.                                                                   *)
(***************************************************************************)
EXTENDS ContractManager, ContractContractor

vars == <<netVars, managerVars, con>>

Init == NetInit /\ ManagerInit /\ ContractorInit

Next ==
  \/ ManagerNext /\ UNCHANGED con
  \/ \E c \in Contractors : ContractorNext(c) /\ UNCHANGED managerVars

Spec == Init /\ [][Next]_vars

(* The messages, the manager and the contractors have their types. *)
TypeOK == NetTypeOK /\ ManagerTypeOK /\ ContractorTypeOK

-----------------------------------------------------------------------------
(* Agreement on the outcome *)

(* A contract is acknowledged as a whole: once any contractor is sent an   *)
(* Acknowledgement, every contractor that was granted has sent its final   *)
(* report, unless the agent took it out of the contract with elect().      *)
AckOnlyWhenAllReported ==
  (\E c \in Contractors : Sent("ack", c)) =>
    \A d \in Contractors : Sent("grant", d) => Sent("report", d) \/ view[d] = "elected"

(* The manager never cancels one contractor and acknowledges another. *)
AckOrCancel ==
  \A c, d \in Contractors : ~(Sent("ack", c) /\ Sent("cancellation", d))

(* A contract is acknowledged as a whole or not at all.                    *)
AllOrNothing == AckOnlyWhenAllReported /\ AckOrCancel

(* A bid gets at most one answer, whatever reject(), grant(), terminate()  *)
(* and elect() are called and in whatever order.                           *)
OneAnswer ==
  \A c \in Contractors : ~(Sent("grant", c) /\ Sent("rejection", c))

(* Once the manager has granted or has been terminated, no bid it knows of *)
(* is left without an answer.                                              *)
NoBidForgotten ==
  mgr.state \in {"granted", "completed", "cancelled", "aborted", "terminated"} =>
    With(view, {"bid"}) = {}

(* A contract that has been granted is never announced or closed again,    *)
(* although every bid() that ends late runs the check that closes it.      *)
NotReopened ==
  (\E c \in Contractors : Sent("grant", c)) => mgr.state \notin {"announced", "closed"}

(* A contractor that has handed over a nested bid is out of the contract:  *)
(* the manager answers the nested contractor, never the one above it.      *)
DelegatedIsOut ==
  \A c \in Contractors :
    con[c].state = "delegated" => ~Sent("grant", c) /\ ~Sent("rejection", c)

(* The contract as its jobs see it: mapping to ContractOutcome. *)
InContract(kind) == {c \in Contractors : Sent(kind, c) /\ view[c] # "elected"}

Outcome ==
  CASE \E c \in Contractors : Sent("ack", c)          -> "acknowledged"
    [] \E c \in Contractors : Sent("cancellation", c) -> "cancelled"
    [] OTHER                                          -> "open"

Jobs == INSTANCE ContractOutcome
          WITH granted <- InContract("grant"), reported <- InContract("report"),
               outcome <- Outcome

(* The manager and the contractors together implement ContractOutcome. *)
ImplementsOutcome == Jobs!Spec

-----------------------------------------------------------------------------
(* Progress *)

(* The reactor fires due timers and runs queued calls, and the agent's     *)
(* hooks end; nothing is assumed of messages or of the agents' calls.      *)
Fairness ==
  /\ WF_vars(ManagerTimeout /\ UNCHANGED con)
  /\ WF_vars((\E j \in mgr.jobs : ManagerJob(j)) /\ UNCHANGED con)
  /\ WF_vars((CompletedReturns \/ CompletedFails) /\ UNCHANGED con)
  /\ \A c \in Contractors :
       /\ WF_vars(OnAnnounce(c) /\ UNCHANGED managerVars)
       /\ WF_vars(ContractorTimeout(c) /\ UNCHANGED managerVars)
       /\ WF_vars((\E j \in con[c].jobs : ContractorJob(c, j)) /\ UNCHANGED managerVars)

FairSpec == Spec /\ Fairness

(* Every manager is finalized, so that whoever waits on notify_finish()    *)
(* is woken up.                                                            *)
ManagerFinishes == <>mgr.final

(* Every contractor that is created is finalized, whatever messages the    *)
(* manager sends or fails to send, and so frees its slot in the interest.  *)
ContractorFinishes ==
  \A c \in Contractors : con[c].state # None ~> con[c].final

(* A contract ends on both sides.                                          *)
Finishes == ManagerFinishes /\ ContractorFinishes

-----------------------------------------------------------------------------
(* What the interfaces say and the code does not do *)

(* interface/contracts.py on the manager's states: "expired: Contract      *)
(* expire without granting any bid."                                       *)
ExpiredWithoutGrant ==
  mgr.state = "expired" => \A c \in Contractors : ~Sent("grant", c)

(* interface/contracts.py on the manager's states: "aborted: Some jobs     *)
(* have been cancelled so all the contractors got cancelled."              *)
AbortedAllCancelled ==
  mgr.state = "aborted" /\ mgr.final => With(view, {"granted", "completed"}) = {}

(* interface/contracts.py on the contractor's states: "aborted: The        *)
(* manager has not acknowledged the report in time, or explicitly canceled *)
(* the job."                                                               *)
AbortedNotAcknowledged ==
  \A c \in Contractors : con[c].state = "aborted" => Msg("ack", c) \notin rcvd

(* agencies/common.py, call_agent_side(): the agent is not called after    *)
(* finalize().                                                             *)
NoCallAfterFinalize == ~mgr.asserted

(* interface/manager.py on completed(): "The result of this method will be *)
(* put into the Deferred obtained with the .notify_finish() method call."  *)
CompletedIsReported == mgr.state = "completed" ~> mgr.final

(* interface/manager.py on elect(): "Elected bid will get rejected when    *)
(* the manager terminates."                                                *)
ElectedGetRejected ==
  mgr.state = "terminated" => With(view, {"elected"}) = {}

(* interface/manager.py on cancel(): "Sends cancellations to all granted   *)
(* or completed contractors and terminates."                               *)
CancelTerminates ==
  mgr.state = "cancelled" => mgr.final \/ \E j \in mgr.jobs : j.hook = "cancelled" /\ j.last
=============================================================================
