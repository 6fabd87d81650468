---------------------------- MODULE ContractOutcome ----------------------------
(***************************************************************************)
(* What a contract promises about the jobs it awards, whatever happens to  *)
(* its messages, timers and agents: the jobs are awarded once, all         *)
(* together; a contract is acknowledged only when every job still in it    *)
(* has been reported, and it is either acknowledged or cancelled, never    *)
(* both.  A job may be withdrawn from the contract by the manager's agent. *)
(***************************************************************************)
CONSTANT Contractors

VARIABLES
  granted,   \* the contractors holding a job of this contract
  reported,  \* those that have reported it done
  outcome    \* "open", "acknowledged" or "cancelled"

outcomeVars == <<granted, reported, outcome>>

Init == granted = {} /\ reported = {} /\ outcome = "open"

Award(cs) ==
  /\ outcome = "open" /\ granted = {}
  /\ granted' = cs
  /\ UNCHANGED <<reported, outcome>>

Withdraw(c) ==
  /\ granted' = granted \ {c}
  /\ reported' = reported \ {c}
  /\ UNCHANGED outcome

Report(c) ==
  /\ c \in granted
  /\ reported' = reported \cup {c}
  /\ UNCHANGED <<granted, outcome>>

Acknowledge ==
  /\ outcome = "open"
  /\ granted # {} /\ granted = reported
  /\ outcome' = "acknowledged"
  /\ UNCHANGED <<granted, reported>>

Abandon ==
  /\ outcome = "open"
  /\ granted # {}
  /\ outcome' = "cancelled"
  /\ UNCHANGED <<granted, reported>>

Next ==
  \/ \E cs \in SUBSET Contractors : Award(cs)
  \/ \E c \in Contractors : Withdraw(c) \/ Report(c)
  \/ Acknowledge \/ Abandon

Spec == Init /\ [][Next]_outcomeVars
=============================================================================
