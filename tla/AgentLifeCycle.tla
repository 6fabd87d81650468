---------------------------- MODULE AgentLifeCycle ----------------------------
(***************************************************************************)
(* What the states of an agent promise to those who watch them             *)
(* (interface/agent.py, AgencyAgentState): an agent starts up in order, may *)
(* lose and regain the connections of its agency once it is ready, may be  *)
(* told to go at any time, and stays terminated.                           *)
(***************************************************************************)

EXTENDS Naturals

VARIABLE life

StartUp == <<"not_initiated", "initiating", "initiated", "starting_up", "ready">>
Lives == {"not_initiated", "initiating", "initiated", "starting_up", "ready",
          "disconnected", "terminating", "terminated"}

LifeInit == life = "not_initiated"

StartsUp == \E k \in 1..4 : life = StartUp[k] /\ life' = StartUp[k + 1]
LosesConnection == life = "ready" /\ life' = "disconnected"
RegainsConnection == life = "disconnected" /\ life' = "ready"
Goes == life \notin {"terminating", "terminated"} /\ life' = "terminating"
Ends == life = "terminating" /\ life' = "terminated"

LifeNext == StartsUp \/ LosesConnection \/ RegainsConnection \/ Goes \/ Ends
LifeSpec == LifeInit /\ [][LifeNext]_life
=============================================================================
