------------------------------ MODULE MCJournaler ------------------------------
EXTENDS Journaler
TargetsDef == <<"postgres", "sqlite">>
RolesDef == <<"slave", "master">>
TimesDef == [e \in 1..MaxEntries |-> e]
=============================================================================
