------------------------------ MODULE MCAgentLife ------------------------------
EXTENDS AgentLife
CONSTANTS r1, r2
=============================================================================
