--------------------------- MODULE MCAgentWorkflow ---------------------------
EXTENDS AgentWorkflow, TLC

CONSTANTS p1, p2

ProcSymmetry == Permutations(Procs)
=============================================================================
