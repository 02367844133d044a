----------------------------- MODULE MCAgentRun -----------------------------
(* Instances of AgentRun for TLC.                                          *)
EXTENDS AgentRun, TLC

CONSTANTS d, p1, p2

\* Resume slots are interchangeable.
Slots == Permutations(Resumers)
=============================================================================
