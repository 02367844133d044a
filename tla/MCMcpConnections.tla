-------------------------- MODULE MCMcpConnections --------------------------
(* Instances of McpConnections for TLC.                                    *)
EXTENDS McpConnections, TLC

CONSTANTS s1, s2, t1, t2, v1, v2

\* Names, slots and the versions of an entry are interchangeable.
Names == Permutations(Servers) \cup Permutations(Entries) \cup Permutations(Tasks)
=============================================================================
