---------------------------- MODULE MCToolLedger ----------------------------
(* Instances of ToolLedger for TLC.                                        *)
EXTENDS ToolLedger, TLC

CONSTANTS r1, r2, a1, a2, h1, h2

\* Slots are interchangeable, and so are approvals no row is born with.
Slots == Permutations(Handlers)

\* No row predates the current approval policy.
NoLegacy == [r \in Requests |-> NoApproval]

\* r1 is a rename that was parked, with a TTL, before renames were inlined.
OneLegacy == [r \in Requests |-> IF r = r1 THEN a1 ELSE NoApproval]
=============================================================================
