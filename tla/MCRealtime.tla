----------------------------- MODULE MCRealtime -----------------------------
(* Instances of Realtime for TLC.                                           *)
EXTENDS Realtime

CONSTANTS s1, s2, c1, tab, other
=============================================================================
