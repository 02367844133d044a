------------------------------- MODULE MCChat -------------------------------
(* Instances of Chat for TLC.                                               *)
EXTENDS Chat

CONSTANTS s1, s2
=============================================================================
