----------------------------- MODULE MCPersona ------------------------------
(* Instances of Persona for TLC.                                            *)
EXTENDS Persona, TLC

CONSTANTS x, y, z, s1, p1, p2

\* Two statements that deny each other, about the same words.
Denials == {<<x, y>>, <<y, x>>}
Cores == {{}, {y}, {z}}
Interchangeable == Permutations(Reviewers)
=============================================================================
