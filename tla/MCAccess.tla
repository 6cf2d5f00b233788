------------------------------ MODULE MCAccess ------------------------------
(* Access for TLC: every configuration of three users.                     *)
EXTENDS Access, TLC

CONSTANTS h1, h2, u1, u2, u3

Symmetry == Permutations({h1, h2}) \cup Permutations({u1, u2, u3})
=============================================================================
