---------------------------- MODULE MCRollDialog ----------------------------
(* RollDialog for TLC.                                                     *)
EXTENDS RollDialog, TLC

CONSTANTS h1, h2, r1, r2, a1, a2, v1, v2

HandlerSymmetry == Permutations({h1, h2})
Symmetry == HandlerSymmetry \cup Permutations({r1, r2}) \cup Permutations({a1, a2})
              \cup Permutations({v1, v2})
=============================================================================
