----------------------------- MODULE MCNotifier -----------------------------
(* Notifier for TLC.                                                       *)
EXTENDS Notifier, TLC

CONSTANTS p1, p2, a1, a2

Symmetry == Permutations({p1, p2}) \cup Permutations({a1, a2})
=============================================================================
