------------------------------ MODULE MCRoller ------------------------------
(* Roller for TLC: account a1 has a daily cap, a2 has no caps at all.      *)
EXTENDS Roller, TLC

CONSTANTS a1, a2, r1, r2, i1, i2, i3

MCAccounts == {a1, a2}
MCDailyCap == (a1 :> 1) @@ (a2 :> 0)
MCMaxRollsPerRun == (a1 :> 1) @@ (a2 :> 0)

OneAccount == {a1}
CapOfOne == a1 :> 1
CapOfTwo == a1 :> 2
NoCap == a1 :> 0

Symmetry == Permutations({r1, r2}) \cup Permutations({i1, i2, i3})
=============================================================================
