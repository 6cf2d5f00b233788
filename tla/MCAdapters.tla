----------------------------- MODULE MCAdapters -----------------------------
(* Adapters for TLC: every kind of adapter, two callers, two projects.     *)
EXTENDS Adapters

CONSTANTS c1, c2, p1, p2, i1, i2
=============================================================================
