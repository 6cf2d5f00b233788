----------------------------- MODULE MCRegistry -----------------------------
(* Registry for TLC: one block of config.yaml, and one more account.       *)
EXTENDS Registry

CONSTANTS h1, h2, n1, n2, c1, c2

OneSeed == <<n1>>
=============================================================================
