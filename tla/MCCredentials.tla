--------------------------- MODULE MCCredentials ---------------------------
(* Credentials for TLC: what is entered or configured has every field but  *)
(* at most two, which are missing, empty or of another kind; or hardly any *)
(* field at all.                                                           *)
EXTENDS Credentials, Integers, FiniteSets, TLC

Good(f) == IF f = "region_id" THEN "number" ELSE "text"

AtMostTwo(S) == {T \in SUBSET S : Cardinality(T) <= 2}

Names(t) == Fields(t) \cup {"unknown"}

\* Entered: the fields of D deviate, by value or by absence.
MCEntries(t) ==
  UNION {{[f \in (Names(t) \ (D \cup {"unknown"})) \cup DOMAIN g |->
             IF f \in DOMAIN g THEN g[f] ELSE Good(f)] :
            g \in UNION {[E -> Values] : E \in SUBSET D}} :
         D \in AtMostTwo(Names(t))}

\* region_id is an int in the block, 0 when it is not set.
MCBlocks(t) ==
  UNION {{[f \in Fields(t) |-> IF f \in D THEN Good(f) ELSE ""],
          [f \in Fields(t) |-> IF f \in D THEN "" ELSE Good(f)]} :
         D \in AtMostTwo(Fields(t))}
=============================================================================
