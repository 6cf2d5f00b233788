------------------------------- MODULE MCMask -------------------------------
(* Mask for TLC: every text whose numbers are at most one beyond the range *)
(* of an octet on either side, alone, and some in pairs.                   *)
EXTENDS Mask, TLC

Numbers == (-1)..(2 ^ Width + 1)
Parts == [kind : {"any", "bad"}]
           \cup [kind : {"number"}, n : Numbers]
           \cup [kind : {"range"}, lo : Numbers, hi : Numbers]
AnyOctet == [kind |-> "any"]
Patterns == [kind : {"octets"}, parts : [1..Octets -> Parts]]
              \cup {[kind |-> "octets", parts |-> [i \in 1..n |-> AnyOctet]] :
                      n \in {Octets - 1, Octets + 1}}
Prefixes == [kind : {"cidr"}, is4 : BOOLEAN, octets : [1..Octets -> 0..(2 ^ Width)],
             len : (-1)..(Octets * Width + 1)]
Texts == {[kind |-> "empty"]} \cup Patterns \cup Prefixes

One(v) == [kind |-> "octets",
           parts |-> [i \in 1..Octets |-> IF i = 1 THEN [kind |-> "number", n |-> v] ELSE AnyOctet]]
Few == {[kind |-> "empty"], One(0), One(1), One(2 ^ Width),
        [kind |-> "cidr", is4 |-> TRUE, octets |-> [i \in 1..Octets |-> 1], len |-> Width + 1],
        [kind |-> "cidr", is4 |-> FALSE, octets |-> [i \in 1..Octets |-> 0], len |-> 1]}

MCInputs == {<<>>} \cup {<<t>> : t \in Texts} \cup (Few \X Few)
=============================================================================
