-------------------------------- MODULE Mask --------------------------------
(***************************************************************************)
(* The masks of the rolling engine (internal/engine/mask.go): what a user  *)
(* writes, parsed into a matcher, and the matcher applied to the addresses *)
(* a run gets.                                                             *)
(*                                                                         *)
(* An address has Octets octets of Width bits; the code has 4 of 8. A text *)
(* is abstracted to its parts: numbers are any integers, as strconv.Atoi   *)
(* returns them, and "bad" is everything it refuses.                       *)
(***************************************************************************)
EXTENDS Integers, Sequences

CONSTANTS
  Octets,   \* octets of an address
  Width,    \* bits of an octet
  Inputs    \* the sequences of texts users enter

\* A part of a pattern, between two dots; a text.
Part == [kind : {"any", "bad"}]
          \cup [kind : {"number"}, n : Int]
          \cup [kind : {"range"}, lo : Int, hi : Int]
Text == [kind : {"empty"}]
          \cup [kind : {"octets"}, parts : Seq(Part)]
          \cup [kind : {"cidr"}, is4 : BOOLEAN, octets : [1..Octets -> Nat], len : Int]

ASSUME MaskAssumption ==
  /\ Octets \in Nat \ {0} /\ Width \in Nat \ {0}
  /\ Inputs \subseteq Seq(Text)

VARIABLES
  texts,    \* what was entered
  matcher,  \* what ParseMasks made of them
  addr,     \* the last address rolled since then
  hit       \* whether it matched

vars == <<texts, matcher, addr, hit>>

\* Powers of two, by repeated shifts.
Pow2[n \in Nat] == IF n = 0 THEN 1 ELSE 2 * Pow2[n - 1]

Size == Pow2[Width]             \* values of an octet, of a uint8
Bits == Octets * Width          \* bits of an address
Values == [1..Octets -> 0..(Size - 1)]

\* is4 is FALSE for IPv6, IPv4-mapped addresses included.
Address == [is4 : BOOLEAN, octets : Values]
NoAddress == [is4 |-> FALSE, octets |-> <<>>]

Unparsed == [kind |-> "unparsed"]
Rejected == [kind |-> "rejected"]
Accepted == matcher.kind = "or"
Rule == [any : BOOLEAN, lo : 0..(Size - 1), hi : 0..(Size - 1)]
Matchers == [kind : {"cidr"}, is4 : BOOLEAN, octets : Values, len : 0..Bits]
              \cup [kind : {"octets"}, rules : [1..Octets -> Rule]]

TypeOK ==
  /\ DOMAIN texts = 1..Len(texts)
  /\ \/ matcher \in {Unparsed, Rejected}
     \/ Accepted /\ \A i \in DOMAIN matcher.of : matcher.of[i] \in Matchers
  /\ addr \in Address \cup {NoAddress}
  /\ hit \in BOOLEAN

-----------------------------------------------------------------------------
(* Parsing.                                                                *)

Uint8(n) == n % Size

\* A bug: the upper end is not checked.
RangeUnbounded(lo, hi) == lo < 0 \/ lo > hi

\* A bug: the order of the ends is not checked.
RangeUnordered(lo, hi) == lo < 0 \/ hi >= Size

BadRange(lo, hi) == lo < 0 \/ hi >= Size \/ lo > hi

\* parseOctet: "*" or "x", a range, a number; all else is an error.
ParseOctet(p) ==
  IF p.kind = "any" THEN [any |-> TRUE, lo |-> 0, hi |-> 0]
  ELSE IF p.kind = "range" /\ ~BadRange(p.lo, p.hi)
    THEN [any |-> FALSE, lo |-> Uint8(p.lo), hi |-> Uint8(p.hi)]
  ELSE IF p.kind = "number" /\ p.n >= 0 /\ p.n < Size
    THEN [any |-> FALSE, lo |-> Uint8(p.n), hi |-> Uint8(p.n)]
  ELSE Rejected

\* A bug: the number of parts is not checked.
GoodPartsAny(parts) == \A i \in DOMAIN parts : ParseOctet(parts[i]) # Rejected

GoodParts(parts) ==
  Len(parts) = Octets /\ \A i \in DOMAIN parts : ParseOctet(parts[i]) # Rejected

\* netip.ParsePrefix; host bits may be set.
GoodPrefix(t) == t.len \in 0..Bits /\ t.octets \in Values

ParseMask(t) ==
  IF t.kind = "cidr" /\ GoodPrefix(t)
    THEN [kind |-> "cidr", is4 |-> t.is4, octets |-> t.octets, len |-> t.len]
  ELSE IF t.kind = "octets" /\ GoodParts(t.parts)
    THEN [kind |-> "octets", rules |-> [i \in DOMAIN t.parts |-> ParseOctet(t.parts[i])]]
  ELSE Rejected

\* The bot enters one mask, which is matched as it is: the same as this for a
\* sequence of one. Several are for other callers of the engine.
ParseMasks(ts) ==
  IF ts # <<>> /\ \A i \in DOMAIN ts : ParseMask(ts[i]) # Rejected
    THEN [kind |-> "or", of |-> [i \in DOMAIN ts |-> ParseMask(ts[i])]]
    ELSE Rejected

-----------------------------------------------------------------------------
(* Matching.                                                               *)

\* The address as a number.
Number(octets) ==
  LET n[i \in 0..Octets] == IF i = 0 THEN 0 ELSE n[i - 1] * Size + octets[i]
  IN n[Octets]

\* netip.Prefix.Contains: same family, same leading bits.
Contains(m, a) ==
  LET Leading(octets) == Number(octets) \div Pow2[Bits - m.len]
  IN m.is4 = a.is4 /\ Leading(m.octets) = Leading(a.octets)

OctetsMatch(m, a) ==
  /\ a.is4
  /\ \A i \in 1..Octets :
       m.rules[i].any \/ (m.rules[i].lo <= a.octets[i] /\ a.octets[i] <= m.rules[i].hi)

MatchOne(m, a) == IF m.kind = "cidr" THEN Contains(m, a) ELSE OctetsMatch(m, a)

Match(m, a) == \E i \in DOMAIN m.of : MatchOne(m.of[i], a)

-----------------------------------------------------------------------------
Init ==
  /\ texts \in Inputs /\ matcher = Unparsed
  /\ addr = NoAddress /\ hit = FALSE

\* Entering another mask starts over.
Parse ==
  /\ matcher = Unparsed
  /\ matcher' = ParseMasks(texts)
  /\ UNCHANGED <<texts, addr, hit>>

Roll(a) ==
  /\ Accepted
  /\ addr' = a
  /\ hit' = Match(matcher, a)
  /\ UNCHANGED <<texts, matcher>>

Next == Parse \/ (\E a \in Address : Roll(a))

Spec == Init /\ [][Next]_vars

-----------------------------------------------------------------------------
(* What the texts mean, without uint8 and without numbers: a prefix fixes  *)
(* bits one by one, a pattern bounds octets.                               *)

Bit(octets, i) ==
  LET at == i - 1 IN (octets[at \div Width + 1] \div Pow2[Width - 1 - (at % Width)]) % 2

Denotes(t, a) ==
  \/ /\ t.kind = "cidr" /\ t.is4 = a.is4
     /\ \A i \in 1..t.len : Bit(t.octets, i) = Bit(a.octets, i)
  \/ /\ t.kind = "octets" /\ a.is4
     /\ \A i \in 1..Octets :
          \/ t.parts[i].kind = "any"
          \/ t.parts[i].kind = "number" /\ a.octets[i] = t.parts[i].n
          \/ t.parts[i].kind = "range" /\ a.octets[i] \in t.parts[i].lo..t.parts[i].hi

(* mask.go:10 "whether an allocated address satisfies the user's mask": an *)
(* address is kept exactly if one of the masks entered means it, so no     *)
(* number of a mask that parses is changed by its conversion to uint8.     *)
MatchesAsWritten ==
  addr # NoAddress => (hit <=> \E i \in DOMAIN texts : Denotes(texts[i], addr))

(* Every mask that is accepted can be met: for each of the masks there is  *)
(* an address that satisfies it, or a run would pay for every attempt in   *)
(* vain.                                                                   *)
AcceptedCanBeMet ==
  Accepted =>
    \A i \in DOMAIN matcher.of : \E a \in Address : MatchOne(matcher.of[i], a)
=============================================================================
