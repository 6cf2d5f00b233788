----------------------------- MODULE MaskProofs -----------------------------
(***************************************************************************)
(* Theorems about Mask for every number and width of octets and every set  *)
(* of inputs. Most of the work is one fact: comparing two addresses as     *)
(* numbers shifted right, as netip.Prefix.Contains does, is comparing      *)
(* their leading bits one by one.                                          *)
(***************************************************************************)
EXTENDS Mask, WellFoundedInduction, TLAPS

-----------------------------------------------------------------------------
(* Induction over the naturals, by sets: a least counterexample is none.   *)

LEMMA LeastNumber ==
  ASSUME NEW T \in SUBSET Nat, T # {}
  PROVE  \E x \in T : \A y \in T : x <= y
<1>1. PICK x \in T : \A y \in T : ~ (<<y, x>> \in OpToRel(<, Nat))
  BY NatLessThanWellFounded, WFMin
<1>2. ASSUME NEW y \in T PROVE x <= y
  <2>1. <<y, x>> \in Nat \X Nat
    OBVIOUS
  <2>2. ~ (y < x)
    BY <1>1, <2>1 DEF OpToRel
  <2>. QED
    BY <2>2
<1>. QED
  BY <1>2

LEMMA Induction ==
  ASSUME NEW S, 0 \in S, \A n \in Nat : n \in S => n + 1 \in S
  PROVE  Nat \subseteq S
<1>. DEFINE T == Nat \ S
<1>1. CASE T = {}
  BY <1>1
<1>2. CASE T # {}
  <2>1. PICK x \in T : \A y \in T : x <= y
    BY <1>2, LeastNumber
  <2>2. x \in Nat /\ x # 0
    BY DEF T
  <2>3. x - 1 \in Nat /\ x - 1 \notin T
    BY <2>1, <2>2
  <2>. QED
    BY <2>2, <2>3 DEF T
<1>. QED
  BY <1>1, <1>2

-----------------------------------------------------------------------------
(* Division.                                                               *)

LEMMA DivMod ==
  ASSUME NEW a \in Nat, NEW b \in Nat \ {0}
  PROVE  /\ a \div b \in Nat /\ a % b \in 0..(b - 1)
         /\ a = b * (a \div b) + (a % b)
OBVIOUS

(* Quotient and remainder are the only ones there are.                     *)
LEMMA DivIs ==
  ASSUME NEW a \in Int, NEW b \in Nat \ {0}, NEW q \in Int, NEW r \in 0..(b - 1),
         a = b * q + r
  PROVE  a \div b = q /\ a % b = r
OBVIOUS

LEMMA ProductPositive ==
  ASSUME NEW b \in Nat \ {0}, NEW c \in Nat \ {0}
  PROVE  b * c \in Nat \ {0}
OBVIOUS

LEMMA Halves ==
  ASSUME NEW a \in Nat
  PROVE  a = 2 * (a \div 2) + (a % 2)
OBVIOUS

(* Dividing twice is dividing by the product.                              *)
LEMMA DivDiv ==
  ASSUME NEW a \in Nat, NEW b \in Nat \ {0}, NEW c \in Nat \ {0}
  PROVE  (a \div b) \div c = a \div (b * c)
<1>. DEFINE q == a \div b
            r == a % b
            k == q \div c
            s == q % c
<1>1. /\ q \in Nat /\ r \in 0..(b - 1) /\ a = b * q + r
      /\ k \in Nat /\ s \in 0..(c - 1) /\ q = c * k + s
  BY DivMod
<1>. HIDE DEF q, r, k, s
<1>2. b * c \in Nat \ {0}
  BY ProductPositive
<1>3. a = (b * c) * k + (b * s + r)
  BY <1>1
<1>4. b * s + r \in 0..(b * c - 1)
  <2>1. b * s <= b * (c - 1) /\ b * s >= 0
    BY <1>1
  <2>2. b * (c - 1) = b * c - b
    OBVIOUS
  <2>. QED
    BY <1>1, <1>2, <2>1, <2>2
<1>5. a \div (b * c) = k
  BY <1>1, <1>2, <1>3, <1>4, DivIs
<1>. QED
  BY <1>5 DEF k, q

(* A multiple of the divisor passes through a division.                    *)
LEMMA DivSum ==
  ASSUME NEW a \in Nat, NEW b \in Nat \ {0}, NEW k \in Nat
  PROVE  (k * b + a) \div b = k + (a \div b)
<1>. DEFINE q == a \div b
            r == a % b
<1>1. q \in Nat /\ r \in 0..(b - 1) /\ a = b * q + r
  BY DivMod
<1>. HIDE DEF q, r
<1>2. k * b + a = b * (k + q) + r
  BY <1>1
<1>3. k * b + a \in Int /\ k + q \in Int
  BY <1>1
<1>4. (k * b + a) \div b = k + q
  BY <1>1, <1>2, <1>3, DivIs
<1>. QED
  BY <1>4 DEF q

(* What a division rounds away.                                            *)
LEMMA DivRounds ==
  ASSUME NEW k \in Nat, NEW b \in Nat \ {0}, NEW r \in 0..(b - 1)
  PROVE  (k * b + r) \div b = k
<1>1. k * b + r = b * k + r /\ k * b + r \in Int
  OBVIOUS
<1>. QED
  BY <1>1, DivIs

LEMMA Regroup ==
  ASSUME NEW x \in Nat, NEW y \in Nat, NEW z \in Nat
  PROVE  x * ((2 * y) * z) = (2 * (x * y)) * z /\ x * y \in Nat
OBVIOUS

-----------------------------------------------------------------------------
(* Powers of two.                                                          *)

(* Up to every n there is a table of the powers of two, unique below n.    *)
Table(f, n) ==
  /\ DOMAIN f = 0..n
  /\ \A i \in 0..n : f[i] \in Nat \ {0} /\ f[i] = IF i = 0 THEN 1 ELSE 2 * f[i - 1]

LEMMA TableExists ==
  ASSUME NEW n \in Nat
  PROVE  \E f : Table(f, n)
<1>. DEFINE S == {m \in Nat : \E f : Table(f, m)}
<1>1. 0 \in S
  <2>1. Table([i \in 0..0 |-> 1], 0)
    BY DEF Table
  <2>. QED
    BY <2>1
<1>2. ASSUME NEW m \in Nat, m \in S PROVE m + 1 \in S
  <2>1. PICK f : Table(f, m)
    BY <1>2
  <2>. DEFINE g == [i \in 0..(m + 1) |-> IF i = m + 1 THEN 2 * f[m] ELSE f[i]]
  <2>2. ASSUME NEW i \in 0..(m + 1)
        PROVE  g[i] \in Nat \ {0} /\ g[i] = IF i = 0 THEN 1 ELSE 2 * g[i - 1]
    <3>1. CASE i = m + 1
      BY <2>1, <3>1 DEF Table
    <3>2. CASE i # m + 1
      <4>1. i \in 0..m /\ (i # 0 => i - 1 \in 0..m)
        BY <3>2
      <4>. QED
        BY <2>1, <4>1 DEF Table
    <3>. QED
      BY <3>1, <3>2
  <2>3. Table(g, m + 1)
    BY <2>2 DEF Table
  <2>. QED
    BY <2>3
<1>3. Nat \subseteq S
  BY <1>1, <1>2, Induction
<1>. QED
  BY <1>3

LEMMA TableUnique ==
  ASSUME NEW m \in Nat, NEW n \in Nat, NEW f, NEW g, Table(f, m), Table(g, n)
  PROVE  \A i \in Nat : i <= m /\ i <= n => f[i] = g[i]
<1>. DEFINE S == {i \in Nat : i <= m /\ i <= n => f[i] = g[i]}
<1>1. 0 \in S
  BY DEF Table
<1>2. ASSUME NEW i \in Nat, i \in S PROVE i + 1 \in S
  <2>. SUFFICES ASSUME i + 1 <= m, i + 1 <= n
                PROVE  f[i + 1] = g[i + 1]
    OBVIOUS
  <2>1. f[i] = g[i]
    BY <1>2
  <2>2. i + 1 \in 0..m /\ i + 1 \in 0..n /\ i + 1 # 0 /\ i + 1 - 1 = i
    OBVIOUS
  <2>3. f[i + 1] = 2 * f[i]
    BY <2>2 DEF Table
  <2>4. g[i + 1] = 2 * g[i]
    BY <2>2 DEF Table
  <2>. QED
    BY <2>1, <2>3, <2>4
<1>. HIDE DEF S
<1>3. Nat \subseteq S
  BY <1>1, <1>2, Induction
<1>. QED
  BY <1>3 DEF S

(* Pow2 is the function its definition says, on all of Nat.                *)
LEMMA Pow2Unfolds == Pow2 = [n \in Nat |-> IF n = 0 THEN 1 ELSE 2 * Pow2[n - 1]]
<1>. DEFINE t(n) == CHOOSE f : Table(f, n)
            p == [n \in Nat |-> t(n)[n]]
<1>1. ASSUME NEW n \in Nat PROVE Table(t(n), n)
  BY TableExists
<1>. HIDE DEF t
<1>2. ASSUME NEW n \in Nat PROVE p[n] = IF n = 0 THEN 1 ELSE 2 * p[n - 1]
  <2>1. CASE n = 0
    BY <1>1, <2>1 DEF Table
  <2>2. CASE n # 0
    <3>1. n - 1 \in Nat /\ Table(t(n), n) /\ Table(t(n - 1), n - 1)
      BY <1>1, <2>2
    <3>2. t(n)[n - 1] = t(n - 1)[n - 1]
      BY <3>1, TableUnique
    <3>3. t(n)[n] = 2 * t(n)[n - 1]
      BY <2>2, <3>1 DEF Table
    <3>. QED
      BY <2>2, <3>1, <3>2, <3>3
  <2>. QED
    BY <2>1, <2>2
<1>3. p = [n \in Nat |-> IF n = 0 THEN 1 ELSE 2 * p[n - 1]]
  BY <1>2
<1>. HIDE DEF p
<1>. QED
  BY <1>3 DEF Pow2

LEMMA Pow2Type ==
  /\ Pow2[0] = 1
  /\ \A n \in Nat : Pow2[n] \in Nat \ {0} /\ Pow2[n + 1] = 2 * Pow2[n]
<1>. DEFINE S == {n \in Nat : Pow2[n] \in Nat \ {0}}
<1>1. Pow2[0] = 1
  BY Pow2Unfolds
<1>2. ASSUME NEW n \in Nat PROVE Pow2[n + 1] = 2 * Pow2[n]
  <2>1. n + 1 \in Nat /\ n + 1 # 0 /\ n + 1 - 1 = n
    OBVIOUS
  <2>. QED
    BY <2>1, Pow2Unfolds
<1>3. 0 \in S
  BY <1>1
<1>4. ASSUME NEW n \in Nat, n \in S PROVE n + 1 \in S
  BY <1>2, <1>4
<1>. HIDE DEF S
<1>5. Nat \subseteq S
  BY <1>3, <1>4, Induction
<1>. QED
  BY <1>1, <1>2, <1>5 DEF S

LEMMA Pow2Sum ==
  ASSUME NEW a \in Nat, NEW b \in Nat
  PROVE  Pow2[a + b] = Pow2[a] * Pow2[b]
<1>. DEFINE S == {n \in Nat : Pow2[a + n] = Pow2[a] * Pow2[n]}
<1>1. 0 \in S
  BY Pow2Type
<1>2. ASSUME NEW n \in Nat, n \in S PROVE n + 1 \in S
  <2>1. Pow2[a + (n + 1)] = 2 * Pow2[a + n]
    <3>1. a + n \in Nat /\ (a + n) + 1 = a + (n + 1)
      OBVIOUS
    <3>. QED
      BY <3>1, Pow2Type
  <2>2. Pow2[n + 1] = 2 * Pow2[n] /\ Pow2[n] \in Nat /\ Pow2[a] \in Nat
    BY Pow2Type
  <2>3. Pow2[a] * Pow2[n + 1] = 2 * (Pow2[a] * Pow2[n])
    BY <2>2
  <2>. QED
    BY <1>2, <2>1, <2>3
<1>. HIDE DEF S
<1>3. Nat \subseteq S
  BY <1>1, <1>2, Induction
<1>. QED
  BY <1>3 DEF S

LEMMA SizeType == Size \in Nat \ {0} /\ Bits \in Nat \ {0}
BY MaskAssumption, Pow2Type, ProductPositive DEF Size, Bits

-----------------------------------------------------------------------------
(* An address as a number.                                                 *)

(* The sums the recursion of Number runs through, one octet at a time.     *)
Sums(o, n, m) ==
  /\ n \in [0..m -> Nat] /\ n[0] = 0
  /\ \A i \in 1..m : n[i] = n[i - 1] * Size + o[i]

LEMMA SumsExist ==
  ASSUME NEW o \in Values
  PROVE  \E n : Sums(o, n, Octets)
<1>. USE MaskAssumption
<1>. DEFINE S == {m \in Nat : m <= Octets => \E n : Sums(o, n, m)}
<1>1. 0 \in S
  <2>1. Sums(o, [i \in 0..0 |-> 0], 0)
    BY DEF Sums
  <2>. QED
    BY <2>1
<1>2. ASSUME NEW m \in Nat, m \in S, m + 1 <= Octets PROVE \E n : Sums(o, n, m + 1)
  <2>1. PICK n : Sums(o, n, m)
    BY <1>2
  <2>. DEFINE v == n[m] * Size + o[m + 1]
              k == [i \in 0..(m + 1) |-> IF i = m + 1 THEN v ELSE n[i]]
  <2>2. v \in Nat
    <3>1. n[m] \in Nat /\ o[m + 1] \in Nat
      BY <1>2, <2>1, SizeType DEF Sums, Values
    <3>. QED
      BY <3>1, SizeType
  <2>3. ASSUME NEW i \in 1..(m + 1) PROVE k[i] = k[i - 1] * Size + o[i]
    <3>1. CASE i = m + 1
      BY <3>1
    <3>2. CASE i # m + 1
      <4>1. i \in 1..m /\ i - 1 \in 0..m
        BY <3>2
      <4>2. k[i] = n[i] /\ k[i - 1] = n[i - 1]
        BY <4>1
      <4>. QED
        BY <2>1, <4>1, <4>2 DEF Sums
    <3>. QED
      BY <3>1, <3>2
  <2>4. ASSUME NEW i \in 0..(m + 1) PROVE k[i] \in Nat
    BY <2>1, <2>2 DEF Sums
  <2>5. k \in [0..(m + 1) -> Nat] /\ k[0] = 0
    BY <2>1, <2>4 DEF Sums
  <2>. HIDE DEF k
  <2>. QED
    BY <2>3, <2>5 DEF Sums
<1>3. \A m \in Nat : m \in S => m + 1 \in S
  BY <1>2
<1>. HIDE DEF S
<1>4. Nat \subseteq S
  BY <1>1, <1>3, Induction
<1>. QED
  BY <1>4 DEF S

LEMMA NumberSums ==
  ASSUME NEW o \in Values
  PROVE  \E n : Sums(o, n, Octets) /\ Number(o) = n[Octets]
<1>. USE MaskAssumption
<1>. DEFINE Step(n) == [i \in 0..Octets |-> IF i = 0 THEN 0 ELSE n[i - 1] * Size + o[i]]
<1>1. PICK f : Sums(o, f, Octets)
  BY SumsExist
<1>2. f = Step(f)
  <2>1. ASSUME NEW i \in 0..Octets PROVE f[i] = Step(f)[i]
    <3>1. CASE i = 0
      BY <1>1, <3>1 DEF Sums
    <3>2. CASE i # 0
      BY <1>1, <3>2 DEF Sums
    <3>. QED
      BY <3>1, <3>2
  <2>2. DOMAIN f = 0..Octets /\ f = [i \in 0..Octets |-> f[i]]
    BY <1>1 DEF Sums
  <2>. QED
    BY <2>1, <2>2
<1>3. PICK n : n = Step(n) /\ Number(o) = n[Octets]
  BY <1>2 DEF Number
<1>4. ASSUME NEW i \in 0..Octets PROVE n[i] = f[i]
  <2>. DEFINE S == {k \in Nat : k <= Octets => n[k] = f[k]}
  <2>1. 0 \in S
    BY <1>1, <1>3 DEF Sums
  <2>2. ASSUME NEW k \in Nat, k \in S PROVE k + 1 \in S
    <3>. SUFFICES ASSUME k + 1 <= Octets PROVE n[k + 1] = f[k + 1]
      OBVIOUS
    <3>1. n[k] = f[k] /\ k + 1 \in 1..Octets /\ k + 1 - 1 = k
      BY <2>2
    <3>2. n[k + 1] = n[k] * Size + o[k + 1]
      BY <1>3, <3>1
    <3>3. f[k + 1] = f[k] * Size + o[k + 1]
      BY <1>1, <3>1 DEF Sums
    <3>. QED
      BY <3>1, <3>2, <3>3
  <2>. HIDE DEF S
  <2>3. Nat \subseteq S
    BY <2>1, <2>2, Induction
  <2>. QED
    BY <2>3 DEF S
<1>. QED
  BY <1>1, <1>3, <1>4

-----------------------------------------------------------------------------
(* A number shifted right.                                                 *)

(* What is left of a number once its last d octets are shifted out.        *)
LEMMA TailShift ==
  ASSUME NEW o \in Values, NEW n, Sums(o, n, Octets), Number(o) = n[Octets],
         NEW d \in Nat, d <= Octets
  PROVE  Number(o) \div Pow2[d * Width] = n[Octets - d]
<1>. USE MaskAssumption
<1>. DEFINE S == {e \in Nat : e <= Octets => Number(o) \div Pow2[e * Width] = n[Octets - e]}
<1>1. 0 \in S
  <2>1. Pow2[0 * Width] = 1 /\ n[Octets] \in Nat
    BY Pow2Type DEF Sums
  <2>. QED
    BY <2>1
<1>2. ASSUME NEW e \in Nat, e \in S, e + 1 <= Octets
      PROVE  Number(o) \div Pow2[(e + 1) * Width] = n[Octets - (e + 1)]
  <2>. DEFINE q == Octets - (e + 1)
  <2>1. /\ q \in 0..Octets /\ q + 1 \in 1..Octets /\ q + 1 = Octets - e
        /\ n[q] \in Nat /\ n[q + 1] \in Nat /\ n[Octets] \in Nat
    BY <1>2 DEF Sums
  <2>2. n[q + 1] = n[q] * Size + o[q + 1]
    <3>1. q + 1 - 1 = q
      BY <2>1
    <3>. QED
      BY <2>1, <3>1 DEF Sums
  <2>3. o[q + 1] \in 0..(Size - 1)
    BY <2>1 DEF Values
  <2>4. n[q + 1] \div Size = n[q]
    <3>. HIDE DEF q
    <3>1. (n[q] * Size + o[q + 1]) \div Size = n[q]
      BY <2>1, <2>3, SizeType, DivRounds, ZenonT(30)
    <3>. QED
      BY <2>2, <3>1
  <2>5. Pow2[(e + 1) * Width] = Pow2[e * Width] * Size
    <3>1. e * Width \in Nat /\ (e + 1) * Width = e * Width + Width
      OBVIOUS
    <3>. QED
      BY <3>1, Pow2Sum DEF Size
  <2>6. Pow2[e * Width] \in Nat \ {0}
    <3>1. e * Width \in Nat
      OBVIOUS
    <3>. QED
      BY <3>1, Pow2Type
  <2>7. (Number(o) \div Pow2[e * Width]) \div Size = Number(o) \div Pow2[(e + 1) * Width]
    <3>1. Number(o) \in Nat /\ Size \in Nat \ {0}
      BY <2>1, SizeType
    <3>2. (Number(o) \div Pow2[e * Width]) \div Size = Number(o) \div (Pow2[e * Width] * Size)
      <4>. DEFINE x == Number(o)
                  y == Pow2[e * Width]
                  z == Size
      <4>1. x \in Nat /\ y \in Nat \ {0} /\ z \in Nat \ {0}
        BY <2>6, <3>1
      <4>. HIDE DEF x, y, z
      <4>2. (x \div y) \div z = x \div (y * z)
        BY ONLY <4>1, DivDiv
      <4>. QED
        BY <4>2 DEF x, y, z
    <3>. QED
      BY ONLY <2>5, <3>2
  <2>. QED
    BY <1>2, <2>1, <2>4, <2>7
<1>3. \A e \in Nat : e \in S => e + 1 \in S
  BY <1>2
<1>. HIDE DEF S
<1>4. Nat \subseteq S
  BY <1>1, <1>3, Induction
<1>. QED
  BY <1>4 DEF S

(* The first i bits of an address.                                         *)
Lead(o, i) == Number(o) \div Pow2[Bits - i]

LEMMA NumberType ==
  ASSUME NEW o \in Values
  PROVE  Number(o) \in Nat
<1>1. PICK n : Sums(o, n, Octets) /\ Number(o) = n[Octets]
  BY NumberSums
<1>. QED
  BY <1>1, MaskAssumption DEF Sums

LEMMA LeadType ==
  ASSUME NEW o \in Values, NEW i \in 0..Bits
  PROVE  Lead(o, i) \in Nat
<1>1. Bits - i \in Nat
  BY SizeType
<1>2. Number(o) \in Nat
  BY NumberType
<1>3. Pow2[Bits - i] \in Nat \ {0}
  BY <1>1, Pow2Type
<1>. QED
  BY <1>2, <1>3, DivMod, ZenonT(30) DEF Lead

LEMMA LeadNone ==
  ASSUME NEW o \in Values
  PROVE  Lead(o, 0) = 0
<1>1. PICK n : Sums(o, n, Octets) /\ Number(o) = n[Octets]
  BY NumberSums
<1>2. Number(o) \div Pow2[Octets * Width] = n[0]
  <2>1. Octets \in Nat /\ Octets <= Octets /\ Octets - Octets = 0
    BY MaskAssumption
  <2>. QED
    BY <1>1, <2>1, TailShift
<1>3. Bits - 0 = Octets * Width
  BY SizeType DEF Bits
<1>. QED
  BY <1>1, <1>2, <1>3 DEF Lead, Sums

(* The last of the first i + 1 bits is the bit at its place in its octet.  *)
LEMMA LastBit ==
  ASSUME NEW o \in Values, NEW i \in 0..(Bits - 1)
  PROVE  Lead(o, i + 1) % 2 = Bit(o, i + 1) /\ Bit(o, i + 1) \in 0..1
<1>. USE MaskAssumption
<1>. DEFINE q == i \div Width
            r == i % Width
            e == Width - 1 - r
<1>1. /\ q \in 0..(Octets - 1) /\ r \in 0..(Width - 1) /\ i = Width * q + r
      /\ e \in Nat
  <2>1. q \in Nat /\ r \in 0..(Width - 1) /\ i = Width * q + r
    <3>1. i \in Nat /\ Width \in Nat \ {0}
      BY SizeType
    <3>. QED
      BY <3>1, DivMod
  <2>2. q < Octets
    <3>. HIDE DEF q, r
    <3>1. SUFFICES ASSUME q >= Octets PROVE FALSE
      BY <2>1
    <3>2. Width * q >= Width * Octets
      BY <2>1, <3>1
    <3>. QED
      BY <2>1, <3>2 DEF Bits
  <2>. QED
    BY <2>1, <2>2
<1>2. Bit(o, i + 1) = (o[q + 1] \div Pow2[e]) % 2
  <2>1. i + 1 - 1 = i
    BY SizeType
  <2>. QED
    BY <2>1 DEF Bit
<1>. HIDE DEF q, r, e
<1>3. PICK n : Sums(o, n, Octets) /\ Number(o) = n[Octets]
  BY NumberSums
<1>4. /\ q + 1 \in 1..Octets /\ q + 1 - 1 = q /\ Octets - (q + 1) \in Nat
      /\ n[q] \in Nat /\ n[q + 1] \in Nat /\ n[Octets] \in Nat
      /\ n[q + 1] = n[q] * Size + o[q + 1]
      /\ o[q + 1] \in Nat
  <2>1. q + 1 \in 1..Octets /\ q + 1 - 1 = q /\ Octets - (q + 1) \in Nat
    BY <1>1
  <2>2. n[q] \in Nat /\ n[q + 1] \in Nat /\ n[Octets] \in Nat
    BY <1>1, <1>3 DEF Sums
  <2>3. n[q + 1] = n[q] * Size + o[q + 1]
    <3>1. \A j \in 1..Octets : n[j] = n[j - 1] * Size + o[j]
      BY <1>3 DEF Sums
    <3>. QED
      BY <1>1, <2>1, <3>1
  <2>4. o[q + 1] \in Nat
    BY <2>1, SizeType DEF Values
  <2>. QED
    BY <2>1, <2>2, <2>3, <2>4
<1>5. Number(o) \div Pow2[(Octets - (q + 1)) * Width] = n[q + 1]
  <2>1. Octets - (Octets - (q + 1)) = q + 1 /\ Octets - (q + 1) <= Octets
    BY <1>4
  <2>. QED
    BY <1>3, <1>4, <2>1, TailShift, ZenonT(30)
<1>6. Lead(o, i + 1) = n[q + 1] \div Pow2[e]
  <2>. DEFINE h == (Octets - (q + 1)) * Width
  <2>1. h \in Nat /\ Bits - (i + 1) = h + e
    BY <1>1, <1>4 DEF Bits, e
  <2>. HIDE DEF h
  <2>2. Pow2[h] \in Nat \ {0} /\ Pow2[e] \in Nat \ {0}
    BY <1>1, <2>1, Pow2Type
  <2>3. Pow2[h + e] = Pow2[h] * Pow2[e]
    BY <1>1, <2>1, Pow2Sum
  <2>4. (Number(o) \div Pow2[h]) \div Pow2[e] = Number(o) \div (Pow2[h] * Pow2[e])
    <3>1. Number(o) \in Nat
      BY <1>3, <1>4
    <3>. QED
      <4>. DEFINE x == Number(o)
                  y == Pow2[h]
                  z == Pow2[e]
      <4>1. x \in Nat /\ y \in Nat \ {0} /\ z \in Nat \ {0}
        BY <2>2, <3>1
      <4>. HIDE DEF x, y, z
      <4>2. (x \div y) \div z = x \div (y * z)
        BY ONLY <4>1, DivDiv
      <4>. QED
        BY <4>2 DEF x, y, z
  <2>. QED
    BY <1>5, <2>1, <2>3, <2>4 DEF Lead, h
<1>. DEFINE c == n[q] * Pow2[r]
            b == o[q + 1] \div Pow2[e]
<1>7. c \in Nat /\ b \in Nat
  <2>1. Pow2[r] \in Nat /\ Pow2[e] \in Nat \ {0}
    <3>1. r \in Nat
      BY <1>1
    <3>. QED
      BY <1>1, <3>1, Pow2Type
  <2>2. c \in Nat
    BY <1>4, <2>1, Regroup, ZenonT(30)
  <2>3. b \in Nat
    BY <1>4, <2>1, DivMod
  <2>. QED
    BY <2>2, <2>3
<1>8. n[q + 1] = (2 * c) * Pow2[e] + o[q + 1]
  <2>1. Width = (r + 1) + e /\ r + 1 \in Nat /\ r \in Nat
    BY <1>1 DEF e
  <2>2. Size = Pow2[r + 1] * Pow2[e] /\ Pow2[r + 1] = 2 * Pow2[r]
    BY <1>1, <2>1, Pow2Sum, Pow2Type DEF Size
  <2>3. Pow2[r] \in Nat /\ Pow2[e] \in Nat
    BY <1>1, <2>1, Pow2Type
  <2>4. n[q] * ((2 * Pow2[r]) * Pow2[e]) = (2 * (n[q] * Pow2[r])) * Pow2[e]
    <3>. DEFINE x == n[q]
                y == Pow2[r]
                z == Pow2[e]
    <3>1. x \in Nat /\ y \in Nat /\ z \in Nat
      BY <1>4, <2>3
    <3>. HIDE DEF x, y, z
    <3>2. x * ((2 * y) * z) = (2 * (x * y)) * z
      BY ONLY <3>1, Regroup
    <3>. QED
      BY <3>2 DEF x, y, z
  <2>. QED
    BY ONLY <1>4, <2>2, <2>4 DEF c
<1>. HIDE DEF c
<1>9. Lead(o, i + 1) = 2 * c + b
  <2>1. Pow2[e] \in Nat \ {0} /\ 2 * c \in Nat
    BY <1>1, <1>7, Pow2Type
  <2>2. ((2 * c) * Pow2[e] + o[q + 1]) \div Pow2[e] = 2 * c + b
    <3>1. ((2 * c) * Pow2[e] + o[q + 1]) \div Pow2[e] = 2 * c + (o[q + 1] \div Pow2[e])
      BY <1>4, <2>1, DivSum, ZenonT(30)
    <3>. QED
      BY ONLY <3>1 DEF b
  <2>. QED
    BY <1>6, <1>8, <2>2
<1>. HIDE DEF b
<1>10. Bit(o, i + 1) = b % 2
  BY <1>2 DEF b
<1>. QED
  BY <1>7, <1>9, <1>10

(* One bit more is one shift less.                                         *)
LEMMA LeadStep ==
  ASSUME NEW o \in Values, NEW i \in 0..(Bits - 1)
  PROVE  Lead(o, i + 1) = 2 * Lead(o, i) + Bit(o, i + 1)
<1>1. Bits - (i + 1) \in Nat /\ Bits - i = (Bits - (i + 1)) + 1
  BY SizeType
<1>2. Pow2[Bits - i] = Pow2[Bits - (i + 1)] * 2 /\ Pow2[Bits - (i + 1)] \in Nat \ {0}
  BY <1>1, Pow2Type
<1>3. Number(o) \in Nat
  BY NumberType
<1>4. Lead(o, i + 1) \div 2 = Lead(o, i)
  BY <1>2, <1>3, DivDiv DEF Lead
<1>5. Lead(o, i + 1) \in Nat
  BY LeadType, SizeType
<1>6. Lead(o, i + 1) % 2 = Bit(o, i + 1)
  BY LastBit
<1>7. Lead(o, i + 1) = 2 * (Lead(o, i + 1) \div 2) + (Lead(o, i + 1) % 2)
  BY <1>5, Halves
<1>. QED
  BY <1>4, <1>6, <1>7

(* Equal numbers, shifted, are equal bits.                                 *)
LEMMA SameLead ==
  ASSUME NEW o \in Values, NEW p \in Values, NEW k \in 0..Bits
  PROVE  Lead(o, k) = Lead(p, k) <=> \A i \in 1..k : Bit(o, i) = Bit(p, i)
<1>. DEFINE Same(m) == Lead(o, m) = Lead(p, m) <=> \A i \in 1..m : Bit(o, i) = Bit(p, i)
            S == {m \in Nat : m <= Bits => Same(m)}
<1>1. 0 \in S
  BY LeadNone
<1>2. ASSUME NEW m \in Nat, m \in S, m + 1 <= Bits PROVE Same(m + 1)
  <2>1. m \in 0..(Bits - 1) /\ m \in 0..Bits /\ Same(m)
    BY <1>2, SizeType
  <2>2. /\ Lead(o, m + 1) = 2 * Lead(o, m) + Bit(o, m + 1)
        /\ Lead(p, m + 1) = 2 * Lead(p, m) + Bit(p, m + 1)
        /\ Bit(o, m + 1) \in 0..1 /\ Bit(p, m + 1) \in 0..1
        /\ Lead(o, m) \in Nat /\ Lead(p, m) \in Nat
    BY <2>1, LeadStep, LastBit, LeadType
  <2>3. Lead(o, m + 1) = Lead(p, m + 1)
          <=> Lead(o, m) = Lead(p, m) /\ Bit(o, m + 1) = Bit(p, m + 1)
    BY <2>2
  <2>4. (\A i \in 1..(m + 1) : Bit(o, i) = Bit(p, i))
          <=> (\A i \in 1..m : Bit(o, i) = Bit(p, i)) /\ Bit(o, m + 1) = Bit(p, m + 1)
    <3>1. 1..(m + 1) = 1..m \cup {m + 1}
      OBVIOUS
    <3>. QED
      BY <3>1
  <2>. QED
    BY <2>1, <2>3, <2>4
<1>3. \A m \in Nat : m \in S => m + 1 \in S
  BY <1>2
<1>. HIDE DEF S
<1>4. Nat \subseteq S
  BY <1>1, <1>3, Induction
<1>. QED
  BY <1>4, SizeType DEF S

-----------------------------------------------------------------------------
(* What a text means and what it is parsed into.                           *)

(* A prefix contains the addresses that agree with it bit by bit.          *)
LEMMA ContainsMeans ==
  ASSUME NEW t, t.octets \in Values, t.len \in 0..Bits, NEW a \in Address
  PROVE  LET m == [kind |-> "cidr", is4 |-> t.is4, octets |-> t.octets, len |-> t.len]
         IN Contains(m, a)
              <=> t.is4 = a.is4 /\ \A i \in 1..t.len : Bit(t.octets, i) = Bit(a.octets, i)
<1>1. a.octets \in Values
  BY DEF Address
<1>2. Lead(t.octets, t.len) = Lead(a.octets, t.len)
        <=> \A i \in 1..t.len : Bit(t.octets, i) = Bit(a.octets, i)
  BY <1>1, SameLead
<1>. QED
  BY <1>2 DEF Contains, Lead

(* What one part of a pattern says of the octet at its place.              *)
PartDenotes(p, v) ==
  \/ p.kind = "any"
  \/ p.kind = "number" /\ v = p.n
  \/ p.kind = "range" /\ v \in p.lo..p.hi

RuleMatches(rule, v) == rule.any \/ (rule.lo <= v /\ v <= rule.hi)

(* The conversion to uint8 changes no number that is accepted.             *)
LEMMA Uint8Exact ==
  ASSUME NEW v \in 0..(Size - 1)
  PROVE  Uint8(v) = v
<1>1. Size \in Nat \ {0}
  BY SizeType
<1>. HIDE DEF Size
<1>. QED
  BY <1>1 DEF Uint8

(* An accepted part becomes a rule that means the same, and one that some  *)
(* octet satisfies.                                                        *)
LEMMA PartMeans ==
  ASSUME NEW p \in Part, ParseOctet(p) # Rejected
  PROVE  /\ ParseOctet(p) \in Rule
         /\ ParseOctet(p).any \/ ParseOctet(p).lo <= ParseOctet(p).hi
         /\ \A v \in 0..(Size - 1) : RuleMatches(ParseOctet(p), v) <=> PartDenotes(p, v)
<1>. USE SizeType DEF RuleMatches, PartDenotes, Rule
<1>1. CASE p.kind = "any"
  <2>1. ParseOctet(p) = [any |-> TRUE, lo |-> 0, hi |-> 0]
    BY <1>1 DEF ParseOctet
  <2>. QED
    BY <1>1, <2>1
<1>2. CASE p.kind = "range"
  <2>1. p.lo \in Int /\ p.hi \in Int
    BY <1>2 DEF Part
  <2>2. p.lo \in 0..(Size - 1) /\ p.hi \in 0..(Size - 1) /\ p.lo <= p.hi
    BY <1>2, <2>1 DEF ParseOctet, BadRange
  <2>3. ParseOctet(p) = [any |-> FALSE, lo |-> p.lo, hi |-> p.hi]
    BY <1>2, <2>1, <2>2, Uint8Exact DEF ParseOctet
  <2>. QED
    BY <1>2, <2>1, <2>2, <2>3
<1>3. CASE p.kind = "number"
  <2>1. p.n \in Int
    BY <1>3 DEF Part
  <2>2. p.n \in 0..(Size - 1)
    BY <1>3, <2>1 DEF ParseOctet
  <2>3. ParseOctet(p) = [any |-> FALSE, lo |-> p.n, hi |-> p.n]
    BY <1>3, <2>1, <2>2, Uint8Exact DEF ParseOctet
  <2>. QED
    BY <1>3, <2>1, <2>2, <2>3
<1>4. CASE p.kind = "bad"
  BY <1>4 DEF ParseOctet
<1>. QED
  BY <1>1, <1>2, <1>3, <1>4 DEF Part

(* An accepted prefix becomes a matcher that means the same and that its   *)
(* own address satisfies.                                                  *)
LEMMA PrefixMeans ==
  ASSUME NEW t \in Text, t.kind = "cidr", ParseMask(t) # Rejected
  PROVE  /\ ParseMask(t) \in Matchers
         /\ \A a \in Address : MatchOne(ParseMask(t), a) <=> Denotes(t, a)
         /\ \E a \in Address : MatchOne(ParseMask(t), a)
<1>1. t.is4 \in BOOLEAN
  BY DEF Text
<1>2. GoodPrefix(t)
  BY DEF ParseMask
<1>3. ParseMask(t) = [kind |-> "cidr", is4 |-> t.is4, octets |-> t.octets, len |-> t.len]
  BY <1>2 DEF ParseMask
<1>4. ParseMask(t) \in Matchers
  BY <1>1, <1>2, <1>3 DEF GoodPrefix, Matchers
<1>5. ASSUME NEW a \in Address PROVE MatchOne(ParseMask(t), a) <=> Denotes(t, a)
  BY <1>2, <1>3, ContainsMeans DEF GoodPrefix, MatchOne, Denotes
<1>6. \E a \in Address : MatchOne(ParseMask(t), a)
  <2>. DEFINE own == [is4 |-> t.is4, octets |-> t.octets]
  <2>1. own \in Address
    BY <1>1, <1>2 DEF Address, GoodPrefix
  <2>2. MatchOne(ParseMask(t), own)
    BY <1>3 DEF MatchOne, Contains
  <2>. QED
    BY <2>1, <2>2
<1>. QED
  BY <1>4, <1>5, <1>6

(* An accepted pattern becomes a matcher that means the same and that some *)
(* IPv4 address satisfies.                                                 *)
LEMMA PatternMeans ==
  ASSUME NEW t \in Text, t.kind = "octets", ParseMask(t) # Rejected
  PROVE  /\ ParseMask(t) \in Matchers
         /\ \A a \in Address : MatchOne(ParseMask(t), a) <=> Denotes(t, a)
         /\ \E a \in Address : MatchOne(ParseMask(t), a)
<1>1. t.parts \in Seq(Part)
  BY DEF Text
<1>2. GoodParts(t.parts)
  BY DEF ParseMask
<1>3. DOMAIN t.parts = 1..Octets /\ \A i \in 1..Octets : t.parts[i] \in Part
  BY <1>1, <1>2 DEF GoodParts
<1>. DEFINE rules == [i \in 1..Octets |-> ParseOctet(t.parts[i])]
<1>4. ParseMask(t) = [kind |-> "octets", rules |-> rules]
  BY <1>2, <1>3 DEF ParseMask
<1>5. ASSUME NEW i \in 1..Octets
      PROVE  /\ rules[i] \in Rule
             /\ rules[i].any \/ rules[i].lo <= rules[i].hi
             /\ \A v \in 0..(Size - 1) : RuleMatches(rules[i], v) <=> PartDenotes(t.parts[i], v)
  BY <1>2, <1>3, PartMeans DEF GoodParts
<1>. HIDE DEF rules
<1>6. rules \in [1..Octets -> Rule]
  BY <1>5 DEF rules
<1>7. ParseMask(t) \in Matchers
  BY <1>4, <1>6 DEF Matchers
<1>8. ASSUME NEW a \in Address PROVE MatchOne(ParseMask(t), a) <=> Denotes(t, a)
  <2>1. \A i \in 1..Octets : a.octets[i] \in 0..(Size - 1)
    BY DEF Address, Values
  <2>2. MatchOne(ParseMask(t), a)
          <=> a.is4 /\ \A i \in 1..Octets : RuleMatches(rules[i], a.octets[i])
    BY <1>4 DEF MatchOne, OctetsMatch, RuleMatches
  <2>3. Denotes(t, a)
          <=> a.is4 /\ \A i \in 1..Octets : PartDenotes(t.parts[i], a.octets[i])
    BY DEF Denotes, PartDenotes
  <2>. QED
    BY <1>5, <2>1, <2>2, <2>3
<1>9. \E a \in Address : MatchOne(ParseMask(t), a)
  <2>. DEFINE o == [i \in 1..Octets |-> rules[i].lo]
              met == [is4 |-> TRUE, octets |-> o]
  <2>1. met \in Address
    BY <1>5 DEF Address, Values, Rule
  <2>2. ASSUME NEW i \in 1..Octets PROVE RuleMatches(rules[i], o[i])
    BY <1>5, SizeType DEF RuleMatches, Rule
  <2>3. MatchOne(ParseMask(t), met)
    BY <1>4, <2>2 DEF MatchOne, OctetsMatch, RuleMatches
  <2>. QED
    BY <2>1, <2>3
<1>. QED
  BY <1>7, <1>8, <1>9

(* Every mask that parses means what is written and can be met.            *)
LEMMA MaskMeans ==
  ASSUME NEW t \in Text, ParseMask(t) # Rejected
  PROVE  /\ ParseMask(t) \in Matchers
         /\ \A a \in Address : MatchOne(ParseMask(t), a) <=> Denotes(t, a)
         /\ \E a \in Address : MatchOne(ParseMask(t), a)
<1>1. t.kind \in {"cidr", "octets"}
  BY DEF ParseMask
<1>. QED
  BY <1>1, PrefixMeans, PatternMeans

(* An accepted input has a matcher for each of its masks, in order.        *)
LEMMA MasksMean ==
  ASSUME NEW ts \in Seq(Text), ParseMasks(ts).kind = "or"
  PROVE  LET of == ParseMasks(ts).of
         IN /\ ts # <<>> /\ Len(of) = Len(ts) /\ DOMAIN of = DOMAIN ts
            /\ \A i \in DOMAIN ts :
                 /\ ts[i] \in Text /\ ParseMask(ts[i]) # Rejected
                 /\ of[i] = ParseMask(ts[i])
<1>1. ts # <<>> /\ \A i \in DOMAIN ts : ParseMask(ts[i]) # Rejected
  BY DEF ParseMasks, Rejected
<1>. DEFINE of == [i \in DOMAIN ts |-> ParseMask(ts[i])]
<1>2. ParseMasks(ts) = [kind |-> "or", of |-> of]
  BY <1>1 DEF ParseMasks
<1>3. DOMAIN ts = 1..Len(ts) /\ Len(ts) \in Nat
  OBVIOUS
<1>4. Len(of) = Len(ts)
  BY <1>3
<1>. QED
  BY <1>1, <1>2, <1>4

-----------------------------------------------------------------------------
(* The states. A matcher is never anything but what its texts parse into,  *)
(* and no address is rolled before there is one.                           *)

MaskInv ==
  /\ texts \in Seq(Text)
  /\ matcher = Unparsed \/ matcher = ParseMasks(texts)
  /\ addr \in Address \cup {NoAddress} /\ hit \in BOOLEAN
  /\ addr # NoAddress => Accepted /\ (hit <=> Match(matcher, addr))

LEMMA MaskInvariant == Spec => []MaskInv
<1>1. Init => MaskInv
  BY MaskAssumption DEF Init, MaskInv
<1>2. MaskInv /\ [Next]_vars => MaskInv'
  <2>. SUFFICES ASSUME MaskInv, [Next]_vars PROVE MaskInv'
    OBVIOUS
  <2>1. CASE Parse
    <3>1. addr = NoAddress
      BY <2>1 DEF MaskInv, Parse, Accepted, Unparsed
    <3>. QED
      BY <2>1, <3>1 DEF MaskInv, Parse
  <2>2. ASSUME NEW a \in Address, Roll(a) PROVE MaskInv'
    <3>1. hit' = Match(matcher, a) /\ addr' = a /\ matcher' = matcher /\ texts' = texts
          /\ matcher.kind = "or"
      BY <2>2 DEF Roll, Accepted
    <3>2. hit' \in BOOLEAN
      BY <3>1 DEF Match
    <3>3. hit' <=> Match(matcher, addr)'
      BY <3>1 DEF Match, MatchOne, Contains, OctetsMatch
    <3>. QED
      BY <3>1, <3>2, <3>3 DEF MaskInv, Accepted
  <2>3. CASE UNCHANGED vars
    BY <2>3 DEF vars, MaskInv, Accepted, Match, MatchOne, Contains, OctetsMatch
  <2>. QED
    BY <2>1, <2>2, <2>3 DEF Next
<1>. QED
  BY <1>1, <1>2, PTL DEF Spec

(* An accepted matcher is what MasksMean says of the texts.                *)
LEMMA AcceptedMeans ==
  ASSUME MaskInv, Accepted
  PROVE  /\ texts \in Seq(Text) /\ matcher = ParseMasks(texts)
         /\ ParseMasks(texts).kind = "or"
BY DEF MaskInv, Accepted, Unparsed

(* Type correctness: among others, every matcher accepted is a prefix of   *)
(* an address and a length, or a rule for each octet.                      *)
THEOREM MaskTypeCorrect == Spec => []TypeOK
<1>1. MaskInv => TypeOK
  <2>. SUFFICES ASSUME MaskInv PROVE TypeOK
    OBVIOUS
  <2>1. DOMAIN texts = 1..Len(texts)
    BY DEF MaskInv
  <2>2. matcher = Unparsed \/ matcher = Rejected \/ Accepted
    BY DEF MaskInv, ParseMasks, Accepted
  <2>3. ASSUME Accepted, NEW i \in DOMAIN matcher.of PROVE matcher.of[i] \in Matchers
    BY <2>3, AcceptedMeans, MasksMean, MaskMeans
  <2>. QED
    BY <2>1, <2>2, <2>3 DEF MaskInv, TypeOK
<1>. QED
  BY <1>1, MaskInvariant, PTL

(* mask.go:10 "whether an allocated address satisfies the user's mask":    *)
(* the matcher holds of an address exactly if one of the texts means it.   *)
THEOREM MasksMeanWhatIsWritten == Spec => []MatchesAsWritten
<1>1. MaskInv => MatchesAsWritten
  <2>. SUFFICES ASSUME MaskInv, addr # NoAddress
                PROVE  hit <=> \E i \in DOMAIN texts : Denotes(texts[i], addr)
    BY DEF MatchesAsWritten
  <2>1. Accepted /\ addr \in Address /\ (hit <=> Match(matcher, addr))
    BY DEF MaskInv
  <2>2. /\ DOMAIN matcher.of = DOMAIN texts
        /\ \A i \in DOMAIN texts :
             /\ texts[i] \in Text /\ ParseMask(texts[i]) # Rejected
             /\ matcher.of[i] = ParseMask(texts[i])
    BY <2>1, AcceptedMeans, MasksMean
  <2>3. \A i \in DOMAIN texts : MatchOne(matcher.of[i], addr) <=> Denotes(texts[i], addr)
    BY <2>1, <2>2, MaskMeans
  <2>. QED
    BY <2>1, <2>2, <2>3 DEF Match
<1>. QED
  BY <1>1, MaskInvariant, PTL

(* No accepted mask is one no address satisfies, for which every attempt   *)
(* of a run would be paid in vain.                                         *)
THEOREM AcceptedMasksCanBeMet == Spec => []AcceptedCanBeMet
<1>1. MaskInv => AcceptedCanBeMet
  <2>. SUFFICES ASSUME MaskInv, Accepted, NEW i \in DOMAIN matcher.of
                PROVE  \E a \in Address : MatchOne(matcher.of[i], a)
    BY DEF AcceptedCanBeMet
  <2>. QED
    BY AcceptedMeans, MasksMean, MaskMeans
<1>. QED
  BY <1>1, MaskInvariant, PTL
=============================================================================
