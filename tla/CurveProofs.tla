---------------------------- MODULE CurveProofs ----------------------------
(***************************************************************************)
(* Proofs for the arithmetic of lib/ed25519, for every number and width of *)
(* limbs: the functions of fe.c, called one after the other in any order,  *)
(* compute in the field whatever their carries leave in the limbs, and no  *)
(* pass of sc.c changes the scalar it reduces.  Both are congruences       *)
(* between sums over limbs, so they rest on the lemmas of InductionLemmas  *)
(* about sums, powers and remainders.  That the passes end in a reduced    *)
(* scalar is a matter of sizes: each pass leaves limbs within a bound, and *)
(* a section of its own shows the bounds with the widths of the code.  The *)
(* last sections are about ge.c: both recodings of a scalar, and how many  *)
(* reduced elements the operands of its multiplications sum up.            *)
(***************************************************************************)
EXTENDS Ed25519, InductionLemmas

\* What the assumptions say of the sizes.
LEMMA Sizes ==
  /\ Limbs \in Nat /\ Limbs >= 4 /\ Limbs \in Nat \ {0}
  /\ EvenBits \in Nat /\ EvenBits >= 2 /\ OddBits = EvenBits - 1 /\ OddBits \in Nat /\ OddBits >= 1
  /\ FoldBy \in Nat
BY FieldAssumption

LEMMA LimbIndex ==
  ASSUME NEW i \in Limb
  PROVE  /\ i \in Nat /\ i \in 0 .. Limbs - 1 /\ i \in 0 .. Limbs /\ i + 1 \in 0 .. Limbs
         /\ i < Limbs
BY Sizes DEF Limb

LEMMA Widths ==
  ASSUME NEW i
  PROVE  Width(i) \in Nat /\ Width(i) >= 1
BY Sizes DEF Width

\* Each limb starts where the one below it ends.
LEMMA Offsets ==
  /\ Offset(0) = 0
  /\ \A i \in Nat : Offset(i) \in Nat /\ Offset(i + 1) = Offset(i) + Width(i)
<1> DEFINE s == EvenBits + OddBits
<1>0. s \in Nat /\ EvenBits \in Nat /\ OddBits \in Nat
  BY Sizes
<1>1. Offset(0) = 0
  <2>1. 0 \div 2 = 0 /\ 0 % 2 = 0
    OBVIOUS
  <2> QED BY <1>0, <2>1 DEF Offset
<1>2. ASSUME NEW i \in Nat
      PROVE  Offset(i) \in Nat /\ Offset(i + 1) = Offset(i) + Width(i)
  <2> DEFINE k == i \div 2
  <2>1. k \in Nat /\ (i % 2 = 0 \/ i % 2 = 1)
    OBVIOUS
  <2>2. k * s \in Nat /\ (k + 1) * s = k * s + s
    BY <1>0, <2>1
  <2>3. CASE i % 2 = 0
    <3>1. (i + 1) \div 2 = k /\ (i + 1) % 2 = 1
      BY <2>3
    <3>2. Offset(i) = k * s + 0 * EvenBits /\ Offset(i + 1) = k * s + 1 * EvenBits
          /\ Width(i) = EvenBits
      BY <2>3, <3>1 DEF Offset, Width
    <3> HIDE DEF k, s
    <3> QED BY <1>0, <2>2, <3>2
  <2>4. CASE i % 2 = 1
    <3>1. (i + 1) \div 2 = k + 1 /\ (i + 1) % 2 = 0
      BY <2>4
    <3>2. Offset(i) = k * s + 1 * EvenBits /\ Offset(i + 1) = (k + 1) * s + 0 * EvenBits
          /\ Width(i) = OddBits /\ s = EvenBits + OddBits
      BY <2>4, <3>1 DEF Offset, Width
    <3> HIDE DEF k, s
    <3> QED BY <1>0, <2>2, <3>2
  <2> QED BY <2>1, <2>3, <2>4
<1> QED BY <1>1, <1>2

\* Each place is the one below it times a limb, and the place above the top limb
\* exceeds the prime by FoldBy.
LEMMA Places ==
  /\ \A i \in 0 .. Limbs : Place[i] \in Nat \ {0} /\ Place[i] = Power(2, Offset(i))
  /\ Place[0] = 1
  /\ \A i \in Limb : Place[i + 1] = Place[i] * Power(2, Width(i))
  /\ FieldPrime \in Nat \ {0} /\ Place[Limbs] = FieldPrime + FoldBy
<1>1. \A i \in 0 .. Limbs : Place[i] = Power(2, Offset(i))
  BY DEF Place
<1>2. \A i \in 0 .. Limbs : Place[i] \in Nat \ {0}
  <2> TAKE i \in 0 .. Limbs
  <2>1. i \in Nat /\ 2 \in Nat \ {0}
    BY Sizes
  <2>2. Offset(i) \in Nat
    BY <2>1, Offsets
  <2> QED BY <1>1, <2>1, <2>2, PowerPositive
<1>3. Place[0] = 1
  <2>1. 0 \in 0 .. Limbs /\ 2 \in Nat
    BY Sizes
  <2>2. Power(2, 0) = 1
    BY <2>1, PowerSteps
  <2> QED BY <1>1, <2>1, <2>2, Offsets
<1>4. \A i \in Limb : Place[i + 1] = Place[i] * Power(2, Width(i))
  <2> TAKE i \in Limb
  <2>1. i \in Nat /\ i \in 0 .. Limbs /\ i + 1 \in 0 .. Limbs /\ 2 \in Nat
    BY LimbIndex
  <2>2. Place[i + 1] = Power(2, Offset(i) + Width(i)) /\ Offset(i) \in Nat
    BY <1>1, <2>1, Offsets
  <2>3. Width(i) \in Nat
    BY Widths
  <2>4. Power(2, Offset(i) + Width(i)) = Power(2, Offset(i)) * Power(2, Width(i))
    BY <2>1, <2>2, <2>3, PowerOfSum
  <2> QED BY <1>1, <2>1, <2>2, <2>4
<1>5. FieldPrime \in Nat \ {0} /\ Place[Limbs] = FieldPrime + FoldBy
  <2>1. Place[Limbs] \in Nat /\ FoldBy \in Nat
    BY <1>2, Sizes
  <2> QED BY <2>1, PrimeAssumption DEF FieldPrime
<1> QED BY <1>1, <1>2, <1>3, <1>4, <1>5

\* Where two places meet.
LEMMA PlaceProduct ==
  ASSUME NEW i \in Limb, NEW j \in Limb
  PROVE  /\ Weight(i, j) \in Nat /\ (i + j) % Limbs \in Limb
         /\ Congruent(FieldPrime, Place[i] * Place[j], Weight(i, j) * Place[(i + j) % Limbs])
<1> DEFINE twice == IF i % 2 = 1 /\ j % 2 = 1 THEN 2 ELSE 1
           fold == IF i + j >= Limbs THEN FoldBy ELSE 1
           k == IF i + j < Limbs THEN i + j ELSE i + j - Limbs
<1>0. /\ i \in Nat /\ j \in Nat /\ i \in 0 .. Limbs /\ j \in 0 .. Limbs
      /\ i \in 0 .. Limbs - 1 /\ j \in 0 .. Limbs - 1 /\ Limbs \in Nat \ {0}
  BY LimbIndex, Sizes
<1>1. (i + j) % Limbs = k /\ k \in Limb /\ k \in 0 .. Limbs
  <2>1. (i + j) % Limbs = k
    BY <1>0, Wrapped
  <2>2. k \in 0 .. Limbs - 1 /\ k \in 0 .. Limbs
    BY <1>0
  <2> QED BY <2>1, <2>2 DEF Limb
<1>2. twice \in Nat /\ fold \in Nat /\ Weight(i, j) = twice * fold
  BY Sizes DEF Weight
<1>3. Power(2, Offset(i) + Offset(j)) = twice * Power(2, Offset(i + j))
  <2> DEFINE s == EvenBits + OddBits
             a == i \div 2
             b == j \div 2
  <2>0. a \in Nat /\ b \in Nat /\ s \in Nat /\ (a + b) * s = a * s + b * s
        /\ a * s \in Nat /\ b * s \in Nat
    <3>1. a \in Nat /\ b \in Nat /\ s \in Nat
      BY <1>0, Sizes
    <3> HIDE DEF a, b, s
    <3> QED BY <3>1
  <2>1. /\ i % 2 \in {0, 1} /\ j % 2 \in {0, 1}
        /\ Offset(i) = a * s + (i % 2) * EvenBits
        /\ Offset(j) = b * s + (j % 2) * EvenBits
        /\ Offset(i + j) = ((i + j) \div 2) * s + ((i + j) % 2) * EvenBits
    BY <1>0 DEF Offset
  <2>2. CASE i % 2 = 1 /\ j % 2 = 1
    <3>1. (i + j) \div 2 = a + b + 1 /\ (i + j) % 2 = 0
      BY <1>0, <2>2
    <3>2. (a + b + 1) * s = a * s + b * s + s
      <4> HIDE DEF a, b, s
      <4> QED BY <2>0
    <3>3. Offset(i) + Offset(j) = Offset(i + j) + 1 /\ Offset(i + j) \in Nat
      <4>1. Offset(i) = a * s + EvenBits /\ Offset(j) = b * s + EvenBits
            /\ Offset(i + j) = a * s + b * s + s /\ s = EvenBits + EvenBits - 1
            /\ EvenBits \in Nat
        <5>1. s = EvenBits + EvenBits - 1 /\ EvenBits \in Nat
          BY Sizes
        <5> HIDE DEF a, b, s
        <5>2. 1 * EvenBits = EvenBits /\ 0 * EvenBits = 0
          BY <5>1
        <5>3. Offset(i + j) = (a * s + b * s + s) + 0
          BY <2>1, <3>1, <3>2, <5>2
        <5> QED BY <2>0, <2>1, <2>2, <5>1, <5>2, <5>3
      <4> HIDE DEF a, b, s
      <4> QED BY <2>0, <4>1
    <3>4. Power(2, Offset(i + j) + 1) = Power(2, Offset(i + j)) * 2
          /\ Power(2, Offset(i + j)) \in Nat
      BY <3>3, PowerSteps
    <3>5. twice = 2
      BY <2>2
    <3> HIDE DEF twice
    <3> QED BY <3>3, <3>4, <3>5
  <2>3. CASE ~(i % 2 = 1 /\ j % 2 = 1)
    <3>1. (i + j) \div 2 = a + b /\ (i + j) % 2 = (i % 2) + (j % 2)
      BY <1>0, <2>3
    <3>2. Offset(i) + Offset(j) = Offset(i + j) /\ Offset(i + j) \in Nat
      <4>1. CASE i % 2 = 0 /\ j % 2 = 0
        <5>1. Offset(i) = a * s /\ Offset(j) = b * s /\ Offset(i + j) = a * s + b * s
          BY <2>0, <2>1, <3>1, <4>1, Sizes
        <5> HIDE DEF a, b, s
        <5> QED BY <2>0, <5>1
      <4>2. CASE i % 2 = 1 /\ j % 2 = 0
        <5>1. Offset(i) = a * s + EvenBits /\ Offset(j) = b * s
              /\ Offset(i + j) = (a * s + b * s) + EvenBits /\ EvenBits \in Nat
          BY <2>0, <2>1, <3>1, <4>2, Sizes
        <5> HIDE DEF a, b, s
        <5> QED BY <2>0, <5>1
      <4>3. CASE i % 2 = 0 /\ j % 2 = 1
        <5>1. Offset(i) = a * s /\ Offset(j) = b * s + EvenBits
              /\ Offset(i + j) = (a * s + b * s) + EvenBits /\ EvenBits \in Nat
          BY <2>0, <2>1, <3>1, <4>3, Sizes
        <5> HIDE DEF a, b, s
        <5> QED BY <2>0, <5>1
      <4> QED BY <2>1, <2>3, <4>1, <4>2, <4>3
    <3>3. Power(2, Offset(i + j)) \in Nat
      BY <3>2, PowerSteps
    <3>4. twice = 1
      BY <2>3
    <3> HIDE DEF twice
    <3> QED BY <3>2, <3>3, <3>4
  <2> QED BY <2>2, <2>3
<1>4. Place[i] * Place[j] = twice * Power(2, Offset(i + j))
  <2>1. Place[i] = Power(2, Offset(i)) /\ Place[j] = Power(2, Offset(j))
    BY <1>0, Places
  <2>2. Offset(i) \in Nat /\ Offset(j) \in Nat
    BY <1>0, Offsets
  <2> HIDE DEF twice
  <2> QED BY <1>3, <2>1, <2>2, PowerOfSum
<1>5. Congruent(FieldPrime, Power(2, Offset(i + j)), fold * Place[k])
  <2>1. CASE i + j < Limbs
    <3>1. fold = 1 /\ k = i + j /\ Place[k] \in Nat /\ Place[k] = Power(2, Offset(i + j))
      BY <1>0, <1>1, <2>1, Places, Sizes
    <3>2. Congruent(FieldPrime, Place[k], Place[k])
      BY <3>1, Places, SameSelf
    <3> HIDE DEF fold, k
    <3>3. fold * Place[k] = Place[k]
      BY <3>1
    <3> QED BY <3>1, <3>2, <3>3
  <2>2. CASE ~(i + j < Limbs)
    <3>1. fold = FoldBy /\ k + Limbs = i + j /\ Place[k] \in Nat /\ k \in Nat
      BY <1>0, <1>1, <2>2, Places, Sizes
    <3>2. Offset(k + Limbs) = Offset(k) + Offset(Limbs)
      <4> DEFINE s == EvenBits + OddBits
                 a == k \div 2
                 b == Limbs \div 2
      <4>1. (k + Limbs) \div 2 = a + b /\ (k + Limbs) % 2 = k % 2
        <5>1. Limbs % 2 = 0 /\ Limbs \in Nat
          BY FieldAssumption
        <5> HIDE DEF k
        <5> QED BY <3>1, <5>1
      <4>2. a \in Nat /\ b \in Nat /\ s \in Nat
        BY <3>1, Sizes
      <4>3. /\ Offset(k + Limbs) = (a + b) * s + (k % 2) * EvenBits
            /\ Offset(k) = a * s + (k % 2) * EvenBits
            /\ Offset(Limbs) = b * s + 0 * EvenBits
        <5>1. Limbs % 2 = 0
          BY FieldAssumption
        <5>2. /\ Offset(k + Limbs) = ((k + Limbs) \div 2) * s + ((k + Limbs) % 2) * EvenBits
              /\ Offset(k) = a * s + (k % 2) * EvenBits
              /\ Offset(Limbs) = b * s + (Limbs % 2) * EvenBits
          BY DEF Offset
        <5> HIDE DEF a, b, s, k
        <5> QED BY <4>1, <5>1, <5>2
      <4>4. (a + b) * s = a * s + b * s /\ a * s \in Nat /\ b * s \in Nat
        <5> HIDE DEF a, b, s
        <5> QED BY <4>2
      <4>5. (k % 2) * EvenBits \in Nat /\ 0 * EvenBits = 0
        <5>1. k % 2 \in Nat /\ EvenBits \in Nat
          BY <3>1, Sizes
        <5> QED BY <5>1
      <4> HIDE DEF a, b, s
      <4> DEFINE c == (k % 2) * EvenBits
      <4>6. c \in Nat /\ Offset(k + Limbs) = (a * s + b * s) + c
            /\ Offset(k) = a * s + c /\ Offset(Limbs) = b * s
        BY <4>3, <4>4, <4>5
      <4> HIDE DEF c, k
      <4> QED BY <4>4, <4>6
    <3>3. Power(2, Offset(i + j)) = Place[k] * Place[Limbs]
      <4>1. Offset(k) \in Nat /\ Offset(Limbs) \in Nat /\ Limbs \in 0 .. Limbs
        BY <3>1, Offsets, Sizes
      <4>2. Place[k] = Power(2, Offset(k)) /\ Place[Limbs] = Power(2, Offset(Limbs))
        BY <1>1, <4>1, Places
      <4>3. Offset(i + j) = Offset(k) + Offset(Limbs)
        BY <3>1, <3>2
      <4> HIDE DEF k
      <4> QED BY <4>1, <4>2, <4>3, PowerOfSum
    <3>4. Congruent(FieldPrime, Place[Limbs], FoldBy)
      <4>1. Place[Limbs] = FoldBy + FieldPrime * 1 /\ Place[Limbs] \in Int /\ FoldBy \in Int
        BY Places, Sizes
      <4> QED BY <4>1 DEF Congruent
    <3>5. Congruent(FieldPrime, Place[k] * Place[Limbs], Place[k] * FoldBy)
      <4>1. Place[k] \in Int /\ FieldPrime \in Nat \ {0}
        BY <3>1, Places
      <4> HIDE DEF k
      <4> QED BY <3>4, <4>1, SameTimes
    <3> HIDE DEF k, fold
    <3>6. Place[k] * FoldBy = fold * Place[k]
      BY <3>1, Sizes
    <3> QED BY <3>3, <3>5, <3>6
  <2> QED BY <2>1, <2>2
<1>6. Congruent(FieldPrime, twice * Power(2, Offset(i + j)), twice * (fold * Place[k]))
  <2>1. twice \in Int
    BY <1>2
  <2> HIDE DEF twice, fold, k
  <2> QED BY <1>5, <2>1, Places, SameTimes
<1>7. twice * (fold * Place[k]) = Weight(i, j) * Place[k]
  <2>1. Place[k] \in Nat
    BY <1>1, Places
  <2> HIDE DEF twice, fold, k
  <2>2. \A x, y, z \in Nat : x * (y * z) = (x * y) * z
    OBVIOUS
  <2>3. twice * (fold * Place[k]) = (twice * fold) * Place[k]
    BY <1>2, <2>1, <2>2
  <2> QED BY <1>2, <2>3
<1>8. Weight(i, j) \in Nat
  <2> HIDE DEF twice, fold
  <2> QED BY <1>2
<1> HIDE DEF twice, fold, k
<1> QED BY <1>1, <1>4, <1>6, <1>7, <1>8

-----------------------------------------------------------------------------
(* The number a limb vector stands for, before it is reduced.                *)

Vector == [Limb -> Int]
PlacedLimbs(h) == [i \in Limb |-> h[i] * Place[i]]
FieldNumber(h) == SumTo(Limbs, PlacedLimbs(h))

LEMMA Placed ==
  ASSUME NEW h \in Vector
  PROVE  /\ Ints(PlacedLimbs(h), Limbs)
         /\ \A i \in 0 .. Limbs - 1 :
              h[i] \in Int /\ Place[i] \in Int /\ PlacedLimbs(h)[i] = h[i] * Place[i]
<1>1. \A i \in 0 .. Limbs - 1 :
        h[i] \in Int /\ Place[i] \in Int /\ PlacedLimbs(h)[i] = h[i] * Place[i]
  <2> TAKE i \in 0 .. Limbs - 1
  <2>1. i \in Limb /\ i \in 0 .. Limbs
    BY Sizes DEF Limb
  <2>2. Place[i] \in Nat \ {0}
    BY <2>1, Places
  <2> QED BY <2>1, <2>2 DEF PlacedLimbs, Vector
<1>2. \A i \in 0 .. Limbs - 1 : PlacedLimbs(h)[i] \in Int
  BY <1>1
<1> QED BY <1>1, <1>2, Sizes DEF Ints

LEMMA FieldNumberIsInt ==
  ASSUME NEW h \in Vector
  PROVE  FieldNumber(h) \in Int
<1>1. Ints(PlacedLimbs(h), Limbs) /\ Limbs \in 0 .. Limbs
  BY Placed, Sizes
<1> QED BY <1>1, SumSteps DEF FieldNumber

\* The element of a vector is its number modulo the prime, though the model
\* reduces every term.
LEMMA ValueOf ==
  ASSUME NEW h \in Vector
  PROVE  /\ Value(h) = FieldNumber(h) % FieldPrime
         /\ Value(h) \in 0 .. FieldPrime - 1
         /\ Congruent(FieldPrime, Value(h), FieldNumber(h))
<1> DEFINE t == [i \in Limb |-> (h[i] * (Place[i] % FieldPrime)) % FieldPrime]
           g == PlacedLimbs(h)
<1>0. FieldPrime \in Nat \ {0}
  BY Places
<1>1. ASSUME NEW i \in 0 .. Limbs - 1
      PROVE  Congruent(FieldPrime, t[i], g[i])
  <2>1. h[i] \in Int /\ Place[i] \in Int /\ g[i] = h[i] * Place[i]
    BY Placed
  <2>2. i \in Limb
    BY DEF Limb
  <2> DEFINE w == Place[i] % FieldPrime
  <2>3. Congruent(FieldPrime, w, Place[i])
    BY <1>0, <2>1, RestSame
  <2>4. t[i] = (h[i] * w) % FieldPrime
    BY <2>2
  <2> HIDE DEF w, t, g
  <2>5. Congruent(FieldPrime, h[i] * w, h[i] * Place[i])
    BY <1>0, <2>1, <2>3, SameTimes
  <2>6. h[i] * w \in Int
    BY <2>5 DEF Congruent
  <2>7. Congruent(FieldPrime, t[i], h[i] * w)
    BY <1>0, <2>4, <2>6, RestSame
  <2> QED BY <1>0, <2>1, <2>5, <2>7, SameTrans
<1> HIDE DEF t, g
<1>2. Congruent(FieldPrime, SumTo(Limbs, t), SumTo(Limbs, g))
  <2>1. Agreeing(FieldPrime, t, g, Limbs)
    BY <1>1, Sizes DEF Agreeing
  <2> QED BY <1>0, <2>1, SumAgrees
<1>3. Value(h) = SumTo(Limbs, t) % FieldPrime /\ FieldNumber(h) = SumTo(Limbs, g)
  BY DEF Value, FieldNumber, t, g
<1>4. Value(h) = FieldNumber(h) % FieldPrime
  BY <1>0, <1>2, <1>3, SameRest
<1>5. FieldNumber(h) \in Int
  BY FieldNumberIsInt
<1> QED BY <1>0, <1>4, <1>5, RestSame

\* Vectors of the same number modulo the prime stand for the same element.
LEMMA SameValue ==
  ASSUME NEW h \in Vector, NEW x, Congruent(FieldPrime, FieldNumber(h), x)
  PROVE  Value(h) = x % FieldPrime
BY ValueOf, Places, SameRest

\* One limb changes.
LEMMA FieldNumberChanged ==
  ASSUME NEW h \in Vector, NEW i \in Limb, NEW d \in Int, NEW v \in Vector,
         v[i] = h[i] + d, \A j \in Limb : j # i => v[j] = h[j]
  PROVE  FieldNumber(v) = FieldNumber(h) + d * Place[i]
<1> DEFINE e == [j \in Limb |-> IF j = i THEN Place[i] ELSE 0]
<1>0. i \in 0 .. Limbs - 1 /\ Limb = 0 .. Limbs - 1 /\ Limbs \in Nat
  BY LimbIndex, Sizes DEF Limb
<1>1. Place[i] \in Int
  BY <1>0, Placed
<1>2. e[i] = Place[i] /\ \A j \in 0 .. Limbs - 1 : e[j] \in Int /\ (j # i => e[j] = 0)
  BY <1>0, <1>1
<1> HIDE DEF e
<1>3. SumTo(Limbs, e) = Place[i]
  BY <1>0, <1>1, <1>2, SumOfOne
<1>4. ASSUME NEW j \in 0 .. Limbs - 1
      PROVE  PlacedLimbs(v)[j] = PlacedLimbs(h)[j] + d * e[j]
  <2>1. /\ h[j] \in Int /\ Place[j] \in Int /\ PlacedLimbs(h)[j] = h[j] * Place[j]
        /\ v[j] \in Int /\ PlacedLimbs(v)[j] = v[j] * Place[j]
    BY Placed
  <2>2. CASE j = i
    <3>1. (h[i] + d) * Place[i] = h[i] * Place[i] + d * Place[i]
      BY <2>1, <2>2
    <3> QED BY <1>2, <2>1, <2>2, <3>1
  <2>3. CASE j # i
    <3>1. v[j] = h[j] /\ e[j] = 0 /\ d * 0 = 0
      BY <1>0, <1>2, <2>3
    <3>2. h[j] * Place[j] \in Int
      BY <2>1
    <3> QED BY <2>1, <3>1, <3>2
  <2> QED BY <2>2, <2>3
<1>5. Combined(PlacedLimbs(v), PlacedLimbs(h), d, e, Limbs)
  <2>1. Ints(PlacedLimbs(h), Limbs) /\ Ints(e, Limbs)
    BY <1>0, <1>2, Placed DEF Ints
  <2> QED BY <1>4, <2>1 DEF Combined
<1> QED BY <1>3, <1>5, SumCombined DEF FieldNumber

-----------------------------------------------------------------------------
(* Carrying.                                                                 *)

\* One carry moves what it takes from a limb to the next one, from the top one
\* FoldBy times to limb 0: the same element.
LEMMA CarryKeeps ==
  ASSUME NEW h \in Vector, NEW i \in Limb
  PROVE  /\ RoundedCarry(h, i) \in Vector
         /\ Congruent(FieldPrime, FieldNumber(RoundedCarry(h, i)), FieldNumber(h))
<1> DEFINE B == Power(2, Width(i))
           c == (h[i] + Power(2, Width(i) - 1)) \div B
           a == Above(h, i, c)
           v == RoundedCarry(h, i)
<1>0. Limbs \in Nat /\ Limbs >= 4 /\ Limb = 0 .. Limbs - 1 /\ i \in 0 .. Limbs - 1
  BY LimbIndex, Sizes DEF Limb
<1>1. B \in Nat \ {0} /\ c \in Int
  <2>1. Width(i) \in Nat /\ Width(i) - 1 \in Nat /\ 2 \in Nat \ {0}
    BY Widths
  <2>2. B \in Nat \ {0} /\ Power(2, Width(i) - 1) \in Nat \ {0}
    BY <2>1, PowerPositive
  <2>3. h[i] + Power(2, Width(i) - 1) \in Int
    BY <2>2 DEF Vector
  <2> HIDE DEF B
  <2> QED BY <2>2, <2>3
<1>2. v = [a EXCEPT ![i] = h[i] - c * B]
  BY DEF RoundedCarry
<1> HIDE DEF B, c, v
<1>3. /\ a \in Vector /\ a[i] = h[i]
      /\ FieldNumber(a) = FieldNumber(h) + (IF i = Limbs - 1 THEN FoldBy * c ELSE c * Place[i + 1])
  <2>1. CASE i = Limbs - 1
    <3> DEFINE d == FoldBy * c
    <3>1. d \in Int /\ 0 \in Limb /\ 0 # i
      BY <1>0, <1>1, <2>1, Sizes
    <3>2. a = [h EXCEPT ![0] = @ + d]
      BY <2>1 DEF Above
    <3> HIDE DEF d
    <3>3. /\ a \in Vector /\ a[0] = h[0] + d /\ a[i] = h[i]
          /\ \A j \in Limb : j # 0 => a[j] = h[j]
      BY <3>1, <3>2 DEF Vector
    <3> HIDE DEF a
    <3>4. FieldNumber(a) = FieldNumber(h) + d * Place[0]
      BY <3>1, <3>3, FieldNumberChanged
    <3>5. d * Place[0] = d
      BY <3>1, Places
    <3> QED BY <2>1, <3>3, <3>4, <3>5 DEF d
  <2>2. CASE i # Limbs - 1
    <3>1. i + 1 \in Limb /\ i + 1 # i
      BY <1>0, <2>2
    <3>2. a = [h EXCEPT ![i + 1] = @ + c]
      BY <2>2 DEF Above
    <3>3. /\ a \in Vector /\ a[i + 1] = h[i + 1] + c /\ a[i] = h[i]
          /\ \A j \in Limb : j # i + 1 => a[j] = h[j]
      BY <1>1, <3>1, <3>2 DEF Vector
    <3> HIDE DEF a
    <3>4. FieldNumber(a) = FieldNumber(h) + c * Place[i + 1]
      BY <1>1, <3>1, <3>3, FieldNumberChanged
    <3> QED BY <2>2, <3>3, <3>4
  <2> QED BY <2>1, <2>2
<1> HIDE DEF a
<1>4. v \in Vector /\ FieldNumber(v) = FieldNumber(a) + (-(c * B)) * Place[i]
  <2> DEFINE d == -(c * B)
  <2>1. d \in Int /\ h[i] - c * B = h[i] + d /\ h[i] \in Int
    BY <1>1 DEF Vector
  <2> HIDE DEF d
  <2>2. v \in Vector /\ v[i] = a[i] + d /\ \A j \in Limb : j # i => v[j] = a[j]
    BY <1>2, <1>3, <2>1 DEF Vector
  <2>3. FieldNumber(v) = FieldNumber(a) + d * Place[i]
    BY <1>3, <2>1, <2>2, FieldNumberChanged
  <2> QED BY <2>2, <2>3 DEF d
<1>5. Place[i + 1] = Place[i] * B /\ Place[i] \in Nat /\ Place[i + 1] \in Nat
  BY LimbIndex, Places DEF B
<1>6. (-(c * B)) * Place[i] = -(c * Place[i + 1])
  <2> DEFINE x == Place[i]
             y == Place[i + 1]
  <2>1. x \in Nat /\ y = x * B
    BY <1>5
  <2> HIDE DEF x, y
  <2>2. (-(c * B)) * x = -(c * (x * B))
    BY <1>1, <2>1
  <2> QED BY <2>1, <2>2 DEF x, y
<1>7. FieldNumber(h) \in Int /\ c * Place[i + 1] \in Int
  BY <1>1, <1>5, FieldNumberIsInt
<1>8. Congruent(FieldPrime, FieldNumber(v), FieldNumber(h))
  <2>1. CASE i = Limbs - 1
    <3>1. i + 1 = Limbs
      BY <1>0, <2>1
    <3>2. Place[i + 1] = FieldPrime + FoldBy /\ FieldPrime \in Nat /\ FoldBy \in Nat
      BY <3>1, Places, Sizes
    <3>3. FoldBy * c - c * Place[i + 1] = FieldPrime * (-c)
      <4> DEFINE y == Place[i + 1]
      <4>1. y = FieldPrime + FoldBy
        BY <3>2
      <4> HIDE DEF y
      <4>2. FoldBy * c - c * (FieldPrime + FoldBy) = FieldPrime * (-c)
        BY <1>1, <3>2
      <4> QED BY <4>1, <4>2 DEF y
    <3>4. FieldNumber(v) = (FieldNumber(h) + FoldBy * c) + (-(c * Place[i + 1]))
      BY <1>3, <1>4, <1>6, <2>1
    <3>5. FoldBy * c \in Int
      BY <1>1, Sizes
    <3>6. FieldNumber(v) = FieldNumber(h) + FieldPrime * (-c)
      <4> DEFINE x == FoldBy * c
                 y == c * Place[i + 1]
                 z == FieldPrime * (-c)
                 N == FieldNumber(h)
      <4>1. x \in Int /\ y \in Int /\ x - y = z /\ N \in Int /\ FieldNumber(v) = (N + x) + (-y)
        BY <1>7, <3>3, <3>4, <3>5
      <4> HIDE DEF x, y, z, N
      <4>2. FieldNumber(v) = N + z
        BY <4>1
      <4> QED BY <4>2 DEF N, z
    <3>7. -c \in Int
      BY <1>1
    <3> QED BY <1>4, <1>7, <3>6, <3>7, FieldNumberIsInt DEF Congruent
  <2>2. CASE i # Limbs - 1
    <3>1. FieldNumber(v) = FieldNumber(h)
      BY <1>3, <1>4, <1>6, <1>7, <2>2
    <3> QED BY <1>7, <3>1, Places, SameSelf
  <2> QED BY <2>1, <2>2
<1> QED BY <1>4, <1>8 DEF v

CarryTable(h, order) ==
  CHOOSE C : C = [n \in 0 .. Len(order) |->
                    IF n = 0 THEN h ELSE RoundedCarry(C[n - 1], order[n])]

\* So do all carries, whichever limbs they visit.
LEMMA CarriesKeep ==
  ASSUME NEW h \in Vector, NEW order \in Seq(Limb)
  PROVE  /\ Carries(h, order) \in Vector
         /\ Congruent(FieldPrime, FieldNumber(Carries(h, order)), FieldNumber(h))
<1> DEFINE D == {v \in Vector : Congruent(FieldPrime, FieldNumber(v), FieldNumber(h))}
           n == Len(order)
           base == h
           step == [m \in 1 .. n |-> [v \in D |-> RoundedCarry(v, order[m])]]
           Table(C) == C = [m \in 0 .. n |->
                              IF m = 0 THEN h ELSE RoundedCarry(C[m - 1], order[m])]
<1>1. n \in Nat /\ \A m \in 1 .. n : order[m] \in Limb
  OBVIOUS
<1>2. base \in D
  BY FieldNumberIsInt, Places, SameSelf
<1>3. ASSUME NEW v \in D, NEW i \in Limb
      PROVE  RoundedCarry(v, i) \in D
  <2>1. v \in Vector /\ Congruent(FieldPrime, FieldNumber(v), FieldNumber(h))
    OBVIOUS
  <2>2. /\ RoundedCarry(v, i) \in Vector
        /\ Congruent(FieldPrime, FieldNumber(RoundedCarry(v, i)), FieldNumber(v))
    BY <2>1, CarryKeeps
  <2>3. Congruent(FieldPrime, FieldNumber(RoundedCarry(v, i)), FieldNumber(h))
    BY <2>1, <2>2, Places, SameTrans
  <2> QED BY <2>2, <2>3
<1> HIDE DEF D
<1>4. step \in [1 .. n -> [D -> D]]
  BY <1>1, <1>3
<1>5. \A m \in 1 .. n, v \in D : step[m][v] = RoundedCarry(v, order[m])
  OBVIOUS
<1> HIDE DEF step, base, n
<1>6. PICK C : Stepwise(C, D, n, base, step)
  BY <1>1, <1>2, <1>4, StepwiseFunction
<1>7. /\ C \in [0 .. n -> D] /\ C[0] = h
      /\ \A m \in 1 .. n : C[m] = RoundedCarry(C[m - 1], order[m])
  <2>1. C \in [0 .. n -> D] /\ C[0] = h /\ \A m \in 1 .. n : C[m] = step[m][C[m - 1]]
    BY <1>6 DEF Stepwise, base
  <2>2. \A m \in 1 .. n : C[m - 1] \in D
    BY <1>1, <2>1
  <2> QED BY <1>5, <2>1, <2>2
<1>8. Table(C)
  BY <1>1, <1>7
<1> DEFINE T == CarryTable(h, order)
<1>9. Table(T)
  <2>1. T = CHOOSE A : Table(A)
    BY DEF CarryTable, n
  <2> HIDE DEF Table, T
  <2> QED BY <1>8, <2>1
<1> HIDE DEF T
<1> DEFINE S == {m \in Nat : m <= n => T[m] = C[m]}
<1>10. 0 \in S
  BY <1>1, <1>7, <1>9
<1>11. ASSUME NEW m \in Nat, m \in S
       PROVE  m + 1 \in S
  <2> SUFFICES ASSUME m + 1 <= n PROVE T[m + 1] = C[m + 1]
    OBVIOUS
  <2>1. m + 1 \in 1 .. n /\ m + 1 \in 0 .. n /\ m + 1 # 0 /\ (m + 1) - 1 = m /\ T[m] = C[m]
    BY <1>1, <1>11
  <2>2. T[m + 1] = RoundedCarry(T[m], order[m + 1])
    BY <1>9, <2>1
  <2>3. C[m + 1] = RoundedCarry(C[m], order[m + 1])
    BY <1>7, <2>1
  <2> QED BY <2>1, <2>2, <2>3
<1>12. T[n] = C[n]
  <2> HIDE DEF S, Table
  <2>1. \A m \in Nat : m \in S
    BY <1>10, <1>11, FromZero
  <2>2. n \in S /\ n <= n
    BY <1>1, <2>1
  <2> QED BY <2>2 DEF S
<1>13. Carries(h, order) = T[n]
  BY DEF Carries, T, CarryTable, n
<1>14. Carries(h, order) \in D
  <2>1. n \in 0 .. n
    BY <1>1
  <2> QED BY <1>7, <1>12, <1>13, <2>1
<1> QED BY <1>14 DEF D

\* Both orders of carrying visit limbs only.
LEMMA Orders == ProductCarries \in Seq(Limb) /\ OnePass \in Seq(Limb)
<1>0. /\ Limbs \in Nat /\ Limbs >= 4 /\ Limbs % 2 = 0 /\ Limb = 0 .. Limbs - 1
      /\ Half = Limbs \div 2 - 1 /\ Half \in Nat /\ 2 * (Half + 1) = Limbs
  BY FieldAssumption DEF Limb, Half
<1>1. TwoChains \in Seq(Limb)
  <2>1. \A n \in 1 .. 2 * (Half + 1) :
          (IF n % 2 = 1 THEN n \div 2 ELSE n \div 2 - 1 + Half) \in Limb
    <3> TAKE n \in 1 .. 2 * (Half + 1)
    <3>1. n \in Nat /\ n <= 2 * (Half + 1)
      BY <1>0
    <3>2. CASE n % 2 = 1
      <4>1. n \div 2 \in Nat /\ 2 * (n \div 2) + 1 = n
        BY <3>1, <3>2
      <4> QED BY <1>0, <3>1, <3>2, <4>1
    <3>3. CASE n % 2 # 1
      <4>1. n \div 2 \in Nat /\ 2 * (n \div 2) = n /\ n >= 1
        BY <3>1, <3>3
      <4> QED BY <1>0, <3>1, <3>3, <4>1
    <3> QED BY <3>2, <3>3
  <2> DEFINE len == 2 * (Half + 1)
  <2>2. TwoChains \in [1 .. len -> Limb] /\ len \in Nat
    BY <1>0, <2>1 DEF TwoChains
  <2> HIDE DEF len
  <2> QED BY <2>2, SeqOfFunction
<1>2. Limbs - 1 \in Limb /\ 0 \in Limb
  BY <1>0
<1>3. ProductCarries \in Seq(Limb)
  BY <1>1, <1>2 DEF ProductCarries
<1>4. [n \in 1 .. Half |-> 2 * n - 1] \in Seq(Limb)
  <2>1. \A n \in 1 .. Half : 2 * n - 1 \in Limb
    BY <1>0
  <2>2. [n \in 1 .. Half |-> 2 * n - 1] \in [1 .. Half -> Limb]
    BY <2>1
  <2> QED BY <1>0, <2>2, SeqOfFunction
<1>5. [n \in 1 .. Half + 1 |-> 2 * (n - 1)] \in Seq(Limb)
  <2> DEFINE m == Half + 1
  <2>1. \A n \in 1 .. m : 2 * (n - 1) \in Limb
    BY <1>0
  <2>2. [n \in 1 .. m |-> 2 * (n - 1)] \in [1 .. m -> Limb] /\ m \in Nat
    BY <1>0, <2>1
  <2>3. [n \in 1 .. m |-> 2 * (n - 1)] \in Seq(Limb)
    <3> HIDE DEF m
    <3> QED BY <2>2, SeqOfFunction
  <2> QED BY <2>3
<1>6. <<Limbs - 1>> \in Seq(Limb)
  BY <1>2
<1> QED BY <1>3, <1>4, <1>5, <1>6 DEF OnePass

-----------------------------------------------------------------------------
(* Products.                                                                 *)

Other(k, i) == (k - i) % Limbs

\* The limb that meets limb i at k.
LEMMA Others ==
  ASSUME NEW k \in Limb, NEW i \in Limb
  PROVE  /\ Other(k, i) = (IF i <= k THEN k - i ELSE Limbs + k - i)
         /\ Other(k, i) \in Limb
         /\ (i + Other(k, i)) % Limbs = k
         /\ Other(k, Other(k, i)) = i
<1>0. k \in 0 .. Limbs - 1 /\ i \in 0 .. Limbs - 1 /\ Limbs \in Nat \ {0}
  BY LimbIndex, Sizes
<1> DEFINE j == IF i <= k THEN k - i ELSE Limbs + k - i
<1>1. Other(k, i) = j
  BY <1>0, Wrapped DEF Other
<1>2. j \in 0 .. Limbs - 1
  BY <1>0
<1>3. (i + j) % Limbs = (IF i + j < Limbs THEN i + j ELSE i + j - Limbs)
  <2> HIDE DEF j
  <2> QED BY <1>0, <1>2, Wrapped
<1>4. (i + j) % Limbs = k
  BY <1>0, <1>3
<1>5. Other(k, j) = (IF j <= k THEN k - j ELSE Limbs + k - j)
  <2> HIDE DEF j
  <2> QED BY <1>0, <1>2, Wrapped DEF Other
<1>6. Other(k, j) = i
  BY <1>0, <1>5
<1> HIDE DEF j
<1> QED BY <1>1, <1>2, <1>4, <1>6 DEF Limb, j

\* What meets in limb k.
Meeting(f, g, k) == [i \in Limb |-> Weight(i, Other(k, i)) * f[i] * g[Other(k, i)]]

LEMMA MeetingTyped ==
  ASSUME NEW f \in Vector, NEW g \in Vector, NEW k \in Limb
  PROVE  /\ Ints(Meeting(f, g, k), Limbs)
         /\ SumTo(Limbs, Meeting(f, g, k)) \in Int
         /\ Products(f, g)[k] = SumTo(Limbs, Meeting(f, g, k))
         /\ \A i \in 0 .. Limbs - 1 :
              /\ Meeting(f, g, k)[i] = Weight(i, Other(k, i)) * f[i] * g[Other(k, i)]
              /\ Meeting(f, g, k)[i] \in Int
<1>1. \A i \in 0 .. Limbs - 1 :
        /\ Meeting(f, g, k)[i] = Weight(i, Other(k, i)) * f[i] * g[Other(k, i)]
        /\ Meeting(f, g, k)[i] \in Int
  <2> TAKE i \in 0 .. Limbs - 1
  <2>1. i \in Limb
    BY DEF Limb
  <2>2. Other(k, i) \in Limb
    BY <2>1, Others
  <2>3. Weight(i, Other(k, i)) \in Nat
    BY <2>1, <2>2, PlaceProduct
  <2>4. f[i] \in Int /\ g[Other(k, i)] \in Int
    BY <2>1, <2>2 DEF Vector
  <2>5. Meeting(f, g, k)[i] = Weight(i, Other(k, i)) * f[i] * g[Other(k, i)]
    BY <2>1 DEF Meeting
  <2>6. \A x \in Nat, y, z \in Int : x * y * z \in Int
    OBVIOUS
  <2> QED BY <2>3, <2>4, <2>5, <2>6
<1>2. Ints(Meeting(f, g, k), Limbs)
  BY <1>1, Sizes DEF Ints
<1>3. SumTo(Limbs, Meeting(f, g, k)) \in Int
  <2>1. Limbs \in 0 .. Limbs
    BY Sizes
  <2> QED BY <1>2, <2>1, SumSteps
<1>4. Products(f, g)[k] = SumTo(Limbs, Meeting(f, g, k))
  BY DEF Products, Meeting, Other
<1> QED BY <1>1, <1>2, <1>3, <1>4

LEMMA ProductsTyped ==
  ASSUME NEW f \in Vector, NEW g \in Vector
  PROVE  Products(f, g) \in Vector
<1>1. \A k \in Limb : Products(f, g)[k] \in Int
  BY MeetingTyped
<1>2. Products(f, g) = [k \in Limb |-> Products(f, g)[k]]
  BY DEF Products
<1> QED BY <1>1, <1>2 DEF Vector

\* The products of all limbs, where they meet, make the product.
LEMMA ProductsMultiply ==
  ASSUME NEW f \in Vector, NEW g \in Vector
  PROVE  Congruent(FieldPrime, FieldNumber(Products(f, g)), FieldNumber(f) * FieldNumber(g))
<1> DEFINE P == FieldPrime
           F == PlacedLimbs(f)
           G == PlacedLimbs(g)
           turn(i) == [k \in Limb |-> G[Other(k, i)]]
           T == [i \in Limb |-> [k \in Limb |-> F[i] * turn(i)[k]]]
           column(k) == [i \in 0 .. Limbs - 1 |-> T[i][k]]
           c == [k \in Limb |-> SumTo(Limbs, column(k))]
           r == [i \in Limb |-> SumTo(Limbs, T[i])]
           N == SumTo(Limbs, G)
<1>0. Limbs \in Nat /\ Limb = 0 .. Limbs - 1 /\ Limbs \in 0 .. Limbs /\ P \in Nat \ {0}
  BY Sizes, Places DEF Limb
<1>1. /\ Ints(F, Limbs) /\ Ints(G, Limbs)
      /\ \A i \in Limb : /\ f[i] \in Int /\ g[i] \in Int /\ Place[i] \in Int
                         /\ F[i] = f[i] * Place[i] /\ G[i] = g[i] * Place[i]
                         /\ F[i] \in Int /\ G[i] \in Int
  <2>1. Ints(F, Limbs) /\ Ints(G, Limbs)
    BY Placed
  <2>2. \A i \in Limb : /\ f[i] \in Int /\ g[i] \in Int /\ Place[i] \in Int
                        /\ F[i] = f[i] * Place[i] /\ G[i] = g[i] * Place[i]
    BY <1>0, Placed
  <2> QED BY <1>0, <2>1, <2>2 DEF Ints
<1>2. /\ \A i, k \in Limb : turn(i)[k] = G[Other(k, i)] /\ T[i][k] = F[i] * turn(i)[k]
      /\ \A i, k \in Limb : column(k)[i] = T[i][k]
      /\ \A k \in Limb : c[k] = SumTo(Limbs, column(k))
      /\ \A i \in Limb : r[i] = SumTo(Limbs, T[i])
  BY <1>0
<1>11. \A k \in Limb : column(k) = [i \in 0 .. Limbs - 1 |-> T[i][k]]
  OBVIOUS
<1> HIDE DEF F, G, T, turn, column, c, r, P
<1>3. ASSUME NEW i \in Limb
      PROVE  Ints(T[i], Limbs) /\ r[i] = F[i] * N
  <2>1. \A k \in Limb : turn(i)[k] \in Int
    <3> TAKE k \in Limb
    <3>1. Other(k, i) \in Limb
      BY Others
    <3> QED BY <1>1, <1>2, <3>1
  <2>2. Ints(turn(i), Limbs)
    BY <1>0, <2>1 DEF Ints
  <2>3. Scaled(T[i], F[i], turn(i), Limbs)
    BY <1>0, <1>1, <1>2, <2>2 DEF Scaled
  <2>4. Rotated(turn(i), G, i, Limbs)
    <3>1. \A k \in 0 .. Limbs - 1 : turn(i)[k] = G[IF i <= k THEN k - i ELSE Limbs + k - i]
      <4> TAKE k \in 0 .. Limbs - 1
      <4>1. k \in Limb
        BY <1>0
      <4>2. Other(k, i) = (IF i <= k THEN k - i ELSE Limbs + k - i)
        BY <4>1, Others
      <4> QED BY <1>2, <4>1, <4>2
    <3> QED BY <1>0, <1>1, <3>1 DEF Rotated
  <2>5. SumTo(Limbs, turn(i)) = N
    BY <2>4, SumRotated
  <2>6. SumTo(Limbs, T[i]) = F[i] * N
    BY <2>3, <2>5, SumScaled
  <2>7. Ints(T[i], Limbs)
    <3>1. \A k \in Limb : T[i][k] \in Int
      <4> TAKE k \in Limb
      <4>1. \A x, y \in Int : x * y \in Int
        OBVIOUS
      <4> QED BY <1>1, <1>2, <2>1, <4>1
    <3> QED BY <1>0, <3>1 DEF Ints
  <2> QED BY <1>2, <2>6, <2>7
<1>4. SumTo(Limbs, r) = SumTo(Limbs, c)
  <2>1. Tabulated(T, Limbs, Limbs, r, c)
    <3>1. \A i \in 0 .. Limbs - 1 : Ints(T[i], Limbs) /\ r[i] = SumTo(Limbs, T[i])
      BY <1>0, <1>2, <1>3
    <3>2. ASSUME NEW k \in 0 .. Limbs - 1
          PROVE  c[k] = SumTo(Limbs, [i \in 0 .. Limbs - 1 |-> T[i][k]])
      <4>1. k \in Limb
        BY <1>0
      <4>2. c[k] = SumTo(Limbs, column(k)) /\ column(k) = [i \in 0 .. Limbs - 1 |-> T[i][k]]
        BY <1>2, <1>11, <4>1
      <4> QED BY <4>2
    <3> QED BY <1>0, <3>1, <3>2 DEF Tabulated
  <2> QED BY <2>1, SumSwapped
<1>5. N \in Int
  BY <1>0, <1>1, SumSteps
<1>6. SumTo(Limbs, r) = N * SumTo(Limbs, F)
  <2>1. \A i \in 0 .. Limbs - 1 : r[i] = N * F[i]
    BY <1>0, <1>1, <1>3, <1>5
  <2>2. Scaled(r, N, F, Limbs)
    BY <1>1, <1>5, <2>1 DEF Scaled
  <2> QED BY <2>2, SumScaled
<1>7. ASSUME NEW k \in Limb
      PROVE  Congruent(P, PlacedLimbs(Products(f, g))[k], c[k])
  <2> DEFINE w == Meeting(f, g, k)
             s == [i \in Limb |-> Place[k] * w[i]]
  <2>1. Ints(w, Limbs) /\ \A i \in Limb : w[i] = Weight(i, Other(k, i)) * f[i] * g[Other(k, i)]
    BY <1>0, MeetingTyped
  <2>2. PlacedLimbs(Products(f, g))[k] = Place[k] * SumTo(Limbs, w)
    <3>1. Products(f, g) \in Vector
      BY ProductsTyped
    <3>2. PlacedLimbs(Products(f, g))[k] = Products(f, g)[k] * Place[k]
      BY <1>0, <3>1, Placed
    <3>3. Products(f, g)[k] = SumTo(Limbs, w) /\ SumTo(Limbs, w) \in Int
      BY MeetingTyped
    <3> HIDE DEF w
    <3> QED BY <1>1, <3>2, <3>3
  <2>3. \A i \in Limb : s[i] = Place[k] * w[i]
    OBVIOUS
  <2> HIDE DEF w, s
  <2>4. SumTo(Limbs, s) = Place[k] * SumTo(Limbs, w)
    <3>1. Scaled(s, Place[k], w, Limbs)
      BY <1>0, <1>1, <2>1, <2>3 DEF Scaled
    <3> QED BY <3>1, SumScaled
  <2>5. ASSUME NEW i \in Limb
        PROVE  Congruent(P, s[i], column(k)[i])
    <3> DEFINE j == Other(k, i)
    <3>1. j \in Limb /\ (i + j) % Limbs = k
      BY Others
    <3> HIDE DEF j
    <3>2. Weight(i, j) \in Nat /\ Congruent(P, Place[i] * Place[j], Weight(i, j) * Place[k])
      BY <3>1, PlaceProduct DEF P
    <3>3. s[i] = Place[k] * (Weight(i, j) * f[i] * g[j])
      BY <2>1, <2>3 DEF j
    <3>4. column(k)[i] = (f[i] * Place[i]) * (g[j] * Place[j])
      BY <1>1, <1>2, <3>1 DEF j
    <3> DEFINE x == f[i] * g[j]
               W == Weight(i, j) * Place[k]
               V == Place[i] * Place[j]
    <3>5. x \in Int /\ s[i] = W * x /\ column(k)[i] = V * x
      <4>1. /\ f[i] \in Int /\ g[j] \in Int /\ Place[k] \in Int /\ Place[i] \in Int
            /\ Place[j] \in Int
        BY <1>1, <3>1
      <4>2. \A a, b, d, e \in Int : a * (b * d * e) = (b * a) * (d * e)
        OBVIOUS
      <4>3. \A a, b, d, e \in Int : (a * b) * (d * e) = (b * e) * (a * d)
        OBVIOUS
      <4>4. x \in Int
        BY <4>1
      <4>5. s[i] = W * x
        BY <3>2, <3>3, <4>1, <4>2
      <4>6. column(k)[i] = V * x
        BY <3>4, <4>1, <4>3
      <4> QED BY <4>4, <4>5, <4>6
    <3> HIDE DEF x, W, V
    <3>6. Congruent(P, W, V)
      BY <1>0, <3>2, SameSym DEF W, V
    <3> QED BY <1>0, <3>5, <3>6, SameTimes
  <2>6. Agreeing(P, s, column(k), Limbs)
    BY <1>0, <2>5 DEF Agreeing
  <2>7. Congruent(P, SumTo(Limbs, s), SumTo(Limbs, column(k)))
    BY <1>0, <2>6, SumAgrees
  <2> QED BY <1>2, <2>2, <2>4, <2>7
<1>8. Congruent(P, FieldNumber(Products(f, g)), SumTo(Limbs, c))
  <2>1. Agreeing(P, PlacedLimbs(Products(f, g)), c, Limbs)
    BY <1>0, <1>7 DEF Agreeing
  <2> QED BY <1>0, <2>1, SumAgrees DEF FieldNumber
<1>9. N * SumTo(Limbs, F) = FieldNumber(f) * FieldNumber(g)
  <2>1. N = FieldNumber(g) /\ SumTo(Limbs, F) = FieldNumber(f)
    BY DEF N, F, G, FieldNumber
  <2>2. FieldNumber(f) \in Int /\ FieldNumber(g) \in Int
    BY FieldNumberIsInt
  <2> HIDE DEF N
  <2> QED BY <2>1, <2>2
<1> QED BY <1>4, <1>6, <1>8, <1>9 DEF P

\* Each mixed product once and doubled: the same limbs.
LEMMA SquaresAreProducts ==
  ASSUME NEW f \in Vector
  PROVE  Squares(f) = Products(f, f)
<1>0. Limbs \in Nat /\ Limb = 0 .. Limbs - 1 /\ Limbs \in 0 .. Limbs
  BY Sizes DEF Limb
<1>1. ASSUME NEW k \in Limb
      PROVE  Squares(f)[k] = Products(f, f)[k]
  <2> DEFINE w == Meeting(f, f, k)
             s == [i \in Limb |->
                     Counts(i, Other(k, i)) * Weight(i, Other(k, i)) * f[i] * f[Other(k, i)]]
             m == [i \in Limb |-> s[Other(k, i)]]
             d == [i \in Limb |-> 2 * w[i]]
             minus == -1
  <2>1. /\ Squares(f)[k] = SumTo(Limbs, s) /\ Products(f, f)[k] = SumTo(Limbs, w)
        /\ Ints(w, Limbs) /\ SumTo(Limbs, w) \in Int
        /\ \A i \in Limb : w[i] = Weight(i, Other(k, i)) * f[i] * f[Other(k, i)] /\ w[i] \in Int
    <3>1. Squares(f)[k] = SumTo(Limbs, s)
      BY DEF Squares, Other
    <3> HIDE DEF s
    <3> QED BY <1>0, <3>1, MeetingTyped
  <2> HIDE DEF w
  <2>2. \A i \in Limb :
          /\ s[i] = Counts(i, Other(k, i)) * Weight(i, Other(k, i)) * f[i] * f[Other(k, i)]
          /\ m[i] = s[Other(k, i)]
          /\ d[i] = 2 * w[i]
    BY Others
  <2> HIDE DEF s, m, d
  <2>3. ASSUME NEW i \in Limb
        PROVE  /\ s[i] = Counts(i, Other(k, i)) * w[i] /\ s[i] \in Int
               /\ w[Other(k, i)] = w[i]
    <3> DEFINE j == Other(k, i)
    <3>1. j \in Limb /\ Other(k, j) = i
      BY Others
    <3> HIDE DEF j
    <3>2. Weight(i, j) \in Nat /\ Weight(i, j) = Weight(j, i)
      <4>1. Weight(i, j) \in Nat
        BY <3>1, PlaceProduct
      <4>2. i \in Nat /\ j \in Nat /\ i + j = j + i
        BY <3>1, LimbIndex
      <4> QED BY <4>1, <4>2 DEF Weight
    <3>3. f[i] \in Int /\ f[j] \in Int /\ Counts(i, j) \in Int
      BY <3>1 DEF Vector, Counts
    <3>4. /\ w[i] = Weight(i, j) * f[i] * f[j]
          /\ w[j] = Weight(j, i) * f[j] * f[i]
          /\ s[i] = Counts(i, j) * Weight(i, j) * f[i] * f[j]
      BY <2>1, <2>2, <3>1 DEF j
    <3>5. \A a, b, x, y \in Int : a * b * x * y = a * (b * x * y) /\ b * x * y = b * y * x
      OBVIOUS
    <3>6. Weight(i, j) \in Int
      BY <3>2
    <3>7. s[i] = Counts(i, j) * w[i] /\ w[j] = w[i]
      BY <3>2, <3>3, <3>4, <3>5, <3>6
    <3>8. w[i] \in Int /\ \A a, b \in Int : a * b \in Int
      BY <2>1
    <3>9. s[i] \in Int
      BY <3>3, <3>7, <3>8
    <3> QED BY <3>7, <3>9 DEF j
  <2>4. Ints(s, Limbs)
    BY <1>0, <2>3 DEF Ints
  <2>5. SumTo(Limbs, m) = SumTo(Limbs, s)
    <3>1. \A i \in 0 .. Limbs - 1 : m[i] = s[IF i <= k THEN k - i ELSE Limbs + k - i]
      BY <1>0, <2>2, Others
    <3>2. Mirrored(m, s, k, Limbs)
      BY <1>0, <2>4, <3>1 DEF Mirrored
    <3> QED BY <3>2, SumMirrored
  <2>6. Combined(m, d, minus, s, Limbs)
    <3>1. Ints(d, Limbs)
      <4>1. \A i \in Limb : d[i] \in Int
        BY <2>1, <2>2
      <4> QED BY <1>0, <4>1 DEF Ints
    <3>2. ASSUME NEW i \in Limb
          PROVE  m[i] = d[i] + (-1) * s[i]
      <4> DEFINE j == Other(k, i)
      <4>1. j \in Limb /\ Other(k, j) = i
        BY Others
      <4> HIDE DEF j
      <4>2. m[i] = s[j] /\ s[j] = Counts(j, i) * w[j] /\ w[j] = w[i]
        BY <2>2, <2>3, <4>1 DEF j
      <4>3. s[i] = Counts(i, j) * w[i] /\ d[i] = 2 * w[i] /\ w[i] \in Int
        BY <2>1, <2>2, <2>3 DEF j
      <4>4. i \in Nat /\ j \in Nat
        BY <4>1, LimbIndex
      <4>5. \/ Counts(i, j) = 2 /\ Counts(j, i) = 0
            \/ Counts(i, j) = 1 /\ Counts(j, i) = 1
            \/ Counts(i, j) = 0 /\ Counts(j, i) = 2
        BY <4>4 DEF Counts
      <4> DEFINE x == w[i]
      <4>6. x \in Int /\ m[i] = Counts(j, i) * x /\ s[i] = Counts(i, j) * x /\ d[i] = 2 * x
        BY <4>2, <4>3
      <4> HIDE DEF x
      <4> QED BY <4>5, <4>6
    <3>3. \A i \in 0 .. Limbs - 1 : m[i] = d[i] + minus * s[i]
      BY <1>0, <3>2
    <3>4. minus \in Int
      OBVIOUS
    <3> HIDE DEF minus
    <3> QED BY <2>4, <3>1, <3>3, <3>4 DEF Combined
  <2>7. SumTo(Limbs, m) = SumTo(Limbs, d) + (-1) * SumTo(Limbs, s)
    <3> HIDE DEF minus
    <3>1. SumTo(Limbs, m) = SumTo(Limbs, d) + minus * SumTo(Limbs, s)
      BY <2>6, SumCombined
    <3> QED BY <3>1 DEF minus
  <2>8. SumTo(Limbs, d) = 2 * SumTo(Limbs, w)
    <3>1. Scaled(d, 2, w, Limbs)
      BY <1>0, <2>1, <2>2 DEF Scaled
    <3> QED BY <3>1, SumScaled
  <2>9. SumTo(Limbs, s) \in Int
    BY <1>0, <2>4, SumSteps
  <2>10. SumTo(Limbs, s) = SumTo(Limbs, w)
    BY <2>1, <2>5, <2>7, <2>8, <2>9
  <2> QED BY <2>1, <2>10
<1>2. Squares(f) = [k \in Limb |-> Squares(f)[k]] /\ Products(f, f) = [k \in Limb |-> Products(f, f)[k]]
  BY DEF Squares, Products
<1> QED BY <1>1, <1>2

-----------------------------------------------------------------------------
(* What each function computes.                                              *)

LEMMA SumOfElements ==
  ASSUME NEW f \in Vector, NEW g \in Vector
  PROVE  /\ FeAdd(f, g) \in Vector
         /\ Value(FeAdd(f, g)) = (Value(f) + Value(g)) % FieldPrime
<1> DEFINE h == FeAdd(f, g)
           c == 1
<1>1. h \in Vector /\ \A i \in 0 .. Limbs - 1 : h[i] = f[i] + g[i]
  BY DEF FeAdd, Vector, Limb
<1> HIDE DEF h
<1>2. FieldNumber(h) = FieldNumber(f) + FieldNumber(g)
  <2>1. \A i \in 0 .. Limbs - 1 :
          PlacedLimbs(h)[i] = PlacedLimbs(f)[i] + c * PlacedLimbs(g)[i]
    <3> TAKE i \in 0 .. Limbs - 1
    <3>1. /\ f[i] \in Int /\ g[i] \in Int /\ Place[i] \in Int
          /\ PlacedLimbs(h)[i] = h[i] * Place[i]
          /\ PlacedLimbs(f)[i] = f[i] * Place[i] /\ PlacedLimbs(g)[i] = g[i] * Place[i]
      BY <1>1, Placed
    <3>2. \A a, b, p \in Int : (a + b) * p = a * p + 1 * (b * p)
      OBVIOUS
    <3> QED BY <1>1, <3>1, <3>2
  <2>2. Combined(PlacedLimbs(h), PlacedLimbs(f), c, PlacedLimbs(g), Limbs)
    BY <2>1, Placed DEF Combined
  <2>3. FieldNumber(h) = FieldNumber(f) + c * FieldNumber(g)
    <3> HIDE DEF c
    <3> QED BY <2>2, SumCombined DEF FieldNumber
  <2> QED BY <2>3, FieldNumberIsInt
<1>3. Congruent(FieldPrime, FieldNumber(h), Value(f) + Value(g))
  BY <1>2, ValueOf, Places, SamePlus, SameSym
<1> QED BY <1>1, <1>3, SameValue DEF h

LEMMA DifferenceOfElements ==
  ASSUME NEW f \in Vector, NEW g \in Vector
  PROVE  /\ FeSub(f, g) \in Vector
         /\ Value(FeSub(f, g)) = (Value(f) - Value(g)) % FieldPrime
<1> DEFINE h == FeSub(f, g)
           c == -1
<1>1. h \in Vector /\ \A i \in 0 .. Limbs - 1 : h[i] = f[i] - g[i]
  BY DEF FeSub, Vector, Limb
<1> HIDE DEF h
<1>2. FieldNumber(h) = FieldNumber(f) + c * FieldNumber(g)
  <2>1. \A i \in 0 .. Limbs - 1 :
          PlacedLimbs(h)[i] = PlacedLimbs(f)[i] + c * PlacedLimbs(g)[i]
    <3> TAKE i \in 0 .. Limbs - 1
    <3>1. /\ f[i] \in Int /\ g[i] \in Int /\ Place[i] \in Int
          /\ PlacedLimbs(h)[i] = h[i] * Place[i]
          /\ PlacedLimbs(f)[i] = f[i] * Place[i] /\ PlacedLimbs(g)[i] = g[i] * Place[i]
      BY <1>1, Placed
    <3>2. \A a, b, p \in Int : (a - b) * p = a * p + (-1) * (b * p)
      OBVIOUS
    <3> QED BY <1>1, <3>1, <3>2
  <2>2. c \in Int
    OBVIOUS
  <2> HIDE DEF c
  <2>3. Combined(PlacedLimbs(h), PlacedLimbs(f), c, PlacedLimbs(g), Limbs)
    BY <2>1, <2>2, Placed DEF Combined
  <2> QED BY <2>3, SumCombined DEF FieldNumber
<1>3. Congruent(FieldPrime, FieldNumber(h), Value(f) - Value(g))
  <2>1. Value(f) \in Int /\ Value(g) \in Int /\ c \in Int
    BY ValueOf, Places
  <2>2. Congruent(FieldPrime, c * FieldNumber(g), c * Value(g))
    <3>1. Congruent(FieldPrime, FieldNumber(g), Value(g))
      BY ValueOf, Places, SameSym
    <3> HIDE DEF c
    <3> QED BY <2>1, <3>1, Places, SameTimes
  <2>3. Congruent(FieldPrime, FieldNumber(f), Value(f))
    BY ValueOf, Places, SameSym
  <2>4. Congruent(FieldPrime, FieldNumber(f) + c * FieldNumber(g), Value(f) + c * Value(g))
    <3> HIDE DEF c
    <3> QED BY <2>2, <2>3, Places, SamePlus
  <2>5. Value(f) + c * Value(g) = Value(f) - Value(g)
    BY <2>1
  <2> QED BY <1>2, <2>4, <2>5
<1> QED BY <1>1, <1>3, SameValue DEF h

\* A vector times a number.
LEMMA MultipleOfElement ==
  ASSUME NEW f \in Vector, NEW c \in Int, NEW h,
         h = [i \in Limb |-> c * f[i]]
  PROVE  h \in Vector /\ Congruent(FieldPrime, FieldNumber(h), c * Value(f))
<1>0. \A a, b \in Int : a * b \in Int
  OBVIOUS
<1>1. h \in Vector /\ \A i \in 0 .. Limbs - 1 : h[i] = c * f[i]
  BY <1>0 DEF Vector, Limb
<1>2. FieldNumber(h) = c * FieldNumber(f)
  <2>1. \A i \in 0 .. Limbs - 1 : PlacedLimbs(h)[i] = c * PlacedLimbs(f)[i]
    <3> TAKE i \in 0 .. Limbs - 1
    <3>1. /\ f[i] \in Int /\ Place[i] \in Int
          /\ PlacedLimbs(h)[i] = h[i] * Place[i] /\ PlacedLimbs(f)[i] = f[i] * Place[i]
      BY <1>1, Placed
    <3>2. \A a, b, p \in Int : (a * b) * p = a * (b * p)
      OBVIOUS
    <3> QED BY <1>1, <3>1, <3>2
  <2>2. Scaled(PlacedLimbs(h), c, PlacedLimbs(f), Limbs)
    BY <2>1, Placed DEF Scaled
  <2> QED BY <2>2, SumScaled DEF FieldNumber
<1>3. Congruent(FieldPrime, FieldNumber(f), Value(f))
  BY ValueOf, Places, SameSym
<1>4. Congruent(FieldPrime, c * FieldNumber(f), c * Value(f))
  BY <1>3, Places, SameTimes
<1> QED BY <1>1, <1>2, <1>4

LEMMA OppositeOfElement ==
  ASSUME NEW f \in Vector
  PROVE  FeNeg(f) \in Vector /\ Value(FeNeg(f)) = (-Value(f)) % FieldPrime
<1> DEFINE c == -1
           h == FeNeg(f)
<1>1. \A i \in Limb : f[i] \in Int /\ -f[i] = c * f[i]
  BY DEF Vector
<1>2. h = [i \in Limb |-> c * f[i]]
  BY <1>1 DEF FeNeg
<1>3. c \in Int
  OBVIOUS
<1>4. c * Value(f) = -Value(f)
  BY ValueOf, Places
<1> HIDE DEF c, h
<1>5. h \in Vector /\ Congruent(FieldPrime, FieldNumber(h), c * Value(f))
  BY <1>2, <1>3, MultipleOfElement
<1> QED BY <1>4, <1>5, SameValue DEF h

\* fe_0 and fe_1.
LEMMA ConstantElement ==
  ASSUME NEW x \in Int
  PROVE  FeConst(x) \in Vector /\ Value(FeConst(x)) = x % FieldPrime
<1> DEFINE h == FeConst(x)
<1>0. Limbs \in Nat /\ 0 \in 0 .. Limbs - 1 /\ Limb = 0 .. Limbs - 1
  BY Sizes DEF Limb
<1>1. h \in Vector /\ h[0] = x /\ \A i \in 0 .. Limbs - 1 : i # 0 => h[i] = 0
  BY <1>0 DEF FeConst, Vector
<1> HIDE DEF h
<1>2. PlacedLimbs(h)[0] = x /\ \A i \in 0 .. Limbs - 1 : i # 0 => PlacedLimbs(h)[i] = 0
  <2>1. \A i \in 0 .. Limbs - 1 : PlacedLimbs(h)[i] = h[i] * Place[i] /\ Place[i] \in Int
    BY <1>1, Placed
  <2>2. \A p \in Int : 0 * p = 0
    OBVIOUS
  <2>3. PlacedLimbs(h)[0] = x
    <3>1. Place[0] = 1 /\ x * 1 = x
      BY Places
    <3> QED BY <1>0, <1>1, <2>1, <3>1
  <2> QED BY <1>0, <1>1, <2>1, <2>2, <2>3
<1>3. FieldNumber(h) = x
  BY <1>0, <1>2, SumOfOne DEF FieldNumber
<1>4. Congruent(FieldPrime, FieldNumber(h), x)
  BY <1>3, Places, SameSelf
<1> QED BY <1>1, <1>4, SameValue DEF h

LEMMA CarriedValue ==
  ASSUME NEW h \in Vector, NEW order \in Seq(Limb), NEW x, Congruent(FieldPrime, FieldNumber(h), x)
  PROVE  Carries(h, order) \in Vector /\ Value(Carries(h, order)) = x % FieldPrime
<1>1. /\ Carries(h, order) \in Vector
      /\ Congruent(FieldPrime, FieldNumber(Carries(h, order)), FieldNumber(h))
  BY CarriesKeep
<1>2. Congruent(FieldPrime, FieldNumber(Carries(h, order)), x)
  BY <1>1, Places, SameTrans
<1> QED BY <1>1, <1>2, SameValue

LEMMA ProductOfElements ==
  ASSUME NEW f \in Vector, NEW g \in Vector
  PROVE  /\ FeMul(f, g) \in Vector
         /\ Value(FeMul(f, g)) = (Value(f) * Value(g)) % FieldPrime
         /\ Congruent(FieldPrime, FieldNumber(Products(f, g)), Value(f) * Value(g))
<1>1. Congruent(FieldPrime, FieldNumber(f), Value(f)) /\ Congruent(FieldPrime, FieldNumber(g), Value(g))
  BY ValueOf, Places, SameSym
<1>2. Congruent(FieldPrime, FieldNumber(f) * FieldNumber(g), Value(f) * Value(g))
  BY <1>1, Places, SameProduct
<1>3. Congruent(FieldPrime, FieldNumber(Products(f, g)), Value(f) * Value(g))
  BY <1>2, ProductsMultiply, Places, SameTrans
<1> QED BY <1>3, ProductsTyped, Orders, CarriedValue DEF FeMul

LEMMA SquareOfElement ==
  ASSUME NEW f \in Vector
  PROVE  FeSq(f) \in Vector /\ Value(FeSq(f)) = (Value(f) * Value(f)) % FieldPrime
<1>1. FeSq(f) = FeMul(f, f)
  BY SquaresAreProducts DEF FeSq, FeMul
<1> QED BY <1>1, ProductOfElements

LEMMA DoubleSquareOfElement ==
  ASSUME NEW f \in Vector
  PROVE  /\ FeSq2(f) \in Vector
         /\ Value(FeSq2(f)) = (2 * ((Value(f) * Value(f)) % FieldPrime)) % FieldPrime
<1> DEFINE s == Products(f, f)
           h == [i \in Limb |-> 2 * s[i]]
           x == Value(f) * Value(f)
<1>1. FeSq2(f) = Carries(h, ProductCarries)
  BY SquaresAreProducts DEF FeSq2
<1>2. s \in Vector /\ Congruent(FieldPrime, FieldNumber(s), x)
  BY ProductsTyped, ProductOfElements
<1> HIDE DEF s
<1>3. h \in Vector /\ Congruent(FieldPrime, FieldNumber(h), 2 * Value(s))
  BY <1>2, MultipleOfElement
<1>4. Value(s) = x % FieldPrime
  BY <1>2, SameValue
<1> HIDE DEF h, x
<1> QED BY <1>1, <1>3, <1>4, Orders, CarriedValue DEF x

LEMMA ConstantTimesElement ==
  ASSUME NEW f \in Vector
  PROVE  /\ FeMul121666(f) \in Vector
         /\ Value(FeMul121666(f)) = (Coefficient * Value(f)) % FieldPrime
<1> DEFINE h == [i \in Limb |-> Coefficient * f[i]]
<1>1. Coefficient \in Int
  BY FieldAssumption
<1>2. h \in Vector /\ Congruent(FieldPrime, FieldNumber(h), Coefficient * Value(f))
  BY <1>1, MultipleOfElement
<1>3. FeMul121666(f) = Carries(h, OnePass)
  BY DEF FeMul121666
<1> HIDE DEF h
<1> QED BY <1>2, <1>3, Orders, CarriedValue

LEMMA MovedElement ==
  ASSUME NEW f \in Vector, NEW g \in Vector, NEW b \in {0, 1}
  PROVE  FeCmov(f, g, b) = IF b = 1 THEN g ELSE f
<1>1. \A i \in Limb : f[i] \in Int /\ g[i] \in Int
  BY DEF Vector
<1>2. \A i \in Limb : f[i] + Masked(g[i] - f[i], b) = IF b = 1 THEN g[i] ELSE f[i]
  BY <1>1 DEF Masked
<1>3. f = [i \in Limb |-> f[i]] /\ g = [i \in Limb |-> g[i]]
  BY DEF Vector
<1> QED BY <1>2, <1>3 DEF FeCmov

\* A load begins less than a byte behind the place of its limb.
LEMMA LoadPlaces ==
  /\ LoadFrom(0) = 0
  /\ \A i \in 0 .. Limbs :
       LoadFrom(i) \in Nat /\ Offset(i) <= LoadFrom(i) /\ LoadFrom(i) < Offset(i) + ByteWidth
<1>1. ByteWidth \in Nat \ {0} /\ Limbs \in Nat \ {0}
  BY FieldAssumption, Sizes
<1>2. ASSUME NEW n \in Nat
      PROVE  NextByte(n) \in Nat /\ n <= NextByte(n) /\ NextByte(n) < n + ByteWidth
  <2> DEFINE x == n + ByteWidth - 1
             q == x \div ByteWidth
  <2>1. x \in Nat /\ q \in Int /\ q * ByteWidth <= x /\ x < q * ByteWidth + ByteWidth /\ q >= 0
    BY <1>1
  <2>2. q * ByteWidth \in Nat
    BY <1>1, <2>1
  <2>3. NextByte(n) = q * ByteWidth
    BY DEF NextByte
  <2> HIDE DEF q
  <2> QED BY <1>1, <2>1, <2>2, <2>3
<1>3. ASSUME NEW i \in 0 .. Limbs
      PROVE  LoadFrom(i) \in Nat /\ Offset(i) <= LoadFrom(i) /\ LoadFrom(i) < Offset(i) + ByteWidth
  <2>1. i \in Nat /\ Offset(i) \in Nat
    BY <1>1, Offsets
  <2>2. NextByte(Offset(i)) \in Nat /\ Offset(i) <= NextByte(Offset(i)) /\ NextByte(Offset(i)) < Offset(i) + ByteWidth
    BY <1>2, <2>1
  <2> QED BY <1>1, <2>1, <2>2 DEF LoadFrom
<1>4. LoadFrom(0) = 0
  <2>1. 0 + ByteWidth - 1 = ByteWidth - 1 /\ (ByteWidth - 1) \div ByteWidth = 0
    BY <1>1
  <2>2. NextByte(0) = 0
    BY <1>1, <2>1 DEF NextByte
  <2>3. 0 # Limbs /\ Offset(0) = 0
    BY <1>1, Offsets
  <2> QED BY <2>2, <2>3 DEF LoadFrom
<1> QED BY <1>3, <1>4

LEMMA LoadedVector ==
  ASSUME NEW s \in Nat
  PROVE  FeFromBytes(s) \in Vector
<1>1. ASSUME NEW i \in Limb
      PROVE  Loaded(s, i) \in Int
  <2>1. /\ i \in Nat /\ i + 1 \in Nat /\ ByteWidth \in Nat \ {0} /\ ByteWidth <= OddBits
        /\ i \in 0 .. Limbs /\ i + 1 \in 0 .. Limbs
        /\ Offset(i) \in Nat /\ Offset(i + 1) = Offset(i) + Width(i) /\ Width(i) \in Nat
        /\ Width(i) >= OddBits /\ OddBits \in Nat
    BY LimbIndex, Offsets, Widths, FieldAssumption, Sizes DEF Width, Limb
  <2>2. /\ LoadFrom(i) \in Nat /\ LoadFrom(i) - Offset(i) \in Nat
        /\ LoadFrom(i + 1) - LoadFrom(i) \in Nat
    BY <2>1, LoadPlaces
  <2> DEFINE a == Power(2, LoadFrom(i))
             b == Power(2, LoadFrom(i + 1) - LoadFrom(i))
             c == Power(2, LoadFrom(i) - Offset(i))
  <2>3. a \in Nat \ {0} /\ b \in Nat \ {0} /\ c \in Nat \ {0}
    <3>1. 2 \in Nat \ {0}
      OBVIOUS
    <3> QED BY <2>2, <3>1, PowerPositive
  <2>4. Loaded(s, i) = ((s \div a) % b) * c
    BY DEF Loaded
  <2> HIDE DEF a, b, c
  <2>5. s \div a \in Int
    BY <2>3
  <2>6. (s \div a) % b \in Int
    BY <2>3, <2>5
  <2>7. ((s \div a) % b) * c \in Int
    BY <2>3, <2>6
  <2> QED BY <2>4, <2>7
<1>2. [i \in Limb |-> Loaded(s, i)] \in Vector
  BY <1>1 DEF Vector
<1> QED BY <1>2, Orders, CarriesKeep DEF FeFromBytes

-----------------------------------------------------------------------------
(* The registers.                                                            *)

FieldTyped == reg \in [Reg -> Vector]

LEMMA RestOfElement ==
  ASSUME NEW x \in 0 .. FieldPrime - 1
  PROVE  x = x % FieldPrime
<1>1. FieldPrime \in Nat \ {0} /\ 0 \in Int /\ FieldPrime * 0 + x = x
  BY Places
<1>2. (FieldPrime * 0 + x) % FieldPrime = x
  BY <1>1, RestOfMultiple
<1> QED BY <1>1, <1>2

\* A vector of that value in a register is that element put there.
LEMMA Putting ==
  ASSUME FieldTyped, NEW h \in Reg, NEW v \in Vector, NEW x, Value(v) = x % FieldPrime,
         reg' = [reg EXCEPT ![h] = v]
  PROVE  FieldTyped' /\ Elements!Put(h, x)
<1>1. reg' \in [Reg -> Vector] /\ reg \in [Reg -> Vector]
  BY DEF FieldTyped
<1>2. \A r \in Reg : reg'[r] = IF r = h THEN v ELSE reg[r]
  BY <1>1
<1>3. \A r \in Reg : Value(reg'[r]) = IF r = h THEN x % FieldPrime ELSE Value(reg[r])
  BY <1>2
<1>4. [r \in Reg |-> Value(reg'[r])] = [[r \in Reg |-> Value(reg[r])] EXCEPT ![h] = x % FieldPrime]
  BY <1>3
<1>5. Elements!Put(h, x)
  BY <1>4 DEF Elements!Put
<1> QED BY <1>1, <1>5 DEF FieldTyped

LEMMA FieldStart == FieldInit => FieldTyped /\ Elements!ElementInit
<1> SUFFICES ASSUME FieldInit PROVE FieldTyped /\ Elements!ElementInit
  OBVIOUS
<1>1. PICK s \in [Reg -> FieldInputs] : reg = [r \in Reg |-> FeFromBytes(s[r])]
  BY DEF FieldInit
<1>2. \A r \in Reg : reg[r] \in Vector
  <2> TAKE r \in Reg
  <2>1. s[r] \in Nat /\ reg[r] = FeFromBytes(s[r])
    BY <1>1, FieldAssumption
  <2> QED BY <2>1, LoadedVector
<1>3. FieldTyped
  BY <1>1, <1>2 DEF FieldTyped
<1>4. \A r \in Reg : Value(reg[r]) \in Elements!Element
  BY <1>2, ValueOf DEF Elements!Element
<1>5. feOp = "loaded"
  BY DEF FieldInit
<1> QED BY <1>3, <1>4, <1>5 DEF Elements!ElementInit

\* Every function of fe.c is the operation of its name on the elements.
LEMMA FieldStep ==
  ASSUME FieldTyped, FieldNext
  PROVE  FieldTyped' /\ Elements!ElementNext
<1>1. PICK h \in Reg, f \in Reg, g \in Reg, b \in {0, 1} :
        \/ Add(h, f, g) \/ Sub(h, f, g) \/ Mul(h, f, g)
        \/ Square(h, f) \/ DoubleSquare(h, f) \/ MulConstant(h, f)
        \/ Negate(h, f) \/ Copy(h, f) \/ SetConstant(h)
        \/ Move(f, g, b) \/ ConditionalSwap(f, g, b)
  BY DEF FieldNext
<1> DEFINE elem(r) == [q \in Reg |-> Value(reg[q])][r]
           x == Value(reg[f])
           y == Value(reg[g])
<1>2. /\ reg[f] \in Vector /\ reg[g] \in Vector /\ reg[h] \in Vector
      /\ elem(f) = x /\ elem(g) = y
  BY DEF FieldTyped
<1>3. CASE Add(h, f, g)
  <2>1. reg' = [reg EXCEPT ![h] = FeAdd(reg[f], reg[g])] /\ feOp' = "add"
    BY <1>3 DEF Add, Write
  <2>2. FieldTyped' /\ Elements!Put(h, x + y)
    BY <1>2, <2>1, SumOfElements, Putting
  <2>3. Elements!Binary("add", h, elem(f), elem(g))
    BY <1>2, <2>2 DEF Elements!Binary
  <2> QED BY <2>1, <2>2, <2>3 DEF Elements!ElementNext
<1>4. CASE Sub(h, f, g)
  <2>1. reg' = [reg EXCEPT ![h] = FeSub(reg[f], reg[g])] /\ feOp' = "sub"
    BY <1>4 DEF Sub, Write
  <2>2. FieldTyped' /\ Elements!Put(h, x - y)
    BY <1>2, <2>1, DifferenceOfElements, Putting
  <2>3. Elements!Binary("sub", h, elem(f), elem(g))
    BY <1>2, <2>2 DEF Elements!Binary
  <2> QED BY <2>1, <2>2, <2>3 DEF Elements!ElementNext
<1>5. CASE Mul(h, f, g)
  <2>1. reg' = [reg EXCEPT ![h] = FeMul(reg[f], reg[g])] /\ feOp' = "mul"
    BY <1>5 DEF Mul, Write
  <2>2. FieldTyped' /\ Elements!Put(h, x * y)
    BY <1>2, <2>1, ProductOfElements, Putting
  <2>3. Elements!Binary("mul", h, elem(f), elem(g))
    BY <1>2, <2>2 DEF Elements!Binary
  <2> QED BY <2>1, <2>2, <2>3 DEF Elements!ElementNext
<1>6. CASE Square(h, f)
  <2>1. reg' = [reg EXCEPT ![h] = FeSq(reg[f])] /\ feOp' = "sq"
    BY <1>6 DEF Square, Write
  <2>2. FieldTyped' /\ Elements!Put(h, x * x)
    BY <1>2, <2>1, SquareOfElement, Putting
  <2>3. Elements!Unary("sq", h, elem(f))
    BY <1>2, <2>2 DEF Elements!Unary
  <2> QED BY <2>1, <2>2, <2>3 DEF Elements!ElementNext
<1>7. CASE DoubleSquare(h, f)
  <2>1. reg' = [reg EXCEPT ![h] = FeSq2(reg[f])] /\ feOp' = "sq2"
    BY <1>7 DEF DoubleSquare, Write
  <2>2. FieldTyped' /\ Elements!Put(h, 2 * ((x * x) % FieldPrime))
    BY <1>2, <2>1, DoubleSquareOfElement, Putting
  <2>3. Elements!Unary("sq2", h, elem(f))
    BY <1>2, <2>2 DEF Elements!Unary
  <2> QED BY <2>1, <2>2, <2>3 DEF Elements!ElementNext
<1>8. CASE MulConstant(h, f)
  <2>1. reg' = [reg EXCEPT ![h] = FeMul121666(reg[f])] /\ feOp' = "mul121666"
    BY <1>8 DEF MulConstant, Write
  <2>2. FieldTyped' /\ Elements!Put(h, Coefficient * x)
    BY <1>2, <2>1, ConstantTimesElement, Putting
  <2>3. Elements!Unary("mul121666", h, elem(f))
    BY <1>2, <2>2 DEF Elements!Unary
  <2> QED BY <2>1, <2>2, <2>3 DEF Elements!ElementNext
<1>9. CASE Negate(h, f)
  <2>1. reg' = [reg EXCEPT ![h] = FeNeg(reg[f])] /\ feOp' = "neg"
    BY <1>9 DEF Negate, Write
  <2>2. FieldTyped' /\ Elements!Put(h, -x)
    BY <1>2, <2>1, OppositeOfElement, Putting
  <2>3. Elements!Unary("neg", h, elem(f))
    BY <1>2, <2>2 DEF Elements!Unary
  <2> QED BY <2>1, <2>2, <2>3 DEF Elements!ElementNext
<1>10. CASE Copy(h, f)
  <2>1. reg' = [reg EXCEPT ![h] = reg[f]] /\ feOp' = "copy"
    BY <1>10 DEF Copy, Write, FeCopy
  <2>2. x = x % FieldPrime
    BY <1>2, ValueOf, RestOfElement
  <2>3. FieldTyped' /\ Elements!Put(h, x)
    BY <1>2, <2>1, <2>2, Putting
  <2>4. Elements!Unary("copy", h, elem(f))
    BY <1>2, <2>3 DEF Elements!Unary
  <2> QED BY <2>1, <2>3, <2>4 DEF Elements!ElementNext
<1>11. CASE SetConstant(h)
  <2>1. CASE Write("0", h, Fe0, 0, 0)
    <3>1. reg' = [reg EXCEPT ![h] = Fe0] /\ feOp' = "0"
      BY <2>1 DEF Write
    <3>2. 0 \in Int /\ Fe0 = FeConst(0)
      BY DEF Fe0
    <3>3. FieldTyped' /\ Elements!Put(h, 0)
      BY <3>1, <3>2, ConstantElement, Putting
    <3> QED BY <3>1, <3>3 DEF Elements!ElementNext
  <2>2. CASE Write("1", h, Fe1, 0, 1)
    <3>1. reg' = [reg EXCEPT ![h] = Fe1] /\ feOp' = "1"
      BY <2>2 DEF Write
    <3>2. 1 \in Int /\ Fe1 = FeConst(1)
      BY DEF Fe1
    <3>3. FieldTyped' /\ Elements!Put(h, 1)
      BY <3>1, <3>2, ConstantElement, Putting
    <3> QED BY <3>1, <3>3 DEF Elements!ElementNext
  <2> QED BY <1>11, <2>1, <2>2 DEF SetConstant
<1>12. CASE Move(f, g, b)
  <2>1. reg' = [reg EXCEPT ![f] = IF b = 1 THEN reg[g] ELSE reg[f]] /\ feOp' = "cmov"
    <3>1. FeCmov(reg[f], reg[g], b) = IF b = 1 THEN reg[g] ELSE reg[f]
      BY <1>2, MovedElement
    <3>2. reg' = [reg EXCEPT ![f] = FeCmov(reg[f], reg[g], b)] /\ feOp' = "cmov"
      BY <1>12 DEF Move, Write
    <3> QED BY <3>1, <3>2
  <2>2. CASE b = 1
    <3>1. y = y % FieldPrime
      BY <1>2, ValueOf, RestOfElement
    <3>2. FieldTyped' /\ Elements!Put(f, y)
      BY <1>2, <2>1, <2>2, <3>1, Putting
    <3>3. Elements!Put(f, elem(g))
      BY <1>2, <3>2
    <3> QED BY <2>1, <3>2, <3>3 DEF Elements!ElementNext
  <2>3. CASE b # 1
    <3>1. reg' = reg
      BY <2>1, <2>3 DEF FieldTyped
    <3>2. [r \in Reg |-> Value(reg'[r])] = [r \in Reg |-> Value(reg[r])]
      BY <3>1
    <3> QED BY <2>1, <3>1, <3>2 DEF Elements!ElementNext, FieldTyped
  <2> QED BY <2>2, <2>3
<1>13. CASE ConditionalSwap(f, g, b)
  <2>1. /\ reg' = [reg EXCEPT ![f] = IF b = 1 THEN reg[g] ELSE reg[f],
                              ![g] = IF b = 1 THEN reg[f] ELSE reg[g]]
        /\ feOp' = "cswap"
    <3>1. /\ FeCmov(reg[f], reg[g], b) = IF b = 1 THEN reg[g] ELSE reg[f]
          /\ FeCmov(reg[g], reg[f], b) = IF b = 1 THEN reg[f] ELSE reg[g]
      BY <1>2, MovedElement
    <3>2. /\ reg' = [reg EXCEPT ![f] = FeCmov(reg[f], reg[g], b),
                                ![g] = FeCmov(reg[g], reg[f], b)]
          /\ feOp' = "cswap"
      BY <1>13 DEF ConditionalSwap, Swapped
    <3> QED BY <3>1, <3>2
  <2>2. CASE b = 1
    <3>1. reg' = [reg EXCEPT ![f] = reg[g], ![g] = reg[f]]
      BY <2>1, <2>2
    <3>2. FieldTyped'
      BY <1>2, <3>1 DEF FieldTyped
    <3>3. \A r \in Reg : reg'[r] = IF r = g THEN reg[f] ELSE IF r = f THEN reg[g] ELSE reg[r]
      BY <3>1 DEF FieldTyped
    <3>4. \A r \in Reg : Value(reg'[r]) = IF r = g THEN x ELSE IF r = f THEN y ELSE Value(reg[r])
      BY <3>3
    <3>5. Elements!Exchange(f, g)
      BY <1>2, <3>4 DEF Elements!Exchange
    <3> QED BY <2>1, <3>2, <3>5 DEF Elements!ElementNext
  <2>3. CASE b # 1
    <3>1. reg' = reg
      BY <2>1, <2>3 DEF FieldTyped
    <3>2. [r \in Reg |-> Value(reg'[r])] = [r \in Reg |-> Value(reg[r])]
      BY <3>1
    <3> QED BY <2>1, <3>1, <3>2 DEF Elements!ElementNext, FieldTyped
  <2> QED BY <2>2, <2>3
<1> QED BY <1>1, <1>3, <1>4, <1>5, <1>6, <1>7, <1>8, <1>9, <1>10, <1>11, <1>12, <1>13

LEMMA FieldStays ==
  FieldTyped /\ [FieldNext]_fieldVars
    => FieldTyped' /\ [Elements!ElementNext]_(Elements!elementVars)
<1> SUFFICES ASSUME FieldTyped, [FieldNext]_fieldVars
             PROVE  FieldTyped' /\ [Elements!ElementNext]_(Elements!elementVars)
  OBVIOUS
<1>1. CASE FieldNext
  BY <1>1, FieldStep
<1>2. CASE UNCHANGED fieldVars
  <2>1. reg' = reg /\ feOp' = feOp
    BY <1>2 DEF fieldVars
  <2>2. [r \in Reg |-> Value(reg'[r])] = [r \in Reg |-> Value(reg[r])]
    BY <2>1
  <2> QED BY <2>1, <2>2 DEF Elements!elementVars, FieldTyped
<1> QED BY <1>1, <1>2

\* However the functions of fe.c are called one after the other, on which
\* registers whatever, the limbs compute in the field of the prime's residues.
THEOREM LimbsAreElements == FieldSpec => ImplementsField
<1>1. FieldInit => FieldTyped /\ Elements!ElementInit
  BY FieldStart
<1> QED BY <1>1, FieldStays, PTL DEF FieldSpec, ImplementsField, Elements!ElementSpec

-----------------------------------------------------------------------------
(* sc.c.                                                                     *)

LEMMA ScalarSizes ==
  /\ M \in Nat /\ M >= 4 /\ 2 * M \in Nat /\ 2 * M + 1 \in Nat
  /\ Quarter \in Nat /\ 2 * Quarter = M
  /\ LimbBits \in Nat \ {0}
BY ScalarAssumption DEF M, Quarter

\* The digits of -delta, with zeros above them.
LEMMA FoldDigits ==
  /\ \A k \in Int : FoldDigit(k) \in Int
  /\ \A k \in Int : k \notin 0 .. Quarter - 1 => FoldDigit(k) = 0
<1>1. /\ Delta \in Seq(Int) /\ Len(Delta) <= Quarter /\ Len(Delta) \in Nat
      /\ DOMAIN Delta = 1 .. Len(Delta)
  BY ScalarAssumption DEF M, Quarter
<1>2. ASSUME NEW k \in Int
      PROVE  FoldDigit(k) \in Int /\ (k \notin 0 .. Quarter - 1 => FoldDigit(k) = 0)
  <2>1. CASE k + 1 \in DOMAIN Delta
    <3>1. k + 1 \in 1 .. Len(Delta) /\ k \in 0 .. Quarter - 1
      BY <1>1, <2>1, ScalarSizes
    <3> QED BY <1>1, <2>1, <3>1 DEF FoldDigit
  <2>2. CASE k + 1 \notin DOMAIN Delta
    BY <2>2 DEF FoldDigit
  <2> QED BY <2>1, <2>2
<1> QED BY <1>2

\* The places of a scalar are powers of one, and the order is positive.
LEMMA ScalarPlaces ==
  /\ \A i \in 0 .. 2 * M : ScalarPlace[i] \in Nat \ {0}
  /\ ScalarPlace[0] = 1
  /\ \A i, j \in 0 .. 2 * M :
       i + j \in 0 .. 2 * M => ScalarPlace[i + j] = ScalarPlace[i] * ScalarPlace[j]
  /\ ScalarOrder \in Nat \ {0}
<1>0. M \in Nat /\ M >= 4 /\ 2 \in Nat /\ 2 \in Nat \ {0} /\ LimbBits \in Nat
  BY ScalarSizes
<1>1. \A i \in 0 .. 2 * M : i \in Nat /\ LimbBits * i \in Nat
                            /\ ScalarPlace[i] = Power(2, LimbBits * i)
  BY <1>0 DEF ScalarPlace
<1>2. \A i \in 0 .. 2 * M : ScalarPlace[i] \in Nat \ {0}
  BY <1>0, <1>1, PowerPositive
<1>3. ScalarPlace[0] = 1
  <2>1. 0 \in 0 .. 2 * M /\ LimbBits * 0 = 0
    BY <1>0
  <2> QED BY <1>0, <1>1, <2>1, PowerSteps
<1>4. ASSUME NEW i \in 0 .. 2 * M, NEW j \in 0 .. 2 * M, i + j \in 0 .. 2 * M
      PROVE  ScalarPlace[i + j] = ScalarPlace[i] * ScalarPlace[j]
  <2>1. LimbBits * (i + j) = LimbBits * i + LimbBits * j
    BY <1>0
  <2>2. LimbBits * i \in Nat /\ LimbBits * j \in Nat
    BY <1>1
  <2>3. Power(2, LimbBits * i + LimbBits * j)
          = Power(2, LimbBits * i) * Power(2, LimbBits * j)
    BY <1>0, <2>2, PowerOfSum
  <2> QED BY <1>1, <1>4, <2>1, <2>3
<1>5. ScalarOrder \in Nat \ {0}
  <2> DEFINE d == [k \in 0 .. M - 1 |-> FoldDigit(k) * ScalarPlace[k]]
  <2>1. ScalarPlace[M] \in Int
    BY <1>0, <1>2
  <2>2. Ints(d, M)
    <3>1. \A k \in 0 .. M - 1 : FoldDigit(k) * ScalarPlace[k] \in Int
      <4> TAKE k \in 0 .. M - 1
      <4>1. k \in Int /\ k \in 0 .. 2 * M
        BY <1>0
      <4>2. FoldDigit(k) \in Int /\ ScalarPlace[k] \in Int
        BY <1>2, <4>1, FoldDigits
      <4> QED BY <4>2
    <3> QED BY <1>0, <3>1 DEF Ints
  <2>3. M \in 0 .. M
    BY <1>0
  <2> HIDE DEF d
  <2>4. SumTo(M, d) \in Int
    BY <2>2, <2>3, SumSteps
  <2>5. ScalarOrder = ScalarPlace[M] - SumTo(M, d)
    BY DEF ScalarOrder, d
  <2> QED BY <2>1, <2>4, <2>5, OrderAssumption
<1> QED BY <1>2, <1>3, <1>4, <1>5

ScalarVector == [0 .. 2 * M -> Int]
PlacedScalar(v) == [i \in 0 .. 2 * M |-> v[i] * ScalarPlace[i]]

LEMMA ScalarPlaced ==
  ASSUME NEW v \in ScalarVector
  PROVE  /\ Ints(PlacedScalar(v), 2 * M + 1)
         /\ \A i \in 0 .. 2 * M :
              /\ v[i] \in Int /\ ScalarPlace[i] \in Int
              /\ PlacedScalar(v)[i] = v[i] * ScalarPlace[i]
         /\ NumberOf(v) = SumTo(2 * M + 1, PlacedScalar(v))
         /\ NumberOf(v) \in Int
<1>0. 2 * M + 1 \in Nat /\ 0 .. (2 * M + 1) - 1 = 0 .. 2 * M /\ 2 * M + 1 \in 0 .. 2 * M + 1
  BY ScalarSizes
<1>1. \A i \in 0 .. 2 * M :
        /\ v[i] \in Int /\ ScalarPlace[i] \in Int
        /\ PlacedScalar(v)[i] = v[i] * ScalarPlace[i]
  BY ScalarPlaces DEF ScalarVector, PlacedScalar
<1>2. \A i \in 0 .. 2 * M : PlacedScalar(v)[i] \in Int
  BY <1>1
<1>3. Ints(PlacedScalar(v), 2 * M + 1)
  BY <1>0, <1>2 DEF Ints
<1>4. NumberOf(v) = SumTo(2 * M + 1, PlacedScalar(v))
  BY DEF NumberOf, PlacedScalar
<1> QED BY <1>0, <1>1, <1>3, <1>4, SumSteps

\* One limb changes.
LEMMA ScalarChanged ==
  ASSUME NEW v \in ScalarVector, NEW i \in 0 .. 2 * M, NEW d \in Int, NEW w \in ScalarVector,
         w[i] = v[i] + d, \A j \in 0 .. 2 * M : j # i => w[j] = v[j]
  PROVE  NumberOf(w) = NumberOf(v) + d * ScalarPlace[i]
<1> DEFINE n == 2 * M + 1
           e == [j \in 0 .. 2 * M |-> IF j = i THEN ScalarPlace[i] ELSE 0]
<1>0. n \in Nat /\ 0 .. n - 1 = 0 .. 2 * M /\ i \in 0 .. n - 1
  BY ScalarSizes
<1>1. ScalarPlace[i] \in Int
  BY ScalarPlaces
<1>2. /\ e[i] = ScalarPlace[i] /\ \A j \in 0 .. n - 1 : j # i => e[j] = 0
      /\ \A j \in 0 .. n - 1 : e[j] \in Int
  <2>1. \A j \in 0 .. 2 * M : e[j] = IF j = i THEN ScalarPlace[i] ELSE 0
    OBVIOUS
  <2>2. \A j \in 0 .. n - 1 : j \in 0 .. 2 * M
    BY <1>0
  <2> HIDE DEF e, n
  <2>3. \A j \in 0 .. n - 1 : e[j] = IF j = i THEN ScalarPlace[i] ELSE 0
    BY <2>1, <2>2
  <2> QED BY <1>0, <1>1, <2>3
<1>3. Ints(PlacedScalar(v), n) /\ NumberOf(v) = SumTo(n, PlacedScalar(v))
      /\ NumberOf(w) = SumTo(n, PlacedScalar(w))
  BY ScalarPlaced
<1> HIDE DEF e, n
<1>4. SumTo(n, e) = ScalarPlace[i]
  BY <1>0, <1>1, <1>2, SumOfOne
<1>5. ASSUME NEW j \in 0 .. n - 1
      PROVE  PlacedScalar(w)[j] = PlacedScalar(v)[j] + d * e[j]
  <2>0. j \in 0 .. 2 * M
    BY <1>0
  <2>1. /\ v[j] \in Int /\ ScalarPlace[j] \in Int /\ PlacedScalar(v)[j] = v[j] * ScalarPlace[j]
        /\ w[j] \in Int /\ PlacedScalar(w)[j] = w[j] * ScalarPlace[j]
    BY <2>0, ScalarPlaced
  <2>2. CASE j = i
    <3>1. (v[i] + d) * ScalarPlace[i] = v[i] * ScalarPlace[i] + d * ScalarPlace[i]
      BY <2>1, <2>2
    <3> QED BY <1>2, <2>1, <2>2, <3>1
  <2>3. CASE j # i
    <3>1. w[j] = v[j] /\ e[j] = 0 /\ d * 0 = 0
      BY <1>2, <2>0, <2>3
    <3>2. v[j] * ScalarPlace[j] \in Int
      BY <2>1
    <3> QED BY <2>1, <3>1, <3>2
  <2> QED BY <2>2, <2>3
<1>6. Combined(PlacedScalar(w), PlacedScalar(v), d, e, n)
  <2>1. Ints(e, n)
    BY <1>0, <1>2 DEF Ints
  <2> QED BY <1>3, <1>5, <2>1 DEF Combined
<1>7. SumTo(n, PlacedScalar(w)) = SumTo(n, PlacedScalar(v)) + d * SumTo(n, e)
  BY <1>6, SumCombined
<1> QED BY <1>3, <1>4, <1>7

\* A carry, rounded or not, leaves the number as it is: nothing wraps here.
LEMMA CarryByKeeps ==
  ASSUME NEW v \in ScalarVector, NEW i \in 0 .. 2 * M - 1, NEW half \in Int
  PROVE  /\ CarryBy(v, i, half) \in ScalarVector
         /\ NumberOf(CarryBy(v, i, half)) = NumberOf(v)
<1> DEFINE B == ScalarPlace[1]
           c == (v[i] + half) \div B
           d == -(c * B)
           a == [v EXCEPT ![i] = v[i] + d]
           w == CarryBy(v, i, half)
<1>0. i \in 0 .. 2 * M /\ i + 1 \in 0 .. 2 * M /\ i # i + 1 /\ 1 \in 0 .. 2 * M
  BY ScalarSizes
<1>1. B \in Nat \ {0} /\ v[i] \in Int /\ ScalarPlace[i] \in Int
      /\ ScalarPlace[i + 1] = ScalarPlace[i] * B
  <2>1. B \in Nat \ {0} /\ ScalarPlace[i] \in Nat
    BY <1>0, ScalarPlaces
  <2>2. ScalarPlace[i + 1] = ScalarPlace[i] * ScalarPlace[1]
    BY <1>0, ScalarPlaces
  <2>3. v[i] \in Int
    BY <1>0 DEF ScalarVector
  <2> HIDE DEF B
  <2> QED BY <2>1, <2>2, <2>3 DEF B
<1>2. c \in Int
  <2> HIDE DEF B
  <2> QED BY <1>1
<1>3. w = [v EXCEPT ![i] = v[i] - c * B, ![i + 1] = @ + c]
  BY DEF CarryBy
<1> HIDE DEF B, c, w
<1>4. d \in Int /\ v[i] - c * B = v[i] + d
  BY <1>1, <1>2
<1> HIDE DEF d
<1>5. /\ a \in ScalarVector /\ a[i] = v[i] + d
      /\ \A j \in 0 .. 2 * M : j # i => a[j] = v[j]
  BY <1>0, <1>1, <1>4 DEF ScalarVector
<1>6. /\ w \in ScalarVector /\ w[i + 1] = a[i + 1] + c
      /\ \A j \in 0 .. 2 * M : j # i + 1 => w[j] = a[j]
  <2> DEFINE low == v[i] - c * B
             k == i + 1
             high == v[k] + c
  <2>1. w = [[v EXCEPT ![i] = low] EXCEPT ![k] = high]
    BY <1>0, <1>3, <1>5 DEF ScalarVector
  <2>2. a = [v EXCEPT ![i] = low]
    BY <1>4
  <2>3. k \in 0 .. 2 * M /\ high \in Int /\ a[k] = v[k]
    <3>1. k \in 0 .. 2 * M /\ v[k] \in Int
      BY <1>0 DEF ScalarVector
    <3> QED BY <1>0, <1>2, <1>5, <3>1
  <2> HIDE DEF a, low, high
  <2>4. w = [a EXCEPT ![k] = high]
    BY <2>1, <2>2
  <2>5. w \in ScalarVector /\ w[k] = high /\ \A j \in 0 .. 2 * M : j # k => w[j] = a[j]
    <3> HIDE DEF k
    <3> QED BY <1>5, <2>3, <2>4 DEF ScalarVector
  <2> QED BY <2>3, <2>5 DEF high
<1> HIDE DEF a
<1>7. NumberOf(a) = NumberOf(v) + d * ScalarPlace[i]
  BY <1>0, <1>4, <1>5, ScalarChanged
<1>8. NumberOf(w) = NumberOf(a) + c * ScalarPlace[i + 1]
  BY <1>0, <1>2, <1>5, <1>6, ScalarChanged
<1>9. NumberOf(v) \in Int
  BY ScalarPlaced
<1>10. c * ScalarPlace[i + 1] = -(d * ScalarPlace[i]) /\ d * ScalarPlace[i] \in Int
  <2> DEFINE p == ScalarPlace[i]
  <2>1. p \in Int /\ ScalarPlace[i + 1] = p * B
    BY <1>1
  <2> HIDE DEF p
  <2>2. c * (p * B) = -((-(c * B)) * p)
    BY <1>1, <1>2, <2>1
  <2> QED BY <1>4, <2>1, <2>2 DEF d, p
<1>11. NumberOf(w) = NumberOf(v)
  BY <1>7, <1>8, <1>9, <1>10
<1> QED BY <1>6, <1>11 DEF w

\* The entries of a folded vector.
LEMMA FoldedEntries ==
  ASSUME NEW v \in ScalarVector, NEW i \in M .. 2 * M - 1
  PROVE  /\ Fold(v, i) \in ScalarVector
         /\ \A j \in 0 .. 2 * M :
              Fold(v, i)[j] = IF j = i THEN 0 ELSE v[j] + v[i] * FoldDigit(j - (i - M))
<1>0. i \in 0 .. 2 * M /\ i \in Int /\ M \in Int
  BY ScalarSizes
<1>1. DOMAIN v = 0 .. 2 * M /\ v[i] \in Int
  BY <1>0 DEF ScalarVector
<1>2. ASSUME NEW j \in 0 .. 2 * M
      PROVE  (IF j = i THEN 0 ELSE v[j] + v[i] * FoldDigit(j - (i - M))) \in Int
  <2>1. v[j] \in Int /\ FoldDigit(j - (i - M)) \in Int
    <3>1. j - (i - M) \in Int
      BY <1>0
    <3> QED BY <3>1, FoldDigits DEF ScalarVector
  <2>2. v[i] * FoldDigit(j - (i - M)) \in Int
    BY <1>1, <2>1
  <2> QED BY <2>1, <2>2
<1>3. Fold(v, i) = [j \in 0 .. 2 * M |-> IF j = i THEN 0 ELSE v[j] + v[i] * FoldDigit(j - (i - M))]
  BY <1>1 DEF Fold
<1> QED BY <1>2, <1>3 DEF ScalarVector

\* A limb folded half a vector below: the number loses a multiple of the order.
LEMMA FoldSubtracts ==
  ASSUME NEW v \in ScalarVector, NEW i \in M .. 2 * M - 1
  PROVE  NumberOf(Fold(v, i)) = NumberOf(v) - v[i] * (ScalarPlace[i - M] * ScalarOrder)
<1> DEFINE k == i - M
           n == 2 * M + 1
           x == v[i]
           w == Fold(v, i)
           d == [t \in 0 .. M - 1 |-> FoldDigit(t) * ScalarPlace[t]]
           f == [t \in 0 .. M - 1 |-> ScalarPlace[k] * d[t]]
           e == [j \in 0 .. 2 * M |-> FoldDigit(j - k) * ScalarPlace[j]]
           one == [j \in 0 .. 2 * M |-> IF j = i THEN ScalarPlace[i] ELSE 0]
           h == [j \in 0 .. 2 * M |-> e[j] + (-1) * one[j]]
           p == ScalarPlace[k]
           q == ScalarPlace[M]
<1>0. /\ M \in Nat /\ M >= 4 /\ n \in Nat /\ 0 .. n - 1 = 0 .. 2 * M
      /\ k \in Nat /\ k \in 0 .. 2 * M /\ i \in 0 .. 2 * M /\ i \in 0 .. n - 1 /\ k + M = i
      /\ k + M <= n /\ M \in 0 .. 2 * M /\ M \in 0 .. M
      /\ \A t \in 0 .. M - 1 : t \in Int /\ t \in 0 .. 2 * M /\ k + t \in 0 .. 2 * M
      /\ Quarter <= M
  BY ScalarSizes
<1>1. p \in Int /\ q \in Int /\ ScalarPlace[i] = p * q /\ \A j \in 0 .. 2 * M : ScalarPlace[j] \in Int
  BY <1>0, ScalarPlaces
<1>2. \A t \in 0 .. M - 1 :
        /\ d[t] = FoldDigit(t) * ScalarPlace[t] /\ d[t] \in Int /\ f[t] = p * d[t] /\ f[t] \in Int
        /\ FoldDigit(t) \in Int
  <2> TAKE t \in 0 .. M - 1
  <2>1. FoldDigit(t) \in Int /\ ScalarPlace[t] \in Int
    BY <1>0, <1>1, FoldDigits
  <2>2. d[t] = FoldDigit(t) * ScalarPlace[t] /\ d[t] \in Int
    BY <2>1
  <2>3. f[t] = p * d[t]
    OBVIOUS
  <2> HIDE DEF d, f, p
  <2>4. p * d[t] \in Int
    BY <1>1, <2>2
  <2> QED BY <2>1, <2>2, <2>3, <2>4
<1>3. \A j \in 0 .. 2 * M : e[j] = FoldDigit(j - k) * ScalarPlace[j] /\ e[j] \in Int
                            /\ FoldDigit(j - k) \in Int
  <2> TAKE j \in 0 .. 2 * M
  <2>1. j - k \in Int
    BY <1>0
  <2>2. FoldDigit(j - k) \in Int
    BY <2>1, FoldDigits
  <2>3. FoldDigit(j - k) * ScalarPlace[j] \in Int
    BY <1>1, <2>2
  <2> QED BY <2>2, <2>3
<1>4. \A j \in 0 .. 2 * M : one[j] = (IF j = i THEN ScalarPlace[i] ELSE 0) /\ one[j] \in Int
  BY <1>0, <1>1
<1>5. \A j \in 0 .. 2 * M : h[j] = e[j] + (-1) * one[j]
  OBVIOUS
<1>6. ScalarOrder = q - SumTo(M, d)
  BY DEF ScalarOrder
<1> HIDE DEF d, f, e, one, h, k, n, p, q, w, x
<1>7. SumTo(M, d) \in Int /\ SumTo(M, f) = p * SumTo(M, d)
  <2>1. Ints(d, M)
    BY <1>0, <1>2 DEF Ints
  <2>2. Scaled(f, p, d, M)
    BY <1>1, <1>2, <2>1 DEF Scaled
  <2> QED BY <1>0, <2>1, <2>2, SumSteps, SumScaled
<1>8. SumTo(n, e) = SumTo(M, f)
  <2>1. ASSUME NEW j \in 0 .. n - 1
        PROVE  e[j] = IF j - k \in 0 .. M - 1 THEN f[j - k] ELSE 0
    <3>0. j \in 0 .. 2 * M /\ j - k \in Int
      BY <1>0
    <3>1. CASE j - k \in 0 .. M - 1
      <4> DEFINE t == j - k
      <4>1. t \in 0 .. M - 1 /\ t \in 0 .. 2 * M /\ k + t = j /\ t \in Int
        BY <1>0, <3>0, <3>1
      <4>2. e[j] = FoldDigit(t) * ScalarPlace[j]
        BY <1>3, <3>0
      <4> HIDE DEF t
      <4>3. ScalarPlace[j] = p * ScalarPlace[t]
        BY <1>0, <3>0, <4>1, ScalarPlaces DEF p
      <4>4. FoldDigit(t) \in Int /\ ScalarPlace[t] \in Int /\ f[t] = p * (FoldDigit(t) * ScalarPlace[t])
        BY <1>1, <1>2, <4>1
      <4>5. FoldDigit(t) * (p * ScalarPlace[t]) = p * (FoldDigit(t) * ScalarPlace[t])
        BY <1>1, <4>4
      <4>6. e[j] = f[t]
        BY <4>2, <4>3, <4>4, <4>5
      <4> QED BY <3>1, <4>6 DEF t
    <3>2. CASE j - k \notin 0 .. M - 1
      <4>1. j - k \notin 0 .. Quarter - 1
        BY <1>0, <3>0, <3>2, ScalarSizes
      <4>2. FoldDigit(j - k) = 0
        BY <3>0, <4>1, FoldDigits
      <4>3. 0 * ScalarPlace[j] = 0
        BY <1>1, <3>0
      <4> QED BY <1>3, <3>0, <3>2, <4>2, <4>3
    <3> QED BY <3>1, <3>2
  <2>2. Ints(f, M)
    BY <1>0, <1>2 DEF Ints
  <2>3. Shifted(e, f, k, M, n)
    BY <1>0, <2>1, <2>2 DEF Shifted
  <2> QED BY <2>3, SumShifted
<1>9. SumTo(n, one) = ScalarPlace[i]
  <2>1. one[i] = ScalarPlace[i] /\ one[i] \in Int
    BY <1>0, <1>4
  <2>2. \A j \in 0 .. n - 1 : j # i => one[j] = 0
    BY <1>0, <1>4
  <2> QED BY <1>0, <2>1, <2>2, SumOfOne
<1>10. Ints(e, n) /\ Ints(one, n)
  BY <1>0, <1>3, <1>4 DEF Ints
<1>11. SumTo(n, h) = SumTo(n, e) + (-1) * SumTo(n, one)
  <2> DEFINE c == -1
  <2>1. c \in Int /\ \A j \in 0 .. n - 1 : h[j] = e[j] + c * one[j]
    BY <1>0, <1>5
  <2> HIDE DEF c
  <2>2. Combined(h, e, c, one, n)
    BY <1>10, <2>1 DEF Combined
  <2>3. SumTo(n, h) = SumTo(n, e) + c * SumTo(n, one)
    BY <2>2, SumCombined
  <2> QED BY <2>3 DEF c
<1>12. SumTo(n, h) = -(p * ScalarOrder)
  <2> DEFINE s == SumTo(M, d)
  <2>1. s \in Int /\ SumTo(n, h) = p * s + (-1) * (p * q) /\ ScalarOrder = q - s
    BY <1>1, <1>6, <1>7, <1>8, <1>9, <1>11
  <2> HIDE DEF s
  <2>2. p * s + (-1) * (p * q) = -(p * (q - s))
    BY <1>1, <2>1
  <2> QED BY <2>1, <2>2
<1>13. w \in ScalarVector /\ x \in Int
       /\ \A j \in 0 .. 2 * M : w[j] = IF j = i THEN 0 ELSE v[j] + x * FoldDigit(j - k)
  BY <1>0, FoldedEntries DEF w, x, k, ScalarVector
<1>14. ASSUME NEW j \in 0 .. n - 1
       PROVE  PlacedScalar(w)[j] = PlacedScalar(v)[j] + x * h[j]
  <2> DEFINE r == ScalarPlace[j]
             g == FoldDigit(j - k)
  <2>0. /\ j \in 0 .. 2 * M /\ r \in Int /\ g \in Int /\ v[j] \in Int
        /\ PlacedScalar(w)[j] = w[j] * r /\ PlacedScalar(v)[j] = v[j] * r
        /\ h[j] = g * r + (-1) * one[j] /\ one[j] = (IF j = i THEN ScalarPlace[i] ELSE 0)
    <3>1. j \in 0 .. 2 * M
      BY <1>0
    <3> QED BY <1>1, <1>3, <1>4, <1>5, <1>13, <3>1, ScalarPlaced
  <2> HIDE DEF r, g
  <2>1. CASE j = i
    <3>1. g = 0
      <4>1. j - k = M /\ M \in Int /\ M \notin 0 .. Quarter - 1
        BY <1>0, <2>1, ScalarSizes
      <4>2. FoldDigit(M) = 0
        BY <4>1, FoldDigits
      <4> QED BY <4>1, <4>2 DEF g
    <3>2. w[j] = 0 /\ one[j] = r /\ x = v[j]
      BY <1>13, <2>0, <2>1 DEF x, r
    <3>3. 0 * r = v[j] * r + v[j] * (0 * r + (-1) * r)
      BY <2>0
    <3> QED BY <2>0, <3>1, <3>2, <3>3
  <2>2. CASE j # i
    <3>1. w[j] = v[j] + x * g /\ one[j] = 0
      BY <1>13, <2>0, <2>2 DEF g
    <3>2. (v[j] + x * g) * r = v[j] * r + x * (g * r + (-1) * 0)
      BY <1>13, <2>0
    <3> QED BY <2>0, <3>1, <3>2
  <2> QED BY <2>1, <2>2
<1>15. Ints(h, n)
  <2>1. \A j \in 0 .. n - 1 : h[j] \in Int
    <3> TAKE j \in 0 .. n - 1
    <3>1. j \in 0 .. 2 * M
      BY <1>0
    <3>2. e[j] \in Int /\ one[j] \in Int /\ h[j] = e[j] + (-1) * one[j]
      BY <1>3, <1>4, <1>5, <3>1
    <3> QED BY <3>2
  <2> QED BY <1>0, <2>1 DEF Ints
<1>16. NumberOf(w) = NumberOf(v) + x * SumTo(n, h)
  <2>1. Ints(PlacedScalar(v), n) /\ NumberOf(v) = SumTo(n, PlacedScalar(v))
        /\ NumberOf(w) = SumTo(n, PlacedScalar(w))
    BY <1>13, ScalarPlaced DEF n
  <2>2. Combined(PlacedScalar(w), PlacedScalar(v), x, h, n)
    BY <1>13, <1>14, <1>15, <2>1 DEF Combined
  <2> QED BY <2>1, <2>2, SumCombined
<1>17. NumberOf(w) = NumberOf(v) - x * (p * ScalarOrder)
  <2> DEFINE z == p * ScalarOrder
             y == x * z
  <2>1. ScalarOrder \in Int /\ NumberOf(v) \in Int
    BY ScalarPlaces, ScalarPlaced
  <2>2. z \in Int
    BY <1>1, <2>1
  <2>3. SumTo(n, h) = -z
    BY <1>12
  <2> HIDE DEF z
  <2>4. x * (-z) = -y /\ y \in Int
    BY <1>13, <2>2
  <2>5. NumberOf(w) = NumberOf(v) + (-y)
    BY <1>16, <2>3, <2>4
  <2> HIDE DEF y
  <2>6. NumberOf(w) = NumberOf(v) - y
    BY <2>1, <2>4, <2>5
  <2> QED BY <2>6 DEF y, z
<1> QED BY <1>17 DEF w, x, p, k

LEMMA FoldKeeps ==
  ASSUME NEW v \in ScalarVector, NEW i \in M .. 2 * M - 1
  PROVE  /\ Fold(v, i) \in ScalarVector
         /\ Congruent(ScalarOrder, NumberOf(Fold(v, i)), NumberOf(v))
<1> DEFINE w == Fold(v, i)
           p == ScalarPlace[i - M]
           x == v[i]
           q == -(x * p)
<1>1. w \in ScalarVector
  BY FoldedEntries
<1>2. NumberOf(w) = NumberOf(v) - x * (p * ScalarOrder)
  BY FoldSubtracts
<1>3. x \in Int /\ p \in Int /\ ScalarOrder \in Int
  <2>1. i \in 0 .. 2 * M /\ i - M \in 0 .. 2 * M
    BY ScalarSizes
  <2> QED BY <2>1, ScalarPlaces DEF ScalarVector
<1>4. NumberOf(w) \in Int /\ NumberOf(v) \in Int
  BY <1>1, ScalarPlaced
<1> HIDE DEF w, p, x
<1>5. q \in Int /\ ScalarOrder * q = -(x * (p * ScalarOrder)) /\ x * (p * ScalarOrder) \in Int
  BY <1>3
<1> HIDE DEF q
<1>6. NumberOf(w) = NumberOf(v) + ScalarOrder * q
  BY <1>2, <1>4, <1>5
<1> QED BY <1>1, <1>4, <1>5, <1>6 DEF Congruent, w

\* The limbs a pass may carry out of, and fold.
Carried == 0 .. 2 * M - 1
Folded == M .. 2 * M - 1
LimbPass == ({"round", "floor"} \X Seq(Carried)) \cup ({"fold"} \X Seq(Folded))

\* The orders in which a pass visits its limbs.
LEMMA Upward ==
  ASSUME NEW a \in Int, NEW b \in Int, a <= b, NEW step \in {1, 2}, NEW I, a .. b \subseteq I
  PROVE  UpFrom(a, b, step) \in Seq(I)
<1> DEFINE n == (b - a) \div step + 1
           s == [k \in 1 .. n |-> a + (k - 1) * step]
<1>1. n \in Nat /\ \A k \in 1 .. n : a + (k - 1) * step \in a .. b
  <2>1. CASE step = 1
    <3>1. (b - a) \div 1 = b - a
      OBVIOUS
    <3>2. n = b - a + 1
      BY <2>1, <3>1
    <3> HIDE DEF n
    <3>3. n \in Nat /\ \A k \in 1 .. n : a + (k - 1) * 1 \in a .. b
      BY <3>2
    <3> QED BY <2>1, <3>3
  <2>2. CASE step = 2
    <3> DEFINE h == (b - a) \div 2
    <3>1. h \in Nat /\ 2 * h <= b - a
      OBVIOUS
    <3>2. n = h + 1
      BY <2>2
    <3> HIDE DEF n, h
    <3>3. n \in Nat /\ \A k \in 1 .. n : a + (k - 1) * 2 \in a .. b
      BY <3>1, <3>2
    <3> QED BY <2>2, <3>3
  <2> QED BY <2>1, <2>2
<1>2. UpFrom(a, b, step) = s
  BY DEF UpFrom
<1> HIDE DEF n
<1>3. s \in [1 .. n -> I]
  BY <1>1
<1> HIDE DEF s
<1> QED BY <1>1, <1>2, <1>3, SeqOfFunction

LEMMA Downward ==
  ASSUME NEW a \in Int, NEW b \in Int, b <= a, NEW I, b .. a \subseteq I
  PROVE  DownTo(a, b) \in Seq(I)
<1> DEFINE n == a - b + 1
           s == [k \in 1 .. n |-> a - k + 1]
<1>1. n \in Nat /\ \A k \in 1 .. n : a - k + 1 \in b .. a
  OBVIOUS
<1>2. DownTo(a, b) = s
  BY DEF DownTo
<1> HIDE DEF n
<1>3. s \in [1 .. n -> I]
  BY <1>1
<1> HIDE DEF s
<1> QED BY <1>1, <1>2, <1>3, SeqOfFunction

\* No pass carries out of the last entry, or folds a limb of the lower half.
LEMMA PassesVisitLimbs == Passes \in Seq(LimbPass)
<1> DEFINE Q == Quarter
<1>0. M \in Int /\ Q \in Int /\ M >= 4 /\ Q >= 2 /\ M = Q + Q
  BY ScalarSizes
<1> HIDE DEF Q
<1> DEFINE U(a, b, step) == UpFrom(a, b, step) \in Seq(Carried)
<1>1. /\ U(0, 2 * M - 2, 2) /\ U(1, 2 * M - 3, 2)
      /\ U(Q, M + Q - 2, 2) /\ U(Q + 1, M + Q - 3, 2)
      /\ U(0, M - 2, 2) /\ U(1, M - 1, 2) /\ U(0, M - 1, 1) /\ U(0, M - 2, 1)
  <2>1. ASSUME NEW a \in Int, NEW b \in Int, 0 <= a, a <= b, b <= 2 * M - 1,
               NEW step \in {1, 2}
        PROVE  U(a, b, step)
    <3>1. a .. b \subseteq Carried
      BY <1>0, <2>1 DEF Carried
    <3> QED BY <2>1, <3>1, Upward
  <2> HIDE DEF U
  <2> QED BY <1>0, <2>1
<1>2. DownTo(2 * M - 1, M + Q) \in Seq(Folded) /\ DownTo(M + Q - 1, M) \in Seq(Folded)
  <2>1. ASSUME NEW a \in Int, NEW b \in Int, M <= b, b <= a, a <= 2 * M - 1
        PROVE  DownTo(a, b) \in Seq(Folded)
    <3>1. b .. a \subseteq Folded
      BY <1>0, <2>1 DEF Folded
    <3> QED BY <2>1, <3>1, Downward
  <2> QED BY <1>0, <2>1
<1>3. <<M>> \in Seq(Folded)
  BY <1>0 DEF Folded
<1> HIDE DEF U
<1>4. ASSUME NEW what \in {"round", "floor"}, NEW s \in Seq(Carried)
      PROVE  <<what, s>> \in LimbPass
  BY DEF LimbPass
<1>5. ASSUME NEW s \in Seq(Folded)
      PROVE  <<"fold", s>> \in LimbPass
  BY DEF LimbPass
<1>6. ASSUME NEW s \in Seq(Carried), NEW t \in Seq(Carried)
      PROVE  s \o t \in Seq(Carried)
  OBVIOUS
<1> DEFINE p1 == <<"round", UpFrom(0, 2 * M - 2, 2) \o UpFrom(1, 2 * M - 3, 2)>>
           p2 == <<"fold", DownTo(2 * M - 1, M + Q)>>
           p3 == <<"round", UpFrom(Q, M + Q - 2, 2) \o UpFrom(Q + 1, M + Q - 3, 2)>>
           p4 == <<"fold", DownTo(M + Q - 1, M)>>
           p5 == <<"round", UpFrom(0, M - 2, 2) \o UpFrom(1, M - 1, 2)>>
           p6 == <<"fold", <<M>>>>
           p7 == <<"floor", UpFrom(0, M - 1, 1)>>
           p9 == <<"floor", UpFrom(0, M - 2, 1)>>
<1>7. p1 \in LimbPass /\ p3 \in LimbPass /\ p5 \in LimbPass
  BY <1>1, <1>4, <1>6 DEF U
<1>8. p2 \in LimbPass /\ p4 \in LimbPass /\ p6 \in LimbPass
  BY <1>2, <1>3, <1>5
<1>9. p7 \in LimbPass /\ p9 \in LimbPass
  BY <1>1, <1>4 DEF U
<1>10. Passes = <<p1, p2, p3, p4, p5, p6, p7>> \o <<p6, p9>>
  BY DEF Passes, PassesToFloor, Q
<1> HIDE DEF p1, p2, p3, p4, p5, p6, p7, p9
<1>11. <<p1, p2, p3, p4, p5, p6, p7>> \in Seq(LimbPass) /\ <<p6, p9>> \in Seq(LimbPass)
  BY <1>7, <1>8, <1>9
<1> QED BY <1>10, <1>11, ConcatProperties

LEMMA AtLimbKeeps ==
  ASSUME NEW p \in LimbPass, NEW v \in ScalarVector, NEW m \in 1 .. Len(p[2])
  PROVE  /\ AtLimb(p[1], v, p[2][m]) \in ScalarVector
         /\ Congruent(ScalarOrder, NumberOf(AtLimb(p[1], v, p[2][m])), NumberOf(v))
<1>0. ScalarOrder \in Nat \ {0} /\ NumberOf(v) \in Int
  BY ScalarPlaces, ScalarPlaced
<1>1. CASE p \in {"round", "floor"} \X Seq(Carried)
  <2>1. p[1] \in {"round", "floor"} /\ p[2] \in Seq(Carried)
    BY <1>1
  <2>2. p[2][m] \in 0 .. 2 * M - 1
    <3> DEFINE s == p[2]
    <3>1. s \in Seq(Carried) /\ m \in 1 .. Len(s)
      BY <2>1
    <3> HIDE DEF s
    <3>2. s[m] \in Carried
      BY <3>1
    <3> QED BY <3>2 DEF s, Carried
  <2> DEFINE half == IF p[1] = "round" THEN Power(2, LimbBits - 1) ELSE 0
             w == CarryBy(v, p[2][m], half)
  <2>3. half \in Int
    <3>1. LimbBits - 1 \in Nat /\ 2 \in Nat
      BY ScalarSizes
    <3>2. Power(2, LimbBits - 1) \in Nat
      BY <3>1, PowerSteps
    <3> QED BY <3>2
  <2>4. AtLimb(p[1], v, p[2][m]) = w
    <3>1. CASE p[1] = "round"
      BY <3>1 DEF AtLimb, Rounded
    <3>2. CASE p[1] = "floor"
      BY <3>2 DEF AtLimb, Floored
    <3> QED BY <2>1, <3>1, <3>2
  <2>5. w \in ScalarVector /\ NumberOf(w) = NumberOf(v)
    <3> HIDE DEF half
    <3> QED BY <2>2, <2>3, CarryByKeeps
  <2> HIDE DEF w
  <2> QED BY <1>0, <2>4, <2>5, SameSelf
<1>2. CASE p \in {"fold"} \X Seq(Folded)
  <2>1. p[1] = "fold" /\ p[2] \in Seq(Folded)
    BY <1>2
  <2>2. p[2][m] \in M .. 2 * M - 1
    <3> DEFINE s == p[2]
    <3>1. s \in Seq(Folded) /\ m \in 1 .. Len(s)
      BY <2>1
    <3> HIDE DEF s
    <3>2. s[m] \in Folded
      BY <3>1
    <3> QED BY <3>2 DEF s, Folded
  <2>3. AtLimb(p[1], v, p[2][m]) = Fold(v, p[2][m])
    BY <2>1 DEF AtLimb
  <2> QED BY <2>2, <2>3, FoldKeeps
<1> QED BY <1>1, <1>2 DEF LimbPass

PassTable(v, p) ==
  CHOOSE V : V = [n \in 0 .. Len(p[2]) |-> IF n = 0 THEN v ELSE AtLimb(p[1], V[n - 1], p[2][n])]

\* The vectors of a pass, one limb after the other.
LEMMA PassTabled ==
  ASSUME NEW v \in ScalarVector, NEW p \in LimbPass
  PROVE  LET n == Len(p[2])
             T == PassTable(v, p)
         IN  /\ n \in Nat /\ T \in [0 .. n -> ScalarVector] /\ T[0] = v
             /\ \A m \in 1 .. n : T[m] = AtLimb(p[1], T[m - 1], p[2][m])
             /\ OnePassOver(v, p) = T[n]
<1> DEFINE D == ScalarVector
           n == Len(p[2])
           base == v
           step == [m \in 1 .. n |-> [w \in D |-> AtLimb(p[1], w, p[2][m])]]
           Table(V) == V = [m \in 0 .. n |->
                              IF m = 0 THEN v ELSE AtLimb(p[1], V[m - 1], p[2][m])]
<1>1. n \in Nat
  <2>1. p[2] \in Seq(Carried) \cup Seq(Folded)
    BY DEF LimbPass
  <2> QED BY <2>1
<1>2. base \in D
  OBVIOUS
<1>3. \A w \in D, m \in 1 .. n : AtLimb(p[1], w, p[2][m]) \in D
  BY AtLimbKeeps
<1> HIDE DEF D
<1>4. step \in [1 .. n -> [D -> D]]
  BY <1>3
<1>5. \A m \in 1 .. n, w \in D : step[m][w] = AtLimb(p[1], w, p[2][m])
  OBVIOUS
<1> HIDE DEF step, base, n
<1>6. PICK V : Stepwise(V, D, n, base, step)
  BY <1>1, <1>2, <1>4, StepwiseFunction
<1>7. /\ V \in [0 .. n -> D] /\ V[0] = v
      /\ \A m \in 1 .. n : V[m] = AtLimb(p[1], V[m - 1], p[2][m])
  <2>1. V \in [0 .. n -> D] /\ V[0] = v /\ \A m \in 1 .. n : V[m] = step[m][V[m - 1]]
    BY <1>6 DEF Stepwise, base
  <2>2. \A m \in 1 .. n : V[m - 1] \in D
    BY <1>1, <2>1
  <2> QED BY <1>5, <2>1, <2>2
<1>8. Table(V)
  BY <1>1, <1>7
<1> DEFINE T == PassTable(v, p)
<1>9. Table(T)
  <2>1. T = CHOOSE A : Table(A)
    BY DEF PassTable, n
  <2> HIDE DEF Table, T
  <2> QED BY <1>8, <2>1
<1>10. OnePassOver(v, p) = T[n]
  BY DEF OnePassOver, PassTable, n
<1> HIDE DEF T
<1>11. T[0] = v /\ \A m \in 1 .. n : T[m] = AtLimb(p[1], T[m - 1], p[2][m])
  BY <1>1, <1>9
<1>12. T = [m \in 0 .. n |-> T[m]]
  BY <1>9
<1> DEFINE S == {m \in Nat : m <= n => T[m] \in D}
<1>13. \A m \in Nat : m \in S
  <2>1. 0 \in S
    BY <1>2, <1>11 DEF base
  <2>2. ASSUME NEW m \in Nat, m \in S
        PROVE  m + 1 \in S
    <3> SUFFICES ASSUME m + 1 <= n PROVE T[m + 1] \in D
      OBVIOUS
    <3>1. m + 1 \in 1 .. n /\ (m + 1) - 1 = m /\ T[m] \in D
      BY <1>1, <2>2
    <3> QED BY <1>3, <1>11, <3>1 DEF n
  <2> HIDE DEF S
  <2> QED BY <2>1, <2>2, FromZero
<1>14. \A m \in 0 .. n : T[m] \in D
  BY <1>13
<1>15. T \in [0 .. n -> D]
  BY <1>12, <1>14
<1> QED BY <1>1, <1>10, <1>11, <1>15 DEF T, n, D

\* What each step of a pass hands to the next, the pass hands on.
Handed(S, v, p) ==
  /\ v \in S[0]
  /\ \A m \in 1 .. Len(p[2]) : \A w \in ScalarVector :
       w \in S[m - 1] => AtLimb(p[1], w, p[2][m]) \in S[m]

\* So a pass ends in what its last step hands on.
LEMMA PassThrough ==
  ASSUME NEW v \in ScalarVector, NEW p \in LimbPass, NEW S, Handed(S, v, p)
  PROVE  OnePassOver(v, p) \in S[Len(p[2])]
<1> DEFINE n == Len(p[2])
           T == PassTable(v, p)
           K == {m \in Nat : m <= n => T[m] \in S[m]}
<1>1. /\ n \in Nat /\ T \in [0 .. n -> ScalarVector] /\ T[0] = v
      /\ \A m \in 1 .. n : T[m] = AtLimb(p[1], T[m - 1], p[2][m])
      /\ OnePassOver(v, p) = T[n]
  BY PassTabled
<1>2. /\ v \in S[0]
      /\ \A m \in 1 .. n : \A w \in ScalarVector :
           w \in S[m - 1] => AtLimb(p[1], w, p[2][m]) \in S[m]
  BY DEF Handed
<1> HIDE DEF T, n
<1>3. 0 \in K
  BY <1>1, <1>2
<1>4. ASSUME NEW m \in Nat, m \in K
      PROVE  m + 1 \in K
  <2> SUFFICES ASSUME m + 1 <= n PROVE T[m + 1] \in S[m + 1]
    OBVIOUS
  <2>1. m + 1 \in 1 .. n /\ (m + 1) - 1 = m /\ m \in 0 .. n /\ T[m] \in S[m]
    BY <1>1, <1>4
  <2>2. T[m] \in ScalarVector
    BY <1>1, <2>1
  <2> QED BY <1>1, <1>2, <2>1, <2>2
<1>5. n \in K
  <2> HIDE DEF K
  <2> QED BY <1>1, <1>3, <1>4, FromZero
<1>6. T[n] \in S[n]
  BY <1>1, <1>5
<1> QED BY <1>1, <1>6 DEF n

\* A pass keeps the scalar, whichever limbs it visits in whichever order.
LEMMA OnePassKeeps ==
  ASSUME NEW v \in ScalarVector, NEW p \in LimbPass
  PROVE  /\ OnePassOver(v, p) \in ScalarVector
         /\ Congruent(ScalarOrder, NumberOf(OnePassOver(v, p)), NumberOf(v))
<1> DEFINE D == {w \in ScalarVector : Congruent(ScalarOrder, NumberOf(w), NumberOf(v))}
           n == Len(p[2])
           S == [m \in 0 .. n |-> D]
<1>1. n \in Nat
  BY PassTabled
<1>2. v \in D
  BY ScalarPlaces, ScalarPlaced, SameSelf
<1>3. ASSUME NEW w \in D, NEW m \in 1 .. n
      PROVE  AtLimb(p[1], w, p[2][m]) \in D
  <2>1. w \in ScalarVector /\ Congruent(ScalarOrder, NumberOf(w), NumberOf(v))
    OBVIOUS
  <2> DEFINE u == AtLimb(p[1], w, p[2][m])
  <2>2. u \in ScalarVector /\ Congruent(ScalarOrder, NumberOf(u), NumberOf(w))
    BY <2>1, AtLimbKeeps
  <2> HIDE DEF u
  <2>3. Congruent(ScalarOrder, NumberOf(u), NumberOf(v))
    BY <2>1, <2>2, ScalarPlaces, SameTrans
  <2> QED BY <2>2, <2>3 DEF u
<1> HIDE DEF D
<1>4. Handed(S, v, p)
  <2>1. v \in S[0]
    BY <1>1, <1>2
  <2>2. ASSUME NEW m \in 1 .. n, NEW w \in ScalarVector, w \in S[m - 1]
        PROVE  AtLimb(p[1], w, p[2][m]) \in S[m]
    <3>1. m \in 0 .. n /\ m - 1 \in 0 .. n
      BY <1>1
    <3>2. w \in D
      BY <2>2, <3>1
    <3> QED BY <1>3, <3>1, <3>2
  <2> HIDE DEF S
  <2> QED BY <2>1, <2>2 DEF Handed
<1>5. OnePassOver(v, p) \in S[n]
  <2> HIDE DEF S
  <2> QED BY <1>4, PassThrough
<1>6. OnePassOver(v, p) \in D
  BY <1>1, <1>5
<1> QED BY <1>6 DEF D

\* The limbs of a load make up what was loaded: the last one holds all the rest.
LEMMA LoadKeeps ==
  ASSUME NEW x \in Int, NEW n \in Nat \ {0}, n <= 2 * M
  PROVE  /\ Load(x, n) \in [0 .. n - 1 -> Int]
         /\ SumTo(n, [i \in 0 .. n - 1 |-> Load(x, n)[i] * ScalarPlace[i]]) = x
<1> DEFINE B == ScalarPlace[1]
           rest(i) == x \div ScalarPlace[i]
           L == Load(x, n)
           g == [i \in 0 .. n - 1 |-> L[i] * ScalarPlace[i]]
<1>0. /\ M \in Nat /\ M >= 4 /\ B \in Nat \ {0}
      /\ \A i \in 0 .. n : i \in 0 .. 2 * M /\ ScalarPlace[i] \in Nat \ {0} /\ rest(i) \in Int
  <2>1. M \in Nat /\ M >= 4 /\ 1 \in 0 .. 2 * M
    BY ScalarSizes
  <2>2. \A i \in 0 .. 2 * M : ScalarPlace[i] \in Nat \ {0}
    BY ScalarPlaces
  <2>3. \A i \in 0 .. n : i \in 0 .. 2 * M
    BY <2>1
  <2>4. \A p \in Nat \ {0} : x \div p \in Int
    OBVIOUS
  <2> QED BY <2>1, <2>2, <2>3, <2>4
<1>1. \A i \in 0 .. n - 1 : L[i] = IF i = n - 1 THEN rest(i) ELSE rest(i) % B
  BY DEF Load
<1>2. L = [i \in 0 .. n - 1 |-> L[i]]
  BY DEF Load
<1>3. \A i \in 0 .. n - 1 : g[i] = L[i] * ScalarPlace[i]
  OBVIOUS
<1> HIDE DEF L, g, B, rest
<1>4. \A i \in 0 .. n - 1 : L[i] \in Int /\ g[i] \in Int
  <2> TAKE i \in 0 .. n - 1
  <2>1. rest(i) \in Int /\ ScalarPlace[i] \in Int
    BY <1>0
  <2>2. rest(i) % B \in Int
    BY <1>0, <2>1
  <2>3. L[i] \in Int
    BY <1>1, <2>1, <2>2
  <2>4. L[i] * ScalarPlace[i] \in Int
    BY <2>1, <2>3
  <2> QED BY <1>3, <2>3, <2>4
<1>5. L \in [0 .. n - 1 -> Int] /\ Ints(g, n)
  BY <1>2, <1>4 DEF Ints
<1> DEFINE S == {m \in Nat : m <= n - 1 => SumTo(m, g) + rest(m) * ScalarPlace[m] = x}
<1>6. 0 \in S
  <2>1. SumTo(0, g) = 0
    BY <1>5, SumSteps
  <2>2. ScalarPlace[0] = 1
    BY ScalarPlaces
  <2>3. rest(0) = x
    BY <2>2 DEF rest
  <2>4. 0 + x * 1 = x
    OBVIOUS
  <2> QED BY <2>1, <2>2, <2>3, <2>4
<1>7. ASSUME NEW m \in Nat, m \in S
      PROVE  m + 1 \in S
  <2> SUFFICES ASSUME m + 1 <= n - 1
               PROVE  SumTo(m + 1, g) + rest(m + 1) * ScalarPlace[m + 1] = x
    OBVIOUS
  <2> DEFINE p == ScalarPlace[m]
             q == rest(m)
             k == q \div B
             r == q % B
             s == SumTo(m, g)
  <2>1. /\ m \in 0 .. n - 1 /\ m \in 0 .. n /\ m # n - 1
        /\ m \in 0 .. 2 * M /\ m + 1 \in 0 .. 2 * M /\ 1 \in 0 .. 2 * M
    BY <1>0
  <2>2. p \in Nat \ {0} /\ q \in Int /\ s \in Int
    BY <1>0, <1>5, <2>1, SumSteps
  <2>3. ScalarPlace[m + 1] = p * B
    BY <2>1, ScalarPlaces DEF B
  <2>4. rest(m + 1) = k
    <3>1. x \div (p * B) = (x \div p) \div B
      <4> HIDE DEF p
      <4> QED BY <1>0, <2>2, QuotientOfQuotient
    <3> QED BY <2>3, <3>1 DEF rest
  <2>5. SumTo(m + 1, g) = s + r * p
    <3>1. SumTo(m + 1, g) = s + g[m]
      BY <1>5, <2>1, SumSteps
    <3>2. g[m] = r * p
      BY <1>1, <1>3, <2>1
    <3> QED BY <3>1, <3>2
  <2>6. s + q * p = x
    BY <1>7, <2>1
  <2> HIDE DEF p, q, s
  <2>7. k \in Int /\ r \in Int /\ q = B * k + r
    BY <1>0, <2>2
  <2> HIDE DEF k, r
  <2>8. (B * k + r) * p = r * p + k * (p * B)
    BY <1>0, <2>2, <2>7
  <2>9. r * p \in Int /\ k * (p * B) \in Int
    BY <1>0, <2>2, <2>7
  <2>10. (s + r * p) + k * (p * B) = x
    <3> DEFINE u == r * p
               w == k * (p * B)
    <3>1. q * p = u + w /\ u \in Int /\ w \in Int
      BY <2>7, <2>8, <2>9
    <3>2. s + (u + w) = x
      BY <2>6, <3>1
    <3> HIDE DEF u, w
    <3>3. (s + u) + w = x
      BY <2>2, <3>1, <3>2
    <3> QED BY <3>3 DEF u, w
  <2> QED BY <2>3, <2>4, <2>5, <2>10
<1>8. n - 1 \in S
  <2> HIDE DEF S
  <2>1. \A m \in Nat : m \in S
    BY <1>6, <1>7, FromZero
  <2> QED BY <2>1
<1>9. SumTo(n, g) = x
  <2> DEFINE m == n - 1
  <2>1. m \in 0 .. n - 1 /\ m + 1 = n
    OBVIOUS
  <2>2. SumTo(m, g) + rest(m) * ScalarPlace[m] = x
    BY <1>8
  <2>3. g[m] = rest(m) * ScalarPlace[m]
    BY <1>1, <1>3, <2>1
  <2>4. SumTo(m + 1, g) = SumTo(m, g) + g[m]
    BY <1>5, <2>1, SumSteps
  <2> HIDE DEF m
  <2> QED BY <2>1, <2>2, <2>3, <2>4
<1> QED BY <1>5, <1>9 DEF L, g

\* A vector of n limbs stands for the same number among the 2 * M + 1.
LEMMA PaddedKeeps ==
  ASSUME NEW n \in Nat, n <= 2 * M + 1, NEW v \in [0 .. n - 1 -> Int]
  PROVE  /\ Padded(v) \in ScalarVector
         /\ NumberOf(Padded(v)) = SumTo(n, [i \in 0 .. n - 1 |-> v[i] * ScalarPlace[i]])
<1> DEFINE w == Padded(v)
           f == [i \in 0 .. n - 1 |-> v[i] * ScalarPlace[i]]
           len == 2 * M + 1
<1>0. len \in Nat /\ 0 .. len - 1 = 0 .. 2 * M /\ \A i \in 0 .. n - 1 : i \in 0 .. 2 * M
      /\ \A k \in 0 .. len - 1 : k \in 0 .. 2 * M
  BY ScalarSizes
<1>1. \A i \in 0 .. n - 1 : v[i] \in Int
  OBVIOUS
<1>2. DOMAIN v = 0 .. n - 1
  OBVIOUS
<1>3. w = [i \in 0 .. 2 * M |-> IF i \in 0 .. n - 1 THEN v[i] ELSE 0]
  BY <1>2 DEF Padded
<1>4. w \in ScalarVector /\ \A i \in 0 .. 2 * M : w[i] = IF i \in 0 .. n - 1 THEN v[i] ELSE 0
  BY <1>1, <1>3 DEF ScalarVector
<1>5. \A i \in 0 .. n - 1 : f[i] = v[i] * ScalarPlace[i] /\ f[i] \in Int
  <2> TAKE i \in 0 .. n - 1
  <2>1. ScalarPlace[i] \in Int /\ v[i] \in Int
    BY <1>0, <1>1, ScalarPlaces
  <2>2. v[i] * ScalarPlace[i] \in Int
    BY <2>1
  <2> QED BY <2>2
<1> HIDE DEF w, f
<1>6. Shifted(PlacedScalar(w), f, 0, n, len)
  <2>1. ASSUME NEW k \in 0 .. len - 1
        PROVE  PlacedScalar(w)[k] = IF k - 0 \in 0 .. n - 1 THEN f[k - 0] ELSE 0
    <3>0. k \in 0 .. 2 * M
      BY <1>0
    <3>1. k - 0 = k
      BY <3>0
    <3>2. PlacedScalar(w)[k] = w[k] * ScalarPlace[k] /\ ScalarPlace[k] \in Int
      BY <1>4, <3>0, ScalarPlaced
    <3>3. w[k] = IF k \in 0 .. n - 1 THEN v[k] ELSE 0
      BY <1>4, <3>0
    <3>4. 0 * ScalarPlace[k] = 0
      BY <3>2
    <3> HIDE DEF len
    <3>5. CASE k \in 0 .. n - 1
      BY <1>5, <3>1, <3>2, <3>3, <3>5
    <3>6. CASE k \notin 0 .. n - 1
      BY <3>1, <3>2, <3>3, <3>4, <3>6
    <3> QED BY <3>5, <3>6
  <2>2. Ints(f, n)
    BY <1>5 DEF Ints
  <2>3. 0 \in Nat /\ 0 + n <= len
    OBVIOUS
  <2> HIDE DEF len
  <2> QED BY <1>0, <2>1, <2>2, <2>3 DEF Shifted
<1>7. SumTo(len, PlacedScalar(w)) = SumTo(n, f)
  BY <1>6, SumShifted
<1>8. NumberOf(w) = SumTo(len, PlacedScalar(w))
  BY <1>4, ScalarPlaced
<1> QED BY <1>4, <1>7, <1>8 DEF w, f

LEMMA PlaceIsInt == \A i \in 0 .. 2 * M : ScalarPlace[i] \in Int
BY ScalarPlaces

PlacedFactor(v) == [i \in 0 .. M - 1 |-> v[i] * ScalarPlace[i]]

LEMMA FactorTyped ==
  ASSUME NEW v \in [0 .. M - 1 -> Int]
  PROVE  /\ Ints(PlacedFactor(v), M) /\ SumTo(M, PlacedFactor(v)) \in Int
         /\ \A i \in 0 .. M - 1 :
              /\ v[i] \in Int /\ ScalarPlace[i] \in Int /\ i \in 0 .. 2 * M
              /\ PlacedFactor(v)[i] = v[i] * ScalarPlace[i]
<1>0. M \in Nat /\ M \in 0 .. M /\ \A i \in 0 .. M - 1 : i \in 0 .. 2 * M
  BY ScalarSizes
<1>1. \A i \in 0 .. M - 1 : v[i] \in Int /\ ScalarPlace[i] \in Int
                            /\ PlacedFactor(v)[i] = v[i] * ScalarPlace[i]
  BY <1>0, PlaceIsInt DEF PlacedFactor
<1>2. \A i \in 0 .. M - 1 : PlacedFactor(v)[i] \in Int
  BY <1>1
<1>3. Ints(PlacedFactor(v), M)
  BY <1>0, <1>2 DEF Ints
<1> QED BY <1>0, <1>1, <1>3, SumSteps

Factor(v) == v \in [0 .. M - 1 -> Int]

\* The product of two vectors, a row for every limb of the first.
Term(a, b, i, k) == IF k - i \in 0 .. M - 1 THEN a[i] * b[k - i] ELSE 0
Rows(a, b) ==
  [i \in 0 .. M - 1 |-> [k \in 0 .. 2 * M |-> Term(a, b, i, k) * ScalarPlace[k]]]

LEMMA TermTyped ==
  ASSUME NEW a, NEW b, Factor(a), Factor(b), NEW i \in 0 .. M - 1, NEW k \in Int
  PROVE  Term(a, b, i, k) \in Int
<1>1. a[i] \in Int /\ \A j \in 0 .. M - 1 : b[j] \in Int
  BY DEF Factor
<1>2. CASE k - i \in 0 .. M - 1
  <2>1. b[k - i] \in Int
    BY <1>1, <1>2
  <2>2. a[i] * b[k - i] \in Int
    BY <1>1, <2>1
  <2> QED BY <1>2, <2>2 DEF Term
<1>3. CASE k - i \notin 0 .. M - 1
  BY <1>3 DEF Term
<1> QED BY <1>2, <1>3

\* One limb of a, by all of b.
LEMMA RowSum ==
  ASSUME NEW a, NEW b, Factor(a), Factor(b), NEW i \in 0 .. M - 1
  PROVE  /\ Ints(Rows(a, b)[i], 2 * M + 1)
         /\ SumTo(2 * M + 1, Rows(a, b)[i]) = SumTo(M, PlacedFactor(b)) * PlacedFactor(a)[i]
<1> DEFINE n == 2 * M + 1
           g == Rows(a, b)[i]
           c == PlacedFactor(a)[i]
           f == [j \in 0 .. M - 1 |-> c * PlacedFactor(b)[j]]
<1>0. /\ M \in Nat /\ n \in Nat /\ i \in Nat /\ i + M <= n /\ i \in 0 .. 2 * M
      /\ \A k \in 0 .. n - 1 : k \in 0 .. 2 * M /\ k \in Int
  BY ScalarSizes
<1>1. \A k \in 0 .. n - 1 : g[k] = Term(a, b, i, k) * ScalarPlace[k]
  BY <1>0 DEF Rows
<1>2. c \in Int /\ c = a[i] * ScalarPlace[i] /\ a[i] \in Int /\ ScalarPlace[i] \in Int
  <2>1. a[i] \in Int /\ ScalarPlace[i] \in Int /\ c = a[i] * ScalarPlace[i]
    BY FactorTyped DEF Factor
  <2>2. a[i] * ScalarPlace[i] \in Int
    BY <2>1
  <2> QED BY <2>1, <2>2
<1>3. /\ Ints(PlacedFactor(b), M) /\ SumTo(M, PlacedFactor(b)) \in Int
      /\ \A j \in 0 .. M - 1 : /\ b[j] \in Int /\ ScalarPlace[j] \in Int /\ j \in 0 .. 2 * M
                               /\ PlacedFactor(b)[j] = b[j] * ScalarPlace[j]
  BY FactorTyped DEF Factor
<1>4. \A j \in 0 .. M - 1 : f[j] = c * PlacedFactor(b)[j]
  OBVIOUS
<1> HIDE DEF c, f, g, n
<1>5. SumTo(M, f) = c * SumTo(M, PlacedFactor(b))
  <2>1. Scaled(f, c, PlacedFactor(b), M)
    BY <1>2, <1>3, <1>4 DEF Scaled
  <2> QED BY <2>1, SumScaled
<1>6. Ints(f, M)
  <2>1. \A j \in 0 .. M - 1 : PlacedFactor(b)[j] \in Int
    BY <1>3 DEF Ints
  <2>2. \A j \in 0 .. M - 1 : f[j] \in Int
    BY <1>2, <1>4, <2>1
  <2> QED BY <1>0, <2>2 DEF Ints
<1>7. ASSUME NEW k \in 0 .. n - 1
      PROVE  g[k] = IF k - i \in 0 .. M - 1 THEN f[k - i] ELSE 0
  <2>0. k \in 0 .. 2 * M /\ g[k] = Term(a, b, i, k) * ScalarPlace[k] /\ ScalarPlace[k] \in Int
    BY <1>0, <1>1, PlaceIsInt
  <2>1. CASE k - i \in 0 .. M - 1
    <3> DEFINE j == k - i
    <3>1. j \in 0 .. M - 1 /\ i + j = k /\ j \in 0 .. 2 * M
      BY <1>0, <2>0, <2>1
    <3>2. Term(a, b, i, k) = a[i] * b[j]
      BY <2>1 DEF Term
    <3> HIDE DEF j
    <3>3. ScalarPlace[k] = ScalarPlace[i] * ScalarPlace[j]
      BY <1>0, <2>0, <3>1, ScalarPlaces
    <3>4. f[j] = (a[i] * ScalarPlace[i]) * (b[j] * ScalarPlace[j])
      BY <1>2, <1>3, <1>4, <3>1
    <3>5. \A x, y, u, w \in Int : (x * y) * (u * w) = (x * u) * (y * w)
      OBVIOUS
    <3>6. b[j] \in Int /\ ScalarPlace[j] \in Int
      BY <1>3, <3>1
    <3>7. (a[i] * b[j]) * (ScalarPlace[i] * ScalarPlace[j])
            = (a[i] * ScalarPlace[i]) * (b[j] * ScalarPlace[j])
      BY <1>2, <3>5, <3>6
    <3>8. g[k] = f[j]
      BY <2>0, <3>2, <3>3, <3>4, <3>7
    <3> QED BY <2>1, <3>8 DEF j
  <2>2. CASE k - i \notin 0 .. M - 1
    <3>1. Term(a, b, i, k) = 0 /\ 0 * ScalarPlace[k] = 0
      BY <2>0, <2>2 DEF Term
    <3> QED BY <2>0, <2>2, <3>1
  <2> QED BY <2>1, <2>2
<1>8. SumTo(n, g) = SumTo(M, f)
  <2>1. Shifted(g, f, i, M, n)
    BY <1>0, <1>6, <1>7 DEF Shifted
  <2> QED BY <2>1, SumShifted
<1>9. Ints(g, n)
  <2>1. \A j \in 0 .. M - 1 : f[j] \in Int
    BY <1>6 DEF Ints
  <2>2. \A k \in 0 .. n - 1 : g[k] \in Int
    BY <1>7, <2>1
  <2> QED BY <1>0, <2>2 DEF Ints
<1>10. c * SumTo(M, PlacedFactor(b)) = SumTo(M, PlacedFactor(b)) * c
  BY <1>2, <1>3
<1> QED BY <1>5, <1>8, <1>9, <1>10 DEF g, n, c

\* The limbs of a * b + c before anything is carried, each place summed up alone.
LEMMA ProductPlusKeeps ==
  ASSUME NEW a, NEW b, NEW c, Factor(a), Factor(b), Factor(c)
  PROVE  /\ Padded(ProductPlus(a, b, c)) \in ScalarVector
         /\ NumberOf(Padded(ProductPlus(a, b, c)))
              = SumTo(M, PlacedFactor(a)) * SumTo(M, PlacedFactor(b)) + SumTo(M, PlacedFactor(c))
<1> DEFINE n == 2 * M + 1
           P == ProductPlus(a, b, c)
           w == Padded(P)
           row == [i \in 0 .. M - 1 |-> SumTo(n, Rows(a, b)[i])]
           column(k) == [i \in 0 .. M - 1 |-> Term(a, b, i, k)]
           col == [k \in 0 .. 2 * M |-> SumTo(M, column(k)) * ScalarPlace[k]]
           above == [k \in 0 .. 2 * M |-> IF k < M THEN PlacedFactor(c)[k] ELSE 0]
           one == 1
           A == SumTo(M, PlacedFactor(a))
           B == SumTo(M, PlacedFactor(b))
<1>0. /\ M \in Nat /\ M >= 4 /\ n \in Nat /\ 2 * M - 1 \in Nat /\ 2 * M - 1 <= n
      /\ \A k \in 0 .. n - 1 : k \in 0 .. 2 * M /\ k \in Int
      /\ (2 * M - 1) - 1 = 2 * M - 2 /\ M \in 0 .. M
  BY ScalarSizes
<1>1. A \in Int /\ B \in Int
  BY FactorTyped DEF Factor
<1>2. ASSUME NEW k \in Int
      PROVE  /\ Ints(column(k), M) /\ SumTo(M, column(k)) \in Int
             /\ \A i \in 0 .. M - 1 : column(k)[i] = Term(a, b, i, k)
  <2>1. \A i \in 0 .. M - 1 : column(k)[i] = Term(a, b, i, k)
    OBVIOUS
  <2>2. \A i \in 0 .. M - 1 : Term(a, b, i, k) \in Int
    BY TermTyped
  <2> HIDE DEF column
  <2>3. Ints(column(k), M)
    BY <1>0, <2>1, <2>2 DEF Ints
  <2> QED BY <1>0, <2>1, <2>3, SumSteps
<1>3. \A k \in 0 .. n - 1 : col[k] = SumTo(M, column(k)) * ScalarPlace[k]
  <2> HIDE DEF column
  <2> QED BY <1>0
<1>4. \A k \in 0 .. n - 1 : above[k] = IF k < M THEN PlacedFactor(c)[k] ELSE 0
  BY <1>0
<1>5. P = [k \in 0 .. 2 * M - 2 |-> (IF k < M THEN c[k] ELSE 0) + SumTo(M, column(k))]
  BY DEF ProductPlus, Term
<1>6. \A i \in 0 .. M - 1 : row[i] = SumTo(n, Rows(a, b)[i])
  OBVIOUS
<1> HIDE DEF row, column, col, above, n, A, B
<1>7. P \in [0 .. 2 * M - 2 -> Int]
      /\ \A k \in 0 .. 2 * M - 2 : P[k] = (IF k < M THEN c[k] ELSE 0) + SumTo(M, column(k))
  <2>1. ASSUME NEW k \in 0 .. 2 * M - 2
        PROVE  (IF k < M THEN c[k] ELSE 0) + SumTo(M, column(k)) \in Int
    <3>1. k < M => c[k] \in Int
      BY <1>0 DEF Factor
    <3>2. SumTo(M, column(k)) \in Int
      BY <1>2
    <3> QED BY <3>1, <3>2
  <2> HIDE DEF P
  <2> QED BY <1>5, <2>1
<1> HIDE DEF P
\* The table.
<1>8. SumTo(M, row) = SumTo(n, col)
  <2> DEFINE F == Rows(a, b)
  <2>1. \A i \in 0 .. M - 1 : Ints(F[i], n) /\ row[i] = SumTo(n, F[i])
    BY <1>6, RowSum DEF n
  <2>2. ASSUME NEW k \in 0 .. n - 1
        PROVE  col[k] = SumTo(M, [i \in 0 .. M - 1 |-> F[i][k]])
    <3> DEFINE g == [i \in 0 .. M - 1 |-> F[i][k]]
    <3>0. k \in 0 .. 2 * M /\ k \in Int /\ ScalarPlace[k] \in Int
      BY <1>0, PlaceIsInt
    <3>1. \A i \in 0 .. M - 1 : g[i] = Term(a, b, i, k) * ScalarPlace[k]
      BY <3>0 DEF Rows
    <3> HIDE DEF g
    <3>2. \A i \in 0 .. M - 1 : g[i] = ScalarPlace[k] * column(k)[i]
      <4> TAKE i \in 0 .. M - 1
      <4>1. Term(a, b, i, k) \in Int
        BY <3>0, TermTyped
      <4>2. Term(a, b, i, k) * ScalarPlace[k] = ScalarPlace[k] * Term(a, b, i, k)
        BY <3>0, <4>1
      <4> QED BY <1>2, <3>0, <3>1, <4>2
    <3>3. Scaled(g, ScalarPlace[k], column(k), M)
      BY <1>2, <3>0, <3>2 DEF Scaled
    <3>4. SumTo(M, g) = ScalarPlace[k] * SumTo(M, column(k))
      BY <3>3, SumScaled
    <3>5. ScalarPlace[k] * SumTo(M, column(k)) = SumTo(M, column(k)) * ScalarPlace[k]
      BY <1>2, <3>0
    <3>6. col[k] = SumTo(M, g)
      BY <1>3, <3>4, <3>5
    <3> QED BY <3>6 DEF g
  <2> HIDE DEF F
  <2>3. Tabulated(F, M, n, row, col)
    BY <1>0, <2>1, <2>2 DEF Tabulated
  <2> QED BY <2>3, SumSwapped
<1>9. SumTo(M, row) = B * A
  <2>1. \A i \in 0 .. M - 1 : row[i] = B * PlacedFactor(a)[i]
    BY <1>6, RowSum DEF B, n
  <2>2. Ints(PlacedFactor(a), M)
    BY FactorTyped DEF Factor
  <2>3. Scaled(row, B, PlacedFactor(a), M)
    BY <1>1, <2>1, <2>2 DEF Scaled
  <2> QED BY <2>3, SumScaled DEF A
<1>10. \A k \in 0 .. n - 1 : col[k] \in Int
  <2> TAKE k \in 0 .. n - 1
  <2>1. SumTo(M, column(k)) \in Int /\ ScalarPlace[k] \in Int
    BY <1>0, <1>2, PlaceIsInt
  <2>2. SumTo(M, column(k)) * ScalarPlace[k] \in Int
    BY <2>1
  <2> QED BY <1>3, <2>2
<1>11. /\ Ints(PlacedFactor(c), M)
       /\ \A k \in 0 .. M - 1 : /\ c[k] \in Int /\ ScalarPlace[k] \in Int
                                /\ PlacedFactor(c)[k] = c[k] * ScalarPlace[k]
                                /\ PlacedFactor(c)[k] \in Int
  <2>1. /\ Ints(PlacedFactor(c), M)
        /\ \A k \in 0 .. M - 1 : /\ c[k] \in Int /\ ScalarPlace[k] \in Int
                                 /\ PlacedFactor(c)[k] = c[k] * ScalarPlace[k]
    BY FactorTyped DEF Factor
  <2> QED BY <2>1 DEF Ints
<1>12. Ints(above, n) /\ SumTo(n, above) = SumTo(M, PlacedFactor(c))
  <2>1. \A k \in 0 .. n - 1 : above[k] \in Int
    <3> TAKE k \in 0 .. n - 1
    <3>1. k < M => k \in 0 .. M - 1
      BY <1>0
    <3> QED BY <1>4, <1>11, <3>1
  <2>2. \A k \in 0 .. n - 1 : above[k] = IF k - 0 \in 0 .. M - 1 THEN PlacedFactor(c)[k - 0] ELSE 0
    <3> TAKE k \in 0 .. n - 1
    <3>1. k - 0 = k /\ (k < M <=> k \in 0 .. M - 1)
      BY <1>0
    <3> QED BY <1>4, <3>1
  <2>3. 0 \in Nat /\ 0 + M <= n
    BY <1>0 DEF n
  <2>4. Shifted(above, PlacedFactor(c), 0, M, n)
    BY <1>0, <1>11, <2>2, <2>3 DEF Shifted
  <2> QED BY <1>0, <2>1, <2>4, SumShifted DEF Ints
<1>13. /\ w \in ScalarVector
       /\ \A k \in 0 .. 2 * M : w[k] = IF k \in 0 .. 2 * M - 2 THEN P[k] ELSE 0
  <2>1. w = [k \in 0 .. 2 * M |-> IF k \in 0 .. 2 * M - 2 THEN P[k] ELSE 0]
    BY <1>7 DEF Padded
  <2> HIDE DEF w
  <2>2. \A k \in 0 .. 2 * M - 2 : P[k] \in Int
    BY <1>7
  <2> QED BY <2>1, <2>2 DEF ScalarVector
<1> HIDE DEF w
<1>14. ASSUME NEW k \in 0 .. n - 1
       PROVE  PlacedScalar(w)[k] = above[k] + one * col[k]
  <2> DEFINE p == ScalarPlace[k]
             s == SumTo(M, column(k))
  <2>0. k \in 0 .. 2 * M /\ k \in Int /\ p \in Int /\ s \in Int
        /\ col[k] = s * p /\ PlacedScalar(w)[k] = w[k] * p
        /\ w[k] = IF k \in 0 .. 2 * M - 2 THEN P[k] ELSE 0
    BY <1>0, <1>2, <1>3, <1>13, ScalarPlaced
  <2> HIDE DEF p
  <2>1. CASE k \in 0 .. M - 1
    <3>1. k < M /\ k \in 0 .. 2 * M - 2
      BY <1>0, <2>1
    <3>2. w[k] = c[k] + s /\ above[k] = c[k] * p /\ c[k] \in Int
      BY <1>4, <1>7, <1>11, <2>0, <2>1, <3>1 DEF p
    <3> HIDE DEF s
    <3>3. (c[k] + s) * p = c[k] * p + 1 * (s * p)
      BY <2>0, <3>2
    <3> QED BY <2>0, <3>2, <3>3
  <2>2. CASE k \in M .. 2 * M - 2
    <3>1. ~(k < M) /\ k \in 0 .. 2 * M - 2
      BY <1>0, <2>2
    <3>2. w[k] = 0 + s /\ above[k] = 0
      BY <1>4, <1>7, <2>0, <3>1
    <3> HIDE DEF s
    <3>3. (0 + s) * p = 0 + 1 * (s * p)
      BY <2>0
    <3> QED BY <2>0, <3>2, <3>3
  <2>3. CASE k \notin 0 .. 2 * M - 2
    <3>1. ~(k < M) /\ \A i \in 0 .. M - 1 : k - i \notin 0 .. M - 1
      BY <1>0, <2>0, <2>3
    <3>2. \A i \in 0 .. M - 1 : column(k)[i] = 0
      BY <1>2, <2>0, <3>1 DEF Term
    <3>3. s = 0
      BY <1>0, <3>2, SumOfZeros
    <3>4. w[k] = 0 /\ above[k] = 0
      BY <1>4, <2>0, <2>3, <3>1
    <3> HIDE DEF s
    <3>5. 0 * p = 0 + 1 * (0 * p)
      BY <2>0
    <3> QED BY <2>0, <3>3, <3>4, <3>5
  <2>4. k \in 0 .. M - 1 \/ k \in M .. 2 * M - 2 \/ k \notin 0 .. 2 * M - 2
    BY <1>0, <2>0
  <2> QED BY <2>1, <2>2, <2>3, <2>4
<1>15. SumTo(n, PlacedScalar(w)) = SumTo(n, above) + one * SumTo(n, col)
  <2>1. one \in Int /\ Ints(col, n)
    BY <1>0, <1>10 DEF Ints
  <2> HIDE DEF one
  <2>2. Combined(PlacedScalar(w), above, one, col, n)
    BY <1>12, <1>14, <2>1 DEF Combined
  <2> QED BY <2>2, SumCombined
<1>16. NumberOf(w) = SumTo(n, PlacedScalar(w))
  BY <1>13, ScalarPlaced DEF n
<1>17. SumTo(M, PlacedFactor(c)) \in Int
  BY FactorTyped DEF Factor
<1>18. NumberOf(w) = A * B + SumTo(M, PlacedFactor(c))
  <2>1. NumberOf(w) = SumTo(M, PlacedFactor(c)) + 1 * (B * A)
    BY <1>8, <1>9, <1>12, <1>15, <1>16
  <2>2. A * B \in Int /\ B * A = A * B
    BY <1>1
  <2> QED BY <1>17, <2>1, <2>2
<1> QED BY <1>13, <1>18 DEF w, P, A, B

ScalarInv ==
  /\ slimb \in ScalarVector /\ exact \in Int /\ pass \in Nat \ {0}
  /\ Congruent(ScalarOrder, NumberOf(slimb), exact)

\* Where sc_reduce starts.
LEMMA ReduceStart ==
  ASSUME ScReduce PROVE ScalarInv
<1> DEFINE n == 2 * M
           L == Load(exact, n)
<1>0. M \in Nat /\ n \in Nat \ {0} /\ n \in Nat /\ n <= 2 * M /\ n <= 2 * M + 1
  BY ScalarSizes
<1>1. exact \in Nat /\ exact \in Int
  BY DEF ScReduce, ReduceArguments
<1>2. slimb = Padded(L) /\ pass = 2
  BY DEF ScReduce
<1>3. /\ L \in [0 .. n - 1 -> Int]
      /\ SumTo(n, [i \in 0 .. n - 1 |-> L[i] * ScalarPlace[i]]) = exact
  <2> HIDE DEF n
  <2> QED BY <1>0, <1>1, LoadKeeps
<1> HIDE DEF L
<1>4. slimb \in ScalarVector /\ NumberOf(slimb) = exact
  <2> HIDE DEF n
  <2> QED BY <1>0, <1>2, <1>3, PaddedKeeps
<1>5. Congruent(ScalarOrder, exact, exact)
  BY <1>1, ScalarPlaces, SameSelf
<1> QED BY <1>1, <1>2, <1>4, <1>5 DEF ScalarInv

LEMMA FactorLoaded ==
  ASSUME NEW x \in Factors
  PROVE  Factor(Load(x, M)) /\ SumTo(M, PlacedFactor(Load(x, M))) = x /\ x \in Int
<1>1. x \in Int
  BY ScalarAssumption
<1>2. M \in Nat \ {0} /\ M <= 2 * M
  BY ScalarSizes
<1> QED BY <1>1, <1>2, LoadKeeps DEF Factor, PlacedFactor

\* Where sc_muladd starts.
LEMMA MuladdStart ==
  ASSUME ScMuladd PROVE ScalarInv
<1>1. PICK a \in Factors, b \in Factors, c \in Factors :
        /\ exact = a * b + c
        /\ slimb = Padded(ProductPlus(Load(a, M), Load(b, M), Load(c, M)))
  BY DEF ScMuladd
<1>2. a \in Int /\ b \in Int /\ c \in Int
  BY FactorLoaded
<1>3. exact \in Int
  BY <1>1, <1>2
<1>4. slimb \in ScalarVector /\ NumberOf(slimb) = exact
  <2> DEFINE p == Load(a, M)
             q == Load(b, M)
             r == Load(c, M)
  <2>1. /\ Factor(p) /\ Factor(q) /\ Factor(r)
        /\ SumTo(M, PlacedFactor(p)) = a /\ SumTo(M, PlacedFactor(q)) = b
        /\ SumTo(M, PlacedFactor(r)) = c
    BY FactorLoaded
  <2>2. slimb = Padded(ProductPlus(p, q, r))
    BY <1>1
  <2> HIDE DEF p, q, r
  <2> QED BY <1>1, <2>1, <2>2, ProductPlusKeeps
<1>5. Congruent(ScalarOrder, exact, exact)
  BY <1>3, ScalarPlaces, SameSelf
<1>6. pass = 1
  BY DEF ScMuladd
<1> QED BY <1>3, <1>4, <1>5, <1>6 DEF ScalarInv

LEMMA PassKeeps ==
  ASSUME ScalarInv, ScalarNext PROVE ScalarInv'
<1>1. pass \in 1 .. Len(Passes)
  BY DEF ScalarInv, ScalarNext
<1>2. Passes[pass] \in LimbPass
  <2> DEFINE s == Passes
  <2>1. s \in Seq(LimbPass) /\ pass \in 1 .. Len(s)
    BY <1>1, PassesVisitLimbs
  <2> HIDE DEF s
  <2>2. s[pass] \in LimbPass
    BY <2>1
  <2> QED BY <2>2 DEF s
<1>3. slimb \in ScalarVector /\ exact \in Int /\ Congruent(ScalarOrder, NumberOf(slimb), exact)
  BY DEF ScalarInv
<1>4. slimb' = OnePassOver(slimb, Passes[pass]) /\ exact' = exact /\ pass' = pass + 1
  BY DEF ScalarNext
<1>5. slimb' \in ScalarVector /\ Congruent(ScalarOrder, NumberOf(slimb'), NumberOf(slimb))
  BY <1>2, <1>3, <1>4, OnePassKeeps
<1>6. Congruent(ScalarOrder, NumberOf(slimb'), exact)
  BY <1>3, <1>5, ScalarPlaces, SameTrans
<1>7. /\ ScalarVector' = ScalarVector /\ ScalarOrder' = ScalarOrder
      /\ NumberOf(slimb)' = NumberOf(slimb')
  BY DEF ScalarVector, ScalarOrder, NumberOf
<1>8. pass' \in Nat \ {0}
  BY <1>1, <1>4
<1> QED BY <1>3, <1>4, <1>5, <1>6, <1>7, <1>8 DEF ScalarInv

LEMMA ScalarStays ==
  ScalarInv /\ [ScalarNext]_scalarVars => ScalarInv'
<1>1. CASE UNCHANGED scalarVars
  BY <1>1 DEF scalarVars, ScalarInv, ScalarVector, ScalarOrder, NumberOf
<1> QED BY <1>1, PassKeeps

LEMMA ScalarKept == ScalarInv => ScalarPreserved
BY ScalarPlaces, SameRest DEF ScalarInv, ScalarPreserved

\* sc_reduce and sc_muladd never change the scalar: after every pass the limbs
\* stand for what the call was given, modulo the order, whatever it was given.
THEOREM ScalarIsPreserved == ScalarSpec => []ScalarPreserved
<1>1. ScalarInit => ScalarInv
  BY ReduceStart, MuladdStart DEF ScalarInit
<1> QED BY <1>1, ScalarStays, ScalarKept, PTL DEF ScalarSpec

-----------------------------------------------------------------------------
(* Rounded carries: what a limb keeps, and what it hands on.                 *)

LimbRange == ScalarPlace[1]
LimbHalf == Power(2, LimbBits - 1)

\* A limb is twice its half, which is what rounding adds.
LEMMA LimbHalves ==
  /\ LimbHalf \in Nat \ {0} /\ LimbRange \in Nat \ {0} /\ LimbRange = 2 * LimbHalf
  /\ LimbRange >= 2
<1>1. LimbBits - 1 \in Nat /\ 2 \in Nat /\ 2 \in Nat \ {0} /\ (LimbBits - 1) + 1 = LimbBits
      /\ LimbBits * 1 = LimbBits /\ 1 \in 0 .. 2 * M
  BY ScalarSizes
<1>2. Power(2, (LimbBits - 1) + 1) = Power(2, LimbBits - 1) * 2
  BY <1>1, PowerSteps
<1>3. LimbHalf \in Nat \ {0}
  BY <1>1, PowerPositive DEF LimbHalf
<1>4. LimbRange = Power(2, LimbBits)
  BY <1>1 DEF LimbRange, ScalarPlace
<1>5. LimbRange = LimbHalf * 2
  BY <1>1, <1>2, <1>4 DEF LimbHalf
<1> QED BY <1>3, <1>5

\* What a rounded carry leaves, and how much it takes.
CarryFits(C, X) == C \in Nat /\ X \in Nat /\ X + LimbHalf <= C * LimbRange

\* A rounded carry leaves a limb within half its range and carries no more than
\* CarryFits allows.
LEMMA CarryBounds ==
  ASSUME NEW x \in Int, NEW X, NEW C, CarryFits(C, X), x \in -X .. X
  PROVE  LET c == (x + LimbHalf) \div LimbRange
         IN  c \in -C .. C /\ x - c * LimbRange \in -LimbHalf .. LimbHalf - 1
<1> DEFINE H == LimbHalf
           R == LimbRange
           c == (x + H) \div R
           r == (x + H) % R
<1>0. H \in Nat \ {0} /\ R \in Nat \ {0} /\ R = 2 * H
  BY LimbHalves
<1>1. C \in Nat /\ X \in Nat /\ X + H <= C * R
  BY DEF CarryFits
<1> HIDE DEF H, R
<1>2. c \in Int /\ r \in 0 .. R - 1 /\ x + H = R * c + r
  BY <1>0
<1> HIDE DEF c, r
<1>3. x - c * R = r - H
  BY <1>0, <1>2
<1>4. r - H \in -H .. H - 1
  BY <1>0, <1>2
<1>5. c <= C
  <2> SUFFICES ASSUME c >= C + 1 PROVE FALSE
    BY <1>1, <1>2
  <2>1. R * c >= R * (C + 1)
    BY <1>0, <1>1, <1>2
  <2>2. R * (C + 1) = C * R + R
    BY <1>0, <1>1
  <2>3. R * c \in Int /\ C * R \in Int /\ x + H <= X + H
    BY <1>0, <1>1, <1>2
  <2> QED BY <1>0, <1>1, <1>2, <2>1, <2>2, <2>3
<1>6. c >= -C
  <2> SUFFICES ASSUME c <= -C - 1 PROVE FALSE
    BY <1>1, <1>2
  <2>1. R * c <= R * (-C - 1)
    BY <1>0, <1>1, <1>2
  <2>2. R * (-C - 1) = -(C * R) - R
    BY <1>0, <1>1
  <2>3. R * c \in Int /\ C * R \in Int /\ x + H >= -X + H
    BY <1>0, <1>1, <1>2
  <2>4. x + H <= -(C * R) - R + (R - 1)
    BY <1>0, <1>2, <2>1, <2>2, <2>3
  <2>5. -X + H <= -(X + H) - 1
    BY <1>0, <1>1, <2>3, <2>4
  <2> QED BY <1>0, <1>1, <2>5
<1>7. c \in -C .. C
  BY <1>1, <1>2, <1>5, <1>6
<1> QED BY <1>3, <1>4, <1>7 DEF c, H, R

-----------------------------------------------------------------------------
(* Rounded passes.                                                           *)

Visited(s, m, j) == \E t \in 1 .. m : s[t] = j

\* The limb below has been carried since.
Entered(s, m, j) ==
  \E t \in 1 .. m : s[t] = j - 1 /\ \A u \in 1 .. m : s[u] = j => u < t

RoundBound(s, x, C, m, j) ==
  (IF Visited(s, m, j) THEN LimbHalf ELSE x[j]) + (IF Entered(s, m, j) THEN C ELSE 0)

Once(s) == \A t, u \in 1 .. Len(s) : s[t] = s[u] => t = u

\* A pass that carries no limb twice, over limbs bounded by x.
Rounding(s, x, C, v) ==
  /\ s \in Seq(Carried) /\ Once(s)
  /\ x \in [0 .. 2 * M -> Nat] /\ \A j \in 0 .. 2 * M : CarryFits(C, x[j] + C)
  /\ v \in ScalarVector /\ \A j \in 0 .. 2 * M : v[j] \in -x[j] .. x[j]

\* The bounds of a rounded pass are numbers.
LEMMA RoundBoundTyped ==
  ASSUME NEW s, NEW x, NEW C, NEW v, Rounding(s, x, C, v), NEW m, NEW j \in 0 .. 2 * M
  PROVE  RoundBound(s, x, C, m, j) \in Nat /\ C \in Nat /\ x[j] \in Nat
<1>1. x[j] \in Nat /\ C \in Nat
  BY DEF Rounding, CarryFits
<1> QED BY <1>1, LimbHalves DEF RoundBound

\* What one rounded carry writes: the limb and its neighbour above.
LEMMA RoundedEntries ==
  ASSUME NEW w \in ScalarVector, NEW i \in Carried
  PROVE  LET c == (w[i] + LimbHalf) \div LimbRange
         IN  /\ c \in Int /\ Rounded(w, i) \in ScalarVector
             /\ Rounded(w, i)[i] = w[i] - c * LimbRange
             /\ Rounded(w, i)[i + 1] = w[i + 1] + c
             /\ \A j \in 0 .. 2 * M : j \notin {i, i + 1} => Rounded(w, i)[j] = w[j]
<1> DEFINE I == 0 .. 2 * M
           R == LimbRange
           c == (w[i] + LimbHalf) \div R
           k == i + 1
           y == w[i] - c * R
           z == w[k] + c
           u == Rounded(w, i)
<1>1. i \in I /\ k \in I /\ k # i /\ i \in 0 .. 2 * M - 1
  BY ScalarSizes DEF Carried
<1>2. w \in [I -> Int] /\ R \in Nat \ {0} /\ LimbHalf \in Nat
  BY LimbHalves DEF ScalarVector
<1>3. u = [w EXCEPT ![i] = @ - c * R, ![k] = @ + c]
  BY DEF Rounded, CarryBy, LimbHalf, LimbRange
<1> HIDE DEF I, R, k, u
<1>4. w[i] \in Int /\ w[k] \in Int
  BY <1>1, <1>2
<1>5. c \in Int
  BY <1>2, <1>4
<1> HIDE DEF c
<1>6. y \in Int /\ z \in Int
  BY <1>2, <1>4, <1>5
<1>7. u = [w EXCEPT ![i] = y, ![k] = z]
  BY <1>1, <1>2, <1>3
<1> HIDE DEF y, z
<1>8. /\ u \in [I -> Int] /\ u[i] = y /\ u[k] = z
      /\ \A j \in I : j \notin {i, k} => u[j] = w[j]
  BY <1>1, <1>2, <1>6, <1>7
<1> QED BY <1>5, <1>8 DEF c, u, y, z, k, I, R, ScalarVector

\* One more limb of a rounded pass.
LEMMA RoundStep ==
  ASSUME NEW s, NEW x, NEW C, NEW v, Rounding(s, x, C, v), NEW m \in 1 .. Len(s),
         NEW w \in ScalarVector,
         \A j \in 0 .. 2 * M :
           w[j] \in -RoundBound(s, x, C, m - 1, j) .. RoundBound(s, x, C, m - 1, j)
  PROVE  /\ Rounded(w, s[m]) \in ScalarVector
         /\ \A j \in 0 .. 2 * M :
              Rounded(w, s[m])[j] \in -RoundBound(s, x, C, m, j) .. RoundBound(s, x, C, m, j)
<1> DEFINE i == s[m]
           u == Rounded(w, i)
           c == (w[i] + LimbHalf) \div LimbRange
           B(k, j) == RoundBound(s, x, C, k, j)
<1>0. /\ i \in Carried /\ i \in Int /\ i \in 0 .. 2 * M /\ i + 1 \in 0 .. 2 * M /\ Len(s) \in Nat /\ m \in Nat
      /\ m - 1 \in Nat /\ m - 1 <= Len(s) /\ C \in Nat
      /\ 1 .. m = (1 .. m - 1) \cup {m} /\ \A t \in 1 .. m : t \in 1 .. Len(s)
      /\ \A t \in 1 .. m - 1 : t \in 1 .. m /\ t < m /\ t # m
  <2>1. s \in Seq(Carried) /\ C \in Nat
    <3>1. 0 \in 0 .. 2 * M
      BY ScalarSizes
    <3> QED BY <3>1 DEF Rounding, CarryFits
  <2>2. i \in Carried
    BY <2>1
  <2> QED BY <2>1, <2>2, ScalarSizes DEF Carried
<1>1. \A t \in 1 .. m - 1 : s[t] # i
  BY <1>0 DEF Rounding, Once
<1>2. /\ c \in Int /\ u \in ScalarVector
      /\ u[i] = w[i] - c * LimbRange /\ u[i + 1] = w[i + 1] + c
      /\ \A j \in 0 .. 2 * M : j \notin {i, i + 1} => u[j] = w[j]
  BY <1>0, RoundedEntries
<1> HIDE DEF i, c, u
<1>3. ~Visited(s, m - 1, i) /\ ~Entered(s, m - 1, i + 1)
  <2>1. (i + 1) - 1 = i
    BY <1>0
  <2> QED BY <1>1, <2>1 DEF Visited, Entered
<1>4. x[i] \in Nat /\ B(m - 1, i) \in Nat /\ B(m - 1, i) <= x[i] + C
  BY <1>0, <1>3, RoundBoundTyped, SMTT(30) DEF RoundBound
<1>5. w[i] \in -(x[i] + C) .. x[i] + C /\ w[i] \in Int
  <2>1. w[i] \in -B(m - 1, i) .. B(m - 1, i)
    BY <1>0
  <2> HIDE DEF B
  <2> QED BY <1>0, <1>4, <2>1, SMTT(30)
<1>6. c \in -C .. C /\ w[i] - c * LimbRange \in -LimbHalf .. LimbHalf - 1
  <2>1. CarryFits(C, x[i] + C)
    BY <1>0 DEF Rounding
  <2> QED BY <1>5, <2>1, CarryBounds DEF c
<1>7. ASSUME NEW j \in 0 .. 2 * M
      PROVE  u[j] \in -B(m, j) .. B(m, j)
  <2>0. B(m, j) \in Nat /\ B(m - 1, j) \in Nat /\ w[j] \in -B(m - 1, j) .. B(m - 1, j)
        /\ x[j] \in Nat
    BY RoundBoundTyped
  <2>1. CASE j = i
    <3>1. Visited(s, m, j)
      BY <1>0, <2>1 DEF Visited, i
    <3>2. B(m, j) >= LimbHalf
      BY <1>0, <3>1, LimbHalves DEF RoundBound
    <3> DEFINE b == B(m, j)
               y == w[i] - c * LimbRange
    <3>3. b \in Nat /\ b >= LimbHalf /\ LimbHalf \in Nat /\ y \in -LimbHalf .. LimbHalf - 1
      BY <1>6, <2>0, <3>2, LimbHalves
    <3>4. u[j] = y
      BY <1>2, <2>1
    <3> HIDE DEF y, b
    <3>5. y \in -b .. b
      BY <3>3
    <3> QED BY <3>4, <3>5 DEF b
  <2>2. CASE j = i + 1
    <3>1. Entered(s, m, j)
      <4>1. m \in 1 .. m /\ s[m] = j - 1
        BY <1>0, <2>2 DEF i
      <4>2. \A t \in 1 .. m : s[t] = j => t < m
        <5>1. s[m] # j
          BY <1>0, <2>2 DEF i
        <5> QED BY <1>0, <5>1
      <4> QED BY <4>1, <4>2 DEF Entered
    <3>2. Visited(s, m, j) <=> Visited(s, m - 1, j)
      <4>1. s[m] # j
        BY <1>0, <2>2 DEF i
      <4> QED BY <1>0, <4>1 DEF Visited
    <3>3. ~Entered(s, m - 1, j)
      BY <1>3, <2>2
    <3>4. B(m, j) = B(m - 1, j) + C
      BY <1>0, <2>0, <3>1, <3>2, <3>3, LimbHalves DEF RoundBound
    <3>5. u[j] = w[j] + c
      BY <1>2, <2>2
    <3> DEFINE b == B(m, j)
               b0 == B(m - 1, j)
               y == w[j]
    <3>6. b \in Nat /\ b0 \in Nat /\ b = b0 + C /\ y \in -b0 .. b0 /\ C \in Nat
      BY <1>0, <2>0, <3>4
    <3> HIDE DEF y, b, b0
    <3>7. y + c \in -b .. b
      BY <1>6, <3>6
    <3> QED BY <3>5, <3>7 DEF b, y
  <2>3. CASE j \notin {i, i + 1}
    <3>1. s[m] # j /\ s[m] # j - 1
      BY <1>0, <2>3 DEF i
    <3>2. Visited(s, m, j) <=> Visited(s, m - 1, j)
      BY <1>0, <3>1 DEF Visited
    <3>3. Entered(s, m, j) <=> Entered(s, m - 1, j)
      <4>1. ASSUME Entered(s, m, j) PROVE Entered(s, m - 1, j)
        <5>1. PICK t \in 1 .. m : s[t] = j - 1 /\ \A k \in 1 .. m : s[k] = j => k < t
          BY <4>1 DEF Entered
        <5>2. t \in 1 .. m - 1
          BY <1>0, <3>1, <5>1
        <5> QED BY <1>0, <5>1, <5>2 DEF Entered
      <4>2. ASSUME Entered(s, m - 1, j) PROVE Entered(s, m, j)
        <5>1. PICK t \in 1 .. m - 1 : s[t] = j - 1 /\ \A k \in 1 .. m - 1 : s[k] = j => k < t
          BY <4>2 DEF Entered
        <5>2. \A k \in 1 .. m : s[k] = j => k < t
          BY <1>0, <3>1, <5>1
        <5>3. t \in 1 .. m
          BY <1>0
        <5> QED BY <5>1, <5>2, <5>3 DEF Entered
      <4> QED BY <4>1, <4>2
    <3>4. B(m, j) = B(m - 1, j)
      BY <3>2, <3>3 DEF RoundBound
    <3> QED BY <1>2, <2>0, <2>3, <3>4
  <2> QED BY <2>1, <2>2, <2>3
<1> QED BY <1>2, <1>7 DEF u, i

\* A whole rounded pass: each limb it visits, and each it carries into, is bounded.
LEMMA RoundPass ==
  ASSUME NEW s, NEW x, NEW C, NEW v, Rounding(s, x, C, v)
  PROVE  /\ OnePassOver(v, <<"round", s>>) \in ScalarVector
         /\ \A j \in 0 .. 2 * M :
              OnePassOver(v, <<"round", s>>)[j]
                \in -RoundBound(s, x, C, Len(s), j) .. RoundBound(s, x, C, Len(s), j)
<1> DEFINE p == <<"round", s>>
           n == Len(s)
           Q(m) == {w \in ScalarVector : \A j \in 0 .. 2 * M :
                      w[j] \in -RoundBound(s, x, C, m, j) .. RoundBound(s, x, C, m, j)}
           S == [m \in 0 .. n |-> Q(m)]
<1>0. s \in Seq(Carried) /\ v \in ScalarVector /\ n \in Nat
  BY DEF Rounding
<1>1. p \in LimbPass /\ p[1] = "round" /\ p[2] = s
  BY <1>0 DEF LimbPass
<1>2. v \in Q(0)
  <2>1. ASSUME NEW j \in 0 .. 2 * M
        PROVE  v[j] \in -RoundBound(s, x, C, 0, j) .. RoundBound(s, x, C, 0, j)
    <3>1. ~Visited(s, 0, j) /\ ~Entered(s, 0, j)
      BY DEF Visited, Entered
    <3>2. RoundBound(s, x, C, 0, j) = x[j]
      BY <3>1, RoundBoundTyped DEF RoundBound
    <3> QED BY <3>2 DEF Rounding
  <2> QED BY <1>0, <2>1
<1>3. ASSUME NEW m \in 1 .. n, NEW w \in ScalarVector, w \in Q(m - 1)
      PROVE  AtLimb("round", w, s[m]) \in Q(m)
  <2>1. AtLimb("round", w, s[m]) = Rounded(w, s[m])
    BY DEF AtLimb
  <2> QED BY <1>3, <2>1, RoundStep
<1>4. Handed(S, v, p)
  <2>1. \A m \in 0 .. n : S[m] = Q(m)
    OBVIOUS
  <2> HIDE DEF S, Q, p
  <2>2. v \in S[0]
    BY <1>0, <1>2, <2>1
  <2>3. ASSUME NEW m \in 1 .. Len(p[2]), NEW w \in ScalarVector, w \in S[m - 1]
        PROVE  AtLimb(p[1], w, p[2][m]) \in S[m]
    <3>1. m \in 1 .. n /\ m \in 0 .. n /\ m - 1 \in 0 .. n
      BY <1>0, <1>1
    <3>2. w \in Q(m - 1)
      BY <2>1, <2>3, <3>1
    <3> QED BY <1>1, <1>3, <2>1, <3>1, <3>2
  <2> QED BY <2>2, <2>3 DEF Handed
<1>5. OnePassOver(v, p) \in S[n]
  BY <1>0, <1>1, <1>4, PassThrough
<1>6. OnePassOver(v, p) \in Q(n)
  <2>1. n \in 0 .. n
    BY <1>0
  <2> HIDE DEF Q, p
  <2> QED BY <1>5, <2>1
<1> QED BY <1>6

\* One limb after the next but one, then those between.
EveryOther(a, n, m) == UpFrom(a, a + 2 * n - 2, 2) \o UpFrom(a + 1, a + 2 * m - 1, 2)

\* Its limbs: the even places first, then the odd ones.
LEMMA EveryOtherLimb ==
  ASSUME NEW a \in Nat, NEW n \in Nat, NEW m \in Nat, m >= 1, n \in {m, m + 1}
  PROVE  LET s == EveryOther(a, n, m)
         IN  /\ s \in Seq(Nat) /\ Len(s) = n + m
             /\ \A t \in 1 .. n : s[t] = a + 2 * t - 2
             /\ \A t \in n + 1 .. n + m : s[t] = a + 2 * (t - n) - 1
<1> DEFINE b == a + 2 * n - 2
           c == a + 2 * m - 1
           p == UpFrom(a, b, 2)
           q == UpFrom(a + 1, c, 2)
           s == EveryOther(a, n, m)
<1>1. a \in Int /\ b \in Int /\ a + 1 \in Int /\ c \in Int /\ a <= b /\ a + 1 <= c /\ 2 \in {1, 2}
      /\ a .. b \subseteq Nat /\ a + 1 .. c \subseteq Nat
  OBVIOUS
<1>2. (b - a) \div 2 + 1 = n /\ (c - (a + 1)) \div 2 + 1 = m
  <2>1. (2 * n - 2) \div 2 = n - 1 /\ (2 * m - 2) \div 2 = m - 1
    OBVIOUS
  <2>2. b - a = 2 * n - 2 /\ c - (a + 1) = 2 * m - 2
    OBVIOUS
  <2> HIDE DEF b, c
  <2> QED BY <2>1, <2>2
<1>3. p = [t \in 1 .. n |-> a + (t - 1) * 2] /\ q = [t \in 1 .. m |-> a + 1 + (t - 1) * 2]
  BY <1>2 DEF UpFrom
<1>4. s = p \o q
  BY DEF EveryOther
<1> HIDE DEF b, c, s
<1>5. p \in Seq(Nat) /\ q \in Seq(Nat)
  <2>1. p \in Seq(Nat)
    BY <1>1, Upward
  <2>2. q \in Seq(Nat)
    BY <1>1, Upward
  <2> QED BY <2>1, <2>2
<1> HIDE DEF p, q
<1>6. Len(p) = n /\ Len(q) = m
  <2>1. DOMAIN p = 1 .. n /\ DOMAIN q = 1 .. m
    BY <1>3
  <2>2. DOMAIN p = 1 .. Len(p) /\ DOMAIN q = 1 .. Len(q) /\ Len(p) \in Nat /\ Len(q) \in Nat
    BY <1>5
  <2> QED BY <2>1, <2>2
<1>7. /\ s \in Seq(Nat) /\ Len(s) = Len(p) + Len(q)
      /\ \A t \in 1 .. Len(p) + Len(q) : s[t] = IF t <= Len(p) THEN p[t] ELSE q[t - Len(p)]
  BY <1>4, <1>5, ConcatProperties
<1>8. ASSUME NEW t \in 1 .. n
      PROVE  s[t] = a + 2 * t - 2
  <2>1. t \in 1 .. n + m /\ t <= n /\ a + (t - 1) * 2 = a + 2 * t - 2
    OBVIOUS
  <2>2. s[t] = p[t]
    BY <1>6, <1>7, <2>1
  <2> QED BY <1>3, <2>1, <2>2
<1>9. ASSUME NEW t \in n + 1 .. n + m
      PROVE  s[t] = a + 2 * (t - n) - 1
  <2>1. t \in 1 .. n + m /\ ~(t <= n) /\ t - n \in 1 .. m
        /\ a + 1 + ((t - n) - 1) * 2 = a + 2 * (t - n) - 1
    OBVIOUS
  <2>2. s[t] = q[t - n]
    BY <1>6, <1>7, <2>1
  <2> QED BY <1>3, <2>1, <2>2
<1> QED BY <1>6, <1>7, <1>8, <1>9 DEF s

\* Every limb from a on has its turn, once, and the last of them is the last.
LEMMA EveryOtherVisits ==
  ASSUME NEW a \in Nat, NEW n \in Nat, NEW m \in Nat, m >= 1, n \in {m, m + 1},
         a + n + m - 1 <= 2 * M - 1
  PROVE  LET s == EveryOther(a, n, m)
         IN  /\ s \in Seq(Carried) /\ Once(s)
             /\ \A j \in Int : Visited(s, Len(s), j) <=> j \in a .. a + n + m - 1
             /\ \A j \in Int : Entered(s, Len(s), j) => j \in a + 1 .. a + n + m
             /\ n = m => ~Entered(s, Len(s), a + n + m - 1)
<1> DEFINE s == EveryOther(a, n, m)
           l == n + m
<1>1. /\ s \in Seq(Nat) /\ Len(s) = l
      /\ \A t \in 1 .. n : s[t] = a + 2 * t - 2
      /\ \A t \in n + 1 .. n + m : s[t] = a + 2 * (t - n) - 1
  BY EveryOtherLimb, ZenonT(30)
<1> HIDE DEF s
<1>2. DOMAIN s = 1 .. l /\ \A t \in 1 .. l : s[t] \in Nat
  <2> HIDE DEF l
  <2> QED BY <1>1
<1>3. s = [t \in 1 .. l |-> s[t]]
  <2> HIDE DEF l
  <2> QED BY <1>1
<1>4. \A t \in 1 .. l : s[t] \in a .. a + n + m - 1
  <2> SUFFICES ASSUME NEW t \in 1 .. l PROVE s[t] \in a .. a + n + m - 1
    OBVIOUS
  <2>1. CASE t <= n
    BY <1>1, <2>1
  <2>2. CASE t > n
    BY <1>1, <2>2
  <2> QED BY <2>1, <2>2
<1>5. s \in Seq(Carried)
  <2>1. \A t \in 1 .. l : s[t] \in Carried
    BY <1>4, ScalarSizes DEF Carried
  <2>2. s \in [1 .. l -> Carried] /\ l \in Nat
    BY <1>3, <2>1
  <2> HIDE DEF l
  <2> QED BY <2>2, SeqOfFunction
<1>6. Once(s)
  <2> SUFFICES ASSUME NEW t \in 1 .. l, NEW u \in 1 .. l, s[t] = s[u] PROVE t = u
    BY <1>1 DEF Once
  <2>1. (t <= n /\ s[t] = a + 2 * t - 2) \/ (t > n /\ s[t] = a + 2 * (t - n) - 1)
    BY <1>1
  <2>2. (u <= n /\ s[u] = a + 2 * u - 2) \/ (u > n /\ s[u] = a + 2 * (u - n) - 1)
    BY <1>1
  <2> QED BY <2>1, <2>2
<1>7. ASSUME NEW j \in Int
      PROVE  Visited(s, l, j) <=> j \in a .. a + n + m - 1
  <2>1. ASSUME j \in a .. a + n + m - 1
        PROVE  \E t \in 1 .. l : s[t] = j
    <3> DEFINE h == (j - a) \div 2
    <3>1. h \in Int /\ ((j - a) = 2 * h \/ (j - a) = 2 * h + 1)
      BY <2>1
    <3> HIDE DEF h
    <3>2. CASE j - a = 2 * h
      <4>1. h + 1 \in 1 .. n /\ h + 1 \in 1 .. l
        BY <2>1, <3>1, <3>2
      <4>2. s[h + 1] = j
        BY <1>1, <3>1, <3>2, <4>1
      <4> QED BY <4>1, <4>2
    <3>3. CASE j - a = 2 * h + 1
      <4>1. n + h + 1 \in n + 1 .. n + m /\ n + h + 1 \in 1 .. l
        BY <2>1, <3>1, <3>3
      <4>2. s[n + h + 1] = j
        BY <1>1, <3>1, <3>3, <4>1
      <4> QED BY <4>1, <4>2
    <3> QED BY <3>1, <3>2, <3>3
  <2> QED BY <1>4, <2>1 DEF Visited
<1>8. ASSUME NEW j \in Int, Entered(s, l, j)
      PROVE  j \in a + 1 .. a + n + m
  <2>1. PICK t \in 1 .. l : s[t] = j - 1
    BY <1>8 DEF Entered
  <2> QED BY <1>4, <2>1
<1>9. ASSUME n = m
      PROVE  ~Entered(s, l, a + n + m - 1)
  <2>1. l \in 1 .. l /\ l \in n + 1 .. n + m /\ s[l] = a + n + m - 1
    BY <1>1, <1>9
  <2>2. \A t \in 1 .. l : ~(l < t)
    OBVIOUS
  <2> QED BY <2>1, <2>2 DEF Entered
<1> QED BY <1>1, <1>5, <1>6, <1>7, <1>8, <1>9 DEF s, l

-----------------------------------------------------------------------------
(* What the limbs below a place can make up.                                 *)

\* A product of two bounded numbers.
LEMMA ProductBound ==
  ASSUME NEW X \in Nat, NEW Y \in Nat, NEW x \in -X .. X, NEW y \in -Y .. Y
  PROVE  x * y \in -(X * Y) .. X * Y /\ X * Y \in Nat
<1>1. ASSUME NEW a \in Nat, NEW b \in Nat, a <= X, b <= Y
      PROVE  a * b <= X * Y /\ a * b \in Nat
  <2>1. a * b <= X * b /\ X * b <= X * Y
    BY <1>1
  <2>2. a * b \in Nat /\ X * b \in Nat /\ X * Y \in Nat
    OBVIOUS
  <2> QED BY <2>1, <2>2
<1> DEFINE a == IF x < 0 THEN -x ELSE x
           b == IF y < 0 THEN -y ELSE y
<1>2. a \in Nat /\ b \in Nat /\ a <= X /\ b <= Y /\ x \in {a, -a} /\ y \in {b, -b}
  OBVIOUS
<1> HIDE DEF a, b
<1>3. a * b <= X * Y /\ a * b \in Nat /\ X * Y \in Nat
  BY <1>1, <1>2
<1>4. x * y \in {a * b, -(a * b)}
  BY <1>2
<1> QED BY <1>3, <1>4

\* The first n limbs, as a number.
LowNumber(v, n) == SumTo(n, PlacedScalar(v))

\* The number below a place, one place at a time.
LEMMA LowNumberSteps ==
  ASSUME NEW v \in ScalarVector
  PROVE  /\ LowNumber(v, 0) = 0
         /\ \A n \in 0 .. 2 * M + 1 : LowNumber(v, n) \in Int
         /\ \A n \in 0 .. 2 * M : LowNumber(v, n + 1) = LowNumber(v, n) + v[n] * ScalarPlace[n]
<1>1. /\ Ints(PlacedScalar(v), 2 * M + 1)
      /\ \A i \in 0 .. 2 * M : PlacedScalar(v)[i] = v[i] * ScalarPlace[i]
  BY ScalarPlaced
<1>2. /\ SumTo(0, PlacedScalar(v)) = 0
      /\ \A m \in 0 .. 2 * M + 1 : SumTo(m, PlacedScalar(v)) \in Int
      /\ \A m \in 0 .. (2 * M + 1) - 1 :
           SumTo(m + 1, PlacedScalar(v)) = SumTo(m, PlacedScalar(v)) + PlacedScalar(v)[m]
  BY <1>1, SumSteps
<1>3. (2 * M + 1) - 1 = 2 * M
  BY ScalarSizes
<1> QED BY <1>1, <1>2, <1>3 DEF LowNumber

\* Where nothing is above the first n limbs, they are the number.
LEMMA NothingAbove ==
  ASSUME NEW v \in ScalarVector, NEW n \in 0 .. 2 * M + 1, \A j \in n .. 2 * M : v[j] = 0
  PROVE  NumberOf(v) = LowNumber(v, n)
<1> DEFINE S == {k \in Nat : n + k <= 2 * M + 1 => LowNumber(v, n + k) = LowNumber(v, n)}
           l == 2 * M + 1 - n
<1>0. n \in Nat /\ l \in Nat /\ n + l = 2 * M + 1 /\ 2 * M \in Nat /\ n + 0 = n
  BY ScalarSizes
<1>1. 0 \in S
  BY <1>0
<1>2. ASSUME NEW k \in Nat, k \in S PROVE k + 1 \in S
  <2> SUFFICES ASSUME n + (k + 1) <= 2 * M + 1 PROVE LowNumber(v, n + (k + 1)) = LowNumber(v, n)
    OBVIOUS
  <2>1. n + k \in 0 .. 2 * M /\ n + k \in n .. 2 * M /\ n + (k + 1) = (n + k) + 1
        /\ n + k \in 0 .. 2 * M + 1
    BY <1>0
  <2>2. LowNumber(v, n + k) = LowNumber(v, n) /\ LowNumber(v, n + k) \in Int
    BY <1>2, <2>1, LowNumberSteps
  <2>3. LowNumber(v, (n + k) + 1) = LowNumber(v, n + k) + v[n + k] * ScalarPlace[n + k]
    BY <2>1, LowNumberSteps
  <2>4. v[n + k] = 0 /\ ScalarPlace[n + k] \in Int
    BY <2>1, ScalarPlaces
  <2>5. v[n + k] * ScalarPlace[n + k] = 0
    BY <2>4
  <2> QED BY <2>1, <2>2, <2>3, <2>5
<1>3. l \in S
  <2> HIDE DEF S, l
  <2> QED BY <1>0, <1>1, <1>2, FromZero
<1>4. LowNumber(v, n + l) = LowNumber(v, n)
  BY <1>0, <1>3
<1>5. NumberOf(v) = LowNumber(v, 2 * M + 1)
  BY ScalarPlaced DEF LowNumber
<1> QED BY <1>0, <1>4, <1>5

\* The next place.
LEMMA NextPlace ==
  ASSUME NEW n \in 0 .. 2 * M - 1
  PROVE  /\ ScalarPlace[n] \in Nat \ {0} /\ ScalarPlace[n + 1] \in Nat \ {0}
         /\ ScalarPlace[n + 1] = LimbRange * ScalarPlace[n]
         /\ 2 * ScalarPlace[n] <= ScalarPlace[n + 1]
<1>1. n \in 0 .. 2 * M /\ 1 \in 0 .. 2 * M /\ n + 1 \in 0 .. 2 * M
  BY ScalarSizes
<1>2. ScalarPlace[n + 1] = ScalarPlace[n] * ScalarPlace[1]
  BY <1>1, ScalarPlaces
<1> DEFINE p == ScalarPlace[n]
           q == ScalarPlace[n + 1]
           R == LimbRange
<1>3. p \in Nat \ {0} /\ q \in Nat \ {0} /\ R \in Nat /\ R >= 2 /\ q = p * R
  BY <1>1, <1>2, ScalarPlaces, LimbHalves DEF LimbRange
<1> HIDE DEF p, q, R
<1>4. q = R * p /\ 2 * p <= R * p
  BY <1>3
<1> QED BY <1>3, <1>4 DEF p, q, R

\* What limbs within bounds can make up.
LEMMA LowNumberBound ==
  ASSUME NEW v \in ScalarVector, NEW n \in 0 .. 2 * M - 1, NEW B \in Nat,
         \A j \in 0 .. n : v[j] \in -B .. B
  PROVE  LET b == 2 * (B * ScalarPlace[n])
         IN  b \in Nat /\ LowNumber(v, n + 1) \in -b .. b
<1> DEFINE b(k) == 2 * (B * ScalarPlace[k])
           S == {k \in Nat : k <= n => LowNumber(v, k + 1) \in -b(k) .. b(k)}
<1>0. M \in Nat /\ M >= 4 /\ ScalarPlace[0] = 1
      /\ \A k \in 0 .. 2 * M : k \in Nat /\ v[k] \in Int /\ ScalarPlace[k] \in Nat \ {0}
  <2>1. \A k \in 0 .. 2 * M : v[k] \in Int
    BY DEF ScalarVector
  <2>2. \A k \in 0 .. 2 * M : ScalarPlace[k] \in Nat \ {0}
    BY ScalarPlaces
  <2> QED BY <2>1, <2>2, ScalarSizes, ScalarPlaces
<1>1. 0 \in S
  <2>1. 0 \in 0 .. n /\ 0 \in 0 .. 2 * M /\ b(0) = 2 * B
    BY <1>0
  <2>2. LowNumber(v, 0 + 1) = LowNumber(v, 0) + v[0] * ScalarPlace[0] /\ LowNumber(v, 0) = 0
    BY <2>1, LowNumberSteps
  <2>3. v[0] \in -B .. B /\ LowNumber(v, 0 + 1) = v[0]
    BY <1>0, <2>1, <2>2
  <2> HIDE DEF b
  <2> QED BY <2>1, <2>3
<1>2. ASSUME NEW k \in Nat, k \in S PROVE k + 1 \in S
  <2> SUFFICES ASSUME k + 1 <= n PROVE LowNumber(v, (k + 1) + 1) \in -b(k + 1) .. b(k + 1)
    OBVIOUS
  <2> DEFINE p == ScalarPlace[k]
             q == ScalarPlace[k + 1]
             x == v[k + 1]
             y == LowNumber(v, k + 1)
  <2>1. k + 1 \in 0 .. n /\ k + 1 \in 0 .. 2 * M /\ k \in 0 .. 2 * M - 1
    BY <1>0
  <2>2. LowNumber(v, (k + 1) + 1) = y + x * q
    BY <2>1, LowNumberSteps
  <2>3. y \in -(2 * (B * p)) .. 2 * (B * p) /\ x \in -B .. B /\ p \in Nat /\ q \in Nat /\ 2 * p <= q
    BY <1>2, <2>1, NextPlace
  <2> HIDE DEF p, q, x, y
  <2>4. x * q \in -(B * q) .. B * q
    <3>1. q \in -q .. q
      BY <2>3
    <3> QED BY <2>3, <3>1, ProductBound
  <2>5. 2 * (B * p) <= B * q
    <3>1. B * (2 * p) <= B * q
      BY <2>3
    <3>2. B * (2 * p) = 2 * (B * p)
      BY <2>3
    <3> QED BY <3>1, <3>2
  <2>6. B * q \in Nat /\ B * p \in Nat
    BY <2>3
  <2>7. y + x * q \in -(2 * (B * q)) .. 2 * (B * q)
    BY <2>3, <2>4, <2>5, <2>6
  <2> QED BY <2>2, <2>7 DEF q
<1>3. n \in S
  <2> HIDE DEF S
  <2> QED BY <1>1, <1>2, FromZero
<1>4. b(n) \in Nat
  BY <1>0
<1> QED BY <1>3, <1>4

\* Limbs that are digits make up a number below the next place.
LEMMA LowNumberRange ==
  ASSUME NEW v \in ScalarVector, NEW n \in 0 .. 2 * M,
         \A j \in 0 .. n - 1 : v[j] \in 0 .. LimbRange - 1
  PROVE  LowNumber(v, n) \in 0 .. ScalarPlace[n] - 1
<1> DEFINE S == {k \in Nat : k <= n => LowNumber(v, k) \in 0 .. ScalarPlace[k] - 1}
<1>0. M \in Nat /\ M >= 4 /\ ScalarPlace[0] = 1
      /\ \A k \in 0 .. 2 * M : k \in Nat /\ v[k] \in Int /\ ScalarPlace[k] \in Nat \ {0}
  <2>1. \A k \in 0 .. 2 * M : v[k] \in Int
    BY DEF ScalarVector
  <2>2. \A k \in 0 .. 2 * M : ScalarPlace[k] \in Nat \ {0}
    BY ScalarPlaces
  <2> QED BY <2>1, <2>2, ScalarSizes, ScalarPlaces
<1>1. 0 \in S
  BY <1>0, LowNumberSteps
<1>2. ASSUME NEW k \in Nat, k \in S PROVE k + 1 \in S
  <2> SUFFICES ASSUME k + 1 <= n PROVE LowNumber(v, k + 1) \in 0 .. ScalarPlace[k + 1] - 1
    OBVIOUS
  <2> DEFINE p == ScalarPlace[k]
             q == ScalarPlace[k + 1]
             x == v[k]
             y == LowNumber(v, k)
             R == LimbRange
  <2>1. k \in 0 .. n - 1 /\ k \in 0 .. 2 * M /\ k \in 0 .. 2 * M - 1
    BY <1>0
  <2>2. LowNumber(v, k + 1) = y + x * p
    BY <2>1, LowNumberSteps
  <2>3. y \in 0 .. p - 1 /\ x \in 0 .. R - 1 /\ p \in Nat /\ q \in Nat /\ q = R * p /\ R \in Nat
    BY <1>2, <2>1, NextPlace, LimbHalves
  <2> HIDE DEF p, q, x, y, R
  <2>4. x * p \in Nat /\ x * p <= (R - 1) * p
    BY <2>3
  <2>5. (R - 1) * p = q - p
    BY <2>3
  <2> QED BY <2>2, <2>3, <2>4, <2>5 DEF q
<1>3. n \in S
  <2> HIDE DEF S
  <2> QED BY <1>1, <1>2, FromZero
<1> QED BY <1>3

-----------------------------------------------------------------------------
(* Folds.                                                                    *)

DigitsFit == \A k \in Int : FoldDigit(k) \in -LimbHalf .. LimbHalf

\* Limbs within X, folded from hi down to lo into limbs within Y.
Folding(hi, lo, X, Y, v) ==
  /\ DigitsFit /\ v \in ScalarVector /\ X \in Nat /\ Y \in Nat
  /\ lo \in Folded /\ hi \in Folded /\ lo <= hi /\ hi - M + Quarter <= lo
  /\ \A j \in lo .. hi : v[j] \in -X .. X
  /\ \A j \in 0 .. hi - M + Quarter - 1 : v[j] \in -Y .. Y

FoldGrowth(X, n) == n * (X * LimbHalf)
FoldRange(X, Y, n) == -(Y + FoldGrowth(X, n)) .. Y + FoldGrowth(X, n)

GrownBelow(w, t, X, Y, m) == \A j \in 0 .. t - 1 : w[j] \in FoldRange(X, Y, m)

\* After m of them.
FoldedTo(hi, lo, X, Y, v, m) ==
  {w \in ScalarVector :
     /\ \A j \in hi - m + 1 .. hi : w[j] = 0
     /\ \A j \in hi - M + Quarter .. hi - m : w[j] = v[j]
     /\ \A j \in hi + 1 .. 2 * M : w[j] = v[j]
     /\ GrownBelow(w, hi - M + Quarter, X, Y, m)}

\* One more limb folded: cleared, and its multiples in the limbs below.
LEMMA FoldStep ==
  ASSUME NEW hi, NEW lo, NEW X, NEW Y, NEW v, Folding(hi, lo, X, Y, v),
         NEW m \in 1 .. hi - lo + 1, NEW w \in FoldedTo(hi, lo, X, Y, v, m - 1)
  PROVE  Fold(w, hi - m + 1) \in FoldedTo(hi, lo, X, Y, v, m)
<1> DEFINE i == hi - m + 1
           t == hi - M + Quarter
           G(k) == FoldGrowth(X, k)
           u == Fold(w, i)
<1>0. /\ M \in Nat /\ M >= 4 /\ Quarter \in Nat /\ X \in Nat /\ Y \in Nat /\ hi \in Int /\ lo \in Int
      /\ M <= lo /\ hi <= 2 * M - 1 /\ lo <= hi /\ t <= lo /\ t \in Int /\ m \in Nat /\ i \in lo .. hi
      /\ i \in M .. 2 * M - 1 /\ 2 * Quarter = M
  BY ScalarSizes DEF Folding, Folded
<1>1. /\ w \in ScalarVector
      /\ \A j \in hi - (m - 1) + 1 .. hi : w[j] = 0
      /\ \A j \in t .. hi - (m - 1) : w[j] = v[j]
      /\ \A j \in hi + 1 .. 2 * M : w[j] = v[j]
      /\ \A j \in 0 .. t - 1 : w[j] \in FoldRange(X, Y, m - 1)
  <2>1. w \in ScalarVector
    BY DEF FoldedTo
  <2>2. \A j \in hi - (m - 1) + 1 .. hi : w[j] = 0
    BY DEF FoldedTo
  <2>3. \A j \in t .. hi - (m - 1) : w[j] = v[j]
    BY DEF FoldedTo
  <2>4. \A j \in hi + 1 .. 2 * M : w[j] = v[j]
    BY DEF FoldedTo
  <2>5. GrownBelow(w, t, X, Y, m - 1)
    BY DEF FoldedTo
  <2> QED BY <2>1, <2>2, <2>3, <2>4, <2>5 DEF GrownBelow
<1>2. /\ u \in ScalarVector
      /\ \A j \in 0 .. 2 * M : u[j] = IF j = i THEN 0 ELSE w[j] + w[i] * FoldDigit(j - (i - M))
  BY <1>0, <1>1, FoldedEntries
<1> HIDE DEF u
<1>3. w[i] \in -X .. X
  <2>1. i \in t .. hi - (m - 1)
    BY <1>0
  <2>2. w[i] = v[i]
    BY <1>1, <2>1
  <2> QED BY <1>0, <2>2 DEF Folding
<1>4. ASSUME NEW j \in 0 .. 2 * M, j >= t, j # i
      PROVE  u[j] = w[j]
  <2>1. j - (i - M) \in Int /\ j - (i - M) \notin 0 .. Quarter - 1
    BY <1>0, <1>4
  <2>2. FoldDigit(j - (i - M)) = 0
    BY <2>1, FoldDigits
  <2>3. w[j] \in Int /\ w[i] \in Int
    BY <1>1, <1>3, <1>0 DEF ScalarVector
  <2>4. w[i] * 0 = 0 /\ w[j] + 0 = w[j]
    BY <2>3
  <2> QED BY <1>2, <1>4, <2>2, <2>4
<1>5. \A j \in i .. hi : u[j] = 0
  <2> SUFFICES ASSUME NEW j \in i .. hi PROVE u[j] = 0
    OBVIOUS
  <2>1. j \in 0 .. 2 * M /\ j >= t
    BY <1>0
  <2>2. CASE j = i
    BY <1>2, <2>1, <2>2
  <2>3. CASE j # i
    <3>1. j \in hi - (m - 1) + 1 .. hi
      BY <1>0, <2>3
    <3> QED BY <1>1, <1>4, <2>1, <2>3, <3>1
  <2> QED BY <2>2, <2>3
<1>6. \A j \in t .. hi - m : u[j] = v[j]
  <2> SUFFICES ASSUME NEW j \in t .. hi - m PROVE u[j] = v[j]
    OBVIOUS
  <2>1. j \in 0 .. 2 * M /\ j >= t /\ j # i /\ j \in t .. hi - (m - 1)
    BY <1>0
  <2> QED BY <1>1, <1>4, <2>1
<1>7. \A j \in hi + 1 .. 2 * M : u[j] = v[j]
  <2> SUFFICES ASSUME NEW j \in hi + 1 .. 2 * M PROVE u[j] = v[j]
    OBVIOUS
  <2>1. j \in 0 .. 2 * M /\ j >= t /\ j # i
    BY <1>0
  <2> QED BY <1>1, <1>4, <2>1
<1>8. ASSUME NEW j \in 0 .. t - 1
      PROVE  u[j] \in FoldRange(X, Y, m)
  <2> DEFINE g == X * LimbHalf
             d == FoldDigit(j - (i - M))
             e == w[i] * d
             y == w[j]
             a == G(m - 1)
             b == G(m)
  <2>1. j \in 0 .. 2 * M /\ j # i /\ j - (i - M) \in Int
    BY <1>0
  <2>2. d \in -LimbHalf .. LimbHalf /\ LimbHalf \in Nat
    BY <2>1, LimbHalves DEF Folding, DigitsFit
  <2>3. u[j] = y + e
    BY <1>2, <2>1
  <2>4. y \in -(Y + a) .. Y + a
    BY <1>1 DEF FoldRange
  <2> HIDE DEF d
  <2>5. e \in -g .. g /\ g \in Nat
    BY <1>0, <1>3, <2>2, ProductBound
  <2>6. a \in Int /\ b = a + g
    <3>1. a = (m - 1) * g /\ b = m * g
      BY DEF FoldGrowth
    <3> HIDE DEF a, b, g
    <3> QED BY <1>0, <2>5, <3>1
  <2> HIDE DEF g, e, y, a, b
  <2>7. y + e \in -(Y + b) .. Y + b
    BY <1>0, <2>4, <2>5, <2>6
  <2> QED BY <2>3, <2>7 DEF b, FoldRange
<1>9. u \in {z \in ScalarVector :
              /\ \A j \in i .. hi : z[j] = 0
              /\ \A j \in t .. hi - m : z[j] = v[j]
              /\ \A j \in hi + 1 .. 2 * M : z[j] = v[j]
              /\ GrownBelow(z, t, X, Y, m)}
  <2>1. GrownBelow(u, t, X, Y, m)
    BY <1>8 DEF GrownBelow
  <2> HIDE DEF G, t, i
  <2> QED BY <1>2, <1>5, <1>6, <1>7, <2>1
<1> QED BY <1>9 DEF FoldedTo, u

\* The limbs a fold visits, from the top down.
LEMMA DownToTyped ==
  ASSUME NEW hi \in Int, NEW lo \in Int, lo <= hi
  PROVE  /\ Len(DownTo(hi, lo)) = hi - lo + 1
         /\ \A m \in 1 .. hi - lo + 1 : DownTo(hi, lo)[m] = hi - m + 1
<1> DEFINE s == DownTo(hi, lo)
           n == hi - lo + 1
<1>1. s = [m \in 1 .. n |-> hi - m + 1] /\ n \in Nat
  BY DEF DownTo
<1>2. s \in Seq(Int)
  <2>1. lo .. hi \subseteq Int
    OBVIOUS
  <2> QED BY <2>1, Downward
<1> HIDE DEF s, n
<1>3. DOMAIN s = 1 .. n /\ DOMAIN s = 1 .. Len(s) /\ Len(s) \in Nat
  BY <1>1, <1>2
<1>4. Len(s) = n
  BY <1>1, <1>3
<1> QED BY <1>1, <1>4 DEF s, n

\* A whole folding pass.
LEMMA FoldPass ==
  ASSUME NEW hi, NEW lo, NEW X, NEW Y, NEW v, Folding(hi, lo, X, Y, v)
  PROVE  OnePassOver(v, <<"fold", DownTo(hi, lo)>>) \in FoldedTo(hi, lo, X, Y, v, hi - lo + 1)
<1> DEFINE s == DownTo(hi, lo)
           p == <<"fold", s>>
           n == hi - lo + 1
           F(m) == FoldedTo(hi, lo, X, Y, v, m)
           S == [m \in 0 .. n |-> F(m)]
<1>0. hi \in Int /\ lo \in Int /\ lo <= hi /\ n \in Nat /\ lo .. hi \subseteq Folded
      /\ hi \in Folded /\ v \in ScalarVector /\ X \in Nat /\ Y \in Nat /\ M \in Nat /\ Quarter \in Nat
  BY ScalarSizes DEF Folding, Folded
<1>1. s \in Seq(Folded)
  BY <1>0, Downward
<1>2. Len(s) = n /\ \A m \in 1 .. n : s[m] = hi - m + 1
  BY <1>0, DownToTyped
<1> HIDE DEF s
<1>3. p \in LimbPass /\ p[1] = "fold" /\ p[2] = s
  BY <1>1 DEF LimbPass
<1>4. v \in F(0)
  <2>1. FoldGrowth(X, 0) = 0
    BY <1>0, LimbHalves DEF FoldGrowth
  <2>2. \A j \in 0 .. hi - M + Quarter - 1 : v[j] \in -(Y + 0) .. Y + 0
    BY <1>0 DEF Folding
  <2>3. \A j \in hi - 0 + 1 .. hi : v[j] = 0
    BY <1>0
  <2> QED BY <1>0, <2>1, <2>2, <2>3 DEF FoldedTo, GrownBelow, FoldRange
<1>5. ASSUME NEW m \in 1 .. n, NEW w \in F(m - 1)
      PROVE  AtLimb("fold", w, s[m]) \in F(m)
  <2>1. AtLimb("fold", w, s[m]) = Fold(w, hi - m + 1)
    BY <1>2 DEF AtLimb
  <2> QED BY <1>5, <2>1, FoldStep
<1> HIDE DEF F, n
<1>6. Handed(S, v, p)
  <2>1. \A m \in 0 .. n : S[m] = F(m)
    OBVIOUS
  <2> HIDE DEF S, p
  <2>2. v \in S[0]
    BY <1>0, <1>4, <2>1
  <2>3. ASSUME NEW m \in 1 .. Len(p[2]), NEW w \in ScalarVector, w \in S[m - 1]
        PROVE  AtLimb(p[1], w, p[2][m]) \in S[m]
    <3>1. m \in 1 .. n /\ m \in 0 .. n /\ m - 1 \in 0 .. n
      BY <1>0, <1>2, <1>3
    <3>2. w \in F(m - 1)
      BY <2>1, <2>3, <3>1
    <3> QED BY <1>3, <1>5, <2>1, <3>1, <3>2
  <2> QED BY <2>2, <2>3 DEF Handed
<1>7. OnePassOver(v, p) \in S[n]
  <2>1. Len(p[2]) = n
    BY <1>2
  <2>2. OnePassOver(v, p) \in S[Len(p[2])]
    BY <1>0, <1>3, <1>6, PassThrough
  <2> QED BY <2>1, <2>2
<1>8. OnePassOver(v, p) \in F(n)
  <2>1. n \in 0 .. n
    BY <1>0
  <2> QED BY <1>7, <2>1
<1> QED BY <1>8 DEF F, n, s

-----------------------------------------------------------------------------
(* The passes that leave nothing negative.                                   *)

\* What one floored carry writes: a digit, and its neighbour above.
LEMMA FlooredEntries ==
  ASSUME NEW w \in ScalarVector, NEW i \in Carried
  PROVE  /\ Floored(w, i) \in ScalarVector /\ NumberOf(Floored(w, i)) = NumberOf(w)
         /\ Floored(w, i)[i] \in 0 .. LimbRange - 1
         /\ \A j \in 0 .. 2 * M : j \notin {i, i + 1} => Floored(w, i)[j] = w[j]
<1> DEFINE I == 0 .. 2 * M
           R == LimbRange
           x == w[i]
           c == (x + 0) \div R
           k == i + 1
           y == x - c * R
           z == w[k] + c
           u == Floored(w, i)
<1>1. i \in I /\ k \in I /\ k # i /\ i \in 0 .. 2 * M - 1 /\ 0 \in Int
  BY ScalarSizes DEF Carried
<1>2. w \in [I -> Int] /\ R \in Nat \ {0}
  BY LimbHalves DEF ScalarVector
<1>3. u = [w EXCEPT ![i] = @ - c * R, ![k] = @ + c]
  BY DEF Floored, CarryBy, LimbRange
<1>4. u \in ScalarVector /\ NumberOf(u) = NumberOf(w)
  BY <1>1, CarryByKeeps DEF Floored
<1> HIDE DEF I, R, k, u
<1>5. x \in Int /\ w[k] \in Int
  BY <1>1, <1>2
<1> DEFINE r == x % R
<1>6. c \in Int /\ y \in 0 .. R - 1
  <2> DEFINE q == x \div R
  <2>1. x + 0 = x
    BY <1>5
  <2>2. q \in Int /\ r \in 0 .. R - 1 /\ x = R * q + r
    BY <1>2, <1>5
  <2>3. c = q
    BY <2>1
  <2>4. q \in Int /\ x \in Int /\ R \in Nat
    BY <1>2, <1>5, <2>2
  <2> HIDE DEF q, r, x
  <2>5. x - q * R = r
    BY <2>2, <2>4
  <2>6. c \in Int
    BY <2>3, <2>4
  <2> HIDE DEF c
  <2>7. y = r
    BY <2>3, <2>5
  <2> HIDE DEF y
  <2> QED BY <2>2, <2>6, <2>7
<1> HIDE DEF c
<1>7. y \in Int /\ z \in Int
  BY <1>2, <1>5, <1>6
<1>8. u = [w EXCEPT ![i] = y, ![k] = z]
  BY <1>1, <1>2, <1>3
<1> HIDE DEF y, z
<1>9. u[i] = y /\ \A j \in I : j \notin {i, k} => u[j] = w[j]
  BY <1>1, <1>2, <1>7, <1>8
<1> QED BY <1>4, <1>6, <1>9 DEF u, k, I, R

FlooredTo(v, m) ==
  {w \in ScalarVector :
     /\ NumberOf(w) = NumberOf(v)
     /\ \A j \in 0 .. m - 1 : w[j] \in 0 .. LimbRange - 1
     /\ \A j \in m + 1 .. 2 * M : w[j] = v[j]}

\* A whole floored pass: digits, and the same number.
LEMMA FloorPass ==
  ASSUME NEW v \in ScalarVector, NEW n \in 1 .. M
  PROVE  OnePassOver(v, <<"floor", UpFrom(0, n - 1, 1)>>) \in FlooredTo(v, n)
<1> DEFINE s == UpFrom(0, n - 1, 1)
           p == <<"floor", s>>
           F(m) == FlooredTo(v, m)
           S == [m \in 0 .. n |-> F(m)]
<1>0. /\ n \in Nat /\ n >= 1 /\ M \in Nat /\ 0 \in Int /\ n - 1 \in Int /\ 0 <= n - 1 /\ 1 \in {1, 2}
      /\ 0 .. n - 1 \subseteq Carried /\ (n - 1 - 0) \div 1 + 1 = n
  BY ScalarSizes DEF Carried
<1>1. s \in Seq(Carried)
  BY <1>0, Upward
<1>2. Len(s) = n /\ \A m \in 1 .. n : s[m] = m - 1
  <2>1. s = [m \in 1 .. n |-> 0 + (m - 1) * 1]
    BY <1>0 DEF UpFrom
  <2>2. DOMAIN s = 1 .. n
    BY <2>1
  <2>3. DOMAIN s = 1 .. Len(s) /\ Len(s) \in Nat
    BY <1>1
  <2> HIDE DEF s
  <2>4. Len(s) = n
    BY <1>0, <2>2, <2>3
  <2>5. \A m \in 1 .. n : 0 + (m - 1) * 1 = m - 1
    BY <1>0
  <2> QED BY <2>1, <2>4, <2>5
<1> HIDE DEF s
<1>3. p \in LimbPass /\ p[1] = "floor" /\ p[2] = s
  BY <1>1 DEF LimbPass
<1>4. v \in F(0)
  BY DEF FlooredTo
<1>5. ASSUME NEW m \in 1 .. n, NEW w \in F(m - 1)
      PROVE  AtLimb("floor", w, s[m]) \in F(m)
  <2> DEFINE i == m - 1
             u == Floored(w, i)
  <2>1. AtLimb("floor", w, s[m]) = u
    BY <1>2 DEF AtLimb
  <2>2. i \in Carried /\ i \in Int /\ i + 1 = m /\ m \in Nat /\ m <= M
    BY <1>0
  <2>3. /\ w \in ScalarVector /\ NumberOf(w) = NumberOf(v)
        /\ \A j \in 0 .. i - 1 : w[j] \in 0 .. LimbRange - 1
        /\ \A j \in i + 1 .. 2 * M : w[j] = v[j]
    BY DEF FlooredTo
  <2>4. /\ u \in ScalarVector /\ NumberOf(u) = NumberOf(w) /\ u[i] \in 0 .. LimbRange - 1
        /\ \A j \in 0 .. 2 * M : j \notin {i, i + 1} => u[j] = w[j]
    BY <2>2, <2>3, FlooredEntries
  <2> HIDE DEF u, i
  <2>5. \A j \in 0 .. m - 1 : u[j] \in 0 .. LimbRange - 1
    <3> SUFFICES ASSUME NEW j \in 0 .. m - 1 PROVE u[j] \in 0 .. LimbRange - 1
      OBVIOUS
    <3>1. CASE j = i
      BY <2>4, <3>1
    <3>2. CASE j # i
      <4>1. j \in 0 .. i - 1 /\ j \in 0 .. 2 * M /\ j \notin {i, i + 1}
        BY <1>0, <2>2, <3>2
      <4> QED BY <2>3, <2>4, <4>1
    <3> QED BY <3>1, <3>2
  <2>6. \A j \in m + 1 .. 2 * M : u[j] = v[j]
    <3> SUFFICES ASSUME NEW j \in m + 1 .. 2 * M PROVE u[j] = v[j]
      OBVIOUS
    <3>1. j \in i + 1 .. 2 * M /\ j \in 0 .. 2 * M /\ j \notin {i, i + 1}
      BY <1>0, <2>2
    <3> QED BY <2>3, <2>4, <3>1
  <2> QED BY <2>1, <2>3, <2>4, <2>5, <2>6 DEF FlooredTo
<1> HIDE DEF F
<1>6. Handed(S, v, p)
  <2>1. \A m \in 0 .. n : S[m] = F(m)
    OBVIOUS
  <2> HIDE DEF S, p
  <2>2. v \in S[0]
    BY <1>0, <1>4, <2>1
  <2>3. ASSUME NEW m \in 1 .. Len(p[2]), NEW w \in ScalarVector, w \in S[m - 1]
        PROVE  AtLimb(p[1], w, p[2][m]) \in S[m]
    <3>1. m \in 1 .. n /\ m \in 0 .. n /\ m - 1 \in 0 .. n
      BY <1>0, <1>2, <1>3
    <3>2. w \in F(m - 1)
      BY <2>1, <2>3, <3>1
    <3> QED BY <1>3, <1>5, <2>1, <3>1, <3>2
  <2> QED BY <2>2, <2>3 DEF Handed
<1>7. OnePassOver(v, p) \in S[n]
  <2>1. Len(p[2]) = n
    BY <1>2
  <2>2. OnePassOver(v, p) \in S[Len(p[2])]
    BY <1>3, <1>6, PassThrough
  <2> QED BY <2>1, <2>2
<1>8. OnePassOver(v, p) \in F(n)
  <2>1. n \in 0 .. n
    BY <1>0
  <2> QED BY <1>7, <2>1
<1> QED BY <1>8 DEF F, s

\* One limb folded on its own.
LEMMA FoldAlone ==
  ASSUME NEW v \in ScalarVector
  PROVE  OnePassOver(v, << "fold", <<M>> >>) = Fold(v, M)
<1> DEFINE p == << "fold", <<M>> >>
<1>1. p \in LimbPass /\ p[1] = "fold" /\ p[2] = <<M>> /\ Len(p[2]) = 1 /\ p[2][1] = M
  <2>1. M \in Folded
    BY ScalarSizes DEF Folded
  <2>2. <<M>> \in Seq(Folded)
    BY <2>1
  <2>3. p \in LimbPass
    BY <2>2 DEF LimbPass
  <2> QED BY <2>3
<1> HIDE DEF p
<1>2. /\ PassTable(v, p)[0] = v
      /\ \A m \in 1 .. Len(p[2]) : PassTable(v, p)[m] = AtLimb(p[1], PassTable(v, p)[m - 1], p[2][m])
      /\ OnePassOver(v, p) = PassTable(v, p)[Len(p[2])]
  BY <1>1, PassTabled
<1>3. OnePassOver(v, p) = AtLimb(p[1], v, p[2][1])
  <2>1. 1 \in 1 .. Len(p[2]) /\ 1 - 1 = 0
    BY <1>1
  <2> QED BY <1>1, <1>2, <2>1
<1> QED BY <1>1, <1>3 DEF AtLimb, p

-----------------------------------------------------------------------------
(* How much is carried out of a bounded limb.                                *)

\* The largest carry out of a limb within x, one carry in counted.
CarryOf(x) == (x + LimbHalf) \div (LimbRange - 1) + 1

\* CarryOf bounds the carry of a limb within x.
LEMMA CarryOfFits ==
  ASSUME NEW X \in Nat, NEW x \in 0 .. X
  PROVE  CarryOf(X) \in Nat /\ CarryFits(CarryOf(X), x + CarryOf(X))
<1> DEFINE R == LimbRange
           H == LimbHalf
           d == R - 1
           q == (X + H) \div d
           r == (X + H) % d
           C == CarryOf(X)
<1>0. R \in Nat /\ R >= 2 /\ H \in Nat /\ d \in Nat \ {0}
  BY LimbHalves
<1>1. C = q + 1
  BY DEF CarryOf
<1> HIDE DEF R, H, C
<1>2. X + H \in Nat
  BY <1>0
<1> DEFINE s == X + H
<1>3. s \in Nat /\ q = s \div d /\ r = s % d
  BY <1>2
<1> HIDE DEF s, d, q, r
<1>4. q \in Int /\ r \in 0 .. d - 1 /\ s = d * q + r
  BY <1>0, <1>3
<1>5. q >= 0
  <2> SUFFICES ASSUME q <= -1 PROVE FALSE
    BY <1>4
  <2>1. d * q <= d * (-1)
    BY <1>0, <1>4
  <2>2. d * (-1) = -d /\ d * q \in Int
    BY <1>0, <1>4
  <2> QED BY <1>0, <1>3, <1>4, <2>1, <2>2
<1>6. C \in Nat
  BY <1>1, <1>4, <1>5
<1>7. d * C = d * q + d /\ d * q \in Int
  BY <1>0, <1>1, <1>4
<1>8. s <= d * C
  BY <1>0, <1>4, <1>7
<1>9. d * C = C * R - C /\ C * R \in Nat
  BY <1>0, <1>6 DEF d
<1>10. x + C + H <= C * R
  BY <1>0, <1>6, <1>8, <1>9 DEF s
<1> QED BY <1>6, <1>10 DEF CarryFits, C, R, H

\* The limbs from a to b - 1 rounded.
Settled(u, a, b, x, C) ==
  /\ u \in ScalarVector /\ C \in Nat
  /\ \A j \in a .. b - 1 : u[j] \in -(LimbHalf + C) .. LimbHalf + C
  /\ \A j \in 0 .. 2 * M : j < a \/ j > b => u[j] \in -x[j] .. x[j]
  /\ u[b] \in -(x[b] + C) .. x[b] + C

\* A pass over every other limb and then over those between: what is left is
\* small, what leaves it at the top is one carry.
LEMMA RoundedUp ==
  ASSUME NEW a \in Nat, NEW n \in Nat, NEW m \in Nat, m >= 1, n \in {m, m + 1},
         a + n + m - 1 <= 2 * M - 1,
         NEW X \in Nat, NEW x \in [0 .. 2 * M -> 0 .. X],
         NEW v \in ScalarVector, \A j \in 0 .. 2 * M : v[j] \in -x[j] .. x[j]
  PROVE  LET u == OnePassOver(v, <<"round", EveryOther(a, n, m)>>)
         IN  /\ Settled(u, a, a + n + m, x, CarryOf(X))
             /\ n = m => u[a + n + m - 1] \in -LimbHalf .. LimbHalf
<1> DEFINE s == EveryOther(a, n, m)
           u == OnePassOver(v, <<"round", s>>)
           C == CarryOf(X)
           b == a + n + m
           B(j) == RoundBound(s, x, C, Len(s), j)
<1>0. /\ C \in Nat /\ LimbHalf \in Nat /\ b \in 0 .. 2 * M /\ a < b /\ b \in Nat
      /\ M \in Nat /\ b - 1 \in 0 .. 2 * M /\ \A j \in 0 .. 2 * M : j \in Int
  <2>1. 0 \in 0 .. X
    OBVIOUS
  <2>2. C \in Nat
    BY <2>1, CarryOfFits
  <2> HIDE DEF C
  <2> QED BY <2>2, LimbHalves, ScalarSizes
<1>1. /\ s \in Seq(Carried) /\ Once(s)
      /\ \A j \in Int : Visited(s, Len(s), j) <=> j \in a .. b - 1
      /\ \A j \in Int : Entered(s, Len(s), j) => j \in a + 1 .. b
      /\ n = m => ~Entered(s, Len(s), b - 1)
  <2>1. s \in Seq(Carried) /\ Once(s)
    BY EveryOtherVisits
  <2>2. \A j \in Int : Visited(s, Len(s), j) <=> j \in a .. a + n + m - 1
    BY EveryOtherVisits
  <2>3. \A j \in Int : Entered(s, Len(s), j) => j \in a + 1 .. a + n + m
    BY EveryOtherVisits
  <2>4. n = m => ~Entered(s, Len(s), a + n + m - 1)
    BY EveryOtherVisits
  <2> HIDE DEF s
  <2> QED BY <2>1, <2>2, <2>3, <2>4 DEF b
<1>2. \A j \in 0 .. 2 * M : x[j] \in 0 .. X /\ x[j] \in Nat
  OBVIOUS
<1>3. Rounding(s, x, C, v)
  <2>1. \A j \in 0 .. 2 * M : CarryFits(C, x[j] + C)
    BY <1>2, CarryOfFits
  <2>2. x \in [0 .. 2 * M -> Nat]
    BY <1>2
  <2> HIDE DEF s, C
  <2> QED BY <1>1, <2>1, <2>2 DEF Rounding
<1>4. u \in ScalarVector /\ \A j \in 0 .. 2 * M : u[j] \in -B(j) .. B(j)
  BY <1>3, RoundPass
<1>5. \A j \in 0 .. 2 * M :
        B(j) = (IF j \in a .. b - 1 THEN LimbHalf ELSE x[j])
                 + (IF Entered(s, Len(s), j) THEN C ELSE 0)
  BY <1>0, <1>1 DEF RoundBound
<1>z. \A j \in 0 .. 2 * M : (IF Entered(s, Len(s), j) THEN C ELSE 0) \in {0, C}
  OBVIOUS
<1> HIDE DEF B, u, s, C, b
<1>6. ASSUME NEW j \in a .. b - 1
      PROVE  u[j] \in -(LimbHalf + C) .. LimbHalf + C
  <2>1. j \in 0 .. 2 * M
    BY <1>0
  <2> DEFINE e == IF Entered(s, Len(s), j) THEN C ELSE 0
             y == B(j)
             z == u[j]
  <2>2. e \in {0, C} /\ y = LimbHalf + e /\ z \in -y .. y
    BY <1>4, <1>5, <1>z, <2>1
  <2> HIDE DEF e, y, z
  <2>3. z \in -(LimbHalf + C) .. LimbHalf + C
    BY <1>0, <2>2
  <2> QED BY <2>3 DEF z
<1>7. ASSUME NEW j \in 0 .. 2 * M, j < a \/ j > b
      PROVE  u[j] \in -x[j] .. x[j]
  <2>1. ~Entered(s, Len(s), j) /\ j \notin a .. b - 1
    BY <1>0, <1>1, <1>7
  <2>2. B(j) = x[j]
    BY <1>2, <1>5, <2>1
  <2> QED BY <1>4, <2>2
<1>8. u[b] \in -(x[b] + C) .. x[b] + C
  <2>1. b \notin a .. b - 1 /\ x[b] \in Nat
    BY <1>0, <1>2
  <2> DEFINE e == IF Entered(s, Len(s), b) THEN C ELSE 0
             y == B(b)
             z == u[b]
             k == x[b]
  <2>2. e \in {0, C} /\ y = k + e /\ z \in -y .. y /\ k \in Nat
    BY <1>0, <1>4, <1>5, <1>z, <2>1
  <2> HIDE DEF e, y, z, k
  <2>3. z \in -(k + C) .. k + C
    BY <1>0, <2>2
  <2> QED BY <2>3 DEF z, k
<1>9. ASSUME n = m PROVE u[b - 1] \in -LimbHalf .. LimbHalf
  <2>1. b - 1 \in a .. b - 1 /\ ~Entered(s, Len(s), b - 1)
    BY <1>0, <1>1, <1>9
  <2>2. B(b - 1) = LimbHalf
    BY <1>0, <1>5, <2>1
  <2> QED BY <1>0, <1>4, <2>2
<1>10. \A j \in a .. b - 1 : u[j] \in -(LimbHalf + C) .. LimbHalf + C
  BY <1>6
<1>11. \A j \in 0 .. 2 * M : j < a \/ j > b => u[j] \in -x[j] .. x[j]
  BY <1>7
<1>12. n = m => u[b - 1] \in -LimbHalf .. LimbHalf
  BY <1>9
<1>13. Settled(u, a, b, x, C)
  BY <1>0, <1>4, <1>8, <1>10, <1>11 DEF Settled
<1> QED BY <1>12, <1>13 DEF u, s, C, b

-----------------------------------------------------------------------------
(* What a limb may hold before each pass.                                    *)

TopLimb(bits, n) == Power(2, bits) \div ScalarPlace[n - 1]
FactorMost == LimbRange + TopLimb(ScalarBits, M)
Most1 == FactorMost + M * (FactorMost * FactorMost)
Most2 == LimbHalf + CarryOf(Most1) + LimbRange + TopLimb(DigestBits, 2 * M)
Most3 == Most2 + FoldGrowth(Most2, Quarter)
Most4 == Most2 + LimbHalf + CarryOf(Most3)
Most5 == Most3 + Most4 + FoldGrowth(Most4, Quarter)
LastCarry == CarryOf(Most5)
Most7 == LimbHalf + LastCarry + LastCarry * LimbHalf

\* Digits of delta no wider than a rounded limb, an order not below the power
\* of two it is near, and limbs wide enough for what the passes leave.
ScalarsFit ==
  /\ \A k \in 0 .. Quarter - 1 : FoldDigit(k) \in -LimbHalf .. LimbHalf
  /\ ScalarOrder >= ScalarPlace[M]
  /\ 2 * LimbHalf + 3 * LastCarry < LimbHalf * LimbRange

\* Limbs within bounds.
Between(v, a, b, X) == \A j \in a .. b : v[j] \in -X .. X
NothingFrom(v, a) == \A j \in a .. 2 * M : v[j] = 0
Digitwise(v, n) == \A j \in 0 .. n - 1 : v[j] \in 0 .. LimbRange - 1

\* What the vector satisfies before each pass, and after the last.
Before1(v) == Between(v, 0, 2 * M - 2, Most1) /\ NothingFrom(v, 2 * M - 1)
Before2(v) == Between(v, 0, 2 * M - 1, Most2) /\ NothingFrom(v, 2 * M)
Before3(v) ==
  /\ Between(v, 0, M + Quarter - 2, Most3)
  /\ v[M + Quarter - 1] \in -Most2 .. Most2
  /\ NothingFrom(v, M + Quarter)
Before4(v) ==
  /\ Between(v, 0, Quarter - 1, Most3)
  /\ Between(v, Quarter, M + Quarter - 1, Most4)
  /\ NothingFrom(v, M + Quarter)
Before5(v) == Between(v, 0, M - 1, Most5) /\ NothingFrom(v, M)
Before6(v) ==
  /\ Between(v, 0, M - 2, LimbHalf + LastCarry)
  /\ v[M - 1] \in -LimbHalf .. LimbHalf
  /\ v[M] \in -LastCarry .. LastCarry
  /\ NothingFrom(v, M + 1)
Before7(v) ==
  /\ NumberOf(v) \in -ScalarPlace[M] .. ScalarPlace[M] - 1
  /\ Between(v, 0, M - 1, Most7) /\ NothingFrom(v, M)
Before8(v) ==
  /\ NumberOf(v) \in -ScalarPlace[M] .. ScalarPlace[M] - 1
  /\ Digitwise(v, M) /\ NothingFrom(v, M + 1)
Before9(v) ==
  /\ NumberOf(v) \in 0 .. ScalarOrder - 1
  /\ Between(v, 0, M - 1, LimbRange + LimbHalf) /\ NothingFrom(v, M)
AtTheEnd(v) ==
  /\ NumberOf(v) \in 0 .. ScalarOrder - 1
  /\ Digitwise(v, M - 1) /\ v[M - 1] \in 0 .. LimbRange /\ NothingFrom(v, M)

\* What a fold adds is a number.
LEMMA GrowthTyped ==
  ASSUME NEW X \in Nat, NEW n \in Nat
  PROVE  FoldGrowth(X, n) \in Nat
BY LimbHalves DEF FoldGrowth

\* The top limb of what is loaded.
LEMMA TopTyped ==
  ASSUME NEW bits \in Nat, NEW n \in 1 .. 2 * M
  PROVE  TopLimb(bits, n) \in Nat
<1>1. Power(2, bits) \in Nat
  BY PowerSteps
<1>2. n - 1 \in 0 .. 2 * M
  BY ScalarSizes
<1>3. ScalarPlace[n - 1] \in Nat \ {0}
  BY <1>2, ScalarPlaces
<1> DEFINE p == Power(2, bits)
           q == ScalarPlace[n - 1]
<1> HIDE DEF p, q
<1>4. p \in Nat /\ q \in Nat \ {0}
  BY <1>1, <1>3 DEF p, q
<1>5. p \div q \in Nat
  BY <1>4
<1> QED BY <1>5 DEF TopLimb, p, q

\* The bounds are numbers.
LEMMA MostTyped ==
  /\ FactorMost \in Nat /\ Most1 \in Nat /\ Most2 \in Nat /\ Most3 \in Nat /\ Most4 \in Nat
  /\ Most5 \in Nat /\ LastCarry \in Nat /\ Most7 \in Nat
  /\ CarryOf(Most1) \in Nat /\ CarryOf(Most3) \in Nat
<1>0. /\ LimbHalf \in Nat /\ LimbRange \in Nat /\ M \in Nat /\ Quarter \in Nat
      /\ ScalarBits \in Nat /\ DigestBits \in Nat /\ M \in 1 .. 2 * M /\ 2 * M \in 1 .. 2 * M
  BY LimbHalves, ScalarSizes, ScalarAssumption
<1>1. TopLimb(ScalarBits, M) \in Nat /\ TopLimb(DigestBits, 2 * M) \in Nat
  BY <1>0, TopTyped
<1>2. \A X \in Nat : CarryOf(X) \in Nat
  <2> SUFFICES ASSUME NEW X \in Nat PROVE CarryOf(X) \in Nat
    OBVIOUS
  <2>1. 0 \in 0 .. X
    OBVIOUS
  <2> QED BY <2>1, CarryOfFits
<1>3. FactorMost \in Nat
  BY <1>0, <1>1 DEF FactorMost
<1>4. Most1 \in Nat
  BY <1>0, <1>3 DEF Most1
<1>5. CarryOf(Most1) \in Nat /\ Most2 \in Nat
  BY <1>0, <1>1, <1>2, <1>4 DEF Most2
<1>6. Most3 \in Nat
  <2>1. FoldGrowth(Most2, Quarter) \in Nat
    BY <1>0, <1>5, GrowthTyped
  <2> QED BY <1>5, <2>1 DEF Most3
<1>7. CarryOf(Most3) \in Nat /\ Most4 \in Nat
  BY <1>0, <1>2, <1>5, <1>6 DEF Most4
<1>8. Most5 \in Nat
  <2>1. FoldGrowth(Most4, Quarter) \in Nat
    BY <1>0, <1>7, GrowthTyped
  <2> QED BY <1>6, <1>7, <2>1 DEF Most5
<1>9. LastCarry \in Nat
  BY <1>2, <1>8 DEF LastCarry
<1>10. Most7 \in Nat
  BY <1>0, <1>9 DEF Most7
<1> QED BY <1>3, <1>4, <1>5, <1>6, <1>7, <1>8, <1>9, <1>10

-----------------------------------------------------------------------------
(* The nine passes.                                                          *)

\* M is twice Quarter.
LEMMA Quarters ==
  /\ M \in Nat /\ M >= 4 /\ Quarter \in Nat /\ Quarter >= 2 /\ M = 2 * Quarter
BY ScalarSizes

\* Past the digits of -delta there are zeros.
LEMMA FitDigits == ScalarsFit => DigitsFit
<1> SUFFICES ASSUME ScalarsFit, NEW k \in Int PROVE FoldDigit(k) \in -LimbHalf .. LimbHalf
  BY DEF DigitsFit
<1>1. CASE k \in 0 .. Quarter - 1
  BY <1>1 DEF ScalarsFit
<1>2. CASE k \notin 0 .. Quarter - 1
  <2>1. FoldDigit(k) = 0
    BY <1>2, FoldDigits
  <2> QED BY <2>1, LimbHalves
<1> QED BY <1>1, <1>2

\* The nine passes of sc_reduce and sc_muladd (sc.c).
LEMMA PassList ==
  /\ Len(Passes) = 9
  /\ Passes[1] = <<"round", EveryOther(0, M, M - 1)>>
  /\ Passes[2] = <<"fold", DownTo(2 * M - 1, M + Quarter)>>
  /\ Passes[3] = <<"round", EveryOther(Quarter, Quarter, Quarter - 1)>>
  /\ Passes[4] = <<"fold", DownTo(M + Quarter - 1, M)>>
  /\ Passes[5] = <<"round", EveryOther(0, Quarter, Quarter)>>
  /\ Passes[6] = << "fold", <<M>> >>
  /\ Passes[7] = <<"floor", UpFrom(0, M - 1, 1)>>
  /\ Passes[8] = << "fold", <<M>> >>
  /\ Passes[9] = <<"floor", UpFrom(0, (M - 1) - 1, 1)>>
<1> DEFINE Q == Quarter
           p1 == <<"round", UpFrom(0, 2 * M - 2, 2) \o UpFrom(1, 2 * M - 3, 2)>>
           p2 == <<"fold", DownTo(2 * M - 1, M + Q)>>
           p3 == <<"round", UpFrom(Q, M + Q - 2, 2) \o UpFrom(Q + 1, M + Q - 3, 2)>>
           p4 == <<"fold", DownTo(M + Q - 1, M)>>
           p5 == <<"round", UpFrom(0, M - 2, 2) \o UpFrom(1, M - 1, 2)>>
           p6 == << "fold", <<M>> >>
           p7 == <<"floor", UpFrom(0, M - 1, 1)>>
           p9 == <<"floor", UpFrom(0, M - 2, 1)>>
<1>1. p1 = <<"round", EveryOther(0, M, M - 1)>>
  <2>1. 0 + 2 * M - 2 = 2 * M - 2 /\ 0 + 1 = 1 /\ 0 + 2 * (M - 1) - 1 = 2 * M - 3
    BY Quarters
  <2> QED BY <2>1 DEF EveryOther
<1>2. p3 = <<"round", EveryOther(Q, Q, Q - 1)>>
  <2>1. Q + 2 * Q - 2 = M + Q - 2 /\ Q + 2 * (Q - 1) - 1 = M + Q - 3
    BY Quarters
  <2> HIDE DEF Q
  <2> QED BY <2>1 DEF EveryOther
<1>3. p5 = <<"round", EveryOther(0, Q, Q)>>
  <2>1. 0 + 2 * Q - 2 = M - 2 /\ 0 + 1 = 1 /\ 0 + 2 * Q - 1 = M - 1
    BY Quarters
  <2> HIDE DEF Q
  <2> QED BY <2>1 DEF EveryOther
<1>4. p9 = <<"floor", UpFrom(0, (M - 1) - 1, 1)>>
  <2>1. (M - 1) - 1 = M - 2
    BY Quarters
  <2> QED BY <2>1
<1>5. Passes = <<p1, p2, p3, p4, p5, p6, p7>> \o <<p6, p9>>
  BY DEF Passes, PassesToFloor
<1> HIDE DEF p1, p2, p3, p4, p5, p6, p7, p9
<1> DEFINE P == {p1, p2, p3, p4, p5, p6, p7, p9}
           s == <<p1, p2, p3, p4, p5, p6, p7>>
           t == <<p6, p9>>
<1>6. s \in Seq(P) /\ t \in Seq(P) /\ Len(s) = 7 /\ Len(t) = 2
      /\ s[1] = p1 /\ s[2] = p2 /\ s[3] = p3 /\ s[4] = p4 /\ s[5] = p5 /\ s[6] = p6 /\ s[7] = p7
      /\ t[1] = p6 /\ t[2] = p9
  OBVIOUS
<1> HIDE DEF P, s, t
<1>8. /\ Len(s \o t) = Len(s) + Len(t)
      /\ \A i \in 1 .. Len(s) + Len(t) : (s \o t)[i] = IF i <= Len(s) THEN s[i] ELSE t[i - Len(s)]
  BY <1>6, ConcatProperties
<1>9. Passes = s \o t
  BY <1>5 DEF s, t
<1>7. /\ Len(Passes) = 9 /\ Passes[1] = p1 /\ Passes[2] = p2 /\ Passes[3] = p3 /\ Passes[4] = p4
      /\ Passes[5] = p5 /\ Passes[6] = p6 /\ Passes[7] = p7 /\ Passes[8] = p6 /\ Passes[9] = p9
  <2>1. Len(Passes) = 9 /\ \A i \in 1 .. 9 : Passes[i] = IF i <= 7 THEN s[i] ELSE t[i - 7]
    <3>1. Len(s) + Len(t) = 9
      BY <1>6
    <3> QED BY <1>6, <1>8, <1>9, <3>1
  <2>2. \A i \in 1 .. 7 : Passes[i] = s[i]
    BY <2>1
  <2>3. Passes[8] = t[1] /\ Passes[9] = t[2]
    BY <2>1
  <2>4. /\ Passes[1] = s[1] /\ Passes[2] = s[2] /\ Passes[3] = s[3] /\ Passes[4] = s[4]
        /\ Passes[5] = s[5] /\ Passes[6] = s[6] /\ Passes[7] = s[7]
    BY <2>2
  <2> QED BY <1>6, <2>1, <2>3, <2>4
<1> QED BY <1>1, <1>2, <1>3, <1>4, <1>7 DEF p2, p4, p6, p7

\* The first pass: products within the first bound.
LEMMA Pass1 ==
  ASSUME NEW v \in ScalarVector, Before1(v)
  PROVE  Before2(OnePassOver(v, Passes[1]))
<1> DEFINE u == OnePassOver(v, Passes[1])
           x == [j \in 0 .. 2 * M |-> IF j <= 2 * M - 2 THEN Most1 ELSE 0]
           C == CarryOf(Most1)
           k == 0 + M + (M - 1)
           m == M - 1
<1>0. /\ M \in Nat /\ M >= 4 /\ Most1 \in Nat /\ Most2 \in Nat /\ C \in Nat /\ LimbHalf \in Nat
      /\ LimbHalf + C <= Most2 /\ k = 2 * M - 1 /\ M + M = 2 * M
  <2>1. TopLimb(DigestBits, 2 * M) \in Nat
    BY TopTyped, ScalarSizes, ScalarAssumption
  <2> QED BY <2>1, Quarters, MostTyped, LimbHalves DEF Most2
<1>1. x \in [0 .. 2 * M -> 0 .. Most1] /\ \A j \in 0 .. 2 * M : x[j] = IF j <= 2 * M - 2 THEN Most1 ELSE 0
  BY <1>0
<1>2. \A j \in 0 .. 2 * M : v[j] \in -x[j] .. x[j]
  <2> SUFFICES ASSUME NEW j \in 0 .. 2 * M PROVE v[j] \in -x[j] .. x[j]
    OBVIOUS
  <2>1. CASE j <= 2 * M - 2
    <3>1. x[j] = Most1
      BY <1>1, <2>1
    <3> QED BY <2>1, <3>1 DEF Before1, Between
  <2>2. CASE j > 2 * M - 2
    <3>1. x[j] = 0 /\ v[j] = 0
      BY <1>0, <1>1, <2>2 DEF Before1, NothingFrom
    <3> QED BY <3>1
  <2> QED BY <1>0, <2>1, <2>2
<1> HIDE DEF x
<1>3. Settled(u, 0, k, x, C)
  <2>1. /\ 0 \in Nat /\ M \in Nat /\ m \in Nat /\ m >= 1 /\ M \in {m, m + 1}
        /\ 0 + M + m - 1 <= 2 * M - 1
    BY <1>0
  <2>2. Settled(OnePassOver(v, <<"round", EveryOther(0, M, m)>>), 0, 0 + M + m, x, C)
    BY <1>0, <1>1, <1>2, <2>1, RoundedUp
  <2> QED BY <2>2, PassList
<1> HIDE DEF u, k, C
<1>4. \A j \in 0 .. 2 * M - 1 : u[j] \in -Most2 .. Most2
  <2> SUFFICES ASSUME NEW j \in 0 .. 2 * M - 1 PROVE u[j] \in -Most2 .. Most2
    OBVIOUS
  <2>1. CASE j <= 2 * M - 2
    <3>1. j \in 0 .. k - 1
      BY <1>0, <2>1
    <3>2. u[j] \in -(LimbHalf + C) .. LimbHalf + C
      BY <1>3, <3>1 DEF Settled
    <3> QED BY <1>0, <3>2
  <2>2. CASE j = 2 * M - 1
    <3>1. x[k] = 0 /\ j = k
      BY <1>0, <1>1, <2>2
    <3>2. u[j] \in -(0 + C) .. 0 + C
      BY <1>3, <3>1 DEF Settled
    <3> QED BY <1>0, <3>2
  <2> QED BY <1>0, <2>1, <2>2
<1>5. \A j \in 2 * M .. 2 * M : u[j] = 0
  <2>1. 2 * M \in 0 .. 2 * M /\ 2 * M > k
    BY <1>0
  <2>2. x[2 * M] = 0
    BY <1>0, <1>1, <2>1
  <2>3. u[2 * M] \in -0 .. 0
    BY <1>3, <2>1, <2>2 DEF Settled
  <2> QED BY <1>0, <2>3
<1> QED BY <1>4, <1>5 DEF Before2, Between, NothingFrom, u

\* The upper half of the upper half folds.
LEMMA Pass2 ==
  ASSUME NEW v \in ScalarVector, ScalarsFit, Before2(v)
  PROVE  Before3(OnePassOver(v, Passes[2]))
<1> DEFINE hi == 2 * M - 1
           lo == M + Quarter
           n == hi - lo + 1
           u == OnePassOver(v, Passes[2])
           X == Most2
<1>0. /\ M \in Nat /\ Quarter \in Nat /\ Quarter >= 2 /\ M = 2 * Quarter /\ X \in Nat /\ Most3 \in Nat
      /\ n = Quarter /\ hi - M + Quarter = M + Quarter - 1 /\ FoldGrowth(X, Quarter) \in Nat
      /\ Most3 = X + FoldGrowth(X, Quarter)
  <2>1. FoldGrowth(X, Quarter) \in Nat
    BY Quarters, MostTyped, GrowthTyped
  <2> QED BY <2>1, Quarters, MostTyped DEF Most3
<1>1. \A j \in 0 .. 2 * M - 1 : v[j] \in -X .. X
  BY DEF Before2, Between
<1>2. v[2 * M] = 0
  BY <1>0 DEF Before2, NothingFrom
<1>3. Folding(hi, lo, X, X, v)
  <2>1. lo \in Folded /\ hi \in Folded /\ lo <= hi /\ hi - M + Quarter <= lo
    BY <1>0 DEF Folded
  <2>2. \A j \in lo .. hi : v[j] \in -X .. X
    BY <1>0, <1>1
  <2>3. \A j \in 0 .. hi - M + Quarter - 1 : v[j] \in -X .. X
    BY <1>0, <1>1
  <2> HIDE DEF lo, hi, X
  <2> QED BY <1>0, <2>1, <2>2, <2>3, FitDigits DEF Folding
<1>4. u \in FoldedTo(hi, lo, X, X, v, n)
  BY <1>3, FoldPass, PassList
<1> HIDE DEF u, X
<1>5. /\ \A j \in hi - n + 1 .. hi : u[j] = 0
      /\ \A j \in hi - M + Quarter .. hi - n : u[j] = v[j]
      /\ \A j \in hi + 1 .. 2 * M : u[j] = v[j]
      /\ GrownBelow(u, hi - M + Quarter, X, X, n)
  BY <1>4 DEF FoldedTo
<1>6. \A j \in 0 .. M + Quarter - 2 : u[j] \in -Most3 .. Most3
  <2> SUFFICES ASSUME NEW j \in 0 .. M + Quarter - 2 PROVE u[j] \in -Most3 .. Most3
    OBVIOUS
  <2>1. j \in 0 .. hi - M + Quarter - 1
    BY <1>0
  <2>2. u[j] \in FoldRange(X, X, Quarter)
    BY <1>0, <1>5, <2>1 DEF GrownBelow
  <2> QED BY <1>0, <2>2 DEF FoldRange
<1>7. u[M + Quarter - 1] \in -Most2 .. Most2
  <2>1. M + Quarter - 1 \in hi - M + Quarter .. hi - n /\ M + Quarter - 1 \in 0 .. 2 * M - 1
    BY <1>0
  <2> QED BY <1>1, <1>5, <2>1 DEF X
<1>8. \A j \in M + Quarter .. 2 * M : u[j] = 0
  <2> SUFFICES ASSUME NEW j \in M + Quarter .. 2 * M PROVE u[j] = 0
    OBVIOUS
  <2>1. CASE j = 2 * M
    <3>1. j \in hi + 1 .. 2 * M
      BY <1>0, <2>1
    <3> QED BY <1>2, <1>5, <2>1, <3>1
  <2>2. CASE j # 2 * M
    <3>1. j \in hi - n + 1 .. hi
      BY <1>0, <2>2
    <3> QED BY <1>5, <3>1
  <2> QED BY <2>1, <2>2
<1> QED BY <1>6, <1>7, <1>8 DEF Before3, Between, NothingFrom, u

\* The limbs it was folded into are rounded.
LEMMA Pass3 ==
  ASSUME NEW v \in ScalarVector, Before3(v)
  PROVE  Before4(OnePassOver(v, Passes[3]))
<1> DEFINE Q == Quarter
           t == M + Q
           u == OnePassOver(v, Passes[3])
           x == [j \in 0 .. 2 * M |-> IF j < t - 1 THEN Most3 ELSE IF j = t - 1 THEN Most2 ELSE 0]
           C == CarryOf(Most3)
           m == Q - 1
           k == Q + Q + m
<1>0. /\ M \in Nat /\ Q \in Nat /\ Q >= 2 /\ M = 2 * Q /\ Most3 \in Nat /\ Most2 \in Nat
      /\ C \in Nat /\ LimbHalf \in Nat /\ Most2 <= Most3
      /\ Most4 = Most2 + LimbHalf + C /\ k = t - 1
  <2>1. FoldGrowth(Most2, Quarter) \in Nat
    BY Quarters, MostTyped, GrowthTyped
  <2>2. Most2 <= Most3
    BY <2>1, MostTyped DEF Most3
  <2> QED BY <2>2, Quarters, MostTyped, LimbHalves DEF Most4
<1>1. /\ x \in [0 .. 2 * M -> 0 .. Most3]
      /\ \A j \in 0 .. 2 * M : x[j] = IF j < t - 1 THEN Most3 ELSE IF j = t - 1 THEN Most2 ELSE 0
  BY <1>0
<1> HIDE DEF x
<1>2. \A j \in 0 .. 2 * M : v[j] \in -x[j] .. x[j]
  <2> SUFFICES ASSUME NEW j \in 0 .. 2 * M PROVE v[j] \in -x[j] .. x[j]
    OBVIOUS
  <2>1. CASE j < t - 1
    <3>1. x[j] = Most3 /\ j \in 0 .. M + Quarter - 2
      BY <1>0, <1>1, <2>1
    <3> QED BY <3>1 DEF Before3, Between
  <2>2. CASE j = t - 1
    <3>1. x[j] = Most2
      BY <1>0, <1>1, <2>2
    <3>2. v[t - 1] \in -Most2 .. Most2
      BY <1>0 DEF Before3
    <3> QED BY <2>2, <3>1, <3>2
  <2>3. CASE j >= t
    <3>1. x[j] = 0 /\ v[j] = 0
      BY <1>0, <1>1, <2>3 DEF Before3, NothingFrom
    <3> QED BY <3>1
  <2> QED BY <1>0, <2>1, <2>2, <2>3
<1>3. Settled(u, Q, k, x, C)
  <2>1. m \in Nat /\ m >= 1 /\ Q \in {m, m + 1} /\ Q + Q + m - 1 <= 2 * M - 1
    BY <1>0
  <2>2. Settled(OnePassOver(v, <<"round", EveryOther(Q, Q, m)>>), Q, Q + Q + m, x, C)
    BY <1>0, <1>1, <1>2, <2>1, RoundedUp
  <2> QED BY <2>2, PassList
<1> HIDE DEF u, C
<1>4. \A j \in 0 .. Q - 1 : u[j] \in -Most3 .. Most3
  <2> SUFFICES ASSUME NEW j \in 0 .. Q - 1 PROVE u[j] \in -Most3 .. Most3
    OBVIOUS
  <2>1. j \in 0 .. 2 * M /\ j < Q /\ x[j] = Most3
    BY <1>0, <1>1
  <2> QED BY <1>3, <2>1 DEF Settled
<1>5. \A j \in Q .. M + Q - 1 : u[j] \in -Most4 .. Most4
  <2> SUFFICES ASSUME NEW j \in Q .. M + Q - 1 PROVE u[j] \in -Most4 .. Most4
    OBVIOUS
  <2>1. CASE j <= k - 1
    <3>1. j \in Q .. k - 1
      BY <1>0, <2>1
    <3>2. u[j] \in -(LimbHalf + C) .. LimbHalf + C
      BY <1>3, <3>1 DEF Settled
    <3> QED BY <1>0, <3>2
  <2>2. CASE j = k
    <3>1. x[k] = Most2
      BY <1>0, <1>1, <2>2
    <3>2. u[j] \in -(Most2 + C) .. Most2 + C
      BY <1>3, <2>2, <3>1 DEF Settled
    <3> QED BY <1>0, <3>2
  <2> QED BY <1>0, <2>1, <2>2
<1>6. \A j \in M + Q .. 2 * M : u[j] = 0
  <2> SUFFICES ASSUME NEW j \in M + Q .. 2 * M PROVE u[j] = 0
    OBVIOUS
  <2>1. j \in 0 .. 2 * M /\ j > k /\ x[j] = 0
    BY <1>0, <1>1
  <2>2. u[j] \in -0 .. 0
    BY <1>3, <2>1 DEF Settled
  <2> QED BY <2>2
<1> QED BY <1>4, <1>5, <1>6 DEF Before4, Between, NothingFrom, u

\* The rest of the upper half folds.
LEMMA Pass4 ==
  ASSUME NEW v \in ScalarVector, ScalarsFit, Before4(v)
  PROVE  Before5(OnePassOver(v, Passes[4]))
<1> DEFINE Q == Quarter
           hi == M + Q - 1
           lo == M
           n == hi - lo + 1
           u == OnePassOver(v, Passes[4])
           Top == Most4
           Low == Most3 + Most4
<1>0. /\ M \in Nat /\ Q \in Nat /\ Q >= 2 /\ M = 2 * Q /\ Top \in Nat /\ Low \in Nat /\ Most5 \in Nat
      /\ Most3 \in Nat
      /\ n = Q /\ hi - M + Q = 2 * Q - 1 /\ FoldGrowth(Top, Q) \in Nat
      /\ Most5 = Low + FoldGrowth(Top, Q) /\ Most3 <= Low /\ Most4 <= Low
  <2>1. FoldGrowth(Most4, Quarter) \in Nat
    BY Quarters, MostTyped, GrowthTyped
  <2> QED BY <2>1, Quarters, MostTyped DEF Most5
<1>1. /\ \A j \in 0 .. Q - 1 : v[j] \in -Most3 .. Most3
      /\ \A j \in Q .. M + Q - 1 : v[j] \in -Top .. Top
      /\ \A j \in M + Q .. 2 * M : v[j] = 0
  BY DEF Before4, Between, NothingFrom
<1> HIDE DEF Q, Top, Low, lo, n
<1>2. \A j \in 0 .. M - 1 : v[j] \in -Low .. Low
  <2> SUFFICES ASSUME NEW j \in 0 .. M - 1 PROVE v[j] \in -Low .. Low
    OBVIOUS
  <2>1. CASE j \in 0 .. Q - 1
    BY <1>0, <1>1, <2>1
  <2>2. CASE j \in Q .. M + Q - 1
    BY <1>0, <1>1, <2>2 DEF Top
  <2> QED BY <1>0, <2>1, <2>2
<1>3. Folding(hi, lo, Top, Low, v)
  <2>1. lo \in Folded /\ hi \in Folded /\ lo <= hi /\ hi - M + Quarter <= lo
    BY <1>0 DEF Folded, lo, Q
  <2>2. \A j \in lo .. hi : v[j] \in -Top .. Top
    BY <1>0, <1>1 DEF lo
  <2>3. \A j \in 0 .. hi - M + Quarter - 1 : v[j] \in -Low .. Low
    BY <1>0, <1>2 DEF Q
  <2> HIDE DEF hi
  <2> QED BY <1>0, <2>1, <2>2, <2>3, FitDigits DEF Folding
<1>4. u \in FoldedTo(hi, lo, Top, Low, v, n)
  BY <1>3, FoldPass, PassList DEF n, lo, Q
<1> HIDE DEF u
<1>5. /\ \A j \in hi - n + 1 .. hi : u[j] = 0
      /\ \A j \in hi - M + Quarter .. hi - n : u[j] = v[j]
      /\ \A j \in hi + 1 .. 2 * M : u[j] = v[j]
      /\ GrownBelow(u, hi - M + Quarter, Top, Low, n)
  BY <1>4 DEF FoldedTo
<1>6. \A j \in 0 .. M - 1 : u[j] \in -Most5 .. Most5
  <2> SUFFICES ASSUME NEW j \in 0 .. M - 1 PROVE u[j] \in -Most5 .. Most5
    OBVIOUS
  <2>1. CASE j < M - 1
    <3>1. j \in 0 .. hi - M + Quarter - 1
      BY <1>0, <2>1 DEF Q
    <3>2. u[j] \in FoldRange(Top, Low, n)
      BY <1>0, <1>5, <3>1 DEF GrownBelow, Q
    <3>3. n \in Nat /\ Most5 = Low + FoldGrowth(Top, n) /\ FoldGrowth(Top, n) \in Nat
      BY <1>0
    <3> QED BY <3>2, <3>3 DEF FoldRange
  <2>2. CASE j = M - 1
    <3>1. j \in hi - M + Quarter .. hi - n
      BY <1>0, <2>2 DEF Q
    <3>2. u[j] \in -Low .. Low
      BY <1>2, <1>5, <3>1
    <3> QED BY <1>0, <3>2
  <2> QED BY <1>0, <2>1, <2>2
<1>7. \A j \in M .. 2 * M : u[j] = 0
  <2> SUFFICES ASSUME NEW j \in M .. 2 * M PROVE u[j] = 0
    OBVIOUS
  <2>1. CASE j <= hi
    <3>1. j \in hi - n + 1 .. hi
      BY <1>0, <2>1
    <3> QED BY <1>5, <3>1
  <2>2. CASE j > hi
    <3>1. j \in hi + 1 .. 2 * M /\ j \in M + Q .. 2 * M
      BY <1>0, <2>2
    <3> QED BY <1>1, <1>5, <3>1
  <2> QED BY <1>0, <2>1, <2>2
<1> QED BY <1>6, <1>7 DEF Before5, Between, NothingFrom, u

\* The lower half is rounded, into one limb above it.
LEMMA Pass5 ==
  ASSUME NEW v \in ScalarVector, Before5(v)
  PROVE  Before6(OnePassOver(v, Passes[5]))
<1> DEFINE Q == Quarter
           u == OnePassOver(v, Passes[5])
           x == [j \in 0 .. 2 * M |-> IF j < M THEN Most5 ELSE 0]
           C == CarryOf(Most5)
           k == 0 + Q + Q
<1>0. /\ M \in Nat /\ Q \in Nat /\ Q >= 2 /\ M = 2 * Q /\ Most5 \in Nat
      /\ C \in Nat /\ C = LastCarry /\ LimbHalf \in Nat /\ k = M
  BY Quarters, MostTyped, LimbHalves DEF LastCarry
<1>1. /\ x \in [0 .. 2 * M -> 0 .. Most5]
      /\ \A j \in 0 .. 2 * M : x[j] = IF j < M THEN Most5 ELSE 0
  BY <1>0
<1> HIDE DEF x
<1>2. \A j \in 0 .. 2 * M : v[j] \in -x[j] .. x[j]
  <2> SUFFICES ASSUME NEW j \in 0 .. 2 * M PROVE v[j] \in -x[j] .. x[j]
    OBVIOUS
  <2>1. CASE j < M
    <3>1. x[j] = Most5 /\ j \in 0 .. M - 1
      BY <1>0, <1>1, <2>1
    <3> QED BY <3>1 DEF Before5, Between
  <2>2. CASE j >= M
    <3>1. x[j] = 0 /\ v[j] = 0
      BY <1>0, <1>1, <2>2 DEF Before5, NothingFrom
    <3> QED BY <3>1
  <2> QED BY <1>0, <2>1, <2>2
<1>3. Settled(u, 0, k, x, C) /\ u[k - 1] \in -LimbHalf .. LimbHalf
  <2>1. 0 \in Nat /\ Q >= 1 /\ Q \in {Q, Q + 1} /\ 0 + Q + Q - 1 <= 2 * M - 1
    BY <1>0
  <2>2. /\ Settled(OnePassOver(v, <<"round", EveryOther(0, Q, Q)>>), 0, 0 + Q + Q, x, C)
        /\ Q = Q => OnePassOver(v, <<"round", EveryOther(0, Q, Q)>>)[0 + Q + Q - 1]
                      \in -LimbHalf .. LimbHalf
    BY <1>0, <1>1, <1>2, <2>1, RoundedUp
  <2>3. u = OnePassOver(v, <<"round", EveryOther(0, Q, Q)>>)
    BY PassList
  <2> HIDE DEF u, Q, C
  <2>4. Settled(u, 0, k, x, C)
    BY <2>2, <2>3
  <2>5. u[k - 1] \in -LimbHalf .. LimbHalf
    <3>1. Q = Q => u[0 + Q + Q - 1] \in -LimbHalf .. LimbHalf
      BY <2>2, <2>3
    <3>2. 0 + Q + Q - 1 = k - 1 /\ Q = Q
      BY <1>0
    <3> QED BY <3>1, <3>2
  <2> QED BY <2>4, <2>5
<1> HIDE DEF u, C, k
<1>4. \A j \in 0 .. M - 2 : u[j] \in -(LimbHalf + LastCarry) .. LimbHalf + LastCarry
  <2> SUFFICES ASSUME NEW j \in 0 .. M - 2
               PROVE  u[j] \in -(LimbHalf + LastCarry) .. LimbHalf + LastCarry
    OBVIOUS
  <2>1. j \in 0 .. k - 1
    BY <1>0
  <2>2. u[j] \in -(LimbHalf + C) .. LimbHalf + C
    BY <1>3, <2>1 DEF Settled
  <2> QED BY <1>0, <2>2
<1>5. u[M - 1] \in -LimbHalf .. LimbHalf
  BY <1>0, <1>3
<1>6. u[M] \in -LastCarry .. LastCarry
  <2>1. x[k] = 0
    BY <1>0, <1>1
  <2>2. u[k] \in -(0 + C) .. 0 + C
    BY <1>3, <2>1 DEF Settled
  <2> QED BY <1>0, <2>2
<1>7. \A j \in M + 1 .. 2 * M : u[j] = 0
  <2> SUFFICES ASSUME NEW j \in M + 1 .. 2 * M PROVE u[j] = 0
    OBVIOUS
  <2>1. j \in 0 .. 2 * M /\ j > k /\ x[j] = 0
    BY <1>0, <1>1
  <2>2. u[j] \in -0 .. 0
    BY <1>3, <2>1 DEF Settled
  <2> QED BY <2>2
<1> QED BY <1>4, <1>5, <1>6, <1>7 DEF Before6, Between, NothingFrom, u

\* The order is a little above the power of two.
LEMMA OrderNear ==
  ASSUME ScalarsFit
  PROVE  ScalarOrder - ScalarPlace[M] \in 0 .. ScalarPlace[M - 2]
<1> DEFINE w == [i \in 0 .. 2 * M |-> FoldDigit(i)]
           d == [k \in 0 .. M - 1 |-> FoldDigit(k) * ScalarPlace[k]]
           Q == Quarter
           q == ScalarPlace[Q - 1]
           p == ScalarPlace[M - 2]
           r == ScalarPlace[M]
           H == LimbHalf
<1>0. /\ M \in Nat /\ Q \in Nat /\ Q >= 2 /\ M = 2 * Q /\ H \in Nat
      /\ Q - 1 \in 0 .. 2 * M - 1 /\ Q \in 0 .. 2 * M /\ M - 2 \in 0 .. 2 * M /\ M \in 0 .. 2 * M
      /\ M - 2 - Q \in 0 .. 2 * M /\ Q + (M - 2 - Q) = M - 2 /\ (Q - 1) + 1 = Q
      /\ Q \in 0 .. 2 * M + 1 /\ M \in 0 .. 2 * M + 1
  BY Quarters, LimbHalves
<1>1. w \in ScalarVector /\ \A i \in 0 .. 2 * M : w[i] = FoldDigit(i)
  BY FoldDigits DEF ScalarVector
<1> HIDE DEF w
<1>2. \A j \in Q .. 2 * M : w[j] = 0
  <2> SUFFICES ASSUME NEW j \in Q .. 2 * M PROVE w[j] = 0
    OBVIOUS
  <2>1. j \in 0 .. 2 * M /\ j \in Int /\ j \notin 0 .. Quarter - 1
    BY <1>0
  <2> QED BY <1>1, <2>1, FoldDigits
<1>3. LowNumber(w, M) = LowNumber(w, Q)
  <2>1. NumberOf(w) = LowNumber(w, Q)
    BY <1>0, <1>1, <1>2, NothingAbove
  <2>2. \A j \in M .. 2 * M : w[j] = 0
    BY <1>0, <1>2
  <2>3. NumberOf(w) = LowNumber(w, M)
    BY <1>0, <1>1, <2>2, NothingAbove
  <2> QED BY <2>1, <2>3
<1>4. LowNumber(w, M) = SumTo(M, d)
  <2>1. \A i \in 0 .. M - 1 : i \in 0 .. 2 * M
    BY <1>0
  <2>2. \A i \in 0 .. 2 * M : PlacedScalar(w)[i] = w[i] * ScalarPlace[i] /\ PlacedScalar(w)[i] \in Int
    BY <1>1, ScalarPlaced
  <2>3. Ints(PlacedScalar(w), M)
    BY <1>0, <2>1, <2>2 DEF Ints
  <2>4. \A i \in 0 .. M - 1 : d[i] = PlacedScalar(w)[i]
    BY <1>1, <2>1, <2>2
  <2> HIDE DEF d
  <2>5. SumTo(M, d) = SumTo(M, PlacedScalar(w))
    BY <2>3, <2>4, SumSame
  <2> QED BY <2>5 DEF LowNumber
<1>5. LowNumber(w, Q) \in -(2 * (H * q)) .. 2 * (H * q)
  <2>1. \A j \in 0 .. Q - 1 : w[j] \in -H .. H
    <3> SUFFICES ASSUME NEW j \in 0 .. Q - 1 PROVE w[j] \in -H .. H
      OBVIOUS
    <3>1. j \in 0 .. 2 * M /\ j \in Int
      BY <1>0
    <3> QED BY <1>1, <3>1, FitDigits DEF DigitsFit
  <2> HIDE DEF H
  <2> QED BY <1>0, <1>1, <2>1, LowNumberBound
<1>6. 2 * (H * q) = ScalarPlace[Q] /\ q \in Nat /\ ScalarPlace[Q] <= p /\ p \in Nat /\ r \in Nat
  <2>1. ScalarPlace[Q] = LimbRange * q /\ q \in Nat
    BY <1>0, NextPlace
  <2>2. LimbRange = 2 * H
    BY LimbHalves
  <2>3. p = ScalarPlace[Q] * ScalarPlace[M - 2 - Q]
    BY <1>0, ScalarPlaces
  <2>4. ScalarPlace[Q] \in Nat \ {0} /\ ScalarPlace[M - 2 - Q] \in Nat \ {0} /\ r \in Nat /\ p \in Nat
    BY <1>0, ScalarPlaces
  <2> DEFINE a == ScalarPlace[Q]
             b == ScalarPlace[M - 2 - Q]
  <2> HIDE DEF a, b, p, q, r, H
  <2>5. a <= a * b
    BY <2>4 DEF a, b
  <2>6. 2 * (H * q) = (2 * H) * q
    BY <1>0, <2>1
  <2> QED BY <2>1, <2>2, <2>3, <2>4, <2>5, <2>6 DEF a, b
<1>7. ScalarOrder = r - SumTo(M, d)
  BY DEF ScalarOrder
<1>8. ScalarOrder >= r
  BY DEF ScalarsFit
<1>9. SumTo(M, d) \in -p .. p
  <2> DEFINE b == 2 * (H * q)
             y == LowNumber(w, Q)
  <2>1. y \in -b .. b /\ b <= p /\ p \in Nat /\ b = ScalarPlace[Q] /\ SumTo(M, d) = y
    BY <1>3, <1>4, <1>5, <1>6
  <2>2. ScalarPlace[Q] \in Nat
    BY <1>0, ScalarPlaces
  <2>3. b \in Nat
    BY <2>1, <2>2
  <2> HIDE DEF b, y, d, p
  <2> QED BY <2>1, <2>3
<1> HIDE DEF d, p, r
<1> QED BY <1>6, <1>7, <1>8, <1>9 DEF p, r

\* The places around the top of the scalar.
LEMMA HighPlaces ==
  /\ ScalarPlace[M - 2] \in Nat \ {0} /\ ScalarPlace[M - 1] \in Nat \ {0} /\ ScalarPlace[M] \in Nat \ {0}
  /\ ScalarPlace[M - 1] = LimbRange * ScalarPlace[M - 2]
  /\ ScalarPlace[M] = LimbRange * ScalarPlace[M - 1]
  /\ LimbRange \in Nat \ {0} /\ LimbHalf \in Nat \ {0} /\ LimbRange = 2 * LimbHalf
<1>1. M - 2 \in 0 .. 2 * M - 1 /\ M - 1 \in 0 .. 2 * M - 1 /\ (M - 2) + 1 = M - 1 /\ (M - 1) + 1 = M
  BY Quarters
<1>2. /\ ScalarPlace[M - 2] \in Nat \ {0} /\ ScalarPlace[(M - 2) + 1] \in Nat \ {0}
      /\ ScalarPlace[(M - 2) + 1] = LimbRange * ScalarPlace[M - 2]
  BY <1>1, NextPlace
<1>3. /\ ScalarPlace[(M - 1) + 1] \in Nat \ {0}
      /\ ScalarPlace[(M - 1) + 1] = LimbRange * ScalarPlace[M - 1]
  BY <1>1, NextPlace
<1> QED BY <1>1, <1>2, <1>3, LimbHalves

\* The limb above the last one folded.
LEMMA FoldLast ==
  ASSUME NEW v \in ScalarVector, NothingFrom(v, M + 1)
  PROVE  LET u == OnePassOver(v, << "fold", <<M>> >>)
         IN  /\ u \in ScalarVector /\ NothingFrom(u, M)
             /\ NumberOf(u) = NumberOf(v) - v[M] * ScalarOrder
             /\ NumberOf(v) = LowNumber(v, M) + v[M] * ScalarPlace[M]
<1> DEFINE u == Fold(v, M)
<1>0. /\ M \in Nat /\ M >= 4 /\ M \in M .. 2 * M - 1 /\ M - M = 0 /\ Quarter \in Nat /\ M = 2 * Quarter
      /\ M \in 0 .. 2 * M /\ M + 1 \in 0 .. 2 * M + 1
  BY Quarters
<1>1. OnePassOver(v, << "fold", <<M>> >>) = u
  BY FoldAlone
<1>2. /\ u \in ScalarVector
      /\ \A j \in 0 .. 2 * M : u[j] = IF j = M THEN 0 ELSE v[j] + v[M] * FoldDigit(j - (M - M))
  BY <1>0, FoldedEntries
<1>3. NumberOf(u) = NumberOf(v) - v[M] * (ScalarPlace[M - M] * ScalarOrder)
  BY <1>0, FoldSubtracts
<1>4. ScalarPlace[M - M] * ScalarOrder = ScalarOrder
  BY <1>0, ScalarPlaces
<1> HIDE DEF u
<1>5. NothingFrom(u, M)
  <2> SUFFICES ASSUME NEW j \in M .. 2 * M PROVE u[j] = 0
    BY DEF NothingFrom
  <2>1. j \in 0 .. 2 * M
    BY <1>0
  <2>2. CASE j = M
    BY <1>2, <2>1, <2>2
  <2>3. CASE j # M
    <3>1. j \in M + 1 .. 2 * M /\ j - (M - M) \in Int /\ j - (M - M) \notin 0 .. Quarter - 1
      BY <1>0, <2>3
    <3>2. v[j] = 0 /\ FoldDigit(j - (M - M)) = 0 /\ v[M] \in Int
      BY <1>0, <3>1, FoldDigits DEF NothingFrom, ScalarVector
    <3>3. v[M] * 0 = 0
      BY <3>2
    <3> QED BY <1>2, <2>1, <2>3, <3>2, <3>3
  <2> QED BY <2>2, <2>3
<1>6. NumberOf(v) = LowNumber(v, M + 1)
  BY <1>0, NothingAbove DEF NothingFrom
<1>7. LowNumber(v, M + 1) = LowNumber(v, M) + v[M] * ScalarPlace[M]
  BY <1>0, LowNumberSteps
<1> QED BY <1>1, <1>2, <1>3, <1>4, <1>5, <1>6, <1>7

\* Folding that limb into limbs within X.
LEMMA FoldLastWithin ==
  ASSUME NEW v \in ScalarVector, DigitsFit, NEW X \in Nat, NEW C \in Nat, NothingFrom(v, M + 1),
         v[M] \in -C .. C, Between(v, 0, M - 1, X)
  PROVE  Between(OnePassOver(v, << "fold", <<M>> >>), 0, M - 1, X + C * LimbHalf)
<1> DEFINE u == Fold(v, M)
           H == LimbHalf
           c == v[M]
<1>0. M \in Nat /\ M \in M .. 2 * M - 1 /\ M - M = 0
  BY Quarters
<1>1. OnePassOver(v, << "fold", <<M>> >>) = u
  BY FoldAlone
<1>2. \A j \in 0 .. 2 * M : u[j] = IF j = M THEN 0 ELSE v[j] + c * FoldDigit(j - (M - M))
  BY <1>0, FoldedEntries
<1> HIDE DEF u
<1>3. ASSUME NEW j \in 0 .. M - 1
      PROVE  u[j] \in -(X + C * H) .. X + C * H
  <2> DEFINE d == FoldDigit(j - (M - M))
             x == v[j]
             b == C * H
  <2>1. j \in 0 .. 2 * M /\ j # M /\ j - (M - M) \in Int
    BY <1>0
  <2>2. u[j] = x + c * d
    BY <1>2, <2>1
  <2>3. H \in Nat /\ d \in -H .. H /\ x \in -X .. X /\ c \in -C .. C
    BY <2>1, LimbHalves DEF DigitsFit, Between
  <2> HIDE DEF d, x, c, H, b
  <2>4. c * d \in -b .. b
    BY <2>3, ProductBound DEF b
  <2>5. b \in Nat
    BY <2>3 DEF b
  <2> DEFINE cd == c * d
  <2>6. cd \in -b .. b /\ u[j] = x + cd
    BY <2>2, <2>4
  <2> HIDE DEF cd
  <2>7. u[j] \in -(X + b) .. X + b
    BY <2>3, <2>5, <2>6
  <2> QED BY <2>7 DEF b
<1> QED BY <1>1, <1>3 DEF Between, H

\* The limb above a number that is a little under nothing: a borrow, or none.
LEMMA TopBorrow ==
  ASSUME NEW v \in ScalarVector, Before8(v)
  PROVE  v[M] \in {-1, 0} /\ LowNumber(v, M) \in 0 .. ScalarPlace[M] - 1
         /\ NumberOf(v) = LowNumber(v, M) + v[M] * ScalarPlace[M]
<1> DEFINE low == LowNumber(v, M)
           c == v[M]
           p == ScalarPlace[M]
           N == NumberOf(v)
<1>1. p \in Nat \ {0} /\ M \in 0 .. 2 * M
  BY HighPlaces, Quarters
<1>2. N = low + c * p
  <2>1. NothingFrom(v, M + 1)
    BY DEF Before8
  <2> QED BY <2>1, FoldLast
<1>3. low \in 0 .. p - 1
  <2>1. \A j \in 0 .. M - 1 : v[j] \in 0 .. LimbRange - 1
    BY DEF Before8, Digitwise
  <2> QED BY <1>1, <2>1, LowNumberRange
<1>4. c \in Int /\ N \in -p .. p - 1
  <2>1. c \in Int
    BY <1>1 DEF ScalarVector
  <2>2. N \in -p .. p - 1
    BY DEF Before8
  <2> QED BY <2>1, <2>2
<1> HIDE DEF low, c, p, N
<1>5. c <= 0
  <2> SUFFICES ASSUME c >= 1 PROVE FALSE
    BY <1>4
  <2>1. c * p >= 1 * p /\ c * p \in Int
    BY <1>1, <1>4
  <2> QED BY <1>1, <1>2, <1>3, <1>4, <2>1
<1>6. c >= -1
  <2> SUFFICES ASSUME c <= -2 PROVE FALSE
    BY <1>4
  <2>1. c * p <= (-2) * p /\ c * p \in Int
    BY <1>1, <1>4
  <2>2. (-2) * p = -(p + p)
    BY <1>1
  <2> QED BY <1>1, <1>2, <1>3, <1>4, <2>1, <2>2
<1>7. c \in {-1, 0}
  BY <1>4, <1>5, <1>6
<1> QED BY <1>2, <1>3, <1>7 DEF low, c, p, N

\* That limb folds: the number is within 2^(LimbBits * M) of nothing.
LEMMA Pass6 ==
  ASSUME NEW v \in ScalarVector, ScalarsFit, Before6(v)
  PROVE  Before7(OnePassOver(v, Passes[6]))
<1> DEFINE u == OnePassOver(v, Passes[6])
           low == LowNumber(v, M - 1)
           x == v[M - 1]
           c == v[M]
           C == LastCarry
           H == LimbHalf
           R == LimbRange
           p2 == ScalarPlace[M - 2]
           p1 == ScalarPlace[M - 1]
           p0 == ScalarPlace[M]
           e == ScalarOrder - p0
           B == H + C
           N == NumberOf(v)
<1>1. /\ p2 \in Nat \ {0} /\ p1 \in Nat \ {0} /\ p0 \in Nat \ {0} /\ p1 = R * p2 /\ p0 = R * p1
      /\ R \in Nat \ {0} /\ H \in Nat \ {0} /\ R = 2 * H /\ C \in Nat /\ 2 * H + 3 * C < H * R
      /\ B \in Nat
  BY HighPlaces, MostTyped DEF ScalarsFit
<1>2. e \in 0 .. p2 /\ ScalarOrder \in Nat
  BY OrderNear, ScalarPlaces
<1>3. /\ NothingFrom(u, M) /\ NumberOf(u) = N - c * ScalarOrder
      /\ N = LowNumber(v, M) + c * p0
  <2>1. NothingFrom(v, M + 1)
    BY DEF Before6
  <2> QED BY <2>1, FoldLast, PassList
<1>4. /\ M - 2 \in 0 .. 2 * M - 1 /\ (M - 2) + 1 = M - 1 /\ M - 1 \in 0 .. 2 * M /\ (M - 1) + 1 = M
      /\ M - 1 \in 0 .. 2 * M + 1
  BY Quarters
<1>5. LowNumber(v, M) = low + x * p1 /\ low \in Int
  BY <1>4, LowNumberSteps
<1>6. low \in -(2 * (B * p2)) .. 2 * (B * p2)
  <2>1. \A j \in 0 .. M - 2 : v[j] \in -B .. B
    BY DEF Before6, Between
  <2> HIDE DEF B
  <2> QED BY <1>1, <1>4, <2>1, LowNumberBound
<1>7. x \in -H .. H /\ c \in -C .. C
  BY DEF Before6
<1> HIDE DEF u, low, x, c, C, H, R, p2, p1, p0, e, N
<1>8. NumberOf(u) = low + x * p1 - c * e
  <2>1. ScalarOrder = p0 + e
    BY <1>1, <1>2 DEF e
  <2>2. c * ScalarOrder = c * p0 + c * e
    BY <1>1, <1>2, <1>7, <2>1
  <2>3. c * p0 \in Int /\ c * e \in Int /\ x * p1 \in Int
    BY <1>1, <1>2, <1>7
  <2> QED BY <1>3, <1>5, <2>2, <2>3
<1>9. x * p1 \in -(H * p1) .. H * p1 /\ c * e \in -(C * p2) .. C * p2
  <2>1. p1 \in -p1 .. p1 /\ e \in -p2 .. p2
    BY <1>1, <1>2
  <2>2. x * p1 \in -(H * p1) .. H * p1
    BY <1>1, <1>7, <2>1, ProductBound
  <2>3. c * e \in -(C * p2) .. C * p2
    BY <1>1, <1>7, <2>1, ProductBound
  <2> QED BY <2>2, <2>3
<1> DEFINE hp == H * p2
           cp == C * p2
           hrp == (H * R) * p2
<1>10. 2 * (B * p2) = 2 * hp + 2 * cp /\ hp \in Nat /\ cp \in Nat /\ hrp \in Nat
  BY <1>1
<1>11. 2 * hp + 3 * cp + p2 <= hrp
  <2>1. 2 * H + 3 * C + 1 <= H * R /\ H * R \in Nat
    BY <1>1
  <2>2. (2 * H + 3 * C + 1) * p2 <= (H * R) * p2
    BY <1>1, <2>1
  <2>3. (2 * H + 3 * C + 1) * p2 = 2 * (H * p2) + 3 * (C * p2) + p2
    BY <1>1
  <2> QED BY <2>2, <2>3
<1>12. H * p1 = hrp /\ p0 = hrp + hrp
  <2>1. H * p1 = (H * R) * p2
    BY <1>1
  <2>2. p0 = H * p1 + H * p1
    BY <1>1
  <2> QED BY <2>1, <2>2
<1> DEFINE xp == x * p1
           ce == c * e
           bp == 2 * (B * p2)
<1>13. /\ low \in -bp .. bp /\ xp \in -hrp .. hrp /\ ce \in -cp .. cp /\ bp = 2 * hp + 2 * cp
       /\ NumberOf(u) = low + xp - ce
  BY <1>6, <1>8, <1>9, <1>10, <1>12
<1> HIDE DEF hp, cp, hrp, xp, ce, bp
<1>14. NumberOf(u) \in -p0 .. p0 - 1
  BY <1>1, <1>10, <1>11, <1>12, <1>13
<1>15. Between(u, 0, M - 1, Most7)
  <2>1. DigitsFit /\ LimbHalf \in Nat /\ LastCarry \in Nat
    BY FitDigits, LimbHalves, MostTyped
  <2>2. NothingFrom(v, M + 1) /\ v[M] \in -LastCarry .. LastCarry
    BY DEF Before6
  <2> DEFINE X == LimbHalf + LastCarry
  <2>3. Between(v, 0, M - 1, X)
    <3>1. \A j \in 0 .. M - 2 : v[j] \in -X .. X
      BY DEF Before6, Between
    <3>2. v[M - 1] \in -X .. X
      BY <2>1 DEF Before6
    <3>3. \A j \in 0 .. M - 1 : j \in 0 .. M - 2 \/ j = M - 1
      BY Quarters
    <3> HIDE DEF X
    <3> QED BY <3>1, <3>2, <3>3 DEF Between
  <2>4. X \in Nat /\ Most7 = X + LastCarry * LimbHalf
    BY <2>1 DEF Most7
  <2> HIDE DEF X
  <2> QED BY <2>1, <2>2, <2>3, <2>4, FoldLastWithin, PassList DEF u
<1> QED BY <1>3, <1>14, <1>15 DEF Before7, u, p0

\* A floored pass: digits, and a borrow at most above them.
LEMMA Pass7 ==
  ASSUME NEW v \in ScalarVector, Before7(v)
  PROVE  Before8(OnePassOver(v, Passes[7]))
<1> DEFINE u == OnePassOver(v, Passes[7])
<1>1. M \in 1 .. M /\ M \in Nat
  BY Quarters
<1>2. u \in FlooredTo(v, M)
  BY <1>1, FloorPass, PassList
<1>3. /\ NumberOf(u) = NumberOf(v)
      /\ \A j \in 0 .. M - 1 : u[j] \in 0 .. LimbRange - 1
      /\ \A j \in M + 1 .. 2 * M : u[j] = v[j]
  BY <1>2 DEF FlooredTo
<1> HIDE DEF u
<1>4. \A j \in M + 1 .. 2 * M : u[j] = 0
  <2>1. \A j \in M + 1 .. 2 * M : v[j] = 0
    BY <1>1 DEF Before7, NothingFrom
  <2> QED BY <1>3, <2>1
<1> QED BY <1>3, <1>4 DEF Before7, Before8, Digitwise, NothingFrom, u

\* The borrow folds: an order is added where the number was negative.
LEMMA Pass8 ==
  ASSUME NEW v \in ScalarVector, ScalarsFit, Before8(v)
  PROVE  Before9(OnePassOver(v, Passes[8]))
<1> DEFINE u == OnePassOver(v, Passes[8])
           low == LowNumber(v, M)
           c == v[M]
           p == ScalarPlace[M]
           R == LimbRange
           H == LimbHalf
<1>1. /\ p \in Nat \ {0} /\ ScalarOrder \in Nat /\ ScalarOrder >= p
      /\ R \in Nat \ {0} /\ H \in Nat \ {0}
  BY HighPlaces, ScalarPlaces DEF ScalarsFit
<1>2. NothingFrom(v, M + 1)
  BY DEF Before8
<1>3. NothingFrom(u, M) /\ NumberOf(u) = low + c * p - c * ScalarOrder
  <2>1. NothingFrom(u, M) /\ NumberOf(u) = NumberOf(v) - c * ScalarOrder
    BY <1>2, FoldLast, PassList
  <2>2. NumberOf(v) = low + c * p
    BY TopBorrow
  <2>3. c \in Int /\ low \in Int
    BY TopBorrow
  <2> HIDE DEF u, low, c, p
  <2> QED BY <1>1, <2>1, <2>2, <2>3
<1>4. c \in {-1, 0} /\ low \in 0 .. p - 1
  BY TopBorrow
<1>5. Between(u, 0, M - 1, R + H)
  <2>1. Between(v, 0, M - 1, R)
    <3>1. \A j \in 0 .. M - 1 : v[j] \in 0 .. R - 1
      BY DEF Before8, Digitwise
    <3> HIDE DEF R
    <3>2. \A j \in 0 .. M - 1 : v[j] \in -R .. R
      BY <1>1, <3>1
    <3> QED BY <3>2 DEF Between
  <2>2. c \in -1 .. 1 /\ 1 \in Nat /\ R \in Nat /\ DigitsFit
    BY <1>1, <1>4, FitDigits
  <2>3. Between(u, 0, M - 1, R + 1 * H)
    BY <1>2, <2>1, <2>2, FoldLastWithin, PassList
  <2>4. 1 * H = H
    BY <1>1
  <2> QED BY <2>3, <2>4
<1> HIDE DEF u, low, c, p, R, H
<1>6. NumberOf(u) \in 0 .. ScalarOrder - 1
  <2>1. CASE c = 0
    <3>1. c * p = 0 /\ c * ScalarOrder = 0
      BY <1>1, <2>1
    <3> QED BY <1>1, <1>3, <1>4, <3>1
  <2>2. CASE c = -1
    <3>1. c * p = -p /\ c * ScalarOrder = -ScalarOrder
      BY <1>1, <2>2
    <3> QED BY <1>1, <1>3, <1>4, <3>1
  <2> QED BY <1>4, <2>1, <2>2
<1> QED BY <1>3, <1>5, <1>6 DEF Before9, u, R, H

\* The last pass: digits again, of a number below the order.
LEMMA Pass9 ==
  ASSUME NEW v \in ScalarVector, ScalarsFit, Before9(v)
  PROVE  AtTheEnd(OnePassOver(v, Passes[9]))
<1> DEFINE u == OnePassOver(v, Passes[9])
           low == LowNumber(u, M - 1)
           y == u[M - 1]
           R == LimbRange
           p2 == ScalarPlace[M - 2]
           p1 == ScalarPlace[M - 1]
           p0 == ScalarPlace[M]
           N == NumberOf(v)
<1>0. /\ M \in Nat /\ M - 1 \in 1 .. M /\ M - 1 \in 0 .. 2 * M /\ (M - 1) + 1 = M
      /\ M \in 0 .. 2 * M + 1
  BY Quarters
<1>1. /\ p2 \in Nat \ {0} /\ p1 \in Nat \ {0} /\ p0 \in Nat \ {0} /\ p1 = R * p2 /\ p0 = R * p1
      /\ R \in Nat \ {0}
  BY HighPlaces
<1>2. ScalarOrder - p0 \in 0 .. p2 /\ ScalarOrder \in Nat /\ N \in 0 .. ScalarOrder - 1
  BY OrderNear, ScalarPlaces DEF Before9
<1>3. u \in FlooredTo(v, M - 1)
  BY <1>0, FloorPass, PassList
<1>4. /\ u \in ScalarVector /\ NumberOf(u) = N
      /\ \A j \in 0 .. (M - 1) - 1 : u[j] \in 0 .. R - 1
      /\ \A j \in (M - 1) + 1 .. 2 * M : u[j] = v[j]
  BY <1>3 DEF FlooredTo
<1> HIDE DEF u
<1>5. \A j \in M .. 2 * M : u[j] = 0
  <2>1. \A j \in M .. 2 * M : v[j] = 0
    BY DEF Before9, NothingFrom
  <2> QED BY <1>0, <1>4, <2>1
<1>6. N = low + y * p1 /\ y \in Int
  <2>1. NumberOf(u) = LowNumber(u, M)
    BY <1>0, <1>4, <1>5, NothingAbove
  <2>2. LowNumber(u, M) = LowNumber(u, M - 1) + u[M - 1] * ScalarPlace[M - 1]
    BY <1>0, <1>4, LowNumberSteps
  <2>3. y \in Int
    BY <1>0, <1>4 DEF ScalarVector
  <2> QED BY <1>4, <2>1, <2>2, <2>3
<1>7. low \in 0 .. p1 - 1
  BY <1>0, <1>4, LowNumberRange
<1> HIDE DEF low, y, p2, p1, p0, N, R
<1>8. y >= 0
  <2> SUFFICES ASSUME y <= -1 PROVE FALSE
    BY <1>6
  <2>1. y * p1 <= (-1) * p1 /\ y * p1 \in Int
    BY <1>1, <1>6
  <2>2. (-1) * p1 = -p1
    BY <1>1
  <2> QED BY <1>1, <1>2, <1>6, <1>7, <2>1, <2>2
<1>9. y <= R
  <2> SUFFICES ASSUME y >= R + 1 PROVE FALSE
    BY <1>1, <1>6
  <2>1. y * p1 >= (R + 1) * p1 /\ y * p1 \in Int
    BY <1>1, <1>6
  <2>2. (R + 1) * p1 = R * p1 + p1 /\ R * p1 \in Nat
    BY <1>1
  <2>3. p2 <= p1
    <3>1. 1 * p2 <= R * p2
      BY <1>1
    <3> QED BY <1>1, <3>1
  <2> QED BY <1>1, <1>2, <1>6, <1>7, <2>1, <2>2, <2>3
<1>10. y \in 0 .. R
  BY <1>1, <1>6, <1>8, <1>9
<1>11. NumberOf(u) \in 0 .. ScalarOrder - 1
  BY <1>2, <1>4
<1> QED BY <1>4, <1>5, <1>10, <1>11 DEF AtTheEnd, Digitwise, NothingFrom, u, y, R

-----------------------------------------------------------------------------
(* The scalar is reduced.                                                    *)

\* What is loaded: limbs of LimbBits, and what is left above them.
LEMMA LoadedWithin ==
  ASSUME NEW bits \in Nat, NEW x \in 0 .. Power(2, bits) - 1, NEW n \in 1 .. 2 * M,
         NEW i \in 0 .. n - 1
  PROVE  Load(x, n)[i] \in 0 .. LimbRange + TopLimb(bits, n)
<1> DEFINE p == ScalarPlace[i]
           R == LimbRange
           rest == x \div p
           top == TopLimb(bits, n)
           y == Power(2, bits)
<1>1. p \in Nat \ {0} /\ R \in Nat \ {0} /\ top \in Nat /\ y \in Nat /\ x \in Nat /\ x < y
  <2>1. i \in 0 .. 2 * M
    BY ScalarSizes
  <2>2. y \in Nat
    BY PowerSteps
  <2>3. x \in Nat /\ x < y
    BY <2>2
  <2> QED BY <2>1, <2>2, <2>3, ScalarPlaces, LimbHalves, TopTyped
<1>2. Load(x, n)[i] = IF i = n - 1 THEN rest ELSE rest % R
  BY DEF Load, LimbRange
<1>3. rest \in Nat
  <2> HIDE DEF p
  <2> QED BY <1>1
<1>4. CASE i = n - 1
  <2>1. top = y \div p
    BY <1>4 DEF TopLimb
  <2> HIDE DEF p, y, top
  <2> DEFINE a == x \div p
             b == y \div p
             r == x % p
             s == y % p
  <2>2. /\ a \in Int /\ b \in Int /\ r \in 0 .. p - 1 /\ s \in 0 .. p - 1
        /\ x = p * a + r /\ y = p * b + s
    BY <1>1
  <2> HIDE DEF a, b, r, s
  <2>3. a <= b
    <3> SUFFICES ASSUME a >= b + 1 PROVE FALSE
      BY <2>2
    <3>1. p * a >= p * (b + 1)
      BY <1>1, <2>2
    <3>2. p * (b + 1) = p * b + p /\ p * b \in Int /\ p * a \in Int
      BY <1>1, <2>2
    <3> QED BY <1>1, <2>2, <3>1, <3>2
  <2>4. rest = a /\ top = b
    BY <2>1 DEF a, b
  <2> HIDE DEF rest, R
  <2>5. rest \in 0 .. R + top
    BY <1>1, <1>3, <2>2, <2>3, <2>4
  <2> QED BY <1>2, <1>4, <2>5 DEF R, top
<1>5. CASE i # n - 1
  <2> HIDE DEF rest, R, top
  <2>1. rest % R \in 0 .. R - 1
    BY <1>1, <1>3
  <2> DEFINE z == rest % R
  <2>2. z \in 0 .. R - 1
    BY <2>1
  <2> HIDE DEF z
  <2>3. z \in 0 .. R + top
    BY <1>1, <2>2
  <2> QED BY <1>2, <1>5, <2>3 DEF z, R, top
<1> QED BY <1>4, <1>5

\* A sum of terms within a bound.
LEMMA SumWithin ==
  ASSUME NEW n \in Nat, NEW f, NEW B \in Nat, \A i \in 0 .. n - 1 : f[i] \in 0 .. B
  PROVE  SumTo(n, f) \in 0 .. n * B
<1>1. Ints(f, n)
  BY DEF Ints
<1> DEFINE S == {m \in Nat : m <= n => SumTo(m, f) \in 0 .. m * B}
<1>2. 0 \in S
  BY <1>1, SumSteps
<1>3. ASSUME NEW m \in Nat, m \in S PROVE m + 1 \in S
  <2> SUFFICES ASSUME m + 1 <= n PROVE SumTo(m + 1, f) \in 0 .. (m + 1) * B
    OBVIOUS
  <2>1. m \in 0 .. n - 1
    OBVIOUS
  <2>2. SumTo(m + 1, f) = SumTo(m, f) + f[m] /\ SumTo(m, f) \in 0 .. m * B /\ f[m] \in 0 .. B
    BY <1>1, <1>3, <2>1, SumSteps
  <2>3. (m + 1) * B = m * B + B /\ m * B \in Nat
    OBVIOUS
  <2> DEFINE a == SumTo(m, f)
             b == f[m]
             c == m * B
  <2>4. a \in 0 .. c /\ b \in 0 .. B /\ c \in Nat
    BY <2>2, <2>3
  <2> HIDE DEF a, b, c
  <2>5. a + b \in 0 .. c + B
    BY <2>4
  <2> QED BY <2>2, <2>3, <2>5 DEF a, b, c
<1>4. n \in S
  <2> HIDE DEF S
  <2> QED BY <1>2, <1>3, FromZero
<1> QED BY <1>4

\* The vector sc_reduce starts from.
LEMMA ReduceStartFits ==
  ASSUME ScReduce PROVE Before2(slimb)
<1> DEFINE n == 2 * M
           L == Load(exact, n)
           T == TopLimb(DigestBits, n)
<1>1. exact \in 0 .. Power(2, DigestBits) - 1 /\ slimb = Padded(L) /\ DigestBits \in Nat
  BY ScalarAssumption DEF ScReduce, ReduceArguments
<1>2. M \in Nat /\ n \in 1 .. 2 * M /\ n \in Nat
  BY Quarters
<1>3. \A i \in 0 .. n - 1 : L[i] \in 0 .. LimbRange + T
  <2> HIDE DEF n
  <2> QED BY <1>1, <1>2, LoadedWithin
<1>4. DOMAIN L = 0 .. n - 1
  BY DEF Load
<1>5. \A i \in 0 .. 2 * M : slimb[i] = IF i \in 0 .. n - 1 THEN L[i] ELSE 0
  BY <1>1, <1>4 DEF Padded
<1>6. Most2 = LimbHalf + CarryOf(Most1) + LimbRange + T /\ T \in Nat /\ LimbHalf \in Nat
      /\ CarryOf(Most1) \in Nat /\ LimbRange \in Nat /\ Most2 \in Nat
  <2>1. T \in Nat
    BY <1>1, <1>2, TopTyped
  <2> QED BY <2>1, MostTyped, LimbHalves DEF Most2
<1> HIDE DEF L, T
<1>7. \A j \in 0 .. 2 * M - 1 : slimb[j] \in -Most2 .. Most2
  <2> SUFFICES ASSUME NEW j \in 0 .. 2 * M - 1 PROVE slimb[j] \in -Most2 .. Most2
    OBVIOUS
  <2>1. j \in 0 .. 2 * M /\ j \in 0 .. n - 1
    BY <1>2
  <2>2. slimb[j] = L[j] /\ L[j] \in 0 .. LimbRange + T
    BY <1>3, <1>5, <2>1
  <2> QED BY <1>6, <2>2
<1>8. slimb[2 * M] = 0
  BY <1>2, <1>5
<1> QED BY <1>2, <1>7, <1>8 DEF Before2, Between, NothingFrom

\* The vector sc_muladd starts from.
LEMMA MuladdStartFits ==
  ASSUME ScMuladd PROVE Before1(slimb)
<1>1. PICK a \in Factors, b \in Factors, c \in Factors :
        slimb = Padded(ProductPlus(Load(a, M), Load(b, M), Load(c, M)))
  BY DEF ScMuladd
<1> DEFINE A == Load(a, M)
           B == Load(b, M)
           D == Load(c, M)
           F == FactorMost
           FF == F * F
           column(k) == [i \in 0 .. M - 1 |-> IF k - i \in 0 .. M - 1 THEN A[i] * B[k - i] ELSE 0]
           P == ProductPlus(A, B, D)
<1>2. M \in Nat /\ M >= 4 /\ M \in 1 .. 2 * M /\ F \in Nat /\ FF \in Nat /\ Most1 \in Nat
      /\ ScalarBits \in Nat /\ F = LimbRange + TopLimb(ScalarBits, M) /\ Most1 = F + M * FF
  BY Quarters, MostTyped, ScalarAssumption, SMTT(30) DEF Most1, FactorMost
<1>3. /\ \A i \in 0 .. M - 1 : A[i] \in 0 .. F
      /\ \A i \in 0 .. M - 1 : B[i] \in 0 .. F
      /\ \A i \in 0 .. M - 1 : D[i] \in 0 .. F
  <2> SUFFICES ASSUME NEW x \in Factors
               PROVE  \A i \in 0 .. M - 1 : Load(x, M)[i] \in 0 .. F
    OBVIOUS
  <2>1. x \in 0 .. Power(2, ScalarBits) - 1
    BY ScalarAssumption
  <2> QED BY <1>2, <2>1, LoadedWithin
<1>4. P = [k \in 0 .. 2 * M - 2 |-> (IF k < M THEN D[k] ELSE 0) + SumTo(M, column(k))]
  BY DEF ProductPlus
<1>5. slimb = Padded(P)
  BY <1>1
<1>6. ASSUME NEW k \in Int
      PROVE  SumTo(M, column(k)) \in 0 .. M * FF
  <2>1. ASSUME NEW i \in 0 .. M - 1
        PROVE  column(k)[i] \in 0 .. FF
    <3>1. CASE k - i \in 0 .. M - 1
      <4> DEFINE x == A[i]
                 y == B[k - i]
      <4>1. x \in 0 .. F /\ y \in 0 .. F
        BY <1>3, <3>1
      <4>2. column(k)[i] = x * y
        BY <3>1
      <4> HIDE DEF x, y, F, FF, column
      <4>3. x \in Nat /\ y \in Nat /\ x <= F /\ y <= F
        BY <1>2, <4>1
      <4>4. x * y <= F * y /\ F * y <= F * F /\ x * y \in Nat /\ F * y \in Nat
        BY <1>2, <4>3
      <4>5. x * y \in 0 .. FF
        BY <1>2, <4>4 DEF FF
      <4> QED BY <4>2, <4>5
    <3>2. CASE k - i \notin 0 .. M - 1
      <4>1. column(k)[i] = 0
        BY <3>2
      <4> HIDE DEF column, FF
      <4> QED BY <1>2, <4>1
    <3> QED BY <3>1, <3>2
  <2> HIDE DEF column, FF
  <2> QED BY <1>2, <2>1, SumWithin
<1> HIDE DEF A, B, D, F, FF, column
<1>7. DOMAIN P = 0 .. 2 * M - 2
      /\ \A k \in 0 .. 2 * M - 2 : P[k] = (IF k < M THEN D[k] ELSE 0) + SumTo(M, column(k))
  BY <1>4
<1> HIDE DEF P
<1>8. \A j \in 0 .. 2 * M : slimb[j] = IF j \in 0 .. 2 * M - 2 THEN P[j] ELSE 0
  BY <1>5, <1>7 DEF Padded
<1>9. \A j \in 0 .. 2 * M - 2 : slimb[j] \in -Most1 .. Most1
  <2> SUFFICES ASSUME NEW j \in 0 .. 2 * M - 2 PROVE slimb[j] \in -Most1 .. Most1
    OBVIOUS
  <2>1. j \in 0 .. 2 * M /\ j \in Int
    BY <1>2
  <2> DEFINE d == IF j < M THEN D[j] ELSE 0
             s == SumTo(M, column(j))
             t == M * FF
  <2>2. slimb[j] = d + s
    BY <1>7, <1>8, <2>1
  <2>3. s \in 0 .. t /\ t \in Nat /\ Most1 = F + t
    BY <1>2, <1>6, <2>1
  <2>4. d \in 0 .. F
    <3>1. CASE j < M
      <4>1. j \in 0 .. M - 1
        BY <1>2, <3>1
      <4> QED BY <1>3, <3>1, <4>1
    <3>2. CASE ~(j < M)
      BY <1>2, <3>2
    <3> QED BY <3>1, <3>2
  <2> HIDE DEF d, s, t
  <2>5. d + s \in -Most1 .. Most1
    BY <1>2, <2>3, <2>4
  <2> QED BY <2>2, <2>5
<1>10. \A j \in 2 * M - 1 .. 2 * M : slimb[j] = 0
  <2> SUFFICES ASSUME NEW j \in 2 * M - 1 .. 2 * M PROVE slimb[j] = 0
    OBVIOUS
  <2>1. j \in 0 .. 2 * M /\ j \notin 0 .. 2 * M - 2
    BY <1>2
  <2> QED BY <1>8, <2>1
<1> QED BY <1>9, <1>10 DEF Before1, Between, NothingFrom

-----------------------------------------------------------------------------
Stage(p, v) ==
  /\ p \in 1 .. 10
  /\ p = 1 => Before1(v)
  /\ p = 2 => Before2(v)
  /\ p = 3 => Before3(v)
  /\ p = 4 => Before4(v)
  /\ p = 5 => Before5(v)
  /\ p = 6 => Before6(v)
  /\ p = 7 => Before7(v)
  /\ p = 8 => Before8(v)
  /\ p = 9 => Before9(v)
  /\ p = 10 => AtTheEnd(v)

\* A pass takes the vector from what it expects to what the next one expects.
LEMMA StageStep ==
  ASSUME NEW v \in ScalarVector, NEW p \in 1 .. 9, ScalarsFit, Stage(p, v)
  PROVE  Stage(p + 1, OnePassOver(v, Passes[p]))
<1> DEFINE u == OnePassOver(v, Passes[p])
<1>1. p \in {1, 2, 3, 4, 5, 6, 7, 8, 9} /\ p + 1 \in 1 .. 10
  OBVIOUS
<1>2. CASE p = 1
  <2>1. p + 1 = 2 /\ Before2(u)
    BY <1>2, Pass1 DEF Stage
  <2> HIDE DEF u
  <2> QED BY <1>1, <2>1 DEF Stage, u
<1>3. CASE p = 2
  <2>1. p + 1 = 3 /\ Before3(u)
    BY <1>3, Pass2 DEF Stage
  <2> HIDE DEF u
  <2> QED BY <1>1, <2>1 DEF Stage, u
<1>4. CASE p = 3
  <2>1. p + 1 = 4 /\ Before4(u)
    BY <1>4, Pass3 DEF Stage
  <2> HIDE DEF u
  <2> QED BY <1>1, <2>1 DEF Stage, u
<1>5. CASE p = 4
  <2>1. p + 1 = 5 /\ Before5(u)
    BY <1>5, Pass4 DEF Stage
  <2> HIDE DEF u
  <2> QED BY <1>1, <2>1 DEF Stage, u
<1>6. CASE p = 5
  <2>1. p + 1 = 6 /\ Before6(u)
    BY <1>6, Pass5 DEF Stage
  <2> HIDE DEF u
  <2> QED BY <1>1, <2>1 DEF Stage, u
<1>7. CASE p = 6
  <2>1. p + 1 = 7 /\ Before7(u)
    BY <1>7, Pass6 DEF Stage
  <2> HIDE DEF u
  <2> QED BY <1>1, <2>1 DEF Stage, u
<1>8. CASE p = 7
  <2>1. p + 1 = 8 /\ Before8(u)
    BY <1>8, Pass7 DEF Stage
  <2> HIDE DEF u
  <2> QED BY <1>1, <2>1 DEF Stage, u
<1>9. CASE p = 8
  <2>1. p + 1 = 9 /\ Before9(u)
    BY <1>9, Pass8 DEF Stage
  <2> HIDE DEF u
  <2> QED BY <1>1, <2>1 DEF Stage, u
<1>10. CASE p = 9
  <2>1. p + 1 = 10 /\ AtTheEnd(u)
    BY <1>10, Pass9 DEF Stage
  <2> HIDE DEF u
  <2> QED BY <1>1, <2>1 DEF Stage, u
<1> QED BY <1>1, <1>2, <1>3, <1>4, <1>5, <1>6, <1>7, <1>8, <1>9, <1>10

\* The inductive invariant: the scalar is kept, and the limbs are as small as
\* the passes so far have made them.
ScalarGrip == ScalarInv /\ Stage(pass, slimb)

\* The invariant holds of what is loaded.
LEMMA GripStart == ScalarInit => ScalarGrip
<1>1. ASSUME ScReduce PROVE ScalarGrip
  <2>1. pass = 2
    BY <1>1 DEF ScReduce
  <2> QED BY <1>1, <2>1, ReduceStart, ReduceStartFits DEF ScalarGrip, Stage
<1>2. ASSUME ScMuladd PROVE ScalarGrip
  <2>1. pass = 1
    BY <1>2 DEF ScMuladd
  <2> QED BY <1>2, <2>1, MuladdStart, MuladdStartFits DEF ScalarGrip, Stage
<1> QED BY <1>1, <1>2 DEF ScalarInit

\* Every pass keeps the invariant.
LEMMA GripStays ==
  ScalarsFit /\ ScalarGrip /\ [ScalarNext]_scalarVars => ScalarGrip'
<1> SUFFICES ASSUME ScalarsFit, ScalarGrip, [ScalarNext]_scalarVars PROVE ScalarGrip'
  OBVIOUS
<1>1. ScalarInv'
  BY ScalarStays DEF ScalarGrip
<1>2. Stage(pass', slimb')
  <2>1. CASE UNCHANGED scalarVars
    BY <2>1 DEF scalarVars, ScalarGrip
  <2>2. CASE ScalarNext
    <3>1. /\ pass <= Len(Passes) /\ slimb' = OnePassOver(slimb, Passes[pass]) /\ pass' = pass + 1
          /\ Stage(pass, slimb) /\ slimb \in ScalarVector
      BY <2>2 DEF ScalarNext, ScalarGrip, ScalarInv
    <3>2. pass \in 1 .. 9
      <4>1. Len(Passes) = 9
        BY PassList
      <4> QED BY <3>1, <4>1 DEF Stage
    <3> QED BY <3>1, <3>2, StageStep
  <2> QED BY <2>1, <2>2
<1>3. Stage(pass, slimb)' <=> Stage(pass', slimb')
  BY DEF Stage, Before1, Before2, Before3, Before4, Before5, Before6, Before7, Before8, Before9,
         AtTheEnd, Between, NothingFrom, Digitwise, NumberOf
<1> QED BY <1>1, <1>2, <1>3 DEF ScalarGrip

\* After the last pass the invariant is the property.
LEMMA GripReduces == ScalarGrip => ScalarReduced
<1> SUFFICES ASSUME ScalarGrip, pass > Len(Passes)
             PROVE  /\ NumberOf(slimb) = exact % ScalarOrder
                    /\ \A i \in 0 .. M - 2 : slimb[i] \in 0 .. ScalarPlace[1] - 1
                    /\ slimb[M - 1] \in 0 .. ScalarPlace[1]
                    /\ \A i \in M .. 2 * M : slimb[i] = 0
  BY DEF ScalarReduced
<1>1. Len(Passes) = 9 /\ pass \in 1 .. 10
  BY PassList DEF ScalarGrip, Stage
<1>2. AtTheEnd(slimb)
  BY <1>1 DEF ScalarGrip, Stage
<1>3. NumberOf(slimb) % ScalarOrder = exact % ScalarOrder
  BY ScalarKept DEF ScalarGrip, ScalarPreserved
<1>4. NumberOf(slimb) \in 0 .. ScalarOrder - 1 /\ ScalarOrder \in Nat \ {0}
  BY <1>2, ScalarPlaces DEF AtTheEnd
<1>5. NumberOf(slimb) % ScalarOrder = NumberOf(slimb)
  <2> DEFINE N == NumberOf(slimb)
  <2>1. N \in 0 .. ScalarOrder - 1
    BY <1>4
  <2> HIDE DEF N
  <2> QED BY <1>4, <2>1 DEF N
<1>6. (M - 1) - 1 = M - 2
  BY Quarters
<1> QED BY <1>2, <1>3, <1>5, <1>6 DEF AtTheEnd, Digitwise, NothingFrom, LimbRange

\* When sc_reduce or sc_muladd returns, the limbs hold the one representative
\* below the order, each within its width and none negative, so that the stores
\* write its bytes: for every argument, provided the limbs are wide enough.
THEOREM ScalarIsReduced == ScalarsFit => (ScalarSpec => []ScalarReduced)
<1> SUFFICES ASSUME ScalarsFit PROVE ScalarSpec => []ScalarReduced
  OBVIOUS
<1>1. ScalarGrip /\ [ScalarNext]_scalarVars => ScalarGrip'
  BY GripStays
<1> QED BY <1>1, GripStart, GripReduces, PTL DEF ScalarSpec

-----------------------------------------------------------------------------
(* The widths of sc.c.                                                       *)

\* The widths and the digits of sc.c.
AsInTheCode ==
  /\ LimbsPerScalar = 12 /\ LimbBits = 21 /\ ScalarBits = 256 /\ DigestBits = 512
  /\ Delta = <<666643, 470296, 654183, -997805, 136657, -683901>>

\* The powers of two of the widths of sc.c.
LEMMA SmallPowers ==
  /\ Power(2, 5) = 32 /\ Power(2, 20) = 1048576 /\ Power(2, 21) = 2097152
  /\ Power(2, 25) = 33554432 /\ Power(2, 29) = 536870912
  /\ Power(2, 58) = 288230376151711744
<1> DEFINE P(e) == Power(2, e)
<1>1. P(0) = 1 /\ \A e \in Nat : P(e) \in Nat /\ P(e + 1) = P(e) * 2
  BY PowerSteps
<1>2. \A d, e \in Nat : P(d + e) = P(d) * P(e)
  BY PowerOfSum
<1> HIDE DEF P
<1>3. P(1) = 2 /\ P(2) = 4 /\ P(3) = 8 /\ P(4) = 16 /\ P(5) = 32
  <2>1. P(0 + 1) = P(0) * 2 /\ P(1 + 1) = P(1) * 2 /\ P(2 + 1) = P(2) * 2
        /\ P(3 + 1) = P(3) * 2 /\ P(4 + 1) = P(4) * 2
    BY <1>1
  <2>2. 0 + 1 = 1 /\ 1 + 1 = 2 /\ 2 + 1 = 3 /\ 3 + 1 = 4 /\ 4 + 1 = 5
    OBVIOUS
  <2> QED BY <1>1, <2>1, <2>2
<1>4. P(10) = 1024
  <2>1. P(5 + 5) = P(5) * P(5)
    BY <1>2
  <2> QED BY <1>3, <2>1
<1>5. P(20) = 1048576
  <2>1. P(10 + 10) = P(10) * P(10)
    BY <1>2
  <2> QED BY <1>4, <2>1, SMT
<1>6. P(21) = 2097152 /\ P(25) = 33554432
  <2>1. P(20 + 1) = P(20) * 2 /\ P(20 + 5) = P(20) * P(5)
    BY <1>1, <1>2
  <2> QED BY <1>3, <1>5, <2>1, SMT
<1>7. P(29) = 536870912
  <2>1. P(25 + 4) = P(25) * P(4)
    BY <1>2
  <2> QED BY <1>3, <1>6, <2>1, SMT
<1>8. P(58) = 288230376151711744
  <2>1. P(29 + 29) = P(29) * P(29)
    BY <1>2
  <2> QED BY <1>7, <2>1, SMT
<1> QED BY <1>3, <1>5, <1>6, <1>7, <1>8, SMT DEF P

\* A power divided by a lower one.
LEMMA PowerOfQuotient ==
  ASSUME NEW i \in Nat, NEW d \in Nat
  PROVE  Power(2, i + d) \div Power(2, i) = Power(2, d)
<1> DEFINE a == Power(2, i)
           b == Power(2, d)
           q == (a * b) \div a
           r == (a * b) % a
<1>1. 2 \in Nat /\ 2 \in Nat \ {0}
  OBVIOUS
<1>2. Power(2, i + d) = a * b
  BY <1>1, PowerOfSum
<1>3. a \in Nat \ {0} /\ b \in Nat \ {0}
  BY <1>1, PowerPositive
<1> HIDE DEF a, b
<1>4. a * b \in Nat
  BY <1>3
<1>5. q \in Int /\ r \in 0 .. a - 1 /\ a * b = a * q + r
  BY <1>3, <1>4
<1> HIDE DEF q, r
<1>6. q <= b
  <2> SUFFICES ASSUME q >= b + 1 PROVE FALSE
    BY <1>3, <1>5
  <2>1. a * q >= a * (b + 1)
    BY <1>3, <1>5
  <2>2. a * (b + 1) = a * b + a /\ a * q \in Int
    BY <1>3, <1>5
  <2> QED BY <1>3, <1>4, <1>5, <2>1, <2>2
<1>7. q >= b
  <2> SUFFICES ASSUME q <= b - 1 PROVE FALSE
    BY <1>3, <1>5
  <2>1. a * q <= a * (b - 1)
    BY <1>3, <1>5
  <2>2. a * (b - 1) = a * b - a /\ a * q \in Int
    BY <1>3, <1>5
  <2> QED BY <1>3, <1>4, <1>5, <2>1, <2>2
<1>8. q = b
  BY <1>3, <1>5, <1>6, <1>7
<1> QED BY <1>2, <1>8 DEF a, b, q

\* The numbers of the code: 12 limbs of 21 bits, and what is above the last.
LEMMA CodeTops ==
  ASSUME AsInTheCode
  PROVE  /\ M = 12 /\ Quarter = 6 /\ LimbHalf = 1048576 /\ LimbRange = 2097152
         /\ TopLimb(ScalarBits, M) = 33554432 /\ TopLimb(DigestBits, 2 * M) = 536870912
<1>1. M = 12 /\ LimbBits = 21 /\ ScalarBits = 256 /\ DigestBits = 512
  BY DEF AsInTheCode, M
<1>2. Quarter = 6
  BY <1>1 DEF Quarter
<1>3. LimbHalf = 1048576
  <2>1. LimbBits - 1 = 20
    BY <1>1
  <2> QED BY <2>1, SmallPowers DEF LimbHalf
<1>4. LimbRange = 2097152
  <2>1. LimbRange = 2 * LimbHalf
    BY LimbHalves
  <2> QED BY <1>3, <2>1, SMT
<1>6. TopLimb(ScalarBits, M) = 33554432
  <2>1. M - 1 \in 0 .. 2 * M /\ LimbBits * (M - 1) = 231 /\ 231 + 25 = 256
    BY <1>1
  <2>2. ScalarPlace[M - 1] = Power(2, 231)
    BY <2>1 DEF ScalarPlace
  <2>3. Power(2, 231 + 25) \div Power(2, 231) = Power(2, 25)
    BY PowerOfQuotient
  <2>4. TopLimb(ScalarBits, M) = Power(2, 25)
    BY <1>1, <2>1, <2>2, <2>3 DEF TopLimb
  <2> QED BY <2>4, SmallPowers
<1>7. TopLimb(DigestBits, 2 * M) = 536870912
  <2>1. 2 * M - 1 \in 0 .. 2 * M /\ LimbBits * (2 * M - 1) = 483 /\ 483 + 29 = 512
    BY <1>1
  <2>2. ScalarPlace[2 * M - 1] = Power(2, 483)
    BY <2>1 DEF ScalarPlace
  <2>3. Power(2, 483 + 29) \div Power(2, 483) = Power(2, 29)
    BY PowerOfQuotient
  <2>4. TopLimb(DigestBits, 2 * M) = Power(2, 29)
    BY <1>1, <2>1, <2>2, <2>3 DEF TopLimb
  <2> QED BY <2>4, SmallPowers
<1> QED BY <1>1, <1>2, <1>3, <1>4, <1>6, <1>7

\* The digits of -delta are within a rounded limb.
LEMMA CodeDigits ==
  ASSUME AsInTheCode
  PROVE  \A k \in 0 .. Quarter - 1 : FoldDigit(k) \in -LimbHalf .. LimbHalf
<1>1. /\ Delta[1] = 666643 /\ Delta[2] = 470296 /\ Delta[3] = 654183
      /\ Delta[4] = -997805 /\ Delta[5] = 136657 /\ Delta[6] = -683901 /\ DOMAIN Delta = 1 .. 6
  BY SMT DEF AsInTheCode
<1> SUFFICES ASSUME NEW k \in 0 .. Quarter - 1 PROVE FoldDigit(k) \in -LimbHalf .. LimbHalf
  OBVIOUS
<1>2. k + 1 \in {1, 2, 3, 4, 5, 6} /\ LimbHalf = 1048576
  BY CodeTops
<1>3. FoldDigit(k) = Delta[k + 1]
  BY <1>1, <1>2 DEF FoldDigit
<1> DEFINE Fits(x) == x \in Int /\ x <= 1048576 /\ x + 1048576 >= 0
<1>4. Fits(Delta[1]) /\ Fits(Delta[2]) /\ Fits(Delta[3])
      /\ Fits(Delta[4]) /\ Fits(Delta[5]) /\ Fits(Delta[6])
  <2>1. Fits(666643) /\ Fits(470296) /\ Fits(654183)
    BY SMT
  <2>2. Fits(-997805) /\ Fits(136657) /\ Fits(-683901)
    BY SMT
  <2> HIDE DEF Fits
  <2> QED BY <1>1, <2>1, <2>2
<1>5. Fits(Delta[k + 1])
  <2> HIDE DEF Fits
  <2> QED BY <1>2, <1>4
<1>6. FoldDigit(k) \in Int /\ FoldDigit(k) <= LimbHalf /\ FoldDigit(k) + LimbHalf >= 0
  BY <1>2, <1>3, <1>5, SMT
<1> HIDE DEF Fits
<1>7. LimbHalf \in Nat
  BY LimbHalves
<1> QED BY <1>6, <1>7

\* The leading digit of -delta is negative, so the order is above 2^252.
LEMMA CodeOrder ==
  ASSUME AsInTheCode
  PROVE  ScalarOrder >= ScalarPlace[M]
<1> DEFINE w == [i \in 0 .. 2 * M |-> FoldDigit(i)]
           d == [k \in 0 .. M - 1 |-> FoldDigit(k) * ScalarPlace[k]]
           H == LimbHalf
           p4 == ScalarPlace[4]
           p5 == ScalarPlace[5]
           r == ScalarPlace[M]
           top == FoldDigit(5)
<1>0. M = 12 /\ Quarter = 6 /\ H \in Nat
  BY CodeTops, LimbHalves
<1>1. w \in ScalarVector /\ \A i \in 0 .. 2 * M : w[i] = FoldDigit(i)
  BY FoldDigits DEF ScalarVector
<1> HIDE DEF w
<1>2. LowNumber(w, M) = LowNumber(w, 6)
  <2>1. \A j \in 6 .. 2 * M : w[j] = 0
    <3> SUFFICES ASSUME NEW j \in 6 .. 2 * M PROVE w[j] = 0
      OBVIOUS
    <3>1. j \in 0 .. 2 * M /\ j \in Int /\ j \notin 0 .. Quarter - 1
      BY <1>0
    <3> QED BY <1>1, <3>1, FoldDigits
  <2>2. \A j \in M .. 2 * M : w[j] = 0
    BY <1>0, <2>1
  <2>3. 6 \in 0 .. 2 * M + 1 /\ M \in 0 .. 2 * M + 1
    BY <1>0
  <2>4. NumberOf(w) = LowNumber(w, 6)
    BY <1>1, <2>1, <2>3, NothingAbove
  <2>5. NumberOf(w) = LowNumber(w, M)
    BY <1>1, <2>2, <2>3, NothingAbove
  <2> QED BY <2>4, <2>5
<1>3. LowNumber(w, M) = SumTo(M, d)
  <2>1. \A i \in 0 .. M - 1 : i \in 0 .. 2 * M
    BY <1>0
  <2>2. \A i \in 0 .. 2 * M : PlacedScalar(w)[i] = w[i] * ScalarPlace[i] /\ PlacedScalar(w)[i] \in Int
    BY <1>1, ScalarPlaced
  <2>3. Ints(PlacedScalar(w), M)
    BY <1>0, <2>1, <2>2 DEF Ints
  <2>4. \A i \in 0 .. M - 1 : d[i] = PlacedScalar(w)[i]
    BY <1>1, <2>1, <2>2
  <2> HIDE DEF d
  <2>5. SumTo(M, d) = SumTo(M, PlacedScalar(w))
    BY <2>3, <2>4, SumSame
  <2> QED BY <2>5 DEF LowNumber
<1>4. LowNumber(w, 6) = LowNumber(w, 5) + top * p5
  <2>1. 5 \in 0 .. 2 * M /\ 5 + 1 = 6
    BY <1>0
  <2>2. LowNumber(w, 5 + 1) = LowNumber(w, 5) + w[5] * p5
    BY <1>1, <2>1, LowNumberSteps
  <2> QED BY <1>1, <2>1, <2>2
<1>5. LowNumber(w, 5) \in -(2 * (H * p4)) .. 2 * (H * p4)
  <2>1. 4 \in 0 .. 2 * M - 1 /\ 4 + 1 = 5
    BY <1>0
  <2>2. \A j \in 0 .. 4 : w[j] \in -H .. H
    <3> SUFFICES ASSUME NEW j \in 0 .. 4 PROVE w[j] \in -H .. H
      OBVIOUS
    <3>1. j \in 0 .. 2 * M /\ j \in 0 .. Quarter - 1
      BY <1>0
    <3> QED BY <1>1, <3>1, CodeDigits
  <2> HIDE DEF H
  <2>3. LowNumber(w, 4 + 1) \in -(2 * (H * p4)) .. 2 * (H * p4)
    BY <1>0, <1>1, <2>1, <2>2, LowNumberBound
  <2> QED BY <2>1, <2>3
<1>6. 2 * (H * p4) = p5 /\ p4 \in Nat /\ p5 \in Nat /\ r \in Nat
  <2>1. 4 \in 0 .. 2 * M - 1 /\ 4 + 1 = 5 /\ M \in 0 .. 2 * M
    BY <1>0
  <2>2. p4 \in Nat \ {0} /\ ScalarPlace[4 + 1] \in Nat \ {0} /\ ScalarPlace[4 + 1] = LimbRange * p4
    BY <2>1, NextPlace
  <2>3. LimbRange = 2 * H /\ r \in Nat
    BY <2>1, LimbHalves, ScalarPlaces
  <2> HIDE DEF H, p4, r
  <2>4. (2 * H) * p4 = 2 * (H * p4)
    BY <1>0, <2>2
  <2> QED BY <2>1, <2>2, <2>3, <2>4
<1>7. top \in Int /\ top <= -1
  <2>1. Delta[6] = -683901 /\ DOMAIN Delta = 1 .. 6 /\ 5 + 1 = 6
    BY SMT DEF AsInTheCode
  <2>2. top = Delta[6]
    BY <2>1 DEF FoldDigit
  <2> QED BY <2>1, <2>2, SMT
<1>8. ScalarOrder = r - SumTo(M, d)
  BY DEF ScalarOrder
<1> DEFINE low == LowNumber(w, 5)
           s == SumTo(M, d)
<1>9. s = low + top * p5 /\ low \in -p5 .. p5
  <2> DEFINE b == 2 * (H * p4)
  <2>1. low \in -b .. b /\ b = p5
    BY <1>5, <1>6
  <2> HIDE DEF b, low, p5
  <2>2. low \in -p5 .. p5
    BY <2>1
  <2> QED BY <1>2, <1>3, <1>4, <2>2 DEF low, p5
<1> HIDE DEF low, s, top, p4, p5, r, d
<1>10. top * p5 <= (-1) * p5 /\ top * p5 \in Int
  BY <1>6, <1>7
<1>11. s \in Int /\ s <= 0
  BY <1>6, <1>9, <1>10
<1> QED BY <1>6, <1>8, <1>11 DEF s, r

\* The bounds of the passes, with the code's widths.
LEMMA CodeMost ==
  ASSUME AsInTheCode
  PROVE  /\ Most1 = 15252425336160256 /\ Most5 = 245780673713962573
         /\ LastCarry = 117197413880 /\ LimbHalf = 1048576 /\ LimbRange = 2097152
<1>1. /\ M = 12 /\ Quarter = 6 /\ LimbHalf = 1048576 /\ LimbRange = 2097152
      /\ TopLimb(ScalarBits, M) = 33554432 /\ TopLimb(DigestBits, 2 * M) = 536870912
  BY CodeTops
<1>2. FactorMost = 35651584
  BY <1>1, SMT DEF FactorMost
<1>3. Most1 = 15252425336160256
  BY <1>1, <1>2, SMT DEF Most1
<1>4. CarryOf(Most1) = 7272926622
  BY <1>1, <1>3, SMT DEF CarryOf
<1>5. Most2 = 7812943262
  BY <1>1, <1>4, SMT DEF Most2
<1>6. Most3 = 49154796576312734
  BY <1>1, <1>5, SMT DEF Most3, FoldGrowth
<1>7. CarryOf(Most3) = 23438844689
  BY <1>1, <1>6, SMT DEF CarryOf
<1>8. Most4 = 31252836527
  BY <1>1, <1>5, <1>7, SMT DEF Most4
<1>9. Most5 = 245780673713962573
  BY <1>1, <1>6, <1>8, SMT DEF Most5, FoldGrowth
<1>10. LastCarry = 117197413880
  BY <1>1, <1>9, SMT DEF LastCarry, CarryOf
<1> QED BY <1>1, <1>3, <1>9, <1>10

\* The widths of the code are wide enough.
THEOREM CodeScalarsFit == AsInTheCode => ScalarsFit
<1> SUFFICES ASSUME AsInTheCode PROVE ScalarsFit
  OBVIOUS
<1>1. LastCarry = 117197413880 /\ LimbHalf = 1048576 /\ LimbRange = 2097152
  BY CodeMost
<1>2. 2 * LimbHalf + 3 * LastCarry < LimbHalf * LimbRange
  BY <1>1, SMT
<1> QED BY <1>2, CodeDigits, CodeOrder DEF ScalarsFit

-----------------------------------------------------------------------------
(* The library.                                                              *)

\* A layer that is not called holds zeros.
LEMMA IdleField == FieldIdle => FieldTyped /\ Elements!ElementInit
<1> SUFFICES ASSUME FieldIdle PROVE FieldTyped /\ Elements!ElementInit
  OBVIOUS
<1>1. Fe0 \in Vector
  BY ConstantElement, 0 \in Int DEF Fe0
<1>2. reg \in [Reg -> Vector] /\ feOp = "loaded"
  BY <1>1 DEF FieldIdle
<1>3. \A r \in Reg : Value(reg[r]) \in Elements!Element
  BY <1>2, ValueOf DEF Elements!Element
<1> QED BY <1>2, <1>3 DEF FieldTyped, Elements!ElementInit

LEMMA IdleScalar == ScalarIdle => ScalarInv
<1> SUFFICES ASSUME ScalarIdle PROVE ScalarInv
  OBVIOUS
<1>1. exact = 0 /\ slimb = Padded(<<>>) /\ pass = Len(Passes) + 1
  BY DEF ScalarIdle
<1>2. slimb = [i \in 0 .. 2 * M |-> 0]
  <2>1. DOMAIN <<>> = {}
    OBVIOUS
  <2> QED BY <1>1, <2>1 DEF Padded
<1>3. slimb \in ScalarVector /\ \A i \in 0 .. 2 * M : slimb[i] = 0
  BY <1>2 DEF ScalarVector
<1>4. NumberOf(slimb) = 0
  <2> DEFINE n == 2 * M + 1
  <2>1. \A i \in 0 .. n - 1 : PlacedScalar(slimb)[i] = 0
    <3> TAKE i \in 0 .. n - 1
    <3>1. i \in 0 .. 2 * M
      BY ScalarSizes
    <3>2. PlacedScalar(slimb)[i] = 0 * ScalarPlace[i] /\ ScalarPlace[i] \in Int
      BY <1>3, <3>1, ScalarPlaced
    <3> QED BY <3>2
  <2>2. n \in Nat
    BY ScalarSizes
  <2> HIDE DEF n
  <2>3. SumTo(n, PlacedScalar(slimb)) = 0
    BY <2>1, <2>2, SumOfZeros
  <2> QED BY <1>3, <2>3, ScalarPlaced DEF n
<1>5. Congruent(ScalarOrder, 0, 0)
  BY ScalarPlaces, SameSelf
<1>6. pass \in Nat \ {0}
  <2> DEFINE s == Passes
  <2>1. s \in Seq(LimbPass)
    BY PassesVisitLimbs
  <2> HIDE DEF s
  <2>2. Len(s) \in Nat
    BY <2>1
  <2>3. Len(s) + 1 \in Nat \ {0}
    BY <2>2
  <2> QED BY <1>1, <2>3 DEF s
<1> QED BY <1>1, <1>3, <1>4, <1>5, <1>6 DEF ScalarInv

\* Whichever layer of the library is called: what the field's limbs hold is the
\* arithmetic of FieldElements, and the scalar is never changed.
THEOREM LibraryComputes == LibrarySpec => ImplementsField /\ []ScalarPreserved
<1>1. LibraryInit => /\ FieldTyped /\ Elements!ElementInit
                     /\ ScalarInv
  BY FieldStart, IdleField, ReduceStart, MuladdStart, IdleScalar
     DEF LibraryInit, ScalarInit
<1>2. [LibraryNext]_libraryVars => [FieldNext]_fieldVars /\ [ScalarNext]_scalarVars
  BY DEF LibraryNext, libraryVars
<1> QED BY <1>1, <1>2, FieldStays, ScalarStays, ScalarKept, PTL
        DEF LibrarySpec, ImplementsField, Elements!ElementSpec

\* A scalar layer that is not called holds zeros: reduced.
LEMMA IdleGrip == ScalarIdle => ScalarGrip
<1> SUFFICES ASSUME ScalarIdle PROVE ScalarGrip
  OBVIOUS
<1>1. ScalarInv
  BY IdleScalar
<1>2. exact = 0 /\ slimb = Padded(<<>>) /\ pass = 10
  BY PassList DEF ScalarIdle
<1>3. slimb \in ScalarVector /\ \A i \in 0 .. 2 * M : slimb[i] = 0
  <2>1. DOMAIN <<>> = {}
    OBVIOUS
  <2>2. slimb = [i \in 0 .. 2 * M |-> 0]
    BY <1>2, <2>1 DEF Padded
  <2> QED BY <2>2 DEF ScalarVector
<1>4. NumberOf(slimb) = 0
  <2>1. NothingFrom(slimb, 0)
    BY <1>3 DEF NothingFrom
  <2>2. M \in Nat /\ 0 \in 0 .. 2 * M + 1
    BY Quarters
  <2>3. NumberOf(slimb) = LowNumber(slimb, 0)
    <3>1. \A j \in 0 .. 2 * M : slimb[j] = 0
      BY <1>3
    <3> QED BY <1>3, <2>2, <3>1, NothingAbove
  <2> QED BY <1>3, <2>3, LowNumberSteps
<1>5. AtTheEnd(slimb)
  <2>1. M \in Nat /\ M >= 4
    BY Quarters
  <2>2. \A i \in 0 .. M - 1 : i \in 0 .. 2 * M
    BY <2>1
  <2>3. \A i \in M .. 2 * M : i \in 0 .. 2 * M
    BY <2>1
  <2>4. LimbRange \in Nat \ {0}
    BY LimbHalves
  <2>5. 0 \in 0 .. ScalarOrder - 1
    BY ScalarPlaces
  <2> QED BY <1>3, <1>4, <2>1, <2>2, <2>3, <2>4, <2>5 DEF AtTheEnd, Digitwise, NothingFrom, Between
<1>6. Stage(10, slimb)
  BY <1>5 DEF Stage
<1> QED BY <1>1, <1>2, <1>6 DEF ScalarGrip

\* What sc_reduce and sc_muladd leave is reduced, whichever layer of the library
\* is called and whatever the others do.
THEOREM LibraryReduces == ScalarsFit => (LibrarySpec => []ScalarReduced)
<1> SUFFICES ASSUME ScalarsFit PROVE LibrarySpec => []ScalarReduced
  OBVIOUS
<1>1. LibraryInit => ScalarGrip
  BY GripStart, IdleGrip DEF LibraryInit
<1>2. [LibraryNext]_libraryVars => [ScalarNext]_scalarVars
  BY DEF LibraryNext, libraryVars
<1>3. ScalarGrip /\ [ScalarNext]_scalarVars => ScalarGrip'
  BY GripStays
<1> QED BY <1>1, <1>2, <1>3, GripReduces, PTL DEF LibrarySpec

\* No limb of the scalar is ever wider than this between two passes.
Widest == Most1 + Most5 + Most7
LimbsNarrow == \A i \in 0 .. 2 * M : slimb[i] \in -Widest .. Widest

\* The bounds grow with the passes that fold.
LEMMA MostGrows ==
  /\ Widest \in Nat /\ Most1 <= Widest /\ Most2 <= Widest /\ Most3 <= Widest /\ Most4 <= Widest
  /\ Most5 <= Widest /\ Most7 <= Widest
  /\ LimbHalf + LastCarry <= Widest /\ LimbRange + LimbHalf <= Widest
<1>1. /\ Most1 \in Nat /\ Most2 \in Nat /\ Most3 \in Nat /\ Most4 \in Nat /\ Most5 \in Nat
      /\ Most7 \in Nat /\ LastCarry \in Nat /\ CarryOf(Most1) \in Nat
  BY MostTyped
<1>2. /\ LimbHalf \in Nat /\ LimbRange \in Nat /\ M \in Nat /\ Quarter \in Nat
      /\ 2 * M \in 1 .. 2 * M /\ DigestBits \in Nat
  BY LimbHalves, ScalarSizes, ScalarAssumption
<1>3. /\ FoldGrowth(Most2, Quarter) \in Nat /\ FoldGrowth(Most4, Quarter) \in Nat
      /\ TopLimb(DigestBits, 2 * M) \in Nat
  BY <1>1, <1>2, GrowthTyped, TopTyped
<1>4. Most2 <= Most3
  BY <1>1, <1>3 DEF Most3
<1>5. Most3 + Most4 <= Most5
  BY <1>1, <1>3 DEF Most5
<1>6. LimbHalf + LastCarry <= Most7
  <2>1. LastCarry * LimbHalf \in Nat
    BY <1>1, <1>2
  <2> QED BY <1>1, <1>2, <2>1 DEF Most7
<1>7. LimbHalf + LimbRange <= Most2
  BY <1>1, <1>2, <1>3 DEF Most2
<1> QED BY <1>1, <1>2, <1>4, <1>5, <1>6, <1>7 DEF Widest

\* Whatever is within a smaller bound is within that one.
LEMMA WithinWidest ==
  ASSUME NEW v, NEW a \in Int, NEW b \in Int, NEW X \in Nat, X <= Widest, Between(v, a, b, X)
  PROVE  \A j \in a .. b : v[j] \in -Widest .. Widest
<1>1. Widest \in Nat
  BY MostGrows
<1>2. \A j \in a .. b : v[j] \in -X .. X
  BY DEF Between
<1> QED BY <1>1, <1>2

\* Before every pass, and after the last.
LEMMA StageNarrow ==
  ASSUME NEW v \in ScalarVector, NEW p, Stage(p, v)
  PROVE  \A j \in 0 .. 2 * M : v[j] \in -Widest .. Widest
<1> DEFINE W == Widest
           In(a, b) == \A j \in a .. b : v[j] \in -W .. W
<1>1. /\ M \in Nat /\ M >= 4 /\ Quarter \in Nat /\ 2 * Quarter = M
  BY Quarters
<1>2. W \in Nat /\ 0 \in -W .. W
  BY MostGrows
<1>3. ASSUME NEW a \in Int, NothingFrom(v, a) PROVE In(a, 2 * M)
  BY <1>2, <1>3 DEF NothingFrom
<1>4. ASSUME NEW a \in Int, NEW b \in Int, NEW X \in Nat, X <= W, Between(v, a, b, X) PROVE In(a, b)
  BY <1>4, WithinWidest
<1>5. /\ Most1 \in Nat /\ Most2 \in Nat /\ Most3 \in Nat /\ Most4 \in Nat /\ Most5 \in Nat
      /\ Most7 \in Nat /\ LimbHalf + LastCarry \in Nat /\ LimbRange + LimbHalf \in Nat
      /\ LimbRange \in Nat /\ LimbHalf \in Nat /\ LastCarry \in Nat
  BY MostTyped, LimbHalves
<1>6. /\ Most1 <= W /\ Most2 <= W /\ Most3 <= W /\ Most4 <= W /\ Most5 <= W /\ Most7 <= W
      /\ LimbHalf + LastCarry <= W /\ LimbRange + LimbHalf <= W
  BY MostGrows
<1>7. /\ 2 * M - 2 \in Int /\ 2 * M - 1 \in Int /\ M + Quarter - 2 \in Int /\ M + Quarter \in Int
      /\ M + Quarter - 1 \in Int /\ Quarter - 1 \in Int /\ M - 1 \in Int /\ M - 2 \in Int
      /\ M + 1 \in Int /\ 2 * M \in Int /\ M \in Int /\ 0 \in Int /\ Quarter \in Int
  BY <1>1
<1>8. CASE p = 1
  <2>1. In(0, 2 * M - 2) /\ In(2 * M - 1, 2 * M)
    <3>1. Before1(v)
      BY <1>8 DEF Stage
    <3> HIDE DEF In, W
    <3> QED BY <1>3, <1>4, <1>5, <1>6, <1>7, <3>1 DEF Before1
  <2> QED BY <1>1, <2>1
<1>9. CASE p = 2
  <2>1. In(0, 2 * M - 1) /\ In(2 * M, 2 * M)
    <3>1. Before2(v)
      BY <1>9 DEF Stage
    <3> HIDE DEF In, W
    <3> QED BY <1>3, <1>4, <1>5, <1>6, <1>7, <3>1 DEF Before2
  <2> QED BY <1>1, <2>1
<1>10. CASE p = 3
  <2>1. Before3(v)
    BY <1>10 DEF Stage
  <2>2. In(0, M + Quarter - 2) /\ In(M + Quarter, 2 * M)
    <3> HIDE DEF In, W
    <3> QED BY <1>3, <1>4, <1>5, <1>6, <1>7, <2>1 DEF Before3
  <2>3. v[M + Quarter - 1] \in -W .. W
    BY <1>2, <1>5, <1>6, <2>1 DEF Before3
  <2>4. \A j \in 0 .. 2 * M : j \in 0 .. M + Quarter - 2 \/ j = M + Quarter - 1 \/ j \in M + Quarter .. 2 * M
    BY <1>1
  <2> QED BY <2>2, <2>3, <2>4
<1>11. CASE p = 4
  <2>1. In(0, Quarter - 1) /\ In(Quarter, M + Quarter - 1) /\ In(M + Quarter, 2 * M)
    <3>1. Before4(v)
      BY <1>11 DEF Stage
    <3> HIDE DEF In, W
    <3> QED BY <1>3, <1>4, <1>5, <1>6, <1>7, <3>1 DEF Before4
  <2> QED BY <1>1, <2>1
<1>12. CASE p = 5
  <2>1. In(0, M - 1) /\ In(M, 2 * M)
    <3>1. Before5(v)
      BY <1>12 DEF Stage
    <3> HIDE DEF In, W
    <3> QED BY <1>3, <1>4, <1>5, <1>6, <1>7, <3>1 DEF Before5
  <2> QED BY <1>1, <2>1
<1>13. CASE p = 6
  <2>1. Before6(v)
    BY <1>13 DEF Stage
  <2>2. In(0, M - 2) /\ In(M + 1, 2 * M)
    <3> HIDE DEF In, W
    <3> QED BY <1>3, <1>4, <1>5, <1>6, <1>7, <2>1 DEF Before6
  <2>3. v[M - 1] \in -W .. W /\ v[M] \in -W .. W
    BY <1>2, <1>5, <1>6, <2>1 DEF Before6
  <2>4. \A j \in 0 .. 2 * M : j \in 0 .. M - 2 \/ j = M - 1 \/ j = M \/ j \in M + 1 .. 2 * M
    BY <1>1
  <2> QED BY <2>2, <2>3, <2>4
<1>14. CASE p = 7
  <2>1. In(0, M - 1) /\ In(M, 2 * M)
    <3>1. Before7(v)
      BY <1>14 DEF Stage
    <3> HIDE DEF In, W
    <3> QED BY <1>3, <1>4, <1>5, <1>6, <1>7, <3>1 DEF Before7
  <2> QED BY <1>1, <2>1
<1>15. CASE p = 8
  <2>1. Before8(v)
    BY <1>15 DEF Stage
  <2>2. In(M + 1, 2 * M)
    <3> HIDE DEF In, W
    <3> QED BY <1>3, <1>7, <2>1 DEF Before8
  <2>3. v[M] \in {-1, 0}
    BY <2>1, TopBorrow
  <2>4. LimbRange \in Nat \ {0} /\ LimbRange <= W
    BY <1>2, <1>5, <1>6, LimbHalves
  <2>5. v[M] \in -W .. W
    BY <1>2, <2>3, <2>4
  <2>6. In(0, M - 1)
    <3>1. \A j \in 0 .. M - 1 : v[j] \in 0 .. LimbRange - 1
      BY <2>1 DEF Before8, Digitwise
    <3> HIDE DEF W
    <3> QED BY <1>2, <2>4, <3>1
  <2>7. \A j \in 0 .. 2 * M : j \in 0 .. M - 1 \/ j = M \/ j \in M + 1 .. 2 * M
    BY <1>1
  <2> QED BY <2>2, <2>5, <2>6, <2>7
<1>16. CASE p = 9
  <2>1. In(0, M - 1) /\ In(M, 2 * M)
    <3>1. Before9(v)
      BY <1>16 DEF Stage
    <3> HIDE DEF In, W
    <3> QED BY <1>3, <1>4, <1>5, <1>6, <1>7, <3>1 DEF Before9
  <2> QED BY <1>1, <2>1
<1>17. CASE p = 10
  <2>1. AtTheEnd(v)
    BY <1>17 DEF Stage
  <2>2. In(M, 2 * M)
    <3> HIDE DEF In, W
    <3> QED BY <1>3, <1>7, <2>1 DEF AtTheEnd
  <2>3. LimbRange \in Nat \ {0} /\ LimbRange <= W
    BY <1>2, <1>5, <1>6, LimbHalves
  <2>4. v[M - 1] \in -W .. W
    BY <1>2, <2>1, <2>3 DEF AtTheEnd
  <2>5. In(0, M - 1 - 1)
    <3>1. \A j \in 0 .. M - 1 - 1 : v[j] \in 0 .. LimbRange - 1
      BY <2>1 DEF AtTheEnd, Digitwise
    <3> HIDE DEF W
    <3> QED BY <1>2, <2>3, <3>1
  <2>6. \A j \in 0 .. 2 * M : j \in 0 .. M - 1 - 1 \/ j = M - 1 \/ j \in M .. 2 * M
    BY <1>1
  <2> QED BY <2>2, <2>4, <2>5, <2>6
<1>18. p \in {1, 2, 3, 4, 5, 6, 7, 8, 9, 10}
  <2>1. p \in 1 .. 10
    BY DEF Stage
  <2> QED BY <2>1
<1> QED BY <1>8, <1>9, <1>10, <1>11, <1>12, <1>13, <1>14, <1>15, <1>16, <1>17, <1>18

\* Between two passes no limb of the scalar leaves the bound.
THEOREM LibraryStaysNarrow == ScalarsFit => (LibrarySpec => []LimbsNarrow)
<1> SUFFICES ASSUME ScalarsFit PROVE LibrarySpec => []LimbsNarrow
  OBVIOUS
<1>1. LibraryInit => ScalarGrip
  BY GripStart, IdleGrip DEF LibraryInit
<1>2. [LibraryNext]_libraryVars => [ScalarNext]_scalarVars
  BY DEF LibraryNext, libraryVars
<1>3. ScalarGrip /\ [ScalarNext]_scalarVars => ScalarGrip'
  BY GripStays
<1>4. ScalarGrip => LimbsNarrow
  BY StageNarrow DEF ScalarGrip, ScalarInv, LimbsNarrow
<1> QED BY <1>1, <1>2, <1>3, <1>4, PTL DEF LibrarySpec

\* The signed 64-bit limbs of sc.c.
FitsInt64(x) == x \in -Power(2, 63) .. Power(2, 63) - 1

\* With the code's widths no limb is near the end of an int64_t.
LEMMA CodeWidest == AsInTheCode => \A x \in -Widest .. Widest : FitsInt64(x)
<1> SUFFICES ASSUME AsInTheCode, NEW x \in -Widest .. Widest PROVE FitsInt64(x)
  OBVIOUS
<1>1. /\ Most1 = 15252425336160256 /\ Most5 = 245780673713962573
      /\ LastCarry = 117197413880 /\ LimbHalf = 1048576
  BY CodeMost
<1>2. Most7 = 122890512655097336
  BY <1>1, SMT DEF Most7
<1> DEFINE W == Widest
           p == Power(2, 58)
           q == Power(2, 63)
<1>3. p = 288230376151711744
  BY SmallPowers
<1>4. q = p * 32
  <2>1. 2 \in Nat /\ 58 \in Nat /\ 5 \in Nat /\ 58 + 5 = 63
    OBVIOUS
  <2>2. Power(2, 58 + 5) = Power(2, 58) * Power(2, 5)
    BY <2>1, PowerOfSum
  <2>3. Power(2, 5) = 32
    BY SmallPowers
  <2> QED BY <2>1, <2>2, <2>3
<1> HIDE DEF p, q
<1>5. /\ p \in Nat /\ Most1 \in Nat /\ Most5 \in Nat /\ Most7 \in Nat
      /\ Most1 < p /\ Most5 < p /\ Most7 < p
  BY <1>1, <1>2, <1>3, SMT
<1>6. W \in Nat /\ W < 3 * p
  BY <1>5 DEF Widest
<1>7. x \in -W .. W
  OBVIOUS
<1> HIDE DEF W
<1>8. x \in -q .. q - 1
  BY <1>4, <1>5, <1>6, <1>7
<1> QED BY <1>8 DEF FitsInt64, q

\* Both for the scalars of the library: no pass changes them, and behind the last
\* one they are reduced.
THEOREM LibraryScalarSound == ScalarsFit => (LibrarySpec => []ScalarSound)
<1> SUFFICES ASSUME ScalarsFit PROVE LibrarySpec => []ScalarSound
  OBVIOUS
<1>1. LibrarySpec => []ScalarPreserved
  BY LibraryComputes
<1>2. LibrarySpec => []ScalarReduced
  BY LibraryReduces
<1>3. ScalarPreserved /\ ScalarReduced => ScalarSound
  BY DEF ScalarSound
<1> QED BY <1>1, <1>2, <1>3, PTL

\* sc_reduce and sc_muladd, with the widths of the code: what they return is the
\* reduced scalar, and no limb leaves an int64_t on the way, so that the integers
\* of the model are those of the code.
THEOREM CodeReduces ==
  AsInTheCode => (LibrarySpec => [](ScalarSound /\ \A i \in 0 .. 2 * M : FitsInt64(slimb[i])))
<1> SUFFICES ASSUME AsInTheCode
             PROVE  LibrarySpec => [](ScalarSound /\ \A i \in 0 .. 2 * M : FitsInt64(slimb[i]))
  OBVIOUS
<1> DEFINE Fits == \A i \in 0 .. 2 * M : FitsInt64(slimb[i])
<1>1. ScalarsFit
  BY CodeScalarsFit
<1>2. LibrarySpec => []ScalarSound
  BY <1>1, LibraryScalarSound
<1>3. LibrarySpec => []LimbsNarrow
  BY <1>1, LibraryStaysNarrow
<1>4. LimbsNarrow => Fits
  BY CodeWidest DEF LimbsNarrow
<1> HIDE DEF Fits
<1>5. LibrarySpec => [](ScalarSound /\ Fits)
  BY <1>2, <1>3, <1>4, PTL
<1> QED BY <1>5 DEF Fits

-----------------------------------------------------------------------------
(* The digits of ge_scalarmult_base.                                         *)

\* A window and half of it.
LEMMA NibbleSizes ==
  /\ NibbleBase \in Nat \ {0} /\ TableSize \in Nat \ {0} /\ NibbleBase = 2 * TableSize
  /\ Nibbles \in Nat \ {0} /\ NibbleBits \in Nat \ {0}
<1>1. Nibbles \in Nat \ {0} /\ NibbleBits \in Nat \ {0} /\ NibbleBits - 1 \in Nat
  BY CurveAssumption
<1>2. 2 \in Nat \ {0} /\ 2 \in Nat /\ NibbleBits = (NibbleBits - 1) + 1
  BY <1>1
<1>3. Power(2, (NibbleBits - 1) + 1) = Power(2, NibbleBits - 1) * 2
  BY <1>1, <1>2, PowerSteps
<1>4. TableSize \in Nat \ {0}
  BY <1>1, <1>2, PowerPositive DEF TableSize
<1> QED BY <1>1, <1>2, <1>3, <1>4 DEF NibbleBase, TableSize

LEMMA NibbleTyped ==
  ASSUME NEW a \in Nat, NEW i \in Nat
  PROVE  /\ Nibble(a, i) \in 0 .. NibbleBase - 1
         /\ Power(2, NibbleBits * i) \in Nat \ {0} /\ NibbleBits * i \in Nat
<1>1. NibbleBits * i \in Nat
  BY NibbleSizes
<1>2. 2 \in Nat \ {0}
  OBVIOUS
<1>3. Power(2, NibbleBits * i) \in Nat \ {0}
  BY <1>1, <1>2, PowerPositive
<1> DEFINE q == a \div Power(2, NibbleBits * i)
<1>4. q \in Nat
  BY <1>3
<1>5. Nibble(a, i) = q % NibbleBase
  BY DEF Nibble
<1> HIDE DEF q
<1> QED BY <1>1, <1>3, <1>4, <1>5, NibbleSizes

\* What is above half a window, a borrow included, borrows one from the next.
LEMMA Borrowing ==
  ASSUME NEW x \in 0 .. NibbleBase
  PROVE  Borrows(x) \in 0 .. 1 /\ x - Borrows(x) * NibbleBase \in -TableSize .. TableSize
<1> DEFINE H == TableSize
           B == NibbleBase
           q == (x + H) \div B
<1>1. H \in Nat \ {0} /\ B = 2 * H /\ x \in Nat /\ x <= B
  BY NibbleSizes
<1>2. Borrows(x) = q
  BY DEF Borrows, TableSize
<1> HIDE DEF H, B
<1>3. q = IF x + H < B THEN 0 ELSE 1
  <2>1. x + H \in Nat /\ x + H < 2 * B /\ B \in Nat \ {0}
    BY <1>1
  <2>2. q \in Int /\ q * B <= x + H /\ x + H < q * B + B
    BY <2>1
  <2> HIDE DEF q
  <2>3. q < 2 /\ q >= 0
    <3>1. CASE q >= 2
      <4>1. q * B >= 2 * B
        BY <2>1, <2>2, <3>1
      <4> QED BY <2>1, <2>2, <4>1
    <3>2. CASE q < 0
      <4>1. q * B + B <= 0
        BY <2>1, <2>2, <3>2
      <4> QED BY <2>1, <2>2, <4>1
    <3> QED BY <2>2, <3>1, <3>2
  <2>4. q = 0 \/ q = 1
    BY <2>2, <2>3
  <2> QED BY <2>1, <2>2, <2>4
<1> HIDE DEF q
<1>4. CASE x + H < B
  BY <1>1, <1>2, <1>3, <1>4 DEF H, B
<1>5. CASE ~(x + H < B)
  <2>1. q = 1 /\ x - B \in -H .. H
    BY <1>1, <1>3, <1>5
  <2>2. q * B = B
    BY <1>1, <2>1
  <2> QED BY <1>2, <2>1, <2>2 DEF H, B
<1> QED BY <1>4, <1>5

LEMMA BorrowedTabled ==
  ASSUME NEW a \in Nat
  PROVE  /\ Borrowed(a)[0] = 0
         /\ \A i \in 0 .. Nibbles - 1 : Borrowed(a)[i] \in 0 .. 1
         /\ \A i \in 1 .. Nibbles - 1 : Borrowed(a)[i] = Borrows(Nibble(a, i - 1) + Borrowed(a)[i - 1])
<1> DEFINE D == 0 .. 1
           n == Nibbles - 1
           base == 0
           step == [m \in 1 .. n |-> [w \in D |-> Borrows(Nibble(a, m - 1) + w)]]
           Table(V) == V = [m \in 0 .. n |->
                              IF m = 0 THEN 0 ELSE Borrows(Nibble(a, m - 1) + V[m - 1])]
<1>1. n \in Nat /\ \A m \in 1 .. n : m - 1 \in Nat
  BY NibbleSizes
<1>2. base \in D
  OBVIOUS
<1>3. \A w \in D, i \in Nat : Borrows(Nibble(a, i) + w) \in D
  <2> TAKE w \in D, i \in Nat
  <2>1. Nibble(a, i) \in 0 .. NibbleBase - 1
    BY NibbleTyped
  <2>2. Nibble(a, i) + w \in 0 .. NibbleBase
    BY <2>1, NibbleSizes
  <2> QED BY <2>2, Borrowing
<1> HIDE DEF D
<1>4. step \in [1 .. n -> [D -> D]]
  BY <1>1, <1>3
<1>5. \A m \in 1 .. n, w \in D : step[m][w] = Borrows(Nibble(a, m - 1) + w)
  OBVIOUS
<1> HIDE DEF step, base, n
<1>6. PICK V : Stepwise(V, D, n, base, step)
  BY <1>1, <1>2, <1>4, StepwiseFunction
<1>7. /\ V \in [0 .. n -> D] /\ V[0] = 0
      /\ \A m \in 1 .. n : V[m] = Borrows(Nibble(a, m - 1) + V[m - 1])
  <2>1. V \in [0 .. n -> D] /\ V[0] = 0 /\ \A m \in 1 .. n : V[m] = step[m][V[m - 1]]
    BY <1>6 DEF Stepwise, base
  <2>2. \A m \in 1 .. n : V[m - 1] \in D
    BY <1>1, <2>1
  <2> QED BY <1>5, <2>1, <2>2
<1>8. Table(V)
  BY <1>1, <1>7
<1> DEFINE T == Borrowed(a)
<1>9. Table(T)
  <2>1. T = CHOOSE A : Table(A)
    BY DEF Borrowed, n
  <2> HIDE DEF Table, T
  <2> QED BY <1>8, <2>1
<1> HIDE DEF T
<1>10. T[0] = 0 /\ \A m \in 1 .. n : T[m] = Borrows(Nibble(a, m - 1) + T[m - 1])
  BY <1>1, <1>9
<1>11. \A m \in 0 .. n : T[m] \in D
  <2> DEFINE S == {m \in Nat : m <= n => T[m] \in D}
  <2>1. 0 \in S
    BY <1>2, <1>10 DEF base
  <2>2. ASSUME NEW m \in Nat, m \in S
        PROVE  m + 1 \in S
    <3> SUFFICES ASSUME m + 1 <= n PROVE T[m + 1] \in D
      OBVIOUS
    <3>1. m + 1 \in 1 .. n /\ (m + 1) - 1 = m /\ T[m] \in D
      BY <1>1, <2>2
    <3> QED BY <1>3, <1>10, <3>1
  <2> HIDE DEF S
  <2>3. \A m \in Nat : m \in S
    BY <2>1, <2>2, FromZero
  <2> QED BY <1>1, <2>3 DEF S
<1> QED BY <1>10, <1>11 DEF n, D, T

\* However borrowed, the digits stand for the scalar, and the last one has room
\* for its borrow because the scalar's highest bit is clear.
LEMMA WindowsExact ==
  ASSUME NEW a \in 0 .. Power(2, Nibbles * NibbleBits - 1) - 1
  PROVE  Windowed(RadixDigits(a), a)
<1> DEFINE N == Nibbles
           B == NibbleBase
           H == TableSize
           e == RadixDigits(a)
           c == Borrowed(a)
           P(i) == Power(2, NibbleBits * i)
           Q(i) == a \div P(i)
           f == [i \in 0 .. N - 1 |-> e[i] * P(i)]
<1>1. /\ N \in Nat \ {0} /\ B \in Nat \ {0} /\ H \in Nat \ {0} /\ B = 2 * H /\ NibbleBits \in Nat \ {0}
  BY NibbleSizes
<1>2. a \in Nat
  <2>1. N * NibbleBits >= 1 /\ N * NibbleBits \in Nat
    BY <1>1
  <2>2. Power(2, N * NibbleBits - 1) \in Nat
    <3>1. 2 \in Nat \ {0} /\ N * NibbleBits - 1 \in Nat
      BY <2>1
    <3> QED BY <3>1, PowerPositive
  <2> QED BY <2>2
<1>3. /\ c[0] = 0 /\ \A i \in 0 .. N - 1 : c[i] \in 0 .. 1
      /\ \A i \in 0 .. N - 2 : c[i + 1] = Borrows(Nibble(a, i) + c[i])
  <2>1. /\ c[0] = 0 /\ \A i \in 0 .. N - 1 : c[i] \in 0 .. 1
        /\ \A i \in 1 .. N - 1 : c[i] = Borrows(Nibble(a, i - 1) + c[i - 1])
    BY <1>2, BorrowedTabled
  <2>2. \A i \in 0 .. N - 2 : i + 1 \in 1 .. N - 1 /\ (i + 1) - 1 = i
    BY <1>1
  <2> QED BY <2>1, <2>2
<1>4. \A i \in Nat : Nibble(a, i) \in 0 .. B - 1 /\ P(i) \in Nat \ {0} /\ Q(i) \in Nat
  <2> TAKE i \in Nat
  <2>1. Nibble(a, i) \in 0 .. B - 1 /\ P(i) \in Nat \ {0}
    BY <1>2, NibbleTyped
  <2> QED BY <1>2, <2>1
<1>5. \A i \in Nat : P(i + 1) = P(i) * B /\ Q(i) = B * Q(i + 1) + Nibble(a, i)
  <2> TAKE i \in Nat
  <2>1. NibbleBits * (i + 1) = NibbleBits * i + NibbleBits /\ NibbleBits * i \in Nat
    BY <1>1
  <2>2. P(i + 1) = P(i) * B
    <3>1. 2 \in Nat /\ NibbleBits \in Nat
      BY <1>1
    <3> QED BY <2>1, <3>1, PowerOfSum DEF NibbleBase
  <2>3. Q(i + 1) = Q(i) \div B
    <3>1. P(i) \in Nat \ {0} /\ a \in Int
      BY <1>2, <1>4
    <3>2. a \div (P(i) * B) = (a \div P(i)) \div B
      BY <1>1, <3>1, QuotientOfQuotient
    <3> QED BY <2>2, <3>2
  <2>4. Nibble(a, i) = Q(i) % B
    BY DEF Nibble
  <2>5. Q(i) \in Nat
    BY <1>4
  <2> DEFINE q == Q(i)
  <2>6. q = B * (q \div B) + (q % B)
    <3>1. q \in Nat /\ B \in Nat \ {0}
      BY <1>1, <2>5
    <3> HIDE DEF q, B
    <3> QED BY <3>1
  <2> QED BY <2>2, <2>3, <2>4, <2>6
<1>6. P(0) = 1 /\ Q(0) = a
  <2>1. NibbleBits * 0 = 0 /\ 2 \in Nat
    BY <1>1
  <2>2. P(0) = 1
    BY <2>1, PowerSteps
  <2> QED BY <1>2, <2>2
<1>7. Q(N - 1) < H
  <2>1. N - 1 \in Nat /\ NibbleBits * (N - 1) \in Nat /\ NibbleBits - 1 \in Nat
        /\ NibbleBits * (N - 1) + (NibbleBits - 1) = N * NibbleBits - 1 /\ 2 \in Nat
    BY <1>1
  <2>2. Power(2, N * NibbleBits - 1) = P(N - 1) * H
    BY <2>1, PowerOfSum DEF TableSize
  <2>3. P(N - 1) \in Nat \ {0} /\ Q(N - 1) \in Nat
    BY <1>4, <2>1
  <2> DEFINE p == P(N - 1)
  <2>4. a < p * H /\ p \in Nat \ {0}
    <3>1. p \in Nat \ {0} /\ p * H \in Nat
      BY <1>1, <2>3
    <3>2. a \in 0 .. p * H - 1
      BY <2>2
    <3> QED BY <3>1, <3>2
  <2> HIDE DEF p
  <2> DEFINE q == a \div p
  <2>5. q \in Nat /\ q * p <= a
    BY <1>2, <2>4
  <2> HIDE DEF q
  <2>6. q < H
    <3>1. CASE q >= H
      <4>1. q * p >= H * p /\ H * p = p * H
        BY <1>1, <2>4, <2>5, <3>1
      <4> QED BY <1>1, <1>2, <2>4, <2>5, <4>1
    <3> QED BY <1>1, <2>5, <3>1
  <2> QED BY <2>6 DEF q, p
<1>8. \A i \in 0 .. N - 2 : e[i] = Nibble(a, i) + c[i] - c[i + 1] * B
  BY <1>1 DEF RadixDigits
<1>9. e[N - 1] = Nibble(a, N - 1) + c[N - 1] /\ Nibble(a, N - 1) = Q(N - 1)
  <2>1. N - 1 \in 0 .. N - 1 /\ N - 1 \in Nat /\ Nibble(a, N - 1) \in 0 .. B - 1 /\ c[N - 1] \in 0 .. 1
    <3>1. N - 1 \in 0 .. N - 1 /\ N - 1 \in 0 .. N /\ N - 1 \in Nat
      BY <1>1
    <3> HIDE DEF N, B, c
    <3> QED BY <1>3, <1>4, <3>1
  <2>2. e[N - 1] = Nibble(a, N - 1) + c[N - 1]
    <3>1. e[N - 1] = Nibble(a, N - 1) + c[N - 1] - 0
      BY <2>1 DEF RadixDigits
    <3> QED BY <2>1, <3>1
  <2>3. Nibble(a, N - 1) = Q(N - 1) % B
    BY DEF Nibble
  <2>4. Q(N - 1) \in 0 .. B - 1
    BY <1>1, <1>4, <1>7, <2>1
  <2> DEFINE q == Q(N - 1)
  <2>5. q % B = q
    <3>1. q \in 0 .. B - 1
      BY <2>4
    <3> HIDE DEF q
    <3> QED BY <1>1, <3>1
  <2> QED BY <2>2, <2>3, <2>5
<1> HIDE DEF e, c, P, Q
<1>10. \A i \in 0 .. N - 1 : e[i] \in -H .. H
  <2> TAKE i \in 0 .. N - 1
  <2>1. i \in Nat /\ Nibble(a, i) \in 0 .. B - 1 /\ c[i] \in 0 .. 1
    BY <1>1, <1>3, <1>4
  <2>2. CASE i = N - 1
    BY <1>1, <1>4, <1>7, <1>9, <2>1, <2>2
  <2>3. CASE i # N - 1
    <3>1. i \in 0 .. N - 2
      BY <1>1, <2>3
    <3>2. Nibble(a, i) + c[i] \in 0 .. B
      BY <1>1, <2>1
    <3>3. c[i + 1] = Borrows(Nibble(a, i) + c[i])
      BY <1>3, <3>1
    <3>4. e[i] = Nibble(a, i) + c[i] - c[i + 1] * B
      BY <1>8, <3>1
    <3> DEFINE x == Nibble(a, i) + c[i]
               y == c[i + 1] * B
    <3>5. Nibble(a, i) \in Int /\ c[i] \in Int /\ y \in Int
      <4>1. i + 1 \in 0 .. N - 1
        BY <1>1, <3>1
      <4> QED BY <1>1, <1>3, <2>1, <4>1
    <3>6. e[i] = Nibble(a, i) + c[i] - y
      BY <3>4
    <3> HIDE DEF y
    <3>7. e[i] = x - y
      BY <3>5, <3>6
    <3>8. x - Borrows(x) * B \in -H .. H
      BY <3>2, Borrowing
    <3> QED BY <3>3, <3>8, <3>7 DEF y
  <2> QED BY <2>2, <2>3
<1>11. Ints(f, N) /\ \A i \in 0 .. N - 1 : f[i] = e[i] * P(i) /\ e[i] \in Int /\ P(i) \in Nat \ {0}
  <2>1. \A i \in 0 .. N - 1 : e[i] \in Int /\ P(i) \in Nat \ {0}
    BY <1>1, <1>4, <1>10
  <2>2. \A i \in 0 .. N - 1 : e[i] * P(i) \in Int
    BY <2>1
  <2> QED BY <1>1, <2>1, <2>2 DEF Ints
<1>12. /\ SumTo(0, f) = 0 /\ \A m \in 0 .. N : SumTo(m, f) \in Int
       /\ \A m \in 0 .. N - 1 : SumTo(m + 1, f) = SumTo(m, f) + f[m]
  BY <1>11, SumSteps
<1> HIDE DEF f
\* What the digits so far stand for and what is left, with its borrow, are a.
<1>13. SumTo(N - 1, f) + (Q(N - 1) + c[N - 1]) * P(N - 1) = a
  <2> DEFINE S == {m \in Nat : m <= N - 1 => SumTo(m, f) + (Q(m) + c[m]) * P(m) = a}
  <2>1. 0 \in S
    BY <1>2, <1>3, <1>6, <1>12
  <2>2. ASSUME NEW m \in Nat, m \in S
        PROVE  m + 1 \in S
    <3> SUFFICES ASSUME m + 1 <= N - 1
                 PROVE  SumTo(m + 1, f) + (Q(m + 1) + c[m + 1]) * P(m + 1) = a
      OBVIOUS
    <3>1. m \in 0 .. N - 2 /\ m \in 0 .. N - 1 /\ m + 1 \in 0 .. N - 1 /\ m \in 0 .. N /\ m + 1 \in Nat
      BY <1>1
    <3>2. SumTo(m, f) + (Q(m) + c[m]) * P(m) = a
      BY <1>1, <2>2
    <3> DEFINE s == SumTo(m, f)
               x == Nibble(a, m)
               q == Q(m + 1)
               p == P(m)
               u == c[m]
               v == c[m + 1]
    <3>3. s \in Int /\ x \in Int /\ q \in Int /\ p \in Int /\ u \in Int /\ v \in Int /\ B \in Int
      BY <1>1, <1>3, <1>4, <1>12, <3>1
    <3>4. Q(m) = B * q + x /\ P(m + 1) = p * B
      BY <1>5
    <3>5. SumTo(m + 1, f) = s + (x + u - v * B) * p
      BY <1>8, <1>11, <1>12, <3>1
    <3> HIDE DEF s, x, q, p, u, v
    <3>6. s + ((B * q + x) + u) * p = a
      BY <3>2, <3>4 DEF s, u, p
    <3> DEFINE bq == B * q
               vb == v * B
    <3>7. bq \in Int /\ vb \in Int /\ (q + v) * B = bq + vb
      BY <3>3
    <3>8. (q + v) * (p * B) = (bq + vb) * p
      <4>1. (q + v) * (p * B) = ((q + v) * B) * p
        <5> DEFINE w == q + v
        <5>1. w \in Int
          BY <3>3
        <5> HIDE DEF w
        <5>2. w * (p * B) = (w * B) * p
          BY <1>1, <3>3, <5>1
        <5> QED BY <5>2 DEF w
      <4> QED BY <3>7, <4>1
    <3> HIDE DEF bq, vb
    <3>9. (s + (x + u - vb) * p) + (bq + vb) * p = s + ((bq + x) + u) * p
      BY <3>3, <3>7
    <3>10. (s + (x + u - v * B) * p) + (q + v) * (p * B) = a
      BY <3>6, <3>8, <3>9 DEF bq, vb
    <3> QED BY <3>4, <3>5, <3>10 DEF q, v
  <2> HIDE DEF S
  <2>3. \A m \in Nat : m \in S
    BY <2>1, <2>2, FromZero
  <2>4. N - 1 \in S /\ N - 1 \in Nat
    BY <1>1, <2>3
  <2> QED BY <1>1, <2>4 DEF S
<1>14. SumTo(N, f) = a
  <2>1. N - 1 \in 0 .. N - 1 /\ (N - 1) + 1 = N
    BY <1>1
  <2>2. SumTo(N, f) = SumTo(N - 1, f) + f[N - 1]
    BY <1>12, <2>1
  <2>3. f[N - 1] = (Q(N - 1) + c[N - 1]) * P(N - 1)
    BY <1>9, <1>11, <2>1
  <2> QED BY <1>13, <2>2, <2>3
<1>15. StandsFor(e, N, NibbleBits) = a
  BY <1>14 DEF StandsFor, f, P
<1> QED BY <1>10, <1>15 DEF Windowed, e

-----------------------------------------------------------------------------
(* The digits of slide.                                                      *)

SlideArray == [0 .. SlideBits - 1 -> Int]

\* What the digits below k stand for.
Low(r, k) == SumTo(k, [j \in 0 .. SlideBits - 1 |-> r[j] * Power(2, j)])

LEMMA Twos ==
  /\ Power(2, 0) = 1
  /\ \A k \in Nat : Power(2, k) \in Nat \ {0} /\ Power(2, k + 1) = 2 * Power(2, k)
  /\ \A d, k \in Nat : d <= k => Power(2, d) <= Power(2, k)
  /\ \A d, k \in Nat : Power(2, d + k) = Power(2, d) * Power(2, k)
<1>1. 2 \in Nat /\ 2 \in Nat \ {0}
  OBVIOUS
<1>2. \A k \in Nat : Power(2, k) \in Nat \ {0}
  BY <1>1, PowerPositive
<1>3. Power(2, 0) = 1 /\ \A k \in Nat : Power(2, k + 1) = Power(2, k) * 2
  BY <1>1, PowerSteps
<1>4. \A d, k \in Nat : d <= k => Power(2, d) <= Power(2, k)
  BY <1>1, PowerGrows
<1>5. \A d, k \in Nat : Power(2, d + k) = Power(2, d) * Power(2, k)
  BY <1>1, PowerOfSum
<1>6. \A k \in Nat : Power(2, k + 1) = 2 * Power(2, k)
  BY <1>2, <1>3
<1> QED BY <1>2, <1>3, <1>4, <1>5, <1>6

LEMMA LowSteps ==
  ASSUME NEW r \in SlideArray
  PROVE  /\ Low(r, 0) = 0
         /\ \A k \in 0 .. SlideBits : Low(r, k) \in Int
         /\ \A k \in 0 .. SlideBits - 1 : Low(r, k + 1) = Low(r, k) + r[k] * Power(2, k)
<1> DEFINE f == [j \in 0 .. SlideBits - 1 |-> r[j] * Power(2, j)]
           n == SlideBits
<1>1. n \in Nat
  BY CurveAssumption
<1>2. \A j \in 0 .. n - 1 : f[j] = r[j] * Power(2, j)
  OBVIOUS
<1>3. \A j \in 0 .. n - 1 : r[j] \in Int /\ Power(2, j) \in Int
  <2> TAKE j \in 0 .. n - 1
  <2>1. j \in Nat
    BY <1>1
  <2>2. Power(2, j) \in Nat \ {0}
    BY <2>1, Twos
  <2> QED BY <2>2 DEF SlideArray
<1>4. \A j \in 0 .. n - 1 : r[j] * Power(2, j) \in Int
  BY <1>3
<1>5. Ints(f, n)
  BY <1>1, <1>2, <1>4 DEF Ints
<1>6. \A k : Low(r, k) = SumTo(k, f)
  BY DEF Low
<1> HIDE DEF f, n
<1>7. /\ SumTo(0, f) = 0 /\ \A m \in 0 .. n : SumTo(m, f) \in Int
      /\ \A m \in 0 .. n - 1 : SumTo(m + 1, f) = SumTo(m, f) + f[m]
  BY <1>5, SumSteps
<1> QED BY <1>2, <1>6, <1>7 DEF n

\* A bit above a digit is taken into it.
LEMMA LowAbsorbed ==
  ASSUME NEW r \in SlideArray, NEW s \in SlideArray, NEW i \in 0 .. SlideBits - 1,
         NEW p \in i + 1 .. SlideBits - 1, NEW w \in Int,
         w * Power(2, i) = Power(2, p), r[p] = 1, s[p] = 0, s[i] = r[i] + w,
         \A j \in 0 .. SlideBits - 1 : j # i /\ j # p => s[j] = r[j]
  PROVE  Low(s, i) = Low(r, i) /\ Low(s, SlideBits) = Low(r, SlideBits)
<1> DEFINE n == SlideBits
           D(k) == IF k > i /\ k <= p THEN Power(2, p) ELSE 0
           S == {k \in Nat : k <= n => Low(s, k) = Low(r, k) + D(k)}
<1>1. n \in Nat /\ i \in Nat /\ p \in Nat /\ i < p /\ p < n
  BY CurveAssumption
<1>2. Power(2, p) \in Nat /\ Power(2, i) \in Nat
  BY <1>1, Twos
<1>3. 0 \in S
  BY <1>1, LowSteps
<1>4. ASSUME NEW k \in Nat, k \in S
      PROVE  k + 1 \in S
  <2> SUFFICES ASSUME k + 1 <= n PROVE Low(s, k + 1) = Low(r, k + 1) + D(k + 1)
    OBVIOUS
  <2>1. k \in 0 .. n - 1 /\ k \in 0 .. n /\ Low(s, k) = Low(r, k) + D(k)
    BY <1>1, <1>4
  <2>2. /\ Low(r, k + 1) = Low(r, k) + r[k] * Power(2, k)
        /\ Low(s, k + 1) = Low(s, k) + s[k] * Power(2, k)
        /\ Low(r, k) \in Int /\ r[k] \in Int /\ s[k] \in Int /\ Power(2, k) \in Nat
    <3>1. k \in Nat /\ k \in 0 .. SlideBits - 1 /\ k \in 0 .. SlideBits
      BY <2>1
    <3>2. r[k] \in Int /\ s[k] \in Int
      BY <3>1 DEF SlideArray
    <3> HIDE DEF n, D
    <3>3. Power(2, k) \in Nat
      BY <3>1, Twos
    <3>4. Low(r, k + 1) = Low(r, k) + r[k] * Power(2, k) /\ Low(r, k) \in Int
      BY <3>1, LowSteps
    <3>5. Low(s, k + 1) = Low(s, k) + s[k] * Power(2, k)
      BY <3>1, LowSteps
    <3> QED BY <3>2, <3>3, <3>4, <3>5
  <2>3. CASE k = i
    <3> DEFINE x == r[i]
               y == Power(2, i)
    <3>1. (x + w) * y = x * y + w * y
      <4>1. x \in Int /\ y \in Int
        BY <1>2 DEF SlideArray
      <4> HIDE DEF x, y
      <4> QED BY <4>1
    <3>2. x * y \in Int /\ w * y = Power(2, p)
      BY <1>2 DEF SlideArray
    <3>3. Low(s, k + 1) = Low(r, k) + (x * y + Power(2, p)) /\ Low(r, k + 1) = Low(r, k) + x * y
      BY <1>1, <2>1, <2>2, <2>3, <3>1, <3>2
    <3> HIDE DEF x, y
    <3>4. D(k + 1) = Power(2, p)
      BY <1>1, <2>3
    <3> QED BY <1>2, <2>2, <3>2, <3>3, <3>4
  <2>4. CASE k = p
    <3>1. D(k) = Power(2, p) /\ D(k + 1) = 0
      BY <1>1, <2>4
    <3>2. r[k] * Power(2, k) = Power(2, p) /\ s[k] * Power(2, k) = 0
      BY <1>2, <2>4
    <3> QED BY <1>2, <2>1, <2>2, <3>1, <3>2
  <2>5. CASE k # i /\ k # p
    <3>1. s[k] = r[k] /\ D(k + 1) = D(k) /\ D(k) \in Int
      BY <1>1, <1>2, <2>1, <2>5
    <3>2. r[k] * Power(2, k) \in Int
      BY <2>2
    <3> QED BY <2>1, <2>2, <3>1, <3>2
  <2> QED BY <2>3, <2>4, <2>5
<1> HIDE DEF S
<1>5. \A k \in Nat : k \in S
  BY <1>3, <1>4, FromZero
<1>6. i \in S /\ n \in S /\ i <= n
  BY <1>1, <1>5
<1>7. D(i) = 0 /\ D(n) = 0
  BY <1>1
<1> QED BY <1>1, <1>6, <1>7, LowSteps DEF S

\* A bit above a digit is taken away from it, and carried to the next zero.
LEMMA LowCarried ==
  ASSUME NEW r \in SlideArray, NEW s \in SlideArray, NEW i \in 0 .. SlideBits - 1,
         NEW p \in i + 1 .. SlideBits - 1, NEW q \in p + 1 .. SlideBits - 1, NEW w \in Int,
         w * Power(2, i) = Power(2, p), s[i] = r[i] - w,
         \A j \in p .. q - 1 : r[j] = 1 /\ s[j] = 0, r[q] = 0, s[q] = 1,
         \A j \in 0 .. SlideBits - 1 : j # i /\ (j < p \/ j > q) => s[j] = r[j]
  PROVE  Low(s, i) = Low(r, i) /\ Low(s, SlideBits) = Low(r, SlideBits)
<1> DEFINE n == SlideBits
           D(k) == IF k <= i \/ k > q THEN 0 ELSE IF k <= p THEN Power(2, p) ELSE Power(2, k)
           S == {k \in Nat : k <= n => Low(s, k) = Low(r, k) - D(k)}
<1>1. n \in Nat /\ i \in Nat /\ p \in Nat /\ q \in Nat /\ i < p /\ p < q /\ q < n
  BY CurveAssumption
<1>2. Power(2, p) \in Nat /\ Power(2, i) \in Nat /\ Power(2, q) \in Nat
  BY <1>1, Twos
<1>3. 0 \in S
  BY <1>1, LowSteps
<1>4. ASSUME NEW k \in Nat, k \in S
      PROVE  k + 1 \in S
  <2> SUFFICES ASSUME k + 1 <= n PROVE Low(s, k + 1) = Low(r, k + 1) - D(k + 1)
    OBVIOUS
  <2>1. k \in 0 .. n - 1 /\ k \in 0 .. n /\ Low(s, k) = Low(r, k) - D(k)
    BY <1>1, <1>4
  <2>2. /\ Low(r, k + 1) = Low(r, k) + r[k] * Power(2, k)
        /\ Low(s, k + 1) = Low(s, k) + s[k] * Power(2, k)
        /\ Low(r, k) \in Int /\ r[k] \in Int /\ s[k] \in Int /\ Power(2, k) \in Nat
        /\ Power(2, k + 1) = 2 * Power(2, k)
    <3>1. k \in Nat /\ k \in 0 .. SlideBits - 1 /\ k \in 0 .. SlideBits
      BY <2>1
    <3>2. r[k] \in Int /\ s[k] \in Int
      BY <3>1 DEF SlideArray
    <3> HIDE DEF n, D
    <3>3. Power(2, k) \in Nat /\ Power(2, k + 1) = 2 * Power(2, k)
      BY <3>1, Twos
    <3>4. Low(r, k + 1) = Low(r, k) + r[k] * Power(2, k) /\ Low(r, k) \in Int
      BY <3>1, LowSteps
    <3>5. Low(s, k + 1) = Low(s, k) + s[k] * Power(2, k)
      BY <3>1, LowSteps
    <3> QED BY <3>2, <3>3, <3>4, <3>5
  <2>3. CASE k = i
    <3> DEFINE x == r[i]
               y == Power(2, i)
    <3>1. (x - w) * y = x * y - w * y
      <4>1. x \in Int /\ y \in Int
        BY <1>2 DEF SlideArray
      <4> HIDE DEF x, y
      <4> QED BY <4>1
    <3>2. x * y \in Int /\ w * y = Power(2, p)
      BY <1>2 DEF SlideArray
    <3>3. Low(s, k + 1) = Low(r, k) + (x * y - Power(2, p)) /\ Low(r, k + 1) = Low(r, k) + x * y
      BY <1>1, <2>1, <2>2, <2>3, <3>1, <3>2
    <3> HIDE DEF x, y
    <3>4. D(k + 1) = Power(2, p)
      BY <1>1, <2>3
    <3> QED BY <1>2, <2>2, <3>2, <3>3, <3>4
  <2>4. CASE k \in p .. q - 1
    <3> DEFINE x == Power(2, k)
    <3>1. D(k) = x /\ D(k + 1) = 2 * x /\ x \in Nat
      BY <1>1, <2>2, <2>4
    <3>2. r[k] * x = x /\ s[k] * x = 0
      BY <2>2, <2>4
    <3> HIDE DEF D
    <3>3. Low(s, k + 1) = Low(r, k) - x /\ Low(r, k + 1) = Low(r, k) + x
      <4>1. Low(s, k) = Low(r, k) - x
        BY <2>1, <3>1
      <4>2. Low(s, k + 1) = Low(s, k) + s[k] * x /\ Low(r, k + 1) = Low(r, k) + r[k] * x
        BY <2>2
      <4>3. Low(s, k + 1) = (Low(r, k) - x) + 0
        BY <3>2, <4>1, <4>2
      <4> HIDE DEF x
      <4> QED BY <2>2, <3>1, <3>2, <4>2, <4>3
    <3> HIDE DEF x
    <3> QED BY <2>2, <3>1, <3>3
  <2>5. CASE k = q
    <3> DEFINE x == Power(2, k)
    <3>1. D(k) = x /\ D(k + 1) = 0 /\ x \in Nat
      BY <1>1, <2>2, <2>5
    <3>2. r[k] * x = 0 /\ s[k] * x = x
      <4>1. r[k] = 0 /\ s[k] = 1
        BY <2>5
      <4> HIDE DEF x, D
      <4>2. 0 * x = 0 /\ 1 * x = x
        BY <3>1
      <4> QED BY <4>1, <4>2
    <3> HIDE DEF D
    <3>3. Low(s, k + 1) = (Low(r, k) - x) + x /\ Low(r, k + 1) = Low(r, k)
      <4>1. Low(s, k) = Low(r, k) - x
        BY <2>1, <3>1
      <4>2. Low(s, k + 1) = Low(s, k) + s[k] * x /\ Low(r, k + 1) = Low(r, k) + r[k] * x
        BY <2>2
      <4>3. Low(s, k + 1) = (Low(r, k) - x) + x
        BY <3>2, <4>1, <4>2
      <4>4. Low(r, k + 1) = Low(r, k) + 0
        BY <3>2, <4>2
      <4> QED BY <2>2, <4>3, <4>4
    <3> HIDE DEF x
    <3> QED BY <2>2, <3>1, <3>3
  <2>6. CASE k # i /\ (k < p \/ k > q)
    <3>1. s[k] = r[k] /\ D(k + 1) = D(k) /\ D(k) \in Int
      BY <1>1, <1>2, <2>1, <2>6
    <3>2. r[k] * Power(2, k) \in Int
      BY <2>2
    <3> QED BY <2>1, <2>2, <3>1, <3>2
  <2> QED BY <1>1, <2>3, <2>4, <2>5, <2>6
<1> HIDE DEF S
<1>5. \A k \in Nat : k \in S
  BY <1>3, <1>4, FromZero
<1>6. i \in S /\ n \in S /\ i <= n
  BY <1>1, <1>5
<1>7. D(i) = 0 /\ D(n) = 0
  BY <1>1
<1> QED BY <1>1, <1>6, <1>7, LowSteps DEF S

\* Digits that are not negative add up to no less.
LEMMA LowRises ==
  ASSUME NEW r \in SlideArray, NEW m \in 0 .. SlideBits, NEW k \in m .. SlideBits,
         \A j \in m .. k - 1 : r[j] >= 0
  PROVE  Low(r, m) <= Low(r, k)
<1> DEFINE S == {l \in Nat : l <= k => Low(r, m) <= Low(r, l)}
<1>1. SlideBits \in Nat /\ m \in Nat /\ k \in Nat /\ k <= SlideBits /\ m <= k
  BY CurveAssumption
<1>2. m \in S
  BY <1>1, LowSteps
<1>3. ASSUME NEW l \in Nat, l >= m, l \in S
      PROVE  l + 1 \in S
  <2> SUFFICES ASSUME l + 1 <= k PROVE Low(r, m) <= Low(r, l + 1)
    OBVIOUS
  <2>1. l \in 0 .. SlideBits - 1 /\ l \in m .. k - 1 /\ l \in 0 .. SlideBits /\ Low(r, m) <= Low(r, l)
    BY <1>1, <1>3
  <2>2. /\ Low(r, l + 1) = Low(r, l) + r[l] * Power(2, l) /\ Low(r, l) \in Int
        /\ Low(r, m) \in Int /\ r[l] \in Nat /\ Power(2, l) \in Nat
    <3>1. r[l] \in Int /\ r[l] >= 0
      BY <2>1 DEF SlideArray
    <3>2. Power(2, l) \in Nat
      BY <1>3, Twos
    <3>3. Low(r, l + 1) = Low(r, l) + r[l] * Power(2, l) /\ Low(r, l) \in Int /\ Low(r, m) \in Int
      BY <2>1, LowSteps
    <3> QED BY <3>1, <3>2, <3>3
  <2>3. r[l] * Power(2, l) \in Nat
    BY <2>2
  <2> QED BY <2>1, <2>2, <2>3
<1> HIDE DEF S
<1>4. \A l \in Nat : l >= m => l \in S
  BY <1>1, <1>2, <1>3, Upwards
<1> QED BY <1>1, <1>4 DEF S

\* Nothing but ones.
LEMMA LowOfOnes ==
  ASSUME NEW r \in SlideArray, NEW p \in 0 .. SlideBits - 1, \A j \in p .. SlideBits - 1 : r[j] = 1
  PROVE  Low(r, SlideBits) = Low(r, p) + Power(2, SlideBits) - Power(2, p)
<1> DEFINE S == {l \in Nat : l <= SlideBits => Low(r, l) = Low(r, p) + (Power(2, l) - Power(2, p))}
<1>1. SlideBits \in Nat /\ p \in Nat /\ p <= SlideBits
  BY CurveAssumption
<1>2. p \in S
  BY <1>1, LowSteps, Twos
<1>3. ASSUME NEW l \in Nat, l >= p, l \in S
      PROVE  l + 1 \in S
  <2> SUFFICES ASSUME l + 1 <= SlideBits
               PROVE  Low(r, l + 1) = Low(r, p) + (Power(2, l + 1) - Power(2, p))
    OBVIOUS
  <2>1. l \in 0 .. SlideBits - 1 /\ l \in p .. SlideBits - 1 /\ p \in 0 .. SlideBits
        /\ Low(r, l) = Low(r, p) + (Power(2, l) - Power(2, p))
    BY <1>1, <1>3
  <2>2. /\ Low(r, l + 1) = Low(r, l) + r[l] * Power(2, l) /\ r[l] = 1 /\ Low(r, p) \in Int
        /\ Power(2, l) \in Nat /\ Power(2, p) \in Nat /\ Power(2, l + 1) = 2 * Power(2, l)
    BY <1>1, <2>1, LowSteps, Twos
  <2>3. r[l] * Power(2, l) = Power(2, l)
    BY <2>2
  <2> QED BY <2>1, <2>2, <2>3
<1> HIDE DEF S
<1>4. \A l \in Nat : l >= p => l \in S
  BY <1>1, <1>2, <1>3, Upwards
<1>5. Low(r, SlideBits) = Low(r, p) + (Power(2, SlideBits) - Power(2, p))
  BY <1>1, <1>4 DEF S
<1>6. Low(r, p) \in Int /\ Power(2, SlideBits) \in Int /\ Power(2, p) \in Int
  <2>1. p \in 0 .. SlideBits
    BY <1>1
  <2>2. Power(2, SlideBits) \in Nat \ {0} /\ Power(2, p) \in Nat \ {0}
    BY <1>1, Twos
  <2> QED BY <2>1, <2>2, LowSteps
<1> QED BY <1>5, <1>6

-----------------------------------------------------------------------------
\* Digit i of r takes in the ones up to b places above it.  It is positive and
\* what it took in left zeros behind, or it has been made negative, c places
\* above; then it takes in nothing more.
TakenIn(r, i, b, stopped) ==
  \/ /\ r[i] >= 1
     /\ stopped \/ /\ r[i] < Power(2, b + 1)
                   /\ \A j \in i + 1 .. i + b : j < SlideBits => r[j] = 0
  \/ \E c \in 1 .. b :
       /\ r[i] > -Power(2, c) /\ r[i] + Power(2, c + 1) > SlideMax
       /\ r[i] - Power(2, c + 1) < -SlideMax
       /\ \A j \in i + 1 .. i + c : j < SlideBits => r[j] = 0

TakingIn(at, i, b, a) ==
  /\ at \in [r : SlideArray, stopped : BOOLEAN]
  /\ \A j \in 0 .. i - 1 : SlideDigit(at.r[j])
  /\ SlideDigit(at.r[i]) /\ at.r[i] % 2 = 1
  /\ \A j \in i + 1 .. SlideBits - 1 : at.r[j] \in 0 .. 1
  /\ Low(at.r, SlideBits) = a /\ Low(at.r, i) >= -Power(2, i)
  /\ TakenIn(at.r, i, b, at.stopped)

LEMMA SlideSizes ==
  /\ SlideBits \in Nat /\ SlideBits > 3 /\ SlideMax \in Nat /\ SlideMax >= 1 /\ SlideMax % 2 = 1
  /\ SlideReach \in Nat
<1>1. /\ SlideBits \in Nat /\ SlideBits > 3 /\ SlideMax \in Nat /\ SlideMax % 2 = 1
      /\ SlideReach \in Nat
  BY CurveAssumption
<1>2. SlideMax # 0
  BY <1>1
<1> QED BY <1>1, <1>2

\* An even number added to an odd digit, or taken away, leaves it odd.
LEMMA StaysOdd ==
  ASSUME NEW x \in Int, x % 2 = 1, NEW b \in Nat
  PROVE  (x + Power(2, b + 1)) % 2 = 1 /\ (x - Power(2, b + 1)) % 2 = 1
<1>1. Power(2, b) \in Nat \ {0} /\ Power(2, b + 1) = 2 * Power(2, b)
  BY Twos
<1> DEFINE y == Power(2, b)
<1>2. y \in Int /\ -y \in Int
  BY <1>1
<1> HIDE DEF y
<1>3. 2 \in Nat \ {0}
  OBVIOUS
<1>4. (x + 2 * y) % 2 = 1
  BY <1>2, <1>3, RestOfSum
<1>5. (x + 2 * (-y)) % 2 = 1
  BY <1>2, <1>3, RestOfSum
<1>6. x + 2 * (-y) = x - 2 * y
  BY <1>2
<1> QED BY <1>1, <1>4, <1>5, <1>6 DEF y

\* With a one above it within reach, a digit that is not yet settled is positive.
LEMMA StillPositive ==
  ASSUME NEW r \in SlideArray, NEW i \in 0 .. SlideBits - 1, NEW b \in Nat,
         TakenIn(r, i, b, FALSE),
         r[i] + Power(2, b + 1) <= SlideMax \/ r[i] - Power(2, b + 1) >= -SlideMax
  PROVE  /\ r[i] \in Nat /\ r[i] >= 1 /\ r[i] < Power(2, b + 1)
         /\ \A j \in i + 1 .. i + b : j < SlideBits => r[j] = 0
<1>1. r[i] \in Int
  BY DEF SlideArray
<1>2. ASSUME NEW c \in 1 .. b, r[i] + Power(2, c + 1) > SlideMax, r[i] - Power(2, c + 1) < -SlideMax
      PROVE  FALSE
  <2>1. c + 1 \in Nat /\ b + 1 \in Nat /\ c + 1 <= b + 1
    OBVIOUS
  <2>2. Power(2, c + 1) <= Power(2, b + 1)
    BY <2>1, Twos
  <2>3. Power(2, c + 1) \in Nat \ {0} /\ Power(2, b + 1) \in Nat \ {0}
    BY <2>1, Twos
  <2> QED BY <1>1, <1>2, <2>2, <2>3, SlideSizes
<1> QED BY <1>1, <1>2 DEF TakenIn

\* A one is taken in.
LEMMA TakeUp ==
  ASSUME NEW a, NEW i \in 0 .. SlideBits - 1, NEW b \in Nat, NEW at, TakingIn(at, i, b, a),
         ~at.stopped, i + (b + 1) < SlideBits, at.r[i + (b + 1)] = 1,
         at.r[i] + Power(2, b + 1) <= SlideMax
  PROVE  TakingIn([r |-> [at.r EXCEPT ![i] = @ + Power(2, b + 1), ![i + (b + 1)] = 0],
                   stopped |-> FALSE], i, b + 1, a)
<1> DEFINE r == at.r
           p == i + (b + 1)
           w == Power(2, b + 1)
           s == [r EXCEPT ![i] = @ + w, ![p] = 0]
<1>1. r \in SlideArray /\ SlideBits \in Nat /\ i \in Nat /\ p \in i + 1 .. SlideBits - 1
  BY SlideSizes DEF TakingIn
<1>2. w \in Nat \ {0} /\ Power(2, (b + 1) + 1) = 2 * w /\ w * Power(2, i) = Power(2, p)
  <2>1. b + 1 \in Nat /\ (b + 1) + i = p
    BY <1>1
  <2> QED BY <1>1, <2>1, Twos
<1>3. r[i] \in Nat /\ r[i] >= 1 /\ r[i] < w /\ \A j \in i + 1 .. i + b : j < SlideBits => r[j] = 0
  <2>1. at.stopped = FALSE
    BY DEF TakingIn
  <2>2. TakenIn(r, i, b, FALSE)
    BY <2>1 DEF TakingIn
  <2> QED BY <1>1, <2>2, StillPositive
<1>4. s \in SlideArray /\ s[i] = r[i] + w /\ s[p] = 0
      /\ \A j \in 0 .. SlideBits - 1 : j # i /\ j # p => s[j] = r[j]
  <2>1. r[i] + w \in Int /\ p # i /\ p \in 0 .. SlideBits - 1
    BY <1>1, <1>2, <1>3
  <2>2. s = [j \in 0 .. SlideBits - 1 |-> IF j = p THEN 0 ELSE IF j = i THEN r[i] + w ELSE r[j]]
    BY <1>1, <2>1 DEF SlideArray
  <2> HIDE DEF s, p, w, r
  <2> QED BY <1>1, <2>1, <2>2 DEF SlideArray
<1>5. r[p] = 1 /\ r[i] + w <= SlideMax
  OBVIOUS
<1> DEFINE an == [r |-> s, stopped |-> FALSE]
<1> HIDE DEF s, w, p
<1>6. Low(s, i) = Low(r, i) /\ Low(s, SlideBits) = Low(r, SlideBits)
  <2>1. w \in Int
    BY <1>2
  <2> QED BY <1>1, <1>2, <1>4, <1>5, <2>1, LowAbsorbed
<1>7. an \in [r : SlideArray, stopped : BOOLEAN] /\ an.r = s /\ an.stopped = FALSE
  BY <1>4
<1>8. \A j \in 0 .. i - 1 : SlideDigit(s[j])
  <2>1. \A j \in 0 .. i - 1 : SlideDigit(r[j]) /\ s[j] = r[j]
    BY <1>1, <1>4 DEF TakingIn
  <2> QED BY <2>1
<1>9. SlideDigit(s[i]) /\ s[i] % 2 = 1
  <2>1. r[i] % 2 = 1 /\ r[i] \in Int
    BY <1>3 DEF TakingIn
  <2>2. s[i] % 2 = 1
    BY <1>4, <2>1, StaysOdd DEF w
  <2>3. s[i] \in -SlideMax .. SlideMax
    BY <1>2, <1>3, <1>4, <1>5, SlideSizes
  <2> QED BY <2>2, <2>3 DEF SlideDigit
<1>10. \A j \in i + 1 .. SlideBits - 1 : s[j] \in 0 .. 1
  <2> TAKE j \in i + 1 .. SlideBits - 1
  <2>1. r[j] \in 0 .. 1 /\ j # i /\ j \in 0 .. SlideBits - 1
    BY <1>1 DEF TakingIn
  <2> QED BY <1>4, <2>1
<1>11. TakenIn(s, i, b + 1, FALSE)
  <2>1. s[i] >= 1 /\ s[i] < Power(2, (b + 1) + 1)
    BY <1>2, <1>3, <1>4
  <2>2. ASSUME NEW j \in i + 1 .. i + (b + 1), j < SlideBits
        PROVE  s[j] = 0
    <3>1. j # i /\ j \in 0 .. SlideBits - 1
      BY <1>1, <2>2
    <3>2. CASE j = p
      BY <1>4, <3>2
    <3>3. CASE j # p
      <4>1. j \in i + 1 .. i + b
        BY <1>1, <3>3 DEF p
      <4> QED BY <1>3, <1>4, <2>2, <3>1, <3>3, <4>1
    <3> QED BY <3>2, <3>3
  <2> QED BY <2>1, <2>2 DEF TakenIn
<1>12. Low(r, SlideBits) = a /\ Low(r, i) >= -Power(2, i)
  BY DEF TakingIn
<1>13. TakingIn(an, i, b + 1, a)
  <2> HIDE DEF an, r
  <2> QED BY <1>6, <1>7, <1>8, <1>9, <1>10, <1>11, <1>12 DEF TakingIn
<1> QED BY <1>13 DEF s, w, p

\* Below ones up to the end the digits would stand for more than a scalar: what
\* is carried always finds a zero.
LEMMA ZeroAbove ==
  ASSUME NEW a \in 0 .. Power(2, SlideBits - 3) - 1, NEW r \in SlideArray,
         Low(r, SlideBits) = a, NEW i \in 0 .. SlideBits - 1, Low(r, i) >= -Power(2, i),
         r[i] >= 1, NEW p \in i + 1 .. SlideBits - 1,
         \A j \in i + 1 .. SlideBits - 1 : r[j] \in 0 .. 1
  PROVE  \E j \in p .. SlideBits - 1 : r[j] = 0
<1> SUFFICES ASSUME \A j \in p .. SlideBits - 1 : r[j] # 0
             PROVE  FALSE
  OBVIOUS
<1> DEFINE n == SlideBits
<1>1. n \in Nat /\ n > 3 /\ i \in Nat /\ p \in 0 .. n - 1 /\ p \in Nat /\ i + 1 \in 0 .. n
      /\ p \in i + 1 .. n /\ n - 1 \in Nat /\ n - 3 \in Nat
  BY SlideSizes
<1>2. \A j \in p .. n - 1 : r[j] = 1
  BY <1>1
<1>3. Low(r, n) = Low(r, p) + Power(2, n) - Power(2, p)
  BY <1>1, <1>2, LowOfOnes
<1>4. Low(r, i + 1) <= Low(r, p)
  <2>1. \A j \in i + 1 .. p - 1 : r[j] >= 0
    BY <1>1
  <2> QED BY <1>1, <2>1, LowRises
<1>5. Low(r, i + 1) >= 0 /\ Low(r, i + 1) \in Int
  <2>1. /\ Low(r, i + 1) = Low(r, i) + r[i] * Power(2, i) /\ Low(r, i) \in Int /\ r[i] \in Int
        /\ Power(2, i) \in Nat
    <3>1. i \in 0 .. SlideBits
      BY <1>1
    <3> QED BY <1>1, <3>1, LowSteps, Twos DEF SlideArray
  <2> DEFINE y == Power(2, i)
             x == r[i]
  <2>2. x * y >= y /\ x * y \in Int
    <3>1. x \in Int /\ x >= 1 /\ y \in Nat
      BY <2>1
    <3> HIDE DEF x, y
    <3> QED BY <3>1
  <2> QED BY <2>1, <2>2
<1>6. Low(r, p) >= 0 /\ Low(r, p) \in Int
  <2>1. Low(r, p) \in Int
    BY <1>1, LowSteps
  <2> QED BY <1>4, <1>5, <2>1
<1>7. /\ Power(2, p) <= Power(2, n - 1) /\ Power(2, n) = 2 * Power(2, n - 1)
      /\ Power(2, n - 3) <= Power(2, n - 1)
      /\ Power(2, p) \in Nat /\ Power(2, n - 1) \in Nat \ {0} /\ Power(2, n - 3) \in Nat
  <2>1. p <= n - 1 /\ (n - 1) + 1 = n /\ n - 3 <= n - 1
    BY <1>1
  <2> QED BY <1>1, <2>1, Twos
<1> DEFINE x == Power(2, n)
           y == Power(2, n - 1)
           z == Power(2, p)
           l == Low(r, p)
<1>8. a >= y
  <2>1. a = l + x - z /\ a \in Nat /\ l \in Int /\ l >= 0
    BY <1>3, <1>6, <1>7
  <2>2. x = 2 * y /\ z <= y /\ y \in Nat /\ z \in Nat
    BY <1>7
  <2> HIDE DEF x, y, z, l
  <2> QED BY <2>1, <2>2
<1> QED BY <1>7, <1>8

\* A one is taken away, and carried to the next zero.
LEMMA TakeDown ==
  ASSUME NEW a \in 0 .. Power(2, SlideBits - 3) - 1, NEW i \in 0 .. SlideBits - 1,
         NEW b \in Nat, NEW at, TakingIn(at, i, b, a),
         ~at.stopped, i + (b + 1) < SlideBits, at.r[i + (b + 1)] = 1,
         at.r[i] + Power(2, b + 1) > SlideMax, at.r[i] - Power(2, b + 1) >= -SlideMax
  PROVE  TakingIn([r |-> CarryInto([at.r EXCEPT ![i] = @ - Power(2, b + 1)], i + (b + 1)),
                   stopped |-> FALSE], i, b + 1, a)
<1> DEFINE r == at.r
           p == i + (b + 1)
           w == Power(2, b + 1)
           t == [r EXCEPT ![i] = @ - w]
           s == CarryInto(t, p)
           free == {j \in p .. SlideBits - 1 : t[j] = 0}
           q == Min(free)
<1>1. r \in SlideArray /\ SlideBits \in Nat /\ i \in Nat /\ p \in i + 1 .. SlideBits - 1
      /\ at.stopped = FALSE
  BY SlideSizes DEF TakingIn
<1>2. w \in Nat \ {0} /\ Power(2, (b + 1) + 1) = 2 * w /\ w * Power(2, i) = Power(2, p)
  <2>1. b + 1 \in Nat /\ (b + 1) + i = p
    BY <1>1
  <2> QED BY <1>1, <2>1, Twos
<1>3. r[i] \in Nat /\ r[i] >= 1 /\ r[i] < w /\ \A j \in i + 1 .. i + b : j < SlideBits => r[j] = 0
  <2>1. TakenIn(r, i, b, FALSE)
    BY <1>1 DEF TakingIn
  <2> QED BY <1>1, <2>1, StillPositive
<1>4. /\ Low(r, SlideBits) = a /\ Low(r, i) >= -Power(2, i)
      /\ \A j \in i + 1 .. SlideBits - 1 : r[j] \in 0 .. 1
      /\ \A j \in 0 .. i - 1 : SlideDigit(r[j])
      /\ r[i] % 2 = 1
  BY DEF TakingIn
<1>5. r[i] + w > SlideMax /\ r[i] - w >= -SlideMax /\ r[p] = 1
  OBVIOUS
<1>6. t \in SlideArray /\ t[i] = r[i] - w
      /\ \A j \in 0 .. SlideBits - 1 : j # i => t[j] = r[j]
  <2>1. r[i] - w \in Int
    BY <1>2, <1>3
  <2>2. t = [j \in 0 .. SlideBits - 1 |-> IF j = i THEN r[i] - w ELSE r[j]]
    BY <1>1, <2>1 DEF SlideArray
  <2> HIDE DEF t, w, r
  <2> QED BY <1>1, <2>1, <2>2 DEF SlideArray
<1> HIDE DEF r, w, p, t
\* The next zero.
<1>7. PICK z \in p .. SlideBits - 1 : r[z] = 0
  <2>1. p \in i + 1 .. SlideBits - 1
    BY <1>1
  <2> QED BY <1>1, <1>3, <1>4, <2>1, ZeroAbove
<1>8. \A j \in p .. SlideBits - 1 : j # i /\ j \in 0 .. SlideBits - 1 /\ j \in i + 1 .. SlideBits - 1
  BY <1>1
<1>9. free # {} /\ free \in SUBSET Nat
  <2>1. t[z] = 0
    BY <1>6, <1>7, <1>8
  <2>2. z \in free
    BY <2>1
  <2> QED BY <1>1, <2>2
<1>10. q \in free /\ \A j \in free : q <= j
  <2> HIDE DEF free
  <2>1. \E x \in free : \A y \in free : x <= y
    BY <1>9, LeastElement
  <2> QED BY <2>1 DEF Min
<1>11. s = [j \in 0 .. SlideBits - 1 |->
             IF j = q THEN 1 ELSE IF j \in p .. q THEN 0 ELSE t[j]]
  <2>1. DOMAIN t = 0 .. SlideBits - 1
    BY <1>6 DEF SlideArray
  <2>2. s = [j \in DOMAIN t |-> IF j = q THEN 1 ELSE IF j \in p .. q THEN 0 ELSE t[j]]
    BY <1>9 DEF CarryInto
  <2> HIDE DEF s, q
  <2> QED BY <2>1, <2>2
<1>12. q \in p .. SlideBits - 1 /\ r[q] = 0 /\ q # p /\ \A j \in p .. q - 1 : r[j] = 1
  <2>1. q \in p .. SlideBits - 1 /\ t[q] = 0
    BY <1>10
  <2> HIDE DEF q
  <2>2. r[q] = 0
    BY <1>6, <1>8, <2>1
  <2>3. ASSUME NEW j \in p .. q - 1
        PROVE  r[j] = 1
    <3>1. j \in p .. SlideBits - 1 /\ j < q /\ j \in Int /\ q \in Int
      BY <1>1, <2>1
    <3>2. j \notin free
      BY <1>10, <3>1
    <3>3. r[j] # 0
      BY <1>6, <1>8, <3>1, <3>2
    <3>4. r[j] \in 0 .. 1
      BY <1>4, <1>8, <3>1
    <3> QED BY <3>3, <3>4
  <2> QED BY <1>5, <2>1, <2>2, <2>3
<1> HIDE DEF s, q, free
<1>13. q \in p + 1 .. SlideBits - 1 /\ q \in 0 .. SlideBits - 1 /\ p \in Nat /\ q \in Nat /\ p < q
       /\ i < p
  BY <1>1, <1>12
<1>14. /\ s \in SlideArray /\ s[i] = r[i] - w /\ s[q] = 1
       /\ \A j \in p .. q - 1 : s[j] = 0
       /\ \A j \in 0 .. SlideBits - 1 : j # i /\ (j < p \/ j > q) => s[j] = r[j]
  <2>1. \A j \in 0 .. SlideBits - 1 : t[j] \in Int
    BY <1>6 DEF SlideArray
  <2>2. s \in SlideArray
    BY <1>11, <2>1 DEF SlideArray
  <2>3. s[i] = r[i] - w
    BY <1>1, <1>6, <1>11, <1>13
  <2>4. s[q] = 1
    BY <1>11, <1>13
  <2>5. ASSUME NEW j \in p .. q - 1
        PROVE  s[j] = 0
    <3>1. j \in 0 .. SlideBits - 1 /\ j # q /\ j \in p .. q
      BY <1>1, <1>13
    <3> QED BY <1>11, <3>1
  <2>6. ASSUME NEW j \in 0 .. SlideBits - 1, j # i, j < p \/ j > q
        PROVE  s[j] = r[j]
    <3>1. j # q /\ j \notin p .. q
      BY <1>13, <2>6
    <3> QED BY <1>6, <1>11, <2>6, <3>1
  <2> QED BY <2>2, <2>3, <2>4, <2>5, <2>6
<1>15. Low(s, i) = Low(r, i) /\ Low(s, SlideBits) = Low(r, SlideBits)
  <2>1. w \in Int
    BY <1>2
  <2> QED BY <1>1, <1>2, <1>12, <1>13, <1>14, <2>1, LowCarried
<1> DEFINE an == [r |-> s, stopped |-> FALSE]
<1>16. an \in [r : SlideArray, stopped : BOOLEAN] /\ an.r = s /\ an.stopped = FALSE
  BY <1>14
<1>17. \A j \in 0 .. i - 1 : SlideDigit(s[j])
  <2> TAKE j \in 0 .. i - 1
  <2>1. j \in 0 .. SlideBits - 1 /\ j # i /\ j < p
    BY <1>1, <1>13
  <2> QED BY <1>4, <1>14, <2>1
<1>18. SlideDigit(s[i]) /\ s[i] % 2 = 1
  <2>1. s[i] % 2 = 1
    BY <1>3, <1>4, <1>14, StaysOdd DEF w
  <2>2. s[i] \in -SlideMax .. SlideMax
    BY <1>2, <1>3, <1>5, <1>14, SlideSizes
  <2> QED BY <2>1, <2>2 DEF SlideDigit
<1>19. \A j \in i + 1 .. SlideBits - 1 : s[j] \in 0 .. 1
  <2> TAKE j \in i + 1 .. SlideBits - 1
  <2>1. r[j] \in 0 .. 1 /\ j # i /\ j \in 0 .. SlideBits - 1 /\ j \in Int
    BY <1>1, <1>4
  <2>2. CASE j < p \/ j > q
    BY <1>14, <2>1, <2>2
  <2>3. CASE j = q
    BY <1>14, <2>3
  <2>4. CASE j \in p .. q - 1
    BY <1>14, <2>4
  <2> QED BY <1>13, <2>1, <2>2, <2>3, <2>4
<1>20. TakenIn(s, i, b + 1, FALSE)
  <2> DEFINE c == b + 1
  <2>1. c \in 1 .. b + 1
    OBVIOUS
  <2>2. s[i] > -Power(2, c)
    BY <1>2, <1>3, <1>14 DEF w
  <2>3. s[i] + Power(2, c + 1) > SlideMax /\ s[i] - Power(2, c + 1) < -SlideMax
    BY <1>2, <1>3, <1>5, <1>14, SlideSizes
  <2>4. ASSUME NEW j \in i + 1 .. i + c, j < SlideBits
        PROVE  s[j] = 0
    <3>1. j # i /\ j \in 0 .. SlideBits - 1
      BY <1>1, <2>4
    <3>2. CASE j = p
      <4>1. j \in p .. q - 1
        BY <1>13, <3>2
      <4> QED BY <1>14, <4>1
    <3>3. CASE j # p
      <4>1. j \in i + 1 .. i + b /\ j < p
        BY <1>1, <3>3 DEF p
      <4> QED BY <1>3, <1>14, <2>4, <3>1, <4>1
    <3> QED BY <3>2, <3>3
  <2> HIDE DEF c
  <2>5. \E k \in 1 .. b + 1 :
          /\ s[i] > -Power(2, k) /\ s[i] + Power(2, k + 1) > SlideMax
          /\ s[i] - Power(2, k + 1) < -SlideMax
          /\ \A j \in i + 1 .. i + k : j < SlideBits => s[j] = 0
    BY <2>1, <2>2, <2>3, <2>4
  <2> QED BY <2>5 DEF TakenIn
<1>21. TakingIn(an, i, b + 1, a)
  <2> HIDE DEF an
  <2> QED BY <1>4, <1>15, <1>16, <1>17, <1>18, <1>19, <1>20 DEF TakingIn
<1> QED BY <1>21 DEF s, w, p, t, r

\* One place more.
LEMMA Absorbing ==
  ASSUME NEW a \in 0 .. Power(2, SlideBits - 3) - 1, NEW i \in 0 .. SlideBits - 1,
         NEW b \in Nat, NEW at, TakingIn(at, i, b, a)
  PROVE  TakingIn(Absorb(i, at, b + 1), i, b + 1, a)
<1> DEFINE r == at.r
           p == i + (b + 1)
           w == Power(2, b + 1)
<1>1. r \in SlideArray /\ SlideBits \in Nat /\ i \in Nat /\ at.stopped \in BOOLEAN /\ p \in Nat
      /\ at = [r |-> r, stopped |-> at.stopped]
  BY SlideSizes DEF TakingIn
<1>2. w \in Nat \ {0} /\ Power(2, (b + 1) + 1) = 2 * w
  <2>1. b + 1 \in Nat
    OBVIOUS
  <2> QED BY <2>1, Twos
\* The digit is left as it is.
<1>3. ASSUME NEW stopped \in BOOLEAN,
             stopped \/ (at.stopped = FALSE /\ (p < SlideBits => r[p] = 0)),
             at.stopped => stopped
      PROVE  TakingIn([r |-> r, stopped |-> stopped], i, b + 1, a)
  <2>1. TakenIn(r, i, b, at.stopped)
    BY DEF TakingIn
  <2>2. ASSUME r[i] >= 1,
               at.stopped \/ /\ r[i] < Power(2, b + 1)
                             /\ \A j \in i + 1 .. i + b : j < SlideBits => r[j] = 0
        PROVE  TakenIn(r, i, b + 1, stopped)
    <3>1. CASE stopped
      BY <2>2, <3>1 DEF TakenIn
    <3>2. CASE ~stopped
      <4>1. r[i] < 2 * w
        <5>1. r[i] < w /\ r[i] \in Int
          BY <1>1, <1>3, <2>2, <3>2 DEF SlideArray
        <5> QED BY <1>2, <5>1
      <4>2. ASSUME NEW j \in i + 1 .. i + (b + 1), j < SlideBits
            PROVE  r[j] = 0
        <5>1. CASE j = p
          BY <1>3, <3>2, <4>2, <5>1
        <5>2. CASE j # p
          <6>1. j \in i + 1 .. i + b
            BY <1>1, <5>2
          <6> QED BY <1>3, <2>2, <3>2, <4>2, <6>1
        <5> QED BY <5>1, <5>2
      <4> QED BY <1>2, <2>2, <4>1, <4>2 DEF TakenIn
    <3> QED BY <3>1, <3>2
  <2>3. ASSUME NEW c \in 1 .. b,
               r[i] > -Power(2, c), r[i] + Power(2, c + 1) > SlideMax,
               r[i] - Power(2, c + 1) < -SlideMax,
               \A j \in i + 1 .. i + c : j < SlideBits => r[j] = 0
        PROVE  TakenIn(r, i, b + 1, stopped)
    <3>1. c \in 1 .. b + 1
      OBVIOUS
    <3> HIDE DEF r
    <3> QED BY <2>3, <3>1 DEF TakenIn
  <2>4. TakenIn(r, i, b + 1, stopped)
    <3> HIDE DEF r
    <3> QED BY <2>1, <2>2, <2>3 DEF TakenIn
  <2> DEFINE an == [r |-> r, stopped |-> stopped]
  <2>5. an \in [r : SlideArray, stopped : BOOLEAN] /\ an.r = r /\ an.stopped = stopped
    BY <1>1
  <2>6. /\ Low(r, SlideBits) = a /\ Low(r, i) >= -Power(2, i)
        /\ \A j \in i + 1 .. SlideBits - 1 : r[j] \in 0 .. 1
        /\ \A j \in 0 .. i - 1 : SlideDigit(r[j])
        /\ SlideDigit(r[i]) /\ r[i] % 2 = 1
    BY DEF TakingIn
  <2> HIDE DEF an, r
  <2>7. TakingIn(an, i, b + 1, a)
    BY <2>4, <2>5, <2>6 DEF TakingIn
  <2> QED BY <2>7 DEF an
<1>4. CASE at.stopped \/ p >= SlideBits \/ r[p] = 0
  <2>1. Absorb(i, at, b + 1) = at
    BY <1>4 DEF Absorb
  <2>2. ~at.stopped => at.stopped = FALSE /\ (p < SlideBits => r[p] = 0)
    BY <1>1, <1>4
  <2>3. TakingIn([r |-> r, stopped |-> at.stopped], i, b + 1, a)
    BY <1>1, <1>3, <2>2
  <2> QED BY <1>1, <2>1, <2>3
<1>5. CASE ~at.stopped /\ p < SlideBits /\ r[p] # 0
  <2>1. r[p] = 1
    <3>1. p \in i + 1 .. SlideBits - 1
      BY <1>1, <1>5
    <3>2. r[p] \in 0 .. 1
      BY <3>1 DEF TakingIn
    <3> QED BY <1>5, <3>2
  <2>2. r[p] * w = w
    BY <1>2, <2>1
  <2>3. r[i] \in Int
    BY <1>1 DEF SlideArray
  <2>4. at.stopped = FALSE
    BY <1>1, <1>5
  <2>5. Absorb(i, at, b + 1) =
          IF r[i] + w <= SlideMax THEN [at EXCEPT !.r = [r EXCEPT ![i] = @ + w, ![p] = 0]]
          ELSE IF r[i] - w >= -SlideMax
            THEN [at EXCEPT !.r = CarryInto([r EXCEPT ![i] = @ - w], p)]
          ELSE [at EXCEPT !.stopped = TRUE]
    <3>1. ~(at.stopped \/ p >= SlideBits) /\ r[p] # 0
      BY <1>1, <1>5
    <3>2. r[p] * Power(2, b + 1) = w
      BY <2>2
    <3> QED BY <3>1, <3>2 DEF Absorb, Carry
  <2>6. CASE r[i] + w <= SlideMax
    <3>1. Absorb(i, at, b + 1) = [at EXCEPT !.r = [r EXCEPT ![i] = @ + w, ![p] = 0]]
      BY <2>5, <2>6
    <3> DEFINE s == [r EXCEPT ![i] = @ + w, ![p] = 0]
    <3>2. Absorb(i, at, b + 1) = [r |-> s, stopped |-> FALSE]
      <4>1. Absorb(i, at, b + 1) = [at EXCEPT !.r = s]
        BY <3>1
      <4> HIDE DEF s
      <4> QED BY <1>1, <2>4, <4>1
    <3> QED BY <1>5, <2>1, <2>6, <3>2, TakeUp
  <2>7. CASE ~(r[i] + w <= SlideMax) /\ r[i] - w >= -SlideMax
    <3> DEFINE s == CarryInto([r EXCEPT ![i] = @ - w], p)
    <3>1. Absorb(i, at, b + 1) = [at EXCEPT !.r = s]
      BY <2>5, <2>7
    <3>2. Absorb(i, at, b + 1) = [r |-> s, stopped |-> FALSE]
      <4> HIDE DEF s
      <4> QED BY <1>1, <2>4, <3>1
    <3>3. r[i] + w > SlideMax
      BY <1>2, <2>3, <2>7, SlideSizes
    <3> QED BY <1>5, <2>1, <2>7, <3>2, <3>3, TakeDown
  <2>8. CASE ~(r[i] + w <= SlideMax) /\ ~(r[i] - w >= -SlideMax)
    <3>1. Absorb(i, at, b + 1) = [at EXCEPT !.stopped = TRUE]
      BY <2>5, <2>8
    <3>2. Absorb(i, at, b + 1) = [r |-> r, stopped |-> TRUE]
      BY <1>1, <3>1
    <3> QED BY <1>3, <3>2
  <2> QED BY <2>6, <2>7, <2>8
<1> QED BY <1>1, <1>4, <1>5, SlideSizes

\* An integer put into the array of slide leaves such an array.
LEMMA SlidePut ==
  ASSUME NEW r \in SlideArray, NEW k \in 0 .. SlideBits - 1, NEW x \in Int
  PROVE  [r EXCEPT ![k] = x] \in SlideArray
BY DEF SlideArray

LEMMA AbsorbTyped ==
  ASSUME NEW i \in 0 .. SlideBits - 1, NEW b \in Nat, NEW at \in [r : SlideArray, stopped : BOOLEAN]
  PROVE  Absorb(i, at, b) \in [r : SlideArray, stopped : BOOLEAN]
<1> DEFINE r == at.r
           w == r[i + b] * Power(2, b)
           up == [r EXCEPT ![i] = @ + w, ![i + b] = 0]
           t == [r EXCEPT ![i] = @ - w]
           down == CarryInto(t, i + b)
<1>1. r \in SlideArray /\ SlideBits \in Nat /\ i \in Nat /\ at.stopped \in BOOLEAN
  BY SlideSizes
<1>2. CASE at.stopped \/ i + b >= SlideBits
  BY <1>2 DEF Absorb
<1>3. CASE ~(at.stopped \/ i + b >= SlideBits)
  <2>1. i + b \in 0 .. SlideBits - 1 /\ r[i + b] \in Int /\ r[i] \in Int
    <3>1. i + b \in 0 .. SlideBits - 1
      BY <1>1, <1>3
    <3> QED BY <1>1, <3>1 DEF SlideArray
  <2>2. w \in Int
    <3>1. Power(2, b) \in Nat \ {0}
      BY Twos
    <3> DEFINE x == r[i + b]
               y == Power(2, b)
    <3>2. x \in Int /\ y \in Int
      BY <2>1, <3>1
    <3> HIDE DEF x, y
    <3>3. x * y \in Int
      BY <3>2
    <3> QED BY <3>3 DEF x, y
  <2> HIDE DEF w
  <2> DEFINE plus == r[i] + w
             less == r[i] - w
             k == i + b
             first == [r EXCEPT ![i] = plus]
  <2>12. plus \in Int /\ less \in Int
    BY <2>1, <2>2
  <2>3. up \in SlideArray
    <3>1. up = [first EXCEPT ![k] = 0]
      OBVIOUS
    <3>2. k \in 0 .. SlideBits - 1 /\ 0 \in Int
      BY <2>1
    <3> HIDE DEF plus, k, r, up
    <3>3. first \in SlideArray
      BY <1>1, <2>12, SlidePut
    <3> HIDE DEF first
    <3> QED BY <3>1, <3>2, <3>3, SlidePut
  <2>4. t \in SlideArray
    <3>1. t = [r EXCEPT ![i] = less]
      OBVIOUS
    <3> HIDE DEF less, t, r
    <3> QED BY <1>1, <2>12, <3>1, SlidePut
  <2>5. down \in SlideArray
    <3> HIDE DEF t
    <3> DEFINE next == IF {j \in i + b .. SlideBits - 1 : t[j] = 0} = {} THEN SlideBits
                       ELSE Min({j \in i + b .. SlideBits - 1 : t[j] = 0})
    <3>1. down = [j \in DOMAIN t |->
                    IF j = next THEN 1 ELSE IF j \in i + b .. next THEN 0 ELSE t[j]]
      BY DEF CarryInto
    <3>2. DOMAIN t = 0 .. SlideBits - 1 /\ \A j \in 0 .. SlideBits - 1 : t[j] \in Int
      BY <2>4 DEF SlideArray
    <3> HIDE DEF next, down
    <3> QED BY <3>1, <3>2 DEF SlideArray
  <2>6. Absorb(i, at, b) \in {at, [at EXCEPT !.r = up], [at EXCEPT !.r = down],
                              [at EXCEPT !.stopped = TRUE]}
    BY DEF Absorb, Carry, w
  <2> HIDE DEF up, down
  <2>7. /\ [at EXCEPT !.r = up] \in [r : SlideArray, stopped : BOOLEAN]
        /\ [at EXCEPT !.r = down] \in [r : SlideArray, stopped : BOOLEAN]
        /\ [at EXCEPT !.stopped = TRUE] \in [r : SlideArray, stopped : BOOLEAN]
    BY <2>3, <2>5
  <2> QED BY <2>6, <2>7
<1> QED BY <1>2, <1>3

\* What a loop keeps, from its first value on.
LEMMA StepwiseKept ==
  ASSUME NEW n \in Nat, NEW T, NEW D, T[0] \in D,
         \A m \in 1 .. n : T[m - 1] \in D => T[m] \in D
  PROVE  \A m \in 0 .. n : T[m] \in D
<1> DEFINE S == {m \in Nat : m <= n => T[m] \in D}
<1>1. 0 \in S
  OBVIOUS
<1>2. ASSUME NEW m \in Nat, m \in S
      PROVE  m + 1 \in S
  <2> SUFFICES ASSUME m + 1 <= n PROVE T[m + 1] \in D
    OBVIOUS
  <2>1. m + 1 \in 1 .. n /\ (m + 1) - 1 = m /\ T[m] \in D
    BY <1>2
  <2> QED BY <2>1
<1> HIDE DEF S
<1>3. \A m \in Nat : m \in S
  BY <1>1, <1>2, FromZero
<1> QED BY <1>3 DEF S

\* All places within reach, one after the other.
LEMMA AbsorbedKeeps ==
  ASSUME NEW a \in 0 .. Power(2, SlideBits - 3) - 1, NEW r \in SlideArray,
         NEW i \in 0 .. SlideBits - 1, TakingIn([r |-> r, stopped |-> FALSE], i, 0, a)
  PROVE  \E at : TakingIn(at, i, SlideReach, a) /\ Absorbed(r, i) = at.r
<1> DEFINE D == [r : SlideArray, stopped : BOOLEAN]
           n == SlideReach
           base == [r |-> r, stopped |-> FALSE]
           step == [m \in 1 .. n |-> [w \in D |-> Absorb(i, w, m)]]
           Table(V) == V = [m \in 0 .. n |-> IF m = 0 THEN base ELSE Absorb(i, V[m - 1], m)]
<1>1. n \in Nat
  BY SlideSizes
<1>2. base \in D
  OBVIOUS
<1>3. \A w \in D, m \in Nat : Absorb(i, w, m) \in D
  BY AbsorbTyped
<1> HIDE DEF D
<1>4. step \in [1 .. n -> [D -> D]]
  BY <1>1, <1>3
<1>5. \A m \in 1 .. n, w \in D : step[m][w] = Absorb(i, w, m)
  OBVIOUS
<1> HIDE DEF step, base, n
<1>6. PICK V : Stepwise(V, D, n, base, step)
  BY <1>1, <1>2, <1>4, StepwiseFunction
<1>7. /\ V \in [0 .. n -> D] /\ V[0] = base
      /\ \A m \in 1 .. n : V[m] = Absorb(i, V[m - 1], m)
  <2>1. V \in [0 .. n -> D] /\ V[0] = base /\ \A m \in 1 .. n : V[m] = step[m][V[m - 1]]
    BY <1>6 DEF Stepwise
  <2>2. \A m \in 1 .. n : V[m - 1] \in D
    BY <1>1, <2>1
  <2> QED BY <1>5, <2>1, <2>2
<1>8. Table(V)
  BY <1>1, <1>7
<1> DEFINE T == CHOOSE A : Table(A)
<1>9. Table(T)
  <2> HIDE DEF Table
  <2> QED BY <1>8
<1>10. Absorbed(r, i) = T[n].r
  BY DEF Absorbed, n, base
<1> HIDE DEF T
<1>11. T[0] = base /\ \A m \in 1 .. n : T[m] = Absorb(i, T[m - 1], m)
  BY <1>1, <1>9
<1> HIDE DEF Table
<1> DEFINE S == {m \in Nat : m <= n => TakingIn(T[m], i, m, a)}
<1>12. 0 \in S
  BY <1>11 DEF base
<1>13. ASSUME NEW m \in Nat, m \in S
       PROVE  m + 1 \in S
  <2> SUFFICES ASSUME m + 1 <= n PROVE TakingIn(T[m + 1], i, m + 1, a)
    OBVIOUS
  <2>1. m + 1 \in 1 .. n /\ (m + 1) - 1 = m /\ TakingIn(T[m], i, m, a)
    BY <1>1, <1>13
  <2>2. T[m + 1] = Absorb(i, T[m], m + 1)
    BY <1>11, <2>1
  <2> QED BY <2>1, <2>2, Absorbing
<1> HIDE DEF S
<1>14. \A m \in Nat : m \in S
  BY <1>12, <1>13, FromZero
<1>15. TakingIn(T[n], i, n, a)
  BY <1>1, <1>14 DEF S
<1> QED BY <1>10, <1>15 DEF n

\* Slide's loop: the digits below i are settled, the bits from there on are
\* still to be taken in, and what is settled is not so negative that a bit could
\* not make up for it.
Sliding(r, i, a) ==
  /\ r \in SlideArray /\ Low(r, SlideBits) = a
  /\ \A j \in 0 .. i - 1 : SlideDigit(r[j])
  /\ \A j \in i .. SlideBits - 1 : r[j] \in 0 .. 1
  /\ \A j \in i .. SlideBits - 1 : r[j] = 1 => Low(r, j) >= -Power(2, j)

LEMMA SlideSteps ==
  ASSUME NEW a \in 0 .. Power(2, SlideBits - 3) - 1, NEW i \in 0 .. SlideBits - 1, NEW r,
         Sliding(r, i, a)
  PROVE  Sliding(SlideStep(r, i), i + 1, a)
<1>1. SlideBits \in Nat /\ i \in Nat /\ r \in SlideArray /\ i \in i .. SlideBits - 1 /\ r[i] \in 0 .. 1
  <2>1. SlideBits \in Nat /\ i \in Nat /\ r \in SlideArray /\ i \in i .. SlideBits - 1
    BY SlideSizes DEF Sliding
  <2> QED BY <2>1 DEF Sliding
<1>2. CASE r[i] = 0
  <2>1. SlideStep(r, i) = r /\ SlideDigit(r[i])
    BY <1>2 DEF SlideStep, SlideDigit
  <2>2. \A j \in 0 .. (i + 1) - 1 : j = i \/ j \in 0 .. i - 1
    BY <1>1
  <2>3. \A j \in i + 1 .. SlideBits - 1 : j \in i .. SlideBits - 1
    BY <1>1
  <2> QED BY <2>1, <2>2, <2>3 DEF Sliding
<1>3. CASE r[i] = 1
  <2> DEFINE first == [r |-> r, stopped |-> FALSE]
  <2>1. first \in [r : SlideArray, stopped : BOOLEAN] /\ first.r = r /\ first.stopped = FALSE
    BY <1>1
  <2>2. TakenIn(r, i, 0, FALSE)
    <3>1. r[i] >= 1 /\ r[i] < Power(2, 0 + 1)
      <4>1. Power(2, 0 + 1) = 2 * Power(2, 0) /\ Power(2, 0) = 1
        BY Twos
      <4> QED BY <1>3, <4>1
    <3>2. \A j \in i + 1 .. i + 0 : FALSE
      BY <1>1
    <3> QED BY <3>1, <3>2 DEF TakenIn
  <2>3. SlideDigit(r[i]) /\ r[i] % 2 = 1
    BY <1>3, SlideSizes DEF SlideDigit
  <2>4. /\ \A j \in 0 .. i - 1 : SlideDigit(r[j])
        /\ Low(r, SlideBits) = a /\ Low(r, i) >= -Power(2, i)
    BY <1>1, <1>3 DEF Sliding
  <2>5. \A k \in i + 1 .. SlideBits - 1 : r[k] \in 0 .. 1
    <3>1. \A j \in i + 1 .. SlideBits - 1 : j \in i .. SlideBits - 1
      BY <1>1
    <3> QED BY <3>1 DEF Sliding
  <2>6. TakingIn(first, i, 0, a)
    <3> HIDE DEF first
    <3> QED BY <2>1, <2>2, <2>3, <2>4, <2>5 DEF TakingIn, Sliding
  <2>7. PICK at : TakingIn(at, i, SlideReach, a) /\ Absorbed(r, i) = at.r
    BY <1>1, <2>6, AbsorbedKeeps
  <2> DEFINE s == at.r
  <2>8. SlideStep(r, i) = s
    BY <1>3, <2>7 DEF SlideStep
  <2>9. /\ s \in SlideArray /\ \A j \in 0 .. i - 1 : SlideDigit(s[j])
        /\ SlideDigit(s[i])
        /\ Low(s, SlideBits) = a /\ Low(s, i) >= -Power(2, i)
        /\ TakenIn(s, i, SlideReach, at.stopped)
    BY <2>7 DEF TakingIn
  <2>10. \A j \in i + 1 .. SlideBits - 1 : s[j] \in 0 .. 1
    BY <2>7 DEF TakingIn
  <2> HIDE DEF s
  <2>11. \A j \in 0 .. (i + 1) - 1 : SlideDigit(s[j])
    <3>1. \A j \in 0 .. (i + 1) - 1 : j = i \/ j \in 0 .. i - 1
      BY <1>1
    <3> QED BY <2>9, <3>1
  <2>12. ASSUME NEW j \in i + 1 .. SlideBits - 1, s[j] = 1
         PROVE  Low(s, j) >= -Power(2, j)
    <3>1. /\ i + 1 \in 0 .. SlideBits /\ j \in i + 1 .. SlideBits /\ j \in Nat /\ j \in 0 .. SlideBits
          /\ i \in 0 .. SlideBits
      BY <1>1
    <3>2. Low(s, i + 1) <= Low(s, j)
      <4>1. \A k \in i + 1 .. j - 1 : k \in i + 1 .. SlideBits - 1
        BY <1>1, <3>1
      <4>2. \A k \in i + 1 .. j - 1 : s[k] >= 0
        BY <2>10, <4>1
      <4> QED BY <2>9, <3>1, <4>2, LowRises
    <3>3. /\ Low(s, i + 1) = Low(s, i) + s[i] * Power(2, i) /\ Low(s, i) \in Int /\ s[i] \in Int
          /\ Power(2, i) \in Nat \ {0} /\ Low(s, i + 1) \in Int /\ Low(s, j) \in Int
          /\ Power(2, j) \in Nat \ {0}
      <4>1. s[i] \in Int
        BY <2>9 DEF SlideArray
      <4> QED BY <1>1, <2>9, <3>1, <4>1, LowSteps, Twos
    <3> DEFINE x == s[i]
               y == Power(2, i)
               l == Low(s, i)
    <3>4. x \in Int /\ y \in Nat \ {0} /\ l \in Int /\ l >= -y /\ Low(s, i + 1) = l + x * y
      BY <2>9, <3>3
    <3>5. CASE x >= 1
      <4>1. x * y >= y /\ x * y \in Int
        <5> HIDE DEF x, y
        <5> QED BY <3>4, <3>5
      <4>2. Low(s, i + 1) >= 0
        <5> DEFINE z == x * y
        <5>1. z >= y /\ z \in Int /\ Low(s, i + 1) = l + z
          BY <3>4, <4>1
        <5> HIDE DEF x, y, l, z
        <5> QED BY <3>4, <5>1
      <4> QED BY <3>2, <3>3, <4>2
    <3>6. CASE ~(x >= 1)
      <4>1. PICK c \in 1 .. SlideReach :
              x > -Power(2, c) /\ \A k \in i + 1 .. i + c : k < SlideBits => s[k] = 0
        BY <2>9, <3>6 DEF TakenIn
      <4>2. c \in Nat /\ i + c < j /\ i + c \in Nat /\ Power(2, c) \in Nat \ {0}
            /\ Power(2, c + i) = Power(2, c) * y
        <5>1. c \in Nat /\ i + c \in Nat
          BY <1>1, SlideSizes
        <5>2. ~(j \in i + 1 .. i + c)
          <6>1. j < SlideBits
            BY <1>1
          <6> QED BY <2>12, <4>1, <6>1
        <5>3. i + c < j
          BY <1>1, <5>1, <5>2
        <5> QED BY <1>1, <5>1, <5>3, Twos
      <4>3. Power(2, i + c) <= Power(2, j) /\ Power(2, i + c) = Power(2, c) * y
        <5>1. i + c <= j /\ i + c = c + i
          BY <3>1, <4>2
        <5> QED BY <3>1, <4>2, <5>1, Twos
      <4> DEFINE z == Power(2, c)
      <4>4. x + z >= 1 /\ z \in Nat
        BY <3>4, <4>1, <4>2
      <4> HIDE DEF z
      <4>5. x * y + z * y >= y /\ x * y \in Int /\ z * y \in Int
        <5> HIDE DEF x, y
        <5>1. (x + z) * y >= y
          <6> DEFINE u == x + z
          <6>1. u \in Int /\ u >= 1
            BY <3>4, <4>4
          <6> HIDE DEF u
          <6>2. u * y >= y
            BY <3>4, <6>1
          <6> QED BY <6>2 DEF u
        <5>2. (x + z) * y = x * y + z * y /\ x * y \in Int /\ z * y \in Int
          BY <3>4, <4>4
        <5> QED BY <5>1, <5>2
      <4> DEFINE xy == x * y
                 zy == z * y
      <4>6. xy + zy >= y /\ xy \in Int /\ zy \in Int /\ Low(s, i + 1) = l + xy
            /\ zy <= Power(2, j)
        BY <3>4, <4>3, <4>5 DEF z
      <4> HIDE DEF xy, zy, x, y, l
      <4> QED BY <3>2, <3>3, <3>4, <4>6
    <3> QED BY <3>5, <3>6
  <2>13. Sliding(s, i + 1, a)
    BY <2>9, <2>10, <2>11, <2>12 DEF Sliding
  <2> QED BY <2>8, <2>13
<1> QED BY <1>1, <1>2, <1>3

\* The bits of a scalar stand for it.
BitsOf(a) == [j \in 0 .. SlideBits - 1 |-> ScalarBit(a, j)]

LEMMA BitsExact ==
  ASSUME NEW a \in 0 .. Power(2, SlideBits - 3) - 1
  PROVE  Sliding(BitsOf(a), 0, a)
<1> DEFINE n == SlideBits
           r == BitsOf(a)
           Q(k) == a \div Power(2, k)
<1>1. n \in Nat /\ n > 3 /\ a \in Nat
  <2>1. n \in Nat /\ n > 3 /\ n - 3 \in Nat
    BY SlideSizes
  <2>2. Power(2, n - 3) \in Nat \ {0}
    BY <2>1, Twos
  <2> QED BY <2>1, <2>2
<1>2. \A k \in Nat : Q(k) \in Nat /\ Q(k) = 2 * Q(k + 1) + ScalarBit(a, k) /\ ScalarBit(a, k) \in 0 .. 1
  <2> TAKE k \in Nat
  <2> DEFINE P == Power(2, k)
             q == Q(k)
  <2>1. P \in Nat \ {0} /\ Power(2, k + 1) = 2 * P /\ 2 * P = P * 2 /\ 2 \in Nat \ {0} /\ a \in Int
    <3>1. P \in Nat \ {0} /\ Power(2, k + 1) = 2 * P
      BY Twos
    <3> QED BY <1>1, <3>1
  <2>2. Q(k + 1) = q \div 2
    <3> HIDE DEF P
    <3>1. a \div (P * 2) = (a \div P) \div 2
      BY <2>1, QuotientOfQuotient
    <3> QED BY <2>1, <3>1 DEF P
  <2>3. q \in Nat
    <3> HIDE DEF P
    <3>1. a \div P \in Nat
      BY <1>1, <2>1
    <3> QED BY <3>1 DEF P
  <2>4. ScalarBit(a, k) = q % 2
    BY DEF ScalarBit
  <2> HIDE DEF q
  <2>5. q = 2 * (q \div 2) + (q % 2) /\ q % 2 \in 0 .. 1
    BY <2>3
  <2> QED BY <2>2, <2>3, <2>4, <2>5 DEF q
<1>3. r \in SlideArray /\ \A j \in 0 .. n - 1 : r[j] = ScalarBit(a, j) /\ r[j] \in 0 .. 1
  <2>1. \A j \in 0 .. n - 1 : r[j] = ScalarBit(a, j) /\ ScalarBit(a, j) \in 0 .. 1
    BY <1>1, <1>2 DEF BitsOf
  <2>2. r = [j \in 0 .. n - 1 |-> r[j]]
    BY DEF BitsOf
  <2> HIDE DEF r
  <2> QED BY <2>1, <2>2 DEF SlideArray
<1> HIDE DEF r
<1> DEFINE S == {k \in Nat : k <= n => Low(r, k) + Q(k) * Power(2, k) = a}
<1>4. 0 \in S
  <2>1. Power(2, 0) = 1 /\ Low(r, 0) = 0
    BY <1>3, Twos, LowSteps
  <2> QED BY <1>1, <2>1
<1>5. ASSUME NEW k \in Nat, k \in S
      PROVE  k + 1 \in S
  <2> SUFFICES ASSUME k + 1 <= n PROVE Low(r, k + 1) + Q(k + 1) * Power(2, k + 1) = a
    OBVIOUS
  <2> DEFINE P == Power(2, k)
             q == Q(k + 1)
             x == r[k]
             l == Low(r, k)
  <2>1. k \in 0 .. n - 1 /\ k \in 0 .. n /\ l + Q(k) * P = a
    BY <1>1, <1>5
  <2>2. Low(r, k + 1) = l + x * P /\ Power(2, k + 1) = 2 * P /\ Q(k) = 2 * q + x
        /\ l \in Int /\ x \in Int /\ P \in Int /\ q \in Int
    <3>1. Low(r, k + 1) = l + x * P /\ l \in Int
      BY <1>3, <2>1, LowSteps
    <3>2. Power(2, k + 1) = 2 * P /\ P \in Nat \ {0}
      BY Twos
    <3>3. Q(k) = 2 * q + ScalarBit(a, k) /\ q \in Nat
      BY <1>2
    <3>4. x = ScalarBit(a, k) /\ x \in 0 .. 1
      BY <1>3, <2>1
    <3> QED BY <3>1, <3>2, <3>3, <3>4
  <2> HIDE DEF P, q, x, l
  <2>3. l + (2 * q + x) * P = a
    BY <2>1, <2>2 DEF P
  <2>4. (l + x * P) + q * (2 * P) = l + (2 * q + x) * P
    BY <2>2
  <2>5. (l + x * P) + q * (2 * P) = a
    BY <2>3, <2>4
  <2> QED BY <2>2, <2>5 DEF P, q
<1> HIDE DEF S
<1>6. \A k \in Nat : k \in S
  BY <1>4, <1>5, FromZero
<1>7. Low(r, n) = a
  <2>1. n \in S
    BY <1>1, <1>6
  <2>2. Low(r, n) + Q(n) * Power(2, n) = a
    BY <1>1, <2>1 DEF S
  <2>3. Q(n) = 0
    <3>1. Power(2, n - 3) <= Power(2, n) /\ Power(2, n) \in Nat \ {0} /\ Power(2, n - 3) \in Nat \ {0}
      <4>1. n - 3 \in Nat /\ n - 3 <= n
        BY <1>1
      <4> QED BY <1>1, <4>1, Twos
    <3> DEFINE P == Power(2, n)
    <3>2. a < P /\ P \in Nat \ {0}
      BY <1>1, <3>1
    <3> HIDE DEF P
    <3>3. a \div P = 0
      BY <1>1, <3>2
    <3> QED BY <3>3 DEF P
  <2>4. 0 * Power(2, n) = 0 /\ Low(r, n) \in Int
    <3>1. Power(2, n) \in Nat \ {0} /\ n \in 0 .. n
      BY <1>1, Twos
    <3> QED BY <1>3, <3>1, LowSteps
  <2> QED BY <2>2, <2>3, <2>4
<1>8. ASSUME NEW j \in 0 .. n - 1
      PROVE  Low(r, j) >= -Power(2, j)
  <2>1. j \in Nat /\ j \in 0 .. n /\ 0 \in 0 .. n
    BY <1>1
  <2>2. \A k \in 0 .. j - 1 : r[k] >= 0
    <3>1. \A k \in 0 .. j - 1 : k \in 0 .. n - 1
      BY <1>1, <2>1
    <3> QED BY <1>3, <3>1
  <2>3. Low(r, 0) <= Low(r, j)
    BY <1>3, <2>1, <2>2, LowRises
  <2>4. Low(r, 0) = 0 /\ Low(r, j) \in Int /\ Power(2, j) \in Nat \ {0}
    BY <1>3, <2>1, LowSteps, Twos
  <2> QED BY <2>3, <2>4
<1>9. \A j \in 0 .. 0 - 1 : FALSE
  OBVIOUS
<1>10. Sliding(r, 0, a)
  BY <1>3, <1>7, <1>8, <1>9 DEF Sliding
<1> QED BY <1>10 DEF r

LEMMA AbsorbedTyped ==
  ASSUME NEW r \in SlideArray, NEW i \in 0 .. SlideBits - 1
  PROVE  Absorbed(r, i) \in SlideArray
<1> DEFINE D == [r : SlideArray, stopped : BOOLEAN]
           n == SlideReach
           base == [r |-> r, stopped |-> FALSE]
           step == [m \in 1 .. n |-> [w \in D |-> Absorb(i, w, m)]]
           Table(V) == V = [m \in 0 .. n |-> IF m = 0 THEN base ELSE Absorb(i, V[m - 1], m)]
<1>1. n \in Nat
  BY SlideSizes
<1>2. base \in D
  OBVIOUS
<1>3. \A w \in D, m \in Nat : Absorb(i, w, m) \in D
  BY AbsorbTyped
<1>4. \A w \in D : w.r \in SlideArray
  OBVIOUS
<1> HIDE DEF D
<1>5. step \in [1 .. n -> [D -> D]]
  BY <1>1, <1>3
<1>6. \A m \in 1 .. n, w \in D : step[m][w] = Absorb(i, w, m)
  OBVIOUS
<1> HIDE DEF step, base, n
<1>7. PICK V : Stepwise(V, D, n, base, step)
  BY <1>1, <1>2, <1>5, StepwiseFunction
<1>8. Table(V)
  <2>1. V \in [0 .. n -> D] /\ V[0] = base /\ \A m \in 1 .. n : V[m] = step[m][V[m - 1]]
    BY <1>7 DEF Stepwise
  <2>2. \A m \in 1 .. n : V[m - 1] \in D
    BY <1>1, <2>1
  <2>3. \A m \in 1 .. n : V[m] = Absorb(i, V[m - 1], m)
    BY <1>6, <2>1, <2>2
  <2> QED BY <1>1, <2>1, <2>3
<1> DEFINE T == CHOOSE A : Table(A)
<1>9. Table(T)
  <2> HIDE DEF Table
  <2> QED BY <1>8
<1>10. Absorbed(r, i) = T[n].r
  BY DEF Absorbed, n, base
<1> HIDE DEF T
<1>11. T[0] = base /\ \A m \in 1 .. n : T[m] = Absorb(i, T[m - 1], m)
  BY <1>1, <1>9
<1>12. \A m \in 0 .. n : T[m] \in D
  <2>1. T[0] \in D /\ \A m \in 1 .. n : T[m - 1] \in D => T[m] \in D
    <3>1. \A m \in 1 .. n : m \in Nat
      BY <1>1
    <3> QED BY <1>2, <1>3, <1>11, <3>1
  <2> HIDE DEF Table
  <2> QED BY <1>1, <2>1, StepwiseKept
<1> QED BY <1>1, <1>4, <1>10, <1>12

LEMMA SlideExact ==
  ASSUME NEW a \in 0 .. Power(2, SlideBits - 3) - 1
  PROVE  Slid(Slide(a), a)
<1> DEFINE D == SlideArray
           n == SlideBits
           base == BitsOf(a)
           step == [m \in 1 .. n |-> [w \in D |-> SlideStep(w, m - 1)]]
           Table(V) == V = [m \in 0 .. n |-> IF m = 0 THEN base ELSE SlideStep(V[m - 1], m - 1)]
<1>1. n \in Nat /\ \A m \in 1 .. n : m - 1 \in 0 .. n - 1
  BY SlideSizes
<1>2. base \in D
  BY BitsExact DEF Sliding
<1>3. \A w \in D, i \in 0 .. n - 1 : SlideStep(w, i) \in D
  BY AbsorbedTyped DEF SlideStep
<1> HIDE DEF D
<1>4. step \in [1 .. n -> [D -> D]]
  BY <1>1, <1>3
<1>5. \A m \in 1 .. n, w \in D : step[m][w] = SlideStep(w, m - 1)
  OBVIOUS
<1>6. Slide(a) = (CHOOSE A : Table(A))[n]
  BY DEF Slide, BitsOf
<1> HIDE DEF step, base, n
<1>7. PICK V : Stepwise(V, D, n, base, step)
  BY <1>1, <1>2, <1>4, StepwiseFunction
<1>8. Table(V)
  <2>1. V \in [0 .. n -> D] /\ V[0] = base /\ \A m \in 1 .. n : V[m] = step[m][V[m - 1]]
    BY <1>7 DEF Stepwise
  <2>2. \A m \in 1 .. n : V[m - 1] \in D
    BY <1>1, <2>1
  <2>3. \A m \in 1 .. n : V[m] = SlideStep(V[m - 1], m - 1)
    BY <1>5, <2>1, <2>2
  <2> QED BY <1>1, <2>1, <2>3
<1> DEFINE T == CHOOSE A : Table(A)
<1>9. Table(T)
  <2> HIDE DEF Table
  <2> QED BY <1>8
<1>10. Slide(a) = T[n]
  BY <1>6
<1> HIDE DEF T
<1>11. T[0] = base /\ \A m \in 1 .. n : T[m] = SlideStep(T[m - 1], m - 1)
  BY <1>1, <1>9
<1> HIDE DEF Table
<1> DEFINE S == {m \in Nat : m <= n => Sliding(T[m], m, a)}
<1>12. 0 \in S
  BY <1>11, BitsExact DEF base
<1>13. ASSUME NEW m \in Nat, m \in S
       PROVE  m + 1 \in S
  <2> SUFFICES ASSUME m + 1 <= n PROVE Sliding(T[m + 1], m + 1, a)
    OBVIOUS
  <2>1. m + 1 \in 1 .. n /\ (m + 1) - 1 = m /\ m \in 0 .. SlideBits - 1 /\ Sliding(T[m], m, a)
    BY <1>1, <1>13 DEF n
  <2>2. T[m + 1] = SlideStep(T[m], m)
    BY <1>11, <2>1
  <2> QED BY <2>1, <2>2, SlideSteps
<1> HIDE DEF S
<1>14. \A m \in Nat : m \in S
  BY <1>12, <1>13, FromZero
<1> DEFINE r == T[n]
<1>15. Sliding(r, SlideBits, a)
  BY <1>1, <1>14 DEF S, n
<1> HIDE DEF r
<1>16. StandsFor(r, SlideBits, 1) = Low(r, SlideBits)
  <2>1. \A i \in 0 .. SlideBits - 1 : 1 * i = i
    BY SlideSizes
  <2>2. [i \in 0 .. SlideBits - 1 |-> r[i] * Power(2, 1 * i)]
          = [i \in 0 .. SlideBits - 1 |-> r[i] * Power(2, i)]
    BY <2>1
  <2> QED BY <2>2 DEF StandsFor, Low
<1>17. Slid(r, a)
  BY <1>15, <1>16 DEF Sliding, Slid
<1> QED BY <1>10, <1>17 DEF r

\* The digits are made before the first step, and no step touches them.
LEMMA RecodedFirst == EdwardsInit => RecodingExact
<1> SUFFICES ASSUME EdwardsInit PROVE RecodingExact
  OBVIOUS
<1>1. CASE BaseStart
  <2>1. PICK a \in 0 .. Power(2, Nibbles * NibbleBits - 1) - 1 :
          geArg = [a |-> a] /\ geDigits = [e |-> RadixDigits(a)]
    BY <1>1 DEF BaseStart
  <2>2. Windowed(RadixDigits(a), a)
    BY WindowsExact
  <2>3. geArg.a = a /\ geDigits.e = RadixDigits(a)
    BY <2>1
  <2> QED BY <1>1, <2>2, <2>3 DEF BaseStart, RecodingExact
<1>2. CASE DoubleStart
  <2>1. PICK a \in 0 .. BaseOrder - 1, b \in 0 .. Power(2, SlideBits - 3) - 1, k \in KeyMultiples :
          /\ geArg = [a |-> a, b |-> b, A |-> TimesPoint(k, BasePoint)]
          /\ geDigits = [aslide |-> Slide(a), bslide |-> Slide(b),
                         Ai |-> OddMultiples(Extended(TimesPoint(k, BasePoint)))]
    BY <1>2 DEF DoubleStart
  <2>2. a \in 0 .. Power(2, SlideBits - 3) - 1
    <3>1. Power(2, SlideBits - 3) \in Nat \ {0}
      <4>1. SlideBits - 3 \in Nat
        BY SlideSizes
      <4> QED BY <4>1, Twos
    <3>2. BaseOrder \in Nat \ {0} /\ BaseOrder <= Power(2, SlideBits - 3)
      BY CurveAssumption
    <3> QED BY <3>1, <3>2
  <2>3. Slid(Slide(a), a) /\ Slid(Slide(b), b)
    BY <2>2, SlideExact
  <2>4. /\ geArg.a = a /\ geArg.b = b
        /\ geDigits.aslide = Slide(a) /\ geDigits.bslide = Slide(b)
    BY <2>1
  <2> QED BY <1>2, <2>3, <2>4 DEF DoubleStart, RecodingExact
<1>3. CASE UnpackStart
  BY <1>3 DEF UnpackStart, RecodingExact
<1> QED BY <1>1, <1>2, <1>3 DEF EdwardsInit

LEMMA DigitsStay == [EdwardsNext]_edwardsVars => UNCHANGED <<geCall, geArg, geDigits>>
BY DEF EdwardsNext, Window, Double, Bit, Unpack, edwardsVars

LEMMA RecodedAfter == RecodingExact /\ UNCHANGED <<geCall, geArg, geDigits>> => RecodingExact'
BY DEF RecodingExact, Windowed, Slid, StandsFor, SlideDigit, SumTo

\* ge.c: both recodings, of every scalar they are given and with windows and
\* digits of every width, keep the scalar and stay inside the tables.
THEOREM RecodingIsExact == EdwardsSpec => []RecodingExact
<1>1. EdwardsInit => RecodingExact
  BY RecodedFirst
<1>2. RecodingExact /\ [EdwardsNext]_edwardsVars => RecodingExact'
  BY DigitsStay, RecodedAfter
<1> QED BY <1>1, <1>2, PTL DEF EdwardsSpec

\* The same for the library as a whole.
THEOREM LibraryRecodes == LibrarySpec => []RecodingExact
<1>1. LibraryInit => RecodingExact
  <2>1. EdwardsIdle => RecodingExact
    BY DEF EdwardsIdle, RecodingExact
  <2> QED BY <2>1, RecodedFirst DEF LibraryInit
<1>2. RecodingExact /\ [LibraryNext]_libraryVars => RecodingExact'
  <2>1. [LibraryNext]_libraryVars => UNCHANGED <<geCall, geArg, geDigits>>
    BY DigitsStay DEF LibraryNext, libraryVars, edwardsVars
  <2> QED BY <2>1, RecodedAfter
<1> QED BY <1>1, <1>2, PTL DEF LibrarySpec

-----------------------------------------------------------------------------
(* How many reduced elements an operand sums up.                             *)

Upto(f, m) == f.n \in 0 .. m

LEMMA Summing ==
  ASSUME NEW f, NEW g, NEW k \in 0 .. 3, NEW l \in 0 .. 3, Upto(f, k), Upto(g, l), k + l <= 3
  PROVE  Upto(Plus(f, g), k + l) /\ Upto(Minus(f, g), k + l)
<1>1. f.n + g.n \in 0 .. k + l /\ f.n + g.n <= 3
  BY DEF Upto
<1>2. Grown(f.n + g.n) = f.n + g.n
  BY <1>1 DEF Grown
<1> QED BY <1>1, <1>2 DEF Upto, Plus, Minus, E

LEMMA Multiplying ==
  ASSUME NEW f, NEW g, Upto(f, 3), Upto(g, 3)
  PROVE  Upto(Product(f, g), 1)
<1>1. f.n <= MulLimit /\ g.n <= MulLimit
  BY DEF Upto, MulLimit
<1>2. Product(f, g).n = 1
  BY <1>1 DEF Product, E
<1> QED BY <1>2 DEF Upto

LEMMA Squaring ==
  ASSUME NEW f, Upto(f, 3)
  PROVE  Upto(SquareOf(f), 1) /\ Upto(TwiceSquare(f), 1)
<1>1. Upto(SquareOf(f), 1)
  BY Multiplying DEF SquareOf
<1>2. TwiceSquare(f).n = SquareOf(f).n
  BY DEF TwiceSquare, E
<1> QED BY <1>1, <1>2 DEF Upto

LEMMA Widening ==
  ASSUME NEW f, NEW k \in 0 .. 3, Upto(f, k)
  PROVE  \A l \in k .. 3 : Upto(f, l)
BY DEF Upto

LEMMA Elementary ==
  /\ Upto(Zero, 0) /\ Upto(One, 0) /\ Upto(Zero, 1) /\ Upto(One, 1)
  /\ \A v : Upto(Reduced(v), 1)
  /\ \A f : \A k \in 0 .. 3 : Upto(f, k) => Upto(Opposite(f), k)
BY DEF Upto, Zero, One, Reduced, Opposite, E

\* Points in the representations of ge.h whose coordinates sum up that many.
Proj(p, m) == Upto(p.X, m) /\ Upto(p.Y, m) /\ Upto(p.Z, m)
Ext(p, m) == Proj(p, m) /\ Upto(p.T, m)
CachedFit(q) == Upto(q.YplusX, 2) /\ Upto(q.YminusX, 2) /\ Upto(q.Z, 1) /\ Upto(q.T2d, 1)
TableFit(q) == Upto(q.yplusx, 1) /\ Upto(q.yminusx, 1) /\ Upto(q.xy2d, 1)

LEMMA Coordinates ==
  ASSUME NEW x, NEW y, NEW z, NEW t
  PROVE  /\ P2(x, y, z).X = x /\ P2(x, y, z).Y = y /\ P2(x, y, z).Z = z
         /\ P4(x, y, z, t).X = x /\ P4(x, y, z, t).Y = y /\ P4(x, y, z, t).Z = z
         /\ P4(x, y, z, t).T = t
         /\ DOMAIN P2(x, y, z) = {"X", "Y", "Z"} /\ DOMAIN P4(x, y, z, t) = {"X", "Y", "Z", "T"}
BY DEF P2, P4

LEMMA Completing ==
  ASSUME NEW p, Ext(p, 3)
  PROVE  Proj(P1p1ToP2(p), 1) /\ Ext(P1p1ToP3(p), 1)
<1>1. /\ Upto(Product(p.X, p.T), 1) /\ Upto(Product(p.Y, p.Z), 1)
      /\ Upto(Product(p.Z, p.T), 1) /\ Upto(Product(p.X, p.Y), 1)
  BY Multiplying DEF Ext, Proj
<1> QED BY <1>1, Coordinates DEF P1p1ToP2, P1p1ToP3, Ext, Proj

LEMMA Doubling ==
  ASSUME NEW p, Proj(p, 1)
  PROVE  Ext(P2Dbl(p), 3)
<1> DEFINE xx == SquareOf(p.X)
           yy == SquareOf(p.Y)
           s == Plus(yy, xx)
           m == Minus(yy, xx)
           w == Plus(p.X, p.Y)
           x == Minus(SquareOf(w), s)
           t == Minus(TwiceSquare(p.Z), m)
<1>1. Upto(p.X, 1) /\ Upto(p.Y, 1) /\ Upto(p.Z, 1) /\ Upto(p.X, 3) /\ Upto(p.Y, 3) /\ Upto(p.Z, 3)
  BY DEF Proj, Upto
<1>2. Upto(xx, 1) /\ Upto(yy, 1) /\ Upto(TwiceSquare(p.Z), 1)
  BY <1>1, Squaring
<1>3. Upto(w, 2)
  <2>1. Upto(w, 1 + 1)
    BY <1>1, Summing DEF w
  <2> QED BY <2>1
<1>4. Upto(s, 2) /\ Upto(m, 2)
  <2>1. Upto(s, 1 + 1) /\ Upto(m, 1 + 1)
    BY <1>2, Summing DEF s, m
  <2> QED BY <2>1
<1>5. Upto(SquareOf(w), 1)
  <2>1. Upto(w, 3)
    BY <1>3 DEF Upto
  <2> QED BY <2>1, Squaring
<1>6. Upto(x, 3) /\ Upto(t, 3)
  <2>1. Upto(x, 1 + 2) /\ Upto(t, 1 + 2)
    BY <1>2, <1>4, <1>5, Summing DEF x, t
  <2> QED BY <2>1
<1>7. Upto(s, 3) /\ Upto(m, 3)
  BY <1>4 DEF Upto
<1>8. P2Dbl(p) = P4(x, s, m, t)
  BY DEF P2Dbl
<1> HIDE DEF x, s, m, t
<1> QED BY <1>6, <1>7, <1>8, Coordinates DEF Ext, Proj

LEMMA PointsMeeting ==
  ASSUME NEW p, NEW plus, NEW minus, NEW t2d, NEW t0, Ext(p, 1),
         Upto(plus, 2), Upto(minus, 2), Upto(t2d, 1), Upto(t0, 2)
  PROVE  Ext(Meet(p, plus, minus, t2d, t0), 3) /\ Ext(Part(p, plus, minus, t2d, t0), 3)
<1>1. ASSUME NEW u, NEW v, Upto(u, 2), Upto(v, 2)
      PROVE  Ext(Meet(p, u, v, t2d, t0), 3)
  <2> DEFINE a == Product(Plus(p.Y, p.X), u)
             b == Product(Minus(p.Y, p.X), v)
             c == Product(t2d, p.T)
             x == Minus(a, b)
             y == Plus(a, b)
             z == Plus(t0, c)
             t == Minus(t0, c)
  <2>1. Upto(Plus(p.Y, p.X), 3) /\ Upto(Minus(p.Y, p.X), 3)
    <3>1. Upto(Plus(p.Y, p.X), 1 + 1) /\ Upto(Minus(p.Y, p.X), 1 + 1)
      BY Summing DEF Ext, Proj
    <3> QED BY <3>1 DEF Upto
  <2>2. Upto(u, 3) /\ Upto(v, 3) /\ Upto(t2d, 3) /\ Upto(p.T, 3)
    BY <1>1 DEF Upto, Ext
  <2>3. Upto(a, 1) /\ Upto(b, 1) /\ Upto(c, 1)
    BY <2>1, <2>2, Multiplying
  <2> HIDE DEF a, b, c
  <2>4. Upto(x, 3) /\ Upto(y, 3)
    <3>1. Upto(x, 1 + 1) /\ Upto(y, 1 + 1)
      BY <2>3, Summing DEF x, y
    <3> QED BY <3>1 DEF Upto
  <2>5. Upto(z, 3) /\ Upto(t, 3)
    <3>1. Upto(z, 2 + 1) /\ Upto(t, 2 + 1)
      BY <2>3, Summing DEF z, t
    <3> QED BY <3>1
  <2>6. Meet(p, u, v, t2d, t0) = P4(x, y, z, t)
    BY DEF Meet, a, b, c
  <2> HIDE DEF x, y, z, t
  <2> QED BY <2>4, <2>5, <2>6, Coordinates DEF Ext, Proj
<1>2. Ext(Meet(p, plus, minus, t2d, t0), 3) /\ Ext(Meet(p, minus, plus, t2d, t0), 3)
  BY <1>1
<1> DEFINE r == Meet(p, minus, plus, t2d, t0)
<1>3. Part(p, plus, minus, t2d, t0) = P4(r.X, r.Y, r.T, r.Z)
  BY DEF Part
<1> HIDE DEF r
<1>4. Ext(r, 3)
  BY <1>2 DEF r
<1>5. Ext(P4(r.X, r.Y, r.T, r.Z), 3)
  BY <1>4, Coordinates DEF Ext, Proj
<1> QED BY <1>2, <1>3, <1>5

LEMMA Adding ==
  ASSUME NEW p, Ext(p, 1)
  PROVE  /\ \A q : CachedFit(q) => Ext(GeAdd(p, q), 3) /\ Ext(GeSub(p, q), 3)
         /\ \A q : TableFit(q) => Ext(GeMadd(p, q), 3) /\ Ext(GeMsub(p, q), 3)
<1>1. ASSUME NEW q, CachedFit(q)
      PROVE  Ext(GeAdd(p, q), 3) /\ Ext(GeSub(p, q), 3)
  <2> DEFINE zz == Product(p.Z, q.Z)
  <2>1. Upto(zz, 1)
    <3>1. Upto(p.Z, 3) /\ Upto(q.Z, 3)
      BY <1>1 DEF Ext, Proj, CachedFit, Upto
    <3> QED BY <3>1, Multiplying
  <2>2. Upto(TwiceZZ(p, q), 2)
    <3> HIDE DEF zz
    <3>1. Upto(Plus(zz, zz), 1 + 1)
      BY <2>1, Summing
    <3> QED BY <3>1 DEF TwiceZZ, zz
  <2> QED BY <1>1, <2>2, PointsMeeting DEF GeAdd, GeSub, CachedFit
<1>2. ASSUME NEW q, TableFit(q)
      PROVE  Ext(GeMadd(p, q), 3) /\ Ext(GeMsub(p, q), 3)
  <2>1. Upto(TwiceZ(p), 2)
    <3>1. Upto(Plus(p.Z, p.Z), 1 + 1)
      BY Summing DEF Ext, Proj
    <3> QED BY <3>1 DEF TwiceZ
  <2>2. Upto(q.yplusx, 2) /\ Upto(q.yminusx, 2) /\ Upto(q.xy2d, 1)
    BY <1>2 DEF TableFit, Upto
  <2> QED BY <2>1, <2>2, PointsMeeting DEF GeMadd, GeMsub
<1> QED BY <1>1, <1>2

LEMMA Caching ==
  ASSUME NEW p, Ext(p, 1)
  PROVE  /\ CachedFit(P3ToCached(p))
         /\ DOMAIN P3ToCached(p) = {"YplusX", "YminusX", "Z", "T2d"}
<1> DEFINE a == Plus(p.Y, p.X)
           b == Minus(p.Y, p.X)
           c == Product(p.T, Reduced(2 * CurveD))
<1>1. Upto(a, 2) /\ Upto(b, 2)
  <2>1. Upto(a, 1 + 1) /\ Upto(b, 1 + 1)
    BY Summing DEF Ext, Proj
  <2> QED BY <2>1
<1>2. Upto(c, 1)
  <2>1. Upto(p.T, 3) /\ Upto(Reduced(2 * CurveD), 3)
    <3>1. Upto(Reduced(2 * CurveD), 1) /\ Upto(p.T, 1)
      BY Elementary DEF Ext
    <3> QED BY <3>1 DEF Upto
  <2> QED BY <2>1, Multiplying
<1>3. P3ToCached(p) = [YplusX |-> a, YminusX |-> b, Z |-> p.Z, T2d |-> c]
  BY DEF P3ToCached
<1>4. Upto(p.Z, 1)
  BY DEF Ext, Proj
<1> HIDE DEF a, b, c
<1> QED BY <1>1, <1>2, <1>3, <1>4 DEF CachedFit

LEMMA Tabling ==
  ASSUME NEW a
  PROVE  TableFit(Precomputed(a)) /\ Ext(Extended(a), 1)
<1> DEFINE u == a[2] + a[1]
           v == a[2] - a[1]
           w == 2 * CurveD * Residue(a[1] * a[2])
           x == a[1]
           y == a[2]
           z == a[1] * a[2]
<1>1. Precomputed(a) = [yplusx |-> Reduced(u), yminusx |-> Reduced(v), xy2d |-> Reduced(w)]
  BY DEF Precomputed
<1>2. Extended(a) = P4(Reduced(x), Reduced(y), One, Reduced(z))
  BY DEF Extended
<1> HIDE DEF u, v, w, x, y, z
<1> QED BY <1>1, <1>2, Elementary, Coordinates DEF TableFit, Ext, Proj

\* One coordinate or the other: what OperandsFit says of a point.
PointFits(p) == \A c \in DOMAIN p : p[c].n <= 1

LEMMA FittingPoint ==
  ASSUME NEW x, NEW y, NEW z, NEW t, Upto(x, 1), Upto(y, 1), Upto(z, 1)
  PROVE  PointFits(P2(x, y, z)) /\ (Upto(t, 1) => PointFits(P4(x, y, z, t)))
BY DEF P2, P4, PointFits, Upto

LEMMA Unpacking ==
  ASSUME NEW bytes
  PROVE  GeFromBytesNegate(bytes) # NotAPoint => PointFits(GeFromBytesNegate(bytes))
<1> DEFINE y == Reduced(bytes % Power(2, YBits))
           sy == SquareOf(y)
           u == Minus(sy, One)
           d == Reduced(CurveD)
           sd == Product(sy, d)
           v == Plus(sd, One)
           sv == SquareOf(v)
           v3 == Product(sv, v)
           sv3 == SquareOf(v3)
           w == Product(Product(sv3, v), u)
           power == Pow22523(w)
           x == Product(Product(power, v3), u)
           sx == SquareOf(x)
           root == Root(x, Product(sx, v), u)
           signed == Sign(root, bytes \div Power(2, YBits))
           last == Product(signed, y)
<1>1. Upto(y, 1) /\ Upto(One, 0) /\ Upto(One, 1) /\ Upto(d, 1)
  BY Elementary
<1>2. \A f : Upto(f, 1) => Upto(f, 3)
  BY DEF Upto
<1>3. \A f, g : Upto(f, 1) /\ Upto(g, 1) => Upto(Product(f, g), 1)
  BY <1>2, Multiplying
<1>4. \A f : Upto(f, 1) => Upto(SquareOf(f), 1)
  BY <1>2, Squaring
<1>5. \A f : Upto(f, 1) => Upto(Plus(f, One), 1) /\ Upto(Minus(f, One), 1)
  <2> TAKE f
  <2> HAVE Upto(f, 1)
  <2>1. Upto(Plus(f, One), 1 + 0) /\ Upto(Minus(f, One), 1 + 0)
    BY <1>1, Summing
  <2> QED BY <2>1
<1>6. GeFromBytesNegate(bytes) =
        IF root = NotAPoint THEN NotAPoint ELSE P4(signed, y, One, last)
  BY DEF GeFromBytesNegate
<1>7. \A f : Upto(f, 1) => Upto(Pow22523(f), 1)
  <2> TAKE f
  <2> HAVE Upto(f, 1)
  <2>1. Pow22523(f).n = 1
    BY DEF Pow22523, PowerOf, E, Upto, MulLimit
  <2> QED BY <2>1 DEF Upto
<1> HIDE DEF y
<1>8. Upto(sy, 1) /\ Upto(u, 1)
  BY <1>1, <1>4, <1>5
<1> HIDE DEF sy, u, d
<1>9. Upto(v, 1)
  BY <1>1, <1>3, <1>5, <1>8
<1> HIDE DEF v
<1>10. Upto(v3, 1)
  BY <1>3, <1>4, <1>9
<1> HIDE DEF v3
<1>11. Upto(sv3, 1)
  BY <1>4, <1>10
<1> HIDE DEF sv3
<1>12. Upto(w, 1)
  BY <1>3, <1>8, <1>9, <1>11
<1> HIDE DEF w
<1>13. Upto(power, 1)
  BY <1>7, <1>12
<1> HIDE DEF power
<1>14. Upto(x, 1)
  BY <1>3, <1>8, <1>10, <1>13
<1> HIDE DEF x
<1>15. root # NotAPoint => Upto(root, 1)
  <2>1. Upto(Product(x, Reduced(SqrtMinusOne)), 1)
    BY <1>3, <1>14, Elementary
  <2>2. root \in {x, Product(x, Reduced(SqrtMinusOne)), NotAPoint}
    BY DEF Root
  <2> HIDE DEF root
  <2> QED BY <1>14, <2>1, <2>2
<1> HIDE DEF root
<1>16. root # NotAPoint => Upto(signed, 1)
  <2>1. signed \in {root, Opposite(root)}
    BY DEF Sign
  <2>2. Upto(root, 1) => Upto(Opposite(root), 1)
    BY Elementary
  <2> HIDE DEF signed
  <2> QED BY <1>15, <2>1, <2>2
<1> HIDE DEF signed
<1>17. root # NotAPoint => Upto(last, 1)
  BY <1>1, <1>3, <1>16
<1> HIDE DEF last
<1>18. root # NotAPoint => PointFits(P4(signed, y, One, last))
  BY <1>1, <1>16, <1>17, FittingPoint
<1> QED BY <1>6, <1>18

\* The table lookup returns an entry, turned over or not, or the neutral one.
LEMMA Selecting ==
  ASSUME NEW pos \in 0 .. Nibbles \div 2 - 1, NEW b
  PROVE  TableFit(Select(pos, b))
<1> DEFINE n == TableSize
           base == [yplusx |-> One, yminusx |-> One, xy2d |-> Zero]
           Entry(j, w) == IF Absolute(b) = j THEN BaseTable[pos][j] ELSE w
           Table(V, k) == V = [j \in 0 .. k |-> IF j = 0 THEN base ELSE Entry(j, V[j - 1])]
           T == CHOOSE V : Table(V, n)
           t == T[n]
<1>1. n \in Nat
  BY NibbleSizes
<1>2. TableFit(base)
  BY Elementary DEF TableFit
<1>3. \A w : \A j \in 1 .. n : TableFit(w) => TableFit(Entry(j, w))
  <2>1. \A j \in 1 .. n : TableFit(BaseTable[pos][j])
    <3> TAKE j \in 1 .. n
    <3> DEFINE q == TimesPoint((j * Power(2, ByteBits * pos)) % BaseOrder, BasePoint)
    <3>1. BaseTable[pos][j] = Precomputed(q)
      BY DEF BaseTable
    <3> HIDE DEF q
    <3> QED BY <3>1, Tabling
  <2> QED BY <2>1
<1>4. Select(pos, b) =
        IF b < 0 THEN [yplusx |-> t.yminusx, yminusx |-> t.yplusx, xy2d |-> Opposite(t.xy2d)]
        ELSE t
  BY DEF Select
<1> HIDE DEF n, base, Entry
<1>5. \E V : Table(V, n)
  <2> DEFINE S == {k \in Nat : \E V : Table(V, k)}
  <2>1. 0 \in S
    <3>1. Table([j \in 0 .. 0 |-> base], 0)
      OBVIOUS
    <3> HIDE DEF Table
    <3> QED BY <3>1
  <2>2. ASSUME NEW k \in Nat, k \in S
        PROVE  k + 1 \in S
    <3>1. PICK V : Table(V, k)
      BY <2>2
    <3> DEFINE W == [j \in 0 .. k + 1 |-> IF j = k + 1 THEN Entry(k + 1, V[k]) ELSE V[j]]
    <3>2. \A j \in 0 .. k + 1 : W[j] = IF j = 0 THEN base ELSE Entry(j, W[j - 1])
      <4> TAKE j \in 0 .. k + 1
      <4>1. CASE j = k + 1
        <5>1. k \in 0 .. k + 1 /\ k # k + 1 /\ j - 1 = k /\ j # 0
          BY <4>1
        <5> QED BY <4>1, <5>1
      <4>2. CASE j # k + 1
        <5>1. j \in 0 .. k
          BY <4>2
        <5>2. W[j] = V[j] /\ V[j] = IF j = 0 THEN base ELSE Entry(j, V[j - 1])
          BY <3>1, <4>2, <5>1
        <5>3. j # 0 => j - 1 \in 0 .. k + 1 /\ j - 1 # k + 1
          BY <5>1
        <5> QED BY <5>2, <5>3
      <4> QED BY <4>1, <4>2
    <3>3. W = [j \in 0 .. k + 1 |-> W[j]]
      OBVIOUS
    <3> HIDE DEF W
    <3>4. Table(W, k + 1)
      BY <3>2, <3>3
    <3> HIDE DEF Table
    <3> QED BY <3>4
  <2> HIDE DEF S
  <2>3. \A k \in Nat : k \in S
    BY <2>1, <2>2, FromZero
  <2> QED BY <1>1, <2>3 DEF S
<1>6. Table(T, n)
  <2> HIDE DEF Table
  <2> QED BY <1>5
<1> HIDE DEF T
<1>7. T[0] = base /\ \A j \in 1 .. n : T[j] = Entry(j, T[j - 1])
  BY <1>1, <1>6
<1> HIDE DEF Table
<1> DEFINE S == {k \in Nat : k <= n => TableFit(T[k])}
<1>8. 0 \in S
  BY <1>2, <1>7
<1>9. ASSUME NEW k \in Nat, k \in S
      PROVE  k + 1 \in S
  <2> SUFFICES ASSUME k + 1 <= n PROVE TableFit(T[k + 1])
    OBVIOUS
  <2>1. k + 1 \in 1 .. n /\ (k + 1) - 1 = k /\ TableFit(T[k])
    BY <1>1, <1>9
  <2>2. T[k + 1] = Entry(k + 1, T[k])
    BY <1>7, <2>1
  <2> QED BY <1>3, <2>1, <2>2
<1> HIDE DEF S
<1>10. \A k \in Nat : k \in S
  BY <1>8, <1>9, FromZero
<1>11. TableFit(t)
  BY <1>1, <1>10 DEF S
<1> HIDE DEF t
<1> DEFINE u == [yplusx |-> t.yminusx, yminusx |-> t.yplusx, xy2d |-> Opposite(t.xy2d)]
<1>12. TableFit(u)
  <2>1. Upto(Opposite(t.xy2d), 1)
    BY <1>11, Elementary DEF TableFit
  <2> QED BY <1>11, <2>1 DEF TableFit
<1> HIDE DEF u
<1>13. Select(pos, b) = u \/ Select(pos, b) = t
  BY <1>4 DEF u
<1> QED BY <1>11, <1>12, <1>13

\* The doublings between the two loops, as many as a window has bits.
LEMMA DoublingAll ==
  ASSUME NEW p, Ext(p, 1)
  PROVE  LET s[n \in 0 .. Doublings - 1] ==
               IF n = 0 THEN P3ToP2(p) ELSE P1p1ToP2(P2Dbl(s[n - 1]))
         IN  Ext(P1p1ToP3(P2Dbl(s[Doublings - 1])), 1)
<1> DEFINE n == Doublings - 1
           base == P3ToP2(p)
           Next2(w) == P1p1ToP2(P2Dbl(w))
           Table(V, k) == V = [j \in 0 .. k |-> IF j = 0 THEN base ELSE Next2(V[j - 1])]
           T == CHOOSE V : Table(V, n)
<1>1. n \in Nat
  BY NibbleSizes DEF Doublings
<1>2. Proj(base, 1)
  BY Coordinates DEF Ext, Proj, P3ToP2
<1>3. \A w : Proj(w, 1) => Proj(Next2(w), 1) /\ Ext(P1p1ToP3(P2Dbl(w)), 1)
  BY Doubling, Completing
<1>4. SUFFICES Ext(P1p1ToP3(P2Dbl(T[n])), 1)
  OBVIOUS
<1> HIDE DEF n, base, Next2
<1>5. \E V : Table(V, n)
  <2> DEFINE S == {k \in Nat : \E V : Table(V, k)}
  <2>1. 0 \in S
    <3>1. Table([j \in 0 .. 0 |-> base], 0)
      OBVIOUS
    <3> HIDE DEF Table
    <3> QED BY <3>1
  <2>2. ASSUME NEW k \in Nat, k \in S
        PROVE  k + 1 \in S
    <3>1. PICK V : Table(V, k)
      BY <2>2
    <3> DEFINE W == [j \in 0 .. k + 1 |-> IF j = k + 1 THEN Next2(V[k]) ELSE V[j]]
    <3>2. \A j \in 0 .. k + 1 : W[j] = IF j = 0 THEN base ELSE Next2(W[j - 1])
      <4> TAKE j \in 0 .. k + 1
      <4>1. CASE j = k + 1
        <5>1. k \in 0 .. k + 1 /\ k # k + 1 /\ j - 1 = k /\ j # 0
          BY <4>1
        <5> QED BY <4>1, <5>1
      <4>2. CASE j # k + 1
        <5>1. j \in 0 .. k
          BY <4>2
        <5>2. W[j] = V[j] /\ V[j] = IF j = 0 THEN base ELSE Next2(V[j - 1])
          BY <3>1, <4>2, <5>1
        <5>3. j # 0 => j - 1 \in 0 .. k + 1 /\ j - 1 # k + 1
          BY <5>1
        <5> QED BY <5>2, <5>3
      <4> QED BY <4>1, <4>2
    <3>3. W = [j \in 0 .. k + 1 |-> W[j]]
      OBVIOUS
    <3> HIDE DEF W
    <3>4. Table(W, k + 1)
      BY <3>2, <3>3
    <3> HIDE DEF Table
    <3> QED BY <3>4
  <2> HIDE DEF S
  <2>3. \A k \in Nat : k \in S
    BY <2>1, <2>2, FromZero
  <2> QED BY <1>1, <2>3 DEF S
<1>6. Table(T, n)
  <2> HIDE DEF Table
  <2> QED BY <1>5
<1> HIDE DEF T
<1>7. T[0] = base /\ \A j \in 1 .. n : T[j] = Next2(T[j - 1])
  BY <1>1, <1>6
<1> HIDE DEF Table
<1> DEFINE S == {k \in Nat : k <= n => Proj(T[k], 1)}
<1>8. 0 \in S
  BY <1>2, <1>7
<1>9. ASSUME NEW k \in Nat, k \in S
      PROVE  k + 1 \in S
  <2> SUFFICES ASSUME k + 1 <= n PROVE Proj(T[k + 1], 1)
    OBVIOUS
  <2>1. k + 1 \in 1 .. n /\ (k + 1) - 1 = k /\ Proj(T[k], 1)
    BY <1>1, <1>9
  <2>2. T[k + 1] = Next2(T[k])
    BY <1>7, <2>1
  <2> QED BY <1>3, <2>1, <2>2
<1> HIDE DEF S
<1>10. \A k \in Nat : k \in S
  BY <1>8, <1>9, FromZero
<1>11. Proj(T[n], 1)
  BY <1>1, <1>10 DEF S
<1> QED BY <1>3, <1>11

\* The table of odd multiples, and what is added to make it.
CachedPoint(q) == CachedFit(q) /\ DOMAIN q = {"YplusX", "YminusX", "Z", "T2d"}

LEMMA OddTable ==
  ASSUME NEW A, Ext(A, 1)
  PROVE  /\ DOMAIN OddMultiples(A) = 0 .. SlideMax \div 2
         /\ \A k \in 0 .. SlideMax \div 2 : CachedPoint(OddMultiples(A)[k])
<1> DEFINE n == SlideMax \div 2
           twice == P1p1ToP3(P3Dbl(A))
           base == P3ToCached(A)
           Next2(w) == P3ToCached(P1p1ToP3(GeAdd(twice, w)))
           Table(V, k) == V = [j \in 0 .. k |-> IF j = 0 THEN base ELSE Next2(V[j - 1])]
           T == CHOOSE V : Table(V, n)
<1>1. n \in Nat
  BY SlideSizes
<1>2. CachedPoint(base)
  BY Caching DEF CachedPoint
<1>3. Ext(twice, 1)
  <2>1. Proj(P3ToP2(A), 1)
    BY Coordinates DEF Ext, Proj, P3ToP2
  <2> QED BY <2>1, Doubling, Completing DEF P3Dbl
<1>4. \A w : CachedPoint(w) => CachedPoint(Next2(w))
  <2> HIDE DEF twice
  <2> QED BY <1>3, Adding, Completing, Caching DEF CachedPoint
<1>5. OddMultiples(A) = [j \in 0 .. n |-> T[j]]
  BY DEF OddMultiples
<1> HIDE DEF n, base, Next2
<1>6. \E V : Table(V, n)
  <2> DEFINE S == {k \in Nat : \E V : Table(V, k)}
  <2>1. 0 \in S
    <3>1. Table([j \in 0 .. 0 |-> base], 0)
      OBVIOUS
    <3> HIDE DEF Table
    <3> QED BY <3>1
  <2>2. ASSUME NEW k \in Nat, k \in S
        PROVE  k + 1 \in S
    <3>1. PICK V : Table(V, k)
      BY <2>2
    <3> DEFINE W == [j \in 0 .. k + 1 |-> IF j = k + 1 THEN Next2(V[k]) ELSE V[j]]
    <3>2. \A j \in 0 .. k + 1 : W[j] = IF j = 0 THEN base ELSE Next2(W[j - 1])
      <4> TAKE j \in 0 .. k + 1
      <4>1. CASE j = k + 1
        <5>1. k \in 0 .. k + 1 /\ k # k + 1 /\ j - 1 = k /\ j # 0
          BY <4>1
        <5> QED BY <4>1, <5>1
      <4>2. CASE j # k + 1
        <5>1. j \in 0 .. k
          BY <4>2
        <5>2. W[j] = V[j] /\ V[j] = IF j = 0 THEN base ELSE Next2(V[j - 1])
          BY <3>1, <4>2, <5>1
        <5>3. j # 0 => j - 1 \in 0 .. k + 1 /\ j - 1 # k + 1
          BY <5>1
        <5> QED BY <5>2, <5>3
      <4> QED BY <4>1, <4>2
    <3>3. W = [j \in 0 .. k + 1 |-> W[j]]
      OBVIOUS
    <3> HIDE DEF W
    <3>4. Table(W, k + 1)
      BY <3>2, <3>3
    <3> HIDE DEF Table
    <3> QED BY <3>4
  <2> HIDE DEF S
  <2>3. \A k \in Nat : k \in S
    BY <2>1, <2>2, FromZero
  <2> QED BY <1>1, <2>3 DEF S
<1>7. Table(T, n)
  <2> HIDE DEF Table
  <2> QED BY <1>6
<1> HIDE DEF T
<1>8. T[0] = base /\ \A j \in 1 .. n : T[j] = Next2(T[j - 1])
  BY <1>1, <1>7
<1> HIDE DEF Table
<1> DEFINE S == {k \in Nat : k <= n => CachedPoint(T[k])}
<1>9. 0 \in S
  BY <1>2, <1>8
<1>10. ASSUME NEW k \in Nat, k \in S
      PROVE  k + 1 \in S
  <2> SUFFICES ASSUME k + 1 <= n PROVE CachedPoint(T[k + 1])
    OBVIOUS
  <2>1. k + 1 \in 1 .. n /\ (k + 1) - 1 = k /\ CachedPoint(T[k])
    BY <1>1, <1>10
  <2>2. T[k + 1] = Next2(T[k])
    BY <1>8, <2>1
  <2> QED BY <1>4, <2>1, <2>2
<1> HIDE DEF S
<1>11. \A k \in Nat : k \in S
  BY <1>9, <1>10, FromZero
<1>12. \A k \in 0 .. n : CachedPoint(T[k])
  BY <1>1, <1>11 DEF S
<1> QED BY <1>5, <1>12 DEF n

-----------------------------------------------------------------------------
(* The points of a multiplication under way.                                 *)

PointInv ==
  /\ geStage \in {"odd", "even"} =>
       geI \in Nat /\ Ext(gePoint, 1) /\ DOMAIN gePoint = {"X", "Y", "Z", "T"}
  /\ geStage = "bits" =>
       /\ geCall = "ge_double_scalarmult_vartime" /\ geI \in -1 .. SlideBits - 1
       /\ Proj(gePoint, 1) /\ DOMAIN gePoint = {"X", "Y", "Z"}
       /\ DOMAIN geDigits.Ai = 0 .. SlideMax \div 2
       /\ \A n \in 0 .. SlideMax \div 2 : CachedPoint(geDigits.Ai[n])
  /\ geStage \notin {"odd", "even", "bits"} /\ gePoint # NotAPoint => PointFits(gePoint)

LEMMA PointsFit == PointInv => OperandsFit
<1> SUFFICES ASSUME PointInv PROVE OperandsFit
  OBVIOUS
<1>1. gePoint # NotAPoint => PointFits(gePoint)
  <2>1. CASE geStage \in {"odd", "even"}
    BY <2>1 DEF PointInv, PointFits, Ext, Proj, Upto
  <2>2. CASE geStage = "bits"
    BY <2>2 DEF PointInv, PointFits, Proj, Upto
  <2>3. CASE geStage \notin {"odd", "even", "bits"}
    BY <2>3 DEF PointInv
  <2> QED BY <2>1, <2>2, <2>3
<1>2. ASSUME geStage = "bits", NEW n \in DOMAIN geDigits.Ai, NEW c \in DOMAIN geDigits.Ai[n]
      PROVE  geDigits.Ai[n][c].n <= 2
  <2>1. CachedPoint(geDigits.Ai[n])
    BY <1>2 DEF PointInv
  <2> DEFINE q == geDigits.Ai[n]
  <2>2. CachedFit(q) /\ c \in {"YplusX", "YminusX", "Z", "T2d"}
    BY <1>2, <2>1 DEF CachedPoint
  <2> HIDE DEF q
  <2>3. q[c].n <= 2
    BY <2>2 DEF CachedFit, Upto
  <2> QED BY <2>3 DEF q
<1> QED BY <1>1, <1>2 DEF OperandsFit, PointFits

\* The highest digit that is not zero.
LEMMA Highest ==
  ASSUME NEW n \in Nat, NEW T \in SUBSET (0 .. n - 1), T # {}
  PROVE  Max(T) \in T
<1> DEFINE U == {n - x : x \in T}
<1>1. U \in SUBSET Nat /\ U # {}
  OBVIOUS
<1>2. PICK u \in U : \A y \in U : u <= y
  <2> HIDE DEF U
  <2> QED BY <1>1, LeastElement
<1>3. PICK t \in T : u = n - t
  BY <1>2
<1>4. \A x \in T : t >= x
  <2> TAKE x \in T
  <2>1. n - x \in U
    OBVIOUS
  <2> QED BY <1>2, <1>3, <2>1
<1> QED BY <1>4 DEF Max

LEMMA PointStart == EdwardsInit => PointInv
<1> SUFFICES ASSUME EdwardsInit PROVE PointInv
  OBVIOUS
<1>1. Ext(P3Zero, 1) /\ DOMAIN P3Zero = {"X", "Y", "Z", "T"} /\ PointFits(P3Zero)
  BY Elementary, Coordinates, FittingPoint DEF P3Zero, Ext, Proj
<1>2. Proj(P2Zero, 1) /\ DOMAIN P2Zero = {"X", "Y", "Z"}
  BY Elementary, Coordinates DEF P2Zero, Proj
<1>3. CASE BaseStart
  BY <1>1, <1>3 DEF BaseStart, PointInv
<1>4. CASE DoubleStart
  <2>1. PICK a \in 0 .. BaseOrder - 1, b \in 0 .. Power(2, SlideBits - 3) - 1, k \in KeyMultiples :
          LET A == Extended(TimesPoint(k, BasePoint))
              top == {i \in 0 .. SlideBits - 1 : Slide(a)[i] # 0 \/ Slide(b)[i] # 0}
          IN  /\ geDigits = [aslide |-> Slide(a), bslide |-> Slide(b), Ai |-> OddMultiples(A)]
              /\ geI = IF top = {} THEN -1 ELSE Max(top)
    BY <1>4 DEF DoubleStart
  <2> DEFINE A == Extended(TimesPoint(k, BasePoint))
             top == {i \in 0 .. SlideBits - 1 : Slide(a)[i] # 0 \/ Slide(b)[i] # 0}
  <2>2. geDigits.Ai = OddMultiples(A) /\ geI = IF top = {} THEN -1 ELSE Max(top)
    BY <2>1
  <2>3. Ext(A, 1)
    BY Tabling
  <2> HIDE DEF A
  <2>4. geI \in -1 .. SlideBits - 1
    <3>1. SlideBits \in Nat /\ top \in SUBSET (0 .. SlideBits - 1)
      BY SlideSizes
    <3> HIDE DEF top
    <3>2. top # {} => Max(top) \in 0 .. SlideBits - 1
      BY <3>1, Highest
    <3> QED BY <2>2, <3>1, <3>2
  <2>5. /\ DOMAIN geDigits.Ai = 0 .. SlideMax \div 2
        /\ \A n \in 0 .. SlideMax \div 2 : CachedPoint(geDigits.Ai[n])
    BY <2>2, <2>3, OddTable
  <2> QED BY <1>2, <1>4, <2>4, <2>5 DEF DoubleStart, PointInv
<1>5. CASE UnpackStart
  BY <1>1, <1>5 DEF UnpackStart, PointInv
<1> QED BY <1>3, <1>4, <1>5 DEF EdwardsInit

LEMMA CompletedDomains ==
  ASSUME NEW p
  PROVE  /\ DOMAIN P1p1ToP3(p) = {"X", "Y", "Z", "T"}
         /\ DOMAIN P1p1ToP2(p) = {"X", "Y", "Z"}
BY Coordinates DEF P1p1ToP3, P1p1ToP2

LEMMA PointStays ==
  RecodingExact /\ PointInv /\ [EdwardsNext]_edwardsVars => PointInv'
<1> SUFFICES ASSUME RecodingExact, PointInv, [EdwardsNext]_edwardsVars PROVE PointInv'
  OBVIOUS
<1>1. CASE Window
  <2> DEFINE e == geDigits.e[geI]
             q == Select(geI \div 2, e)
             p == P1p1ToP3(GeMadd(gePoint, q))
  <2>1. geI \in Nat /\ Ext(gePoint, 1) /\ geI < Nibbles
    BY <1>1 DEF PointInv, Window
  <2>2. TableFit(q)
    <3>1. Nibbles \in Nat /\ Nibbles % 2 = 0
      BY CurveAssumption
    <3>2. geI \div 2 \in 0 .. Nibbles \div 2 - 1
      BY <2>1, <3>1
    <3> QED BY <3>2, Selecting
  <2> HIDE DEF q
  <2>3. Ext(p, 1) /\ DOMAIN p = {"X", "Y", "Z", "T"}
    BY <2>1, <2>2, Adding, Completing, CompletedDomains
  <2>4. gePoint' = p /\ geI' = geI + 2 /\ geStage' = geStage /\ geStage \in {"odd", "even"}
    BY <1>1 DEF Window, q
  <2> HIDE DEF p
  <2> QED BY <2>1, <2>3, <2>4 DEF PointInv
<1>2. CASE Double
  <2>1. Ext(gePoint, 1)
    BY <1>2 DEF PointInv, Double
  <2>2. Ext(gePoint', 1) /\ DOMAIN gePoint' = {"X", "Y", "Z", "T"}
    BY <1>2, <2>1, DoublingAll, CompletedDomains DEF Double
  <2>3. geStage' = "even" /\ geI' = 0
    BY <1>2 DEF Double
  <2> QED BY <2>2, <2>3 DEF PointInv
<1>3. CASE Bit
  <2> DEFINE da == geDigits.aslide[geI]
             db == geDigits.bslide[geI]
             t == P2Dbl(gePoint)
             withA == IF da > 0 THEN GeAdd(P1p1ToP3(t), geDigits.Ai[da \div 2])
                      ELSE IF da < 0 THEN GeSub(P1p1ToP3(t), geDigits.Ai[(-da) \div 2])
                      ELSE t
             withB == IF db > 0 THEN GeMadd(P1p1ToP3(withA), BaseOdd[db \div 2])
                      ELSE IF db < 0 THEN GeMsub(P1p1ToP3(withA), BaseOdd[(-db) \div 2])
                      ELSE withA
             n == SlideMax \div 2
  <2>1. /\ geCall = "ge_double_scalarmult_vartime" /\ geI \in 0 .. SlideBits - 1
        /\ Proj(gePoint, 1) /\ \A k \in 0 .. n : CachedFit(geDigits.Ai[k])
    <3>1. geStage = "bits" /\ geI >= 0
      BY <1>3 DEF Bit
    <3>2. geI \in -1 .. SlideBits - 1
      BY <3>1 DEF PointInv
    <3>3. geI \in 0 .. SlideBits - 1
      BY <3>1, <3>2, SlideSizes
    <3> QED BY <3>1, <3>3 DEF PointInv, CachedPoint
  <2>2. SlideDigit(da) /\ SlideDigit(db)
    BY <2>1 DEF RecodingExact, Slid
  <2>3. \A d : SlideDigit(d) => /\ d > 0 => d \div 2 \in 0 .. n
                                /\ d < 0 => (-d) \div 2 \in 0 .. n
    <3> TAKE d
    <3> HAVE SlideDigit(d)
    <3>1. SlideMax \in Nat
      BY SlideSizes
    <3>2. d = 0 \/ d \in -SlideMax .. SlideMax
      BY DEF SlideDigit
    <3> QED BY <3>1, <3>2
  <2>4. \A k \in 0 .. n : TableFit(BaseOdd[k])
    <3> TAKE k \in 0 .. n
    <3> DEFINE q == TimesPoint((2 * k + 1) % BaseOrder, BasePoint)
    <3>1. BaseOdd[k] = Precomputed(q)
      BY DEF BaseOdd
    <3> HIDE DEF q
    <3> QED BY <3>1, Tabling
  <2>5. gePoint' = P1p1ToP2(withB) /\ geI' = geI - 1
        /\ UNCHANGED <<geCall, geArg, geStage, geDigits>> /\ geStage = "bits"
    BY <1>3 DEF Bit
  <2>6. Ext(t, 3)
    BY <2>1, Doubling
  <2> HIDE DEF t, da, db, n
  <2>7. Ext(withA, 3)
    <3>1. Ext(P1p1ToP3(t), 1)
      BY <2>6, Completing
    <3> QED BY <2>1, <2>2, <2>3, <2>6, <3>1, Adding
  <2> HIDE DEF withA
  <2>8. Ext(withB, 3)
    <3>1. Ext(P1p1ToP3(withA), 1)
      BY <2>7, Completing
    <3> QED BY <2>2, <2>3, <2>4, <2>7, <3>1, Adding
  <2> HIDE DEF withB
  <2>9. Proj(gePoint', 1) /\ DOMAIN gePoint' = {"X", "Y", "Z"}
    BY <2>5, <2>8, Completing, CompletedDomains
  <2>10. geI' \in -1 .. SlideBits - 1
    BY <2>1, <2>5, SlideSizes
  <2> QED BY <2>5, <2>9, <2>10 DEF PointInv
<1>4. CASE Unpack
  <2>1. gePoint' = GeFromBytesNegate(geArg.bytes) /\ geStage' = "unpacked"
    BY <1>4 DEF Unpack
  <2> DEFINE p == GeFromBytesNegate(geArg.bytes)
  <2>2. p # NotAPoint => PointFits(p)
    BY Unpacking
  <2> HIDE DEF p
  <2>3. gePoint' # NotAPoint => PointFits(gePoint')
    BY <2>1, <2>2 DEF p
  <2>4. NotAPoint' = NotAPoint
    BY DEF NotAPoint
  <2> QED BY <2>1, <2>3 DEF PointInv, PointFits
<1>5. CASE UNCHANGED edwardsVars
  BY <1>5 DEF edwardsVars, PointInv
<1> QED BY <1>1, <1>2, <1>3, <1>4, <1>5 DEF EdwardsNext

\* ge.c: no operand of fe_mul or fe_sq sums up more than three reduced elements,
\* whatever the curve, the scalar, the key and the width of the windows.
THEOREM OperandsAlwaysFit == EdwardsSpec => []OperandsFit
<1>1. EdwardsInit => RecodingExact /\ PointInv
  BY RecodedFirst, PointStart
<1>2. RecodingExact /\ PointInv /\ [EdwardsNext]_edwardsVars => (RecodingExact /\ PointInv)'
  BY DigitsStay, RecodedAfter, PointStays
<1> QED BY <1>1, <1>2, PointsFit, PTL DEF EdwardsSpec

\* The same for the library as a whole.
THEOREM LibraryOperandsFit == LibrarySpec => []OperandsFit
<1>1. LibraryInit => RecodingExact /\ PointInv
  <2>1. EdwardsIdle => RecodingExact /\ PointInv
    <3> SUFFICES ASSUME EdwardsIdle PROVE RecodingExact /\ PointInv
      OBVIOUS
    <3>1. PointFits(P3Zero)
      BY Elementary, FittingPoint DEF P3Zero
    <3> QED BY <3>1 DEF EdwardsIdle, RecodingExact, PointInv
  <2> QED BY <2>1, RecodedFirst, PointStart DEF LibraryInit
<1>2. [LibraryNext]_libraryVars => [EdwardsNext]_edwardsVars
  BY DEF LibraryNext, libraryVars
<1>3. RecodingExact /\ PointInv /\ [EdwardsNext]_edwardsVars => (RecodingExact /\ PointInv)'
  BY DigitsStay, RecodedAfter, PointStays
<1> QED BY <1>1, <1>2, <1>3, PointsFit, PTL DEF LibrarySpec

\* Both for the library: what ge.c hands to its tables and to fe.c is what they
\* can take, whatever the layer called.
THEOREM LibraryOperandsSound == LibrarySpec => []OperandsSound
<1>1. LibrarySpec => []RecodingExact
  BY LibraryRecodes
<1>2. LibrarySpec => []OperandsFit
  BY LibraryOperandsFit
<1>3. RecodingExact /\ OperandsFit => OperandsSound
  BY DEF OperandsSound
<1> QED BY <1>1, <1>2, <1>3, PTL
=============================================================================
