------------------------------- MODULE Edwards -------------------------------
(***************************************************************************)
(* lib/ed25519/ge.c: points of the curve -x^2 + y^2 = 1 + d x^2 y^2 over a *)
(* small prime field, in the representations of ge.h, and the two scalar   *)
(* multiplications, one window or one bit at a time.  A field element      *)
(* carries the number of reduced elements summed up in it (see             *)
(* FieldLimbs), so that fe_mul's precondition is checked where ge.c calls. *)
(***************************************************************************)
EXTENDS Numerals, FiniteSetsExt

CONSTANTS
  CurvePrime,     \* the field's prime, 5 modulo 8 (2^255 - 19)
  CurveD,         \* d, not a square
  SqrtMinusOne,   \* sqrtm1
  BaseX, BaseY,   \* the base point
  BaseOrder,      \* its order
  YBits,          \* bits of y in a packed point (255)
  NibbleBits,     \* bits of a window of ge_scalarmult_base (4)
  Nibbles,        \* windows of a scalar (64)
  SlideBits,      \* bits of a scalar of the double multiplication (256)
  SlideReach,     \* bits a sliding window looks ahead (6)
  SlideMax,       \* its largest digit (15)
  KeyMultiples    \* the keys verified with, as multiples of the base point

ASSUME CurveAssumption ==
  /\ CurvePrime \in Nat /\ CurvePrime % 8 = 5 /\ YBits \in Nat /\ CurvePrime < Power(2, YBits)
  /\ CurveD \in 1 .. CurvePrime - 1
  /\ \A x \in 0 .. CurvePrime - 1 : (x * x) % CurvePrime # CurveD
  /\ SqrtMinusOne \in Nat /\ (SqrtMinusOne * SqrtMinusOne) % CurvePrime = CurvePrime - 1
  /\ BaseX \in 0 .. CurvePrime - 1 /\ BaseY \in 0 .. CurvePrime - 1
  /\ BaseOrder \in Nat \ {0} /\ BaseOrder <= Power(2, SlideBits - 3)
  /\ Nibbles \in Nat \ {0} /\ Nibbles % 2 = 0 /\ NibbleBits \in Nat \ {0}
  /\ SlideMax \in Nat /\ SlideMax % 2 = 1 /\ SlideReach \in Nat
  /\ SlideBits \in Nat /\ SlideBits > 3 /\ KeyMultiples \subseteq Nat

VARIABLES
  geCall,   \* the function being executed
  geArg,    \* its arguments
  geStage,  \* the loop it is in
  geI,      \* the loop's index
  geDigits, \* e[], or aslide[] and bslide[]
  gePoint   \* the point computed so far

edwardsVars == <<geCall, geArg, geStage, geI, geDigits, gePoint>>

-----------------------------------------------------------------------------
\* Field elements: a residue and how many reduced ones it sums up.
TooLarge == 9
E(v, n) == [v |-> v % CurvePrime, n |-> n]
Reduced(v) == E(v, 1)
Zero == E(0, 0)
One == E(1, 0)
Grown(n) == IF n <= 3 THEN n ELSE TooLarge
Plus(f, g) == E(f.v + g.v, Grown(f.n + g.n))
Minus(f, g) == E(f.v - g.v, Grown(f.n + g.n))
Opposite(f) == E(-f.v, f.n)
MulLimit == 3
Product(f, g) ==
  E(f.v * g.v, IF f.n <= MulLimit /\ g.n <= MulLimit THEN 1 ELSE TooLarge)
SquareOf(f) == Product(f, f)

TwiceSquare(f) == E(2 * SquareOf(f).v, SquareOf(f).n)
PowerOf(f, k) ==
  LET p[n \in 0 .. k] ==
        IF n = 0 THEN 1
        ELSE LET r == p[n \div 2]
             IN  (((r * r) % CurvePrime) * (IF n % 2 = 1 THEN f.v ELSE 1)) % CurvePrime
  IN  E(p[k], IF f.n <= MulLimit THEN 1 ELSE TooLarge)
InverseOf(f) == PowerOf(f, CurvePrime - 2)
Pow22523(f) == PowerOf(f, (CurvePrime - 5) \div 8)

\* Points, as in ge.h.
P2(x, y, z) == [X |-> x, Y |-> y, Z |-> z]
P4(x, y, z, t) == [X |-> x, Y |-> y, Z |-> z, T |-> t]
P2Zero == P2(Zero, One, One)
P3Zero == P4(Zero, One, One, Zero)
P3ToP2(p) == P2(p.X, p.Y, p.Z)
P3ToCached(p) ==
  [YplusX |-> Plus(p.Y, p.X), YminusX |-> Minus(p.Y, p.X), Z |-> p.Z,
   T2d |-> Product(p.T, Reduced(2 * CurveD))]
P1p1ToP2(p) == P2(Product(p.X, p.T), Product(p.Y, p.Z), Product(p.Z, p.T))
P1p1ToP3(p) ==
  P4(Product(p.X, p.T), Product(p.Y, p.Z), Product(p.Z, p.T), Product(p.X, p.Y))

\* ge_add and ge_madd; ge_sub and ge_msub swap the two factors and the two ends.
Meet(p, plus, minus, t2d, t0) ==
  LET a == Product(Plus(p.Y, p.X), plus)
      b == Product(Minus(p.Y, p.X), minus)
      c == Product(t2d, p.T)
  IN  P4(Minus(a, b), Plus(a, b), Plus(t0, c), Minus(t0, c))
Part(p, plus, minus, t2d, t0) ==
  LET r == Meet(p, minus, plus, t2d, t0) IN P4(r.X, r.Y, r.T, r.Z)

TwiceZ(p) == Plus(p.Z, p.Z)
TwiceZZ(p, q) == LET zz == Product(p.Z, q.Z) IN Plus(zz, zz)
GeAdd(p, q) == Meet(p, q.YplusX, q.YminusX, q.T2d, TwiceZZ(p, q))
GeSub(p, q) == Part(p, q.YplusX, q.YminusX, q.T2d, TwiceZZ(p, q))
GeMadd(p, q) == Meet(p, q.yplusx, q.yminusx, q.xy2d, TwiceZ(p))
GeMsub(p, q) == Part(p, q.yplusx, q.yminusx, q.xy2d, TwiceZ(p))

P2Dbl(p) ==
  LET xx == SquareOf(p.X)
      yy == SquareOf(p.Y)
      s == Plus(yy, xx)
      m == Minus(yy, xx)
  IN  P4(Minus(SquareOf(Plus(p.X, p.Y)), s), s, m, Minus(TwiceSquare(p.Z), m))
P3Dbl(p) == P2Dbl(P3ToP2(p))

-----------------------------------------------------------------------------
\* The group itself, which the code never computes in: pairs of residues.
Residue(n) == n % CurvePrime
Over(n, m) == Residue(Residue(n) * PowerOf(Reduced(m), CurvePrime - 2).v)
OnCurve(x, y) ==
  Residue(y * y - x * x) = Residue(1 + Residue(CurveD * Residue(x * x)) * Residue(y * y))
Sum2Points(a, b) ==
  LET k == Residue(Residue(CurveD * Residue(a[1] * b[1])) * Residue(a[2] * b[2]))
  IN  <<Over(a[1] * b[2] + b[1] * a[2], 1 + k), Over(a[2] * b[2] + a[1] * b[1], 1 - k)>>
Neutral == <<0, 1>>
Negated(a) == <<Residue(-a[1]), a[2]>>
TimesPoint(k, a) ==
  LET t[n \in 0 .. k] ==
        IF n = 0 THEN Neutral
        ELSE LET h == t[n \div 2]
             IN  IF n % 2 = 1 THEN Sum2Points(Sum2Points(h, h), a) ELSE Sum2Points(h, h)
  IN  t[k]
SignedTimes(k, a) == IF k < 0 THEN TimesPoint(-k, Negated(a)) ELSE TimesPoint(k, a)
BasePoint == <<BaseX, BaseY>>

ASSUME BaseAssumption ==
  OnCurve(BaseX, BaseY) /\ BasePoint # Neutral /\ TimesPoint(BaseOrder, BasePoint) = Neutral

\* The point a projective representation stands for.
Affine(p) == <<Over(p.X.v, p.Z.v), Over(p.Y.v, p.Z.v)>>
Extended(a) == P4(Reduced(a[1]), Reduced(a[2]), One, Reduced(a[1] * a[2]))
Precomputed(a) ==
  [yplusx |-> Reduced(a[2] + a[1]), yminusx |-> Reduced(a[2] - a[1]),
   xy2d |-> Reduced(2 * CurveD * Residue(a[1] * a[2]))]

-----------------------------------------------------------------------------
\* Packed points: y, and the low bit of x above it.
GeToBytes(p) ==
  LET recip == InverseOf(p.Z)
      x == Product(p.X, recip)
      y == Product(p.Y, recip)
  IN  y.v + Power(2, YBits) * (x.v % 2)

IsNonzero(f) == f.v # 0
NotAPoint == [failed |-> TRUE]

\* The root of u/v that one of two checks confirms; -1 when none does.
Root(x, vxx, u) ==
  IF ~IsNonzero(Minus(vxx, u)) THEN x
  ELSE IF ~IsNonzero(Plus(vxx, u)) THEN Product(x, Reduced(SqrtMinusOne))
  ELSE NotAPoint

\* "negate": of the two, the one whose sign is not the one stored.
Sign(x, sign) == IF x.v % 2 = sign THEN Opposite(x) ELSE x

GeFromBytesNegate(bytes) ==
  LET y == Reduced(bytes % Power(2, YBits))
      u == Minus(SquareOf(y), One)
      v == Plus(Product(SquareOf(y), Reduced(CurveD)), One)
      v3 == Product(SquareOf(v), v)
      power == Pow22523(Product(Product(SquareOf(v3), v), u))
      x == Product(Product(power, v3), u)
      root == Root(x, Product(SquareOf(x), v), u)
  IN  IF root = NotAPoint THEN NotAPoint
      ELSE LET signed == Sign(root, bytes \div Power(2, YBits))
           IN  P4(signed, y, One, Product(signed, y))

-----------------------------------------------------------------------------
\* ge_scalarmult_base.  Nibbles of the scalar become digits from -8 to 8: what
\* is above 7 borrows from the next.
NibbleBase == Power(2, NibbleBits)
Nibble(a, i) == (a \div Power(2, NibbleBits * i)) % NibbleBase
Borrows(t) == (t + Power(2, NibbleBits - 1)) \div NibbleBase

Borrowed(a) ==
  LET carry[i \in 0 .. Nibbles - 1] ==
        IF i = 0 THEN 0 ELSE Borrows(Nibble(a, i - 1) + carry[i - 1])
  IN  carry

RadixDigits(a) ==
  [i \in 0 .. Nibbles - 1 |->
     Nibble(a, i) + Borrowed(a)[i]
       - (IF i = Nibbles - 1 THEN 0 ELSE Borrowed(a)[i + 1] * NibbleBase)]

\* base[pos][j] = (j + 1) * 256^pos * B, of precomp_data.h.
ByteBits == 2 * NibbleBits
TableSize == Power(2, NibbleBits - 1)
BaseTable ==
  [pos \in 0 .. Nibbles \div 2 - 1 |-> [j \in 1 .. TableSize |->
     Precomputed(TimesPoint((j * Power(2, ByteBits * pos)) % BaseOrder, BasePoint))]]

\* Every entry is looked at; cmov keeps the one at |b|, or none for 0.
Absolute(b) == IF b < 0 THEN -b ELSE b
Select(pos, b) ==
  LET kept[j \in 0 .. TableSize] ==
        IF j = 0 THEN [yplusx |-> One, yminusx |-> One, xy2d |-> Zero]
        ELSE IF Absolute(b) = j THEN BaseTable[pos][j] ELSE kept[j - 1]
      t == kept[TableSize]
  IN  IF b < 0 THEN [yplusx |-> t.yminusx, yminusx |-> t.yplusx, xy2d |-> Opposite(t.xy2d)]
      ELSE t

BaseStart ==
  /\ geCall = "ge_scalarmult_base"
  /\ \E a \in 0 .. Power(2, Nibbles * NibbleBits - 1) - 1 :  \* "a[31] <= 127"
       geArg = [a |-> a] /\ geDigits = [e |-> RadixDigits(a)]
  /\ geStage = "odd" /\ geI = 1 /\ gePoint = P3Zero

Window ==
  /\ geStage \in {"odd", "even"} /\ geI < Nibbles
  /\ gePoint' = P1p1ToP3(GeMadd(gePoint, Select(geI \div 2, geDigits.e[geI])))
  /\ geI' = geI + 2
  /\ UNCHANGED <<geCall, geArg, geStage, geDigits>>

\* Mutant: one doubling too few.
OneDoublingLess == NibbleBits - 1

\* Four doublings, through projective points, between the two loops.
Doublings == NibbleBits

Double ==
  /\ geStage = "odd" /\ geI >= Nibbles
  /\ LET s[n \in 0 .. Doublings - 1] ==
           IF n = 0 THEN P3ToP2(gePoint) ELSE P1p1ToP2(P2Dbl(s[n - 1]))
     IN  gePoint' = P1p1ToP3(P2Dbl(s[Doublings - 1]))
  /\ geStage' = "even" /\ geI' = 0
  /\ UNCHANGED <<geCall, geArg, geDigits>>

-----------------------------------------------------------------------------
\* slide: signed odd digits of at most 15.  Starting from the bits, r[i] takes
\* in the ones up to six places above it, adding or subtracting; what is
\* subtracted too much is carried to the next zero.
CarryInto(r, k) ==
  LET free == {j \in k .. SlideBits - 1 : r[j] = 0}
      next == IF free = {} THEN SlideBits ELSE Min(free)
  IN  [j \in DOMAIN r |-> IF j = next THEN 1 ELSE IF j \in k .. next THEN 0 ELSE r[j]]

\* Mutant: nothing is carried.
CarryOnce(r, k) == [r EXCEPT ![k] = 0]

Carry(r, k) == CarryInto(r, k)

Absorb(i, at, b) ==
  LET r == at.r
      weight == r[i + b] * Power(2, b)
  IN  IF at.stopped \/ i + b >= SlideBits THEN at
      ELSE IF r[i + b] = 0 THEN at
      ELSE IF r[i] + weight <= SlideMax
        THEN [at EXCEPT !.r = [r EXCEPT ![i] = @ + weight, ![i + b] = 0]]
      ELSE IF r[i] - weight >= -SlideMax
        THEN [at EXCEPT !.r = Carry([r EXCEPT ![i] = @ - weight], i + b)]
      ELSE [at EXCEPT !.stopped = TRUE]

\* What a digit that is not zero takes in, and all digits in turn.
Absorbed(r, i) ==
  LET at[b \in 0 .. SlideReach] ==
        IF b = 0 THEN [r |-> r, stopped |-> FALSE] ELSE Absorb(i, at[b - 1], b)
  IN  at[SlideReach].r

SlideStep(r, i) == IF r[i] = 0 THEN r ELSE Absorbed(r, i)

ScalarBit(a, i) == (a \div Power(2, i)) % 2

Slide(a) ==
  LET r[i \in 0 .. SlideBits] ==
        IF i = 0 THEN [j \in 0 .. SlideBits - 1 |-> ScalarBit(a, j)]
        ELSE SlideStep(r[i - 1], i - 1)
  IN  r[SlideBits]

\* Ai: A, 3A, 5A, ..., 15A, each the one before it plus 2A.
OddMultiples(A) ==
  LET twice == P1p1ToP3(P3Dbl(A))
      u[n \in 0 .. SlideMax \div 2] ==
        IF n = 0 THEN P3ToCached(A)
        ELSE P3ToCached(P1p1ToP3(GeAdd(twice, u[n - 1])))
  IN  [n \in 0 .. SlideMax \div 2 |-> u[n]]

BaseOdd == [n \in 0 .. SlideMax \div 2 |->
              Precomputed(TimesPoint((2 * n + 1) % BaseOrder, BasePoint))]

DoubleStart ==
  /\ geCall = "ge_double_scalarmult_vartime"
  /\ \E a \in 0 .. BaseOrder - 1,        \* reduced by sc_reduce
        b \in 0 .. Power(2, SlideBits - 3) - 1,  \* signature[63] & 224 is 0
        k \in KeyMultiples :
       LET A == Extended(TimesPoint(k, BasePoint))
           top == {i \in 0 .. SlideBits - 1 : Slide(a)[i] # 0 \/ Slide(b)[i] # 0}
       IN  /\ geArg = [a |-> a, b |-> b, A |-> TimesPoint(k, BasePoint)]
           /\ geDigits = [aslide |-> Slide(a), bslide |-> Slide(b), Ai |-> OddMultiples(A)]
           /\ geI = IF top = {} THEN -1 ELSE Max(top)
  /\ geStage = "bits" /\ gePoint = P2Zero

Bit ==
  /\ geStage = "bits" /\ geI >= 0
  /\ LET da == geDigits.aslide[geI]
         db == geDigits.bslide[geI]
         t == P2Dbl(gePoint)
         withA == IF da > 0 THEN GeAdd(P1p1ToP3(t), geDigits.Ai[da \div 2])
                  ELSE IF da < 0 THEN GeSub(P1p1ToP3(t), geDigits.Ai[(-da) \div 2])
                  ELSE t
         withB == IF db > 0 THEN GeMadd(P1p1ToP3(withA), BaseOdd[db \div 2])
                  ELSE IF db < 0 THEN GeMsub(P1p1ToP3(withA), BaseOdd[(-db) \div 2])
                  ELSE withA
     IN  gePoint' = P1p1ToP2(withB)
  /\ geI' = geI - 1
  /\ UNCHANGED <<geCall, geArg, geStage, geDigits>>

-----------------------------------------------------------------------------
\* Any string of bytes may come as a public key.
UnpackStart ==
  /\ geCall = "ge_frombytes_negate_vartime"
  /\ \E bytes \in 0 .. Power(2, YBits + 1) - 1 : geArg = [bytes |-> bytes]
  /\ geStage = "unpack" /\ geI = 0 /\ geDigits = <<>> /\ gePoint = P3Zero

Unpack ==
  /\ geStage = "unpack"
  /\ gePoint' = GeFromBytesNegate(geArg.bytes)
  /\ geStage' = "unpacked"
  /\ UNCHANGED <<geCall, geArg, geI, geDigits>>

EdwardsInit == BaseStart \/ DoubleStart \/ UnpackStart
EdwardsIdle ==
  /\ geCall = "none" /\ geArg = <<>> /\ geStage = "none" /\ geI = 0
  /\ geDigits = <<>> /\ gePoint = P3Zero

EdwardsNext == Window \/ Double \/ Bit \/ Unpack

EdwardsSpec == EdwardsInit /\ [][EdwardsNext]_edwardsVars

-----------------------------------------------------------------------------
\* The number a vector of digits of that width stands for.
StandsFor(digits, n, width) ==
  SumTo(n, [i \in 0 .. n - 1 |-> digits[i] * Power(2, width * i)])

Windowed(e, a) ==
  /\ \A i \in 0 .. Nibbles - 1 : e[i] \in -TableSize .. TableSize
  /\ StandsFor(e, Nibbles, NibbleBits) = a

SlideDigit(d) == d = 0 \/ (d \in -SlideMax .. SlideMax /\ d % 2 = 1)

Slid(r, a) ==
  /\ \A i \in 0 .. SlideBits - 1 : SlideDigit(r[i])
  /\ StandsFor(r, SlideBits, 1) = a

\* Both recodings: whatever is borrowed or carried upwards, the digits stand for
\* the scalar, so nothing runs off the end of an array, and no digit leaves the
\* tables of eight multiples.
RecodingExact ==
  /\ geCall = "ge_scalarmult_base" => Windowed(geDigits.e, geArg.a)
  /\ geCall = "ge_double_scalarmult_vartime" =>
       Slid(geDigits.aslide, geArg.a) /\ Slid(geDigits.bslide, geArg.b)

DigitSum(digits, I, weight(_)) == MapThenSumSet(LAMBDA i : digits[i] * weight(i), I)

\* ge_scalarmult_base: what the windows done so far stand for is what has been
\* added up, in every iteration, and at the end it is a * B: the borrowed
\* digits, the table of multiples and the four doublings fit together.
BaseWindows ==
  geCall = "ge_scalarmult_base" =>
    LET e == geDigits.e
        I == IF geStage = "odd" THEN {i \in 0 .. Nibbles - 1 : i % 2 = 1 /\ i < geI}
             ELSE {i \in 0 .. Nibbles - 1 : i % 2 = 1 \/ i < geI}
        weight(i) == IF geStage = "odd" THEN Power(2, ByteBits * (i \div 2)) ELSE Power(2, NibbleBits * i)
    IN  /\ Affine(gePoint) = SignedTimes(DigitSum(e, I, weight), BasePoint)
        /\ Residue(gePoint.X.v * gePoint.Y.v) = Residue(gePoint.Z.v * gePoint.T.v)
        /\ geStage = "even" /\ geI >= Nibbles =>
             Affine(gePoint) = TimesPoint(geArg.a, BasePoint)

\* ge_double_scalarmult_vartime: after each bit the point is the digits so far
\* times A and B, and at the end a * A + b * B.
DoubleBits ==
  geCall = "ge_double_scalarmult_vartime" =>
    LET I == geI + 1 .. SlideBits - 1
        weight(i) == Power(2, i - geI - 1)
        of(digits, P) == SignedTimes(DigitSum(digits, I, weight), P)
    IN  /\ Affine(gePoint) = Sum2Points(of(geDigits.aslide, geArg.A),
                                        of(geDigits.bslide, BasePoint))
        /\ geI = -1 => Affine(gePoint) = Sum2Points(TimesPoint(geArg.a, geArg.A),
                                                    TimesPoint(geArg.b, BasePoint))

\* Whatever is unpacked: -1 exactly when no point has that y; else the negative
\* of the point stored, y taken modulo the prime, and packing its negative gives
\* the canonical string of the same point.
UnpackExact ==
  geStage = "unpacked" =>
    LET y == Residue(geArg.bytes % Power(2, YBits))
        sign == geArg.bytes \div Power(2, YBits)
        roots == {x \in 0 .. CurvePrime - 1 : OnCurve(x, y)}
    IN  IF roots = {} THEN gePoint = NotAPoint
        ELSE /\ gePoint # NotAPoint
             /\ LET back == Negated(Affine(gePoint))
                IN  /\ back[1] \in roots /\ back[2] = y
                    /\ roots # {0} => back[1] % 2 = sign
                    /\ GeToBytes(Extended(back)) = y + Power(2, YBits) * (back[1] % 2)
                    /\ gePoint.T.v = Residue(gePoint.X.v * gePoint.Y.v)

\* No operand of fe_mul or fe_sq is a sum of more than three reduced elements,
\* in no order in which ge.c composes its additions: 1.65 * 2^26 is the most
\* the 64-bit products admit.
OperandsFit ==
  /\ gePoint # NotAPoint =>
       \A c \in DOMAIN gePoint : gePoint[c].n <= 1
  /\ geStage = "bits" =>
       \A n \in DOMAIN geDigits.Ai :
         \A c \in DOMAIN geDigits.Ai[n] : geDigits.Ai[n][c].n <= 2

\* What ge.c hands on is what its tables of multiples and fe.c can take: digits
\* they have an entry for, which stand for the scalar, and operands of a size
\* the products admit.
OperandsSound == RecodingExact /\ OperandsFit

\* What ge.c promises keys and signatures: both scalar multiplications and the
\* unpacking of points are exact.
GroupSound == BaseWindows /\ DoubleBits /\ UnpackExact
=============================================================================
