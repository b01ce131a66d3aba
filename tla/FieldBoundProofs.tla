---------------------------- MODULE FieldBoundProofs ----------------------------
(***************************************************************************)
(* Proofs about the sizes of FieldLimbs, for every layout of limbs that    *)
(* leaves room for its carries and behaviours of any length: no limb       *)
(* outgrows its bound, and what fe_tobytes writes is the one               *)
(* representative below the prime.  The exponent chains of FieldPowers,    *)
(* for digits of any width.  The last section shows the hypothesis of the  *)
(* numbers in fe.c, and that its types suffice.                            *)
(***************************************************************************)
EXTENDS CurveProofs

-----------------------------------------------------------------------------
(* How large the limbs of an element are.                                    *)

\* The width of a limb as a number, half of it, and the narrower of the two widths.
Full(i) == Power(2, Width(i))
HalfOf(i) == Power(2, Width(i) - 1)
NarrowBase == Power(2, OddBits)

\* How wide the limbs are, and half of that.
LEMMA FieldHalves ==
  /\ NarrowBase \in Nat \ {0}
  /\ \A i \in Limb :
       /\ Full(i) \in Nat \ {0} /\ HalfOf(i) \in Nat \ {0} /\ Full(i) = 2 * HalfOf(i)
       /\ NarrowBase <= Full(i) /\ HalfOf(i) <= NarrowBase
       /\ Full(i) = (IF i % 2 = 0 THEN 2 * NarrowBase ELSE NarrowBase)
<1>0. 2 \in Nat \ {0} /\ 2 \in Nat /\ OddBits \in Nat /\ OddBits >= 1 /\ EvenBits = OddBits + 1
  BY Sizes
<1>1. NarrowBase \in Nat \ {0}
  BY <1>0, PowerPositive DEF NarrowBase
<1> SUFFICES ASSUME NEW i \in Limb
             PROVE  /\ Full(i) \in Nat \ {0} /\ HalfOf(i) \in Nat \ {0} /\ Full(i) = 2 * HalfOf(i)
                    /\ NarrowBase <= Full(i) /\ HalfOf(i) <= NarrowBase
                    /\ Full(i) = (IF i % 2 = 0 THEN 2 * NarrowBase ELSE NarrowBase)
  BY <1>1
<1>2. \A e \in Nat : Power(2, e) \in Nat /\ Power(2, e + 1) = Power(2, e) * 2
  BY <1>0, PowerSteps
<1>3. \A e \in Nat : Power(2, e) \in Nat \ {0}
  BY <1>0, PowerPositive
<1>4. CASE i % 2 = 0
  <2>1. Width(i) = OddBits + 1 /\ Width(i) - 1 = OddBits
    BY <1>0, <1>4 DEF Width
  <2>2. Full(i) = Power(2, OddBits + 1) /\ HalfOf(i) = Power(2, OddBits)
    BY <2>1 DEF Full, HalfOf
  <2>3. Power(2, OddBits + 1) = NarrowBase * 2
    BY <1>0, <1>2 DEF NarrowBase
  <2>4. HalfOf(i) = NarrowBase
    BY <2>2 DEF NarrowBase
  <2> QED BY <1>1, <1>4, <2>2, <2>3, <2>4
<1>5. CASE i % 2 # 0
  <2>1. Width(i) = OddBits
    BY <1>5 DEF Width
  <2> DEFINE e == OddBits - 1
  <2>2. e \in Nat /\ OddBits = e + 1
    BY <1>0
  <2>3. Full(i) = NarrowBase /\ HalfOf(i) = Power(2, e)
    BY <2>1 DEF Full, HalfOf, NarrowBase
  <2>4. Power(2, e + 1) = Power(2, e) * 2 /\ Power(2, e) \in Nat \ {0}
    BY <1>2, <1>3, <2>2
  <2>5. NarrowBase = Power(2, e + 1)
    BY <2>2 DEF NarrowBase
  <2> HIDE DEF e
  <2> QED BY <1>1, <1>5, <2>3, <2>4, <2>5
<1> QED BY <1>4, <1>5

\* What a limb of at most X is carried into the next one.
MostCarried(X) == X \div NarrowBase + 1

\* It is a number, and more than X.
LEMMA CarriedTyped ==
  ASSUME NEW X \in Nat
  PROVE  MostCarried(X) \in Nat /\ X < MostCarried(X) * NarrowBase
<1> DEFINE r == NarrowBase
<1>1. r \in Nat \ {0}
  BY FieldHalves
<1> HIDE DEF r
<1> DEFINE q == X \div r
<1>2. q \in Nat /\ X = r * q + (X % r) /\ X % r \in 0 .. r - 1
  BY <1>1
<1>3. MostCarried(X) = q + 1
  BY DEF MostCarried, r
<1> HIDE DEF q
<1>4. X < (q + 1) * r
  BY <1>1, <1>2
<1> QED BY <1>2, <1>3, <1>4 DEF r

\* What limb i is carried.
CarryFrom(h, i) == (h[i] + HalfOf(i)) \div Full(i)

\* One rounded carry: what stays is half a limb at most, what leaves is bounded.
LEMMA FieldCarryBounds ==
  ASSUME NEW h \in Vector, NEW i \in Limb
  PROVE  /\ CarryFrom(h, i) \in Int
         /\ h[i] - CarryFrom(h, i) * Full(i) \in -HalfOf(i) .. HalfOf(i)
         /\ \A X \in Nat : h[i] \in -X .. X => CarryFrom(h, i) \in -MostCarried(X) .. MostCarried(X)
<1> DEFINE f == Full(i)
           g == HalfOf(i)
           x == h[i]
           r == NarrowBase
<1>1. f \in Nat \ {0} /\ g \in Nat \ {0} /\ f = 2 * g /\ r \in Nat \ {0} /\ r <= f /\ x \in Int
  BY FieldHalves DEF Vector
<1>2. CarryFrom(h, i) = (x + g) \div f
  BY DEF CarryFrom
<1> HIDE DEF f, g, x, r
<1> DEFINE c == (x + g) \div f
           d == (x + g) % f
<1>3. c \in Int /\ d \in 0 .. f - 1 /\ x + g = f * c + d
  <2> DEFINE y == x + g
  <2>1. y \in Int /\ f \in Nat \ {0}
    BY <1>1
  <2> HIDE DEF y, c, d
  <2>2. y \div f \in Int /\ y % f \in 0 .. f - 1 /\ y = f * (y \div f) + (y % f)
    BY <2>1
  <2> QED BY <2>2 DEF y, c, d
<1> HIDE DEF c, d
<1>4. x - c * f = d - g
  BY <1>1, <1>3
<1>5. x - c * f \in -g .. g
  BY <1>1, <1>3, <1>4
<1>6. ASSUME NEW X \in Nat, x \in -X .. X
      PROVE  c \in -MostCarried(X) .. MostCarried(X)
  <2> DEFINE m == MostCarried(X)
  <2>1. m \in Nat /\ X < m * r
    BY CarriedTyped DEF r
  <2> HIDE DEF m
  <2>2. m * r <= m * f /\ m * f \in Nat
    BY <1>1, <2>1
  <2>3. X < m * f
    BY <2>1, <2>2, <1>1
  <2>4. f * c <= x + g /\ x + g < f * c + f
    BY <1>1, <1>3
  <2>5. c <= m
    <3> SUFFICES ASSUME c >= m + 1 PROVE FALSE
      BY <1>3, <2>1
    <3>1. f * (m + 1) <= f * c
      BY <1>1, <1>3, <2>1
    <3>2. f * (m + 1) = m * f + f
      BY <1>1, <2>1
    <3> QED BY <1>1, <1>3, <1>6, <2>2, <2>3, <2>4, <3>1, <3>2
  <2>6. c >= -m
    <3> SUFFICES ASSUME c <= -m - 1 PROVE FALSE
      BY <1>3, <2>1
    <3>1. f * c <= f * (-m - 1)
      BY <1>1, <1>3, <2>1
    <3>2. f * (-m - 1) = -(m * f) - f
      BY <1>1, <2>1
    <3> QED BY <1>1, <1>3, <1>6, <2>2, <2>3, <2>4, <3>1, <3>2
  <2> QED BY <1>3, <2>1, <2>5, <2>6 DEF m
<1> QED BY <1>2, <1>3, <1>5, <1>6 DEF c, f, g, x

\* The limb a carry enters, and how many times.
NextLimb(i) == IF i = Limbs - 1 THEN 0 ELSE i + 1
Into(i) == IF i = Limbs - 1 THEN FoldBy ELSE 1

\* What one carry does to each entry of the vector.
LEMMA CarriedEntries ==
  ASSUME NEW h \in Vector, NEW i \in Limb
  PROVE  LET v == RoundedCarry(h, i)
             c == CarryFrom(h, i)
         IN  /\ NextLimb(i) \in Limb /\ NextLimb(i) # i
             /\ v \in Vector
             /\ v[i] = h[i] - c * Full(i)
             /\ v[NextLimb(i)] = h[NextLimb(i)] + Into(i) * c
             /\ \A j \in Limb : j # i /\ j # NextLimb(i) => v[j] = h[j]
<1> DEFINE c == CarryFrom(h, i)
           v == RoundedCarry(h, i)
           a == Above(h, i, c)
           d == h[i] - c * Full(i)
<1>0. Limbs \in Nat /\ Limbs >= 4 /\ Limb = 0 .. Limbs - 1 /\ i \in 0 .. Limbs - 1 /\ FoldBy \in Nat
  BY LimbIndex, Sizes DEF Limb
<1>1. c \in Int /\ Full(i) \in Nat
  BY FieldCarryBounds, FieldHalves
<1>2. v = [a EXCEPT ![i] = d]
  BY DEF RoundedCarry, CarryFrom, Full, HalfOf
<1> HIDE DEF v, c
<1>3. NextLimb(i) \in Limb /\ NextLimb(i) # i
  BY <1>0 DEF NextLimb
<1>4. a = [h EXCEPT ![NextLimb(i)] = @ + Into(i) * c]
  <2>1. CASE i = Limbs - 1
    BY <2>1 DEF Above, NextLimb, Into
  <2>2. CASE i # Limbs - 1
    <3>1. a = [h EXCEPT ![i + 1] = @ + c]
      BY <2>2 DEF Above
    <3>2. h[i + 1] + c = h[i + 1] + 1 * c
      <4>1. h[i + 1] \in Int
        BY <1>3, <2>2 DEF NextLimb, Vector
      <4> QED BY <1>1, <4>1
    <3>3. NextLimb(i) = i + 1 /\ Into(i) = 1
      BY <2>2 DEF NextLimb, Into
    <3> QED BY <3>1, <3>2, <3>3
  <2> QED BY <2>1, <2>2
<1>5. Into(i) * c \in Int
  BY <1>0, <1>1 DEF Into
<1> DEFINE e == Into(i) * c
           n == NextLimb(i)
<1>6. e \in Int /\ n \in Limb /\ n # i /\ a = [h EXCEPT ![n] = @ + e]
  BY <1>3, <1>4, <1>5
<1>7. d \in Int
  <2>1. h[i] \in Int /\ c * Full(i) \in Int
    BY <1>1 DEF Vector
  <2> QED BY <2>1
<1> HIDE DEF e, n, a, d
<1>8. v \in Vector /\ v[i] = d /\ v[n] = h[n] + e /\ \A j \in Limb : j # i /\ j # n => v[j] = h[j]
  BY <1>2, <1>6, <1>7 DEF Vector
<1> QED BY <1>3, <1>8 DEF v, c, d, e, n

\* The vectors of a sequence of carries, one after the other.
Running(T, s, h) ==
  /\ s \in Seq(Limb) /\ T \in [0 .. Len(s) -> Vector] /\ T[0] = h
  /\ \A m \in 1 .. Len(s) : T[m] = RoundedCarry(T[m - 1], s[m])

\* They are well defined.
LEMMA CarriesRun ==
  ASSUME NEW h \in Vector, NEW s \in Seq(Limb)
  PROVE  \E T : Running(T, s, h) /\ Carries(h, s) = T[Len(s)]
<1> DEFINE D == Vector
           n == Len(s)
           base == h
           step == [m \in 1 .. n |-> [w \in D |-> RoundedCarry(w, s[m])]]
           Table(V) == V = [m \in 0 .. n |->
                              IF m = 0 THEN h ELSE RoundedCarry(V[m - 1], s[m])]
<1>1. n \in Nat /\ \A m \in 1 .. n : s[m] \in Limb
  OBVIOUS
<1>2. base \in D
  OBVIOUS
<1>3. \A w \in D, i \in Limb : RoundedCarry(w, i) \in D
  BY CarriedEntries
<1> HIDE DEF D
<1>4. step \in [1 .. n -> [D -> D]]
  BY <1>1, <1>3
<1>5. \A m \in 1 .. n, w \in D : step[m][w] = RoundedCarry(w, s[m])
  OBVIOUS
<1> HIDE DEF step, base, n
<1>6. PICK V : Stepwise(V, D, n, base, step)
  BY <1>1, <1>2, <1>4, StepwiseFunction
<1>7. /\ V \in [0 .. n -> D] /\ V[0] = h
      /\ \A m \in 1 .. n : V[m] = RoundedCarry(V[m - 1], s[m])
  <2>1. V \in [0 .. n -> D] /\ V[0] = h /\ \A m \in 1 .. n : V[m] = step[m][V[m - 1]]
    BY <1>6 DEF Stepwise, base
  <2>2. \A m \in 1 .. n : V[m - 1] \in D
    BY <1>1, <2>1
  <2> QED BY <1>5, <2>1, <2>2
<1>8. Table(V)
  BY <1>1, <1>7
<1> DEFINE T == CarryTable(h, s)
<1>9. Table(T)
  <2>1. T = CHOOSE A : Table(A)
    BY DEF CarryTable, n
  <2> HIDE DEF Table, T
  <2> QED BY <1>8, <2>1
<1>10. Carries(h, s) = T[n]
  BY DEF Carries, CarryTable, n
<1> HIDE DEF T
<1>11. T[0] = h /\ \A m \in 1 .. n : T[m] = RoundedCarry(T[m - 1], s[m])
  BY <1>1, <1>9
<1>12. T = [m \in 0 .. n |-> T[m]]
  BY <1>9
<1> DEFINE S == {m \in Nat : m <= n => T[m] \in D}
<1>13. \A m \in Nat : m \in S
  <2>1. 0 \in S
    BY <1>2, <1>11 DEF base
  <2>2. ASSUME NEW m \in Nat, m \in S
        PROVE  m + 1 \in S
    <3> SUFFICES ASSUME m + 1 <= n PROVE T[m + 1] \in D
      OBVIOUS
    <3>1. m + 1 \in 1 .. n /\ (m + 1) - 1 = m /\ T[m] \in D
      BY <1>1, <2>2
    <3> QED BY <1>1, <1>3, <1>11, <3>1
  <2> HIDE DEF S
  <2> QED BY <2>1, <2>2, FromZero
<1>14. \A m \in 0 .. n : T[m] \in D
  BY <1>13
<1>15. T \in [0 .. n -> D]
  BY <1>12, <1>14
<1> QED BY <1>10, <1>11, <1>15 DEF n, D, Running

\* What one of its steps does.
LEMMA RunStep ==
  ASSUME NEW T, NEW s, NEW h, Running(T, s, h), NEW m \in 1 .. Len(s)
  PROVE  /\ s[m] \in Limb /\ NextLimb(s[m]) \in Limb /\ NextLimb(s[m]) # s[m]
         /\ T[m - 1] \in Vector /\ T[m] \in Vector
         /\ T[m][s[m]] \in -HalfOf(s[m]) .. HalfOf(s[m])
         /\ CarryFrom(T[m - 1], s[m]) \in Int
         /\ T[m][NextLimb(s[m])]
              = T[m - 1][NextLimb(s[m])] + Into(s[m]) * CarryFrom(T[m - 1], s[m])
         /\ \A X \in Nat : T[m - 1][s[m]] \in -X .. X =>
              CarryFrom(T[m - 1], s[m]) \in -MostCarried(X) .. MostCarried(X)
         /\ \A j \in Limb : j # s[m] /\ j # NextLimb(s[m]) => T[m][j] = T[m - 1][j]
<1> DEFINE i == s[m]
           w == T[m - 1]
<1>1. /\ i \in Limb /\ w \in Vector /\ T[m] = RoundedCarry(w, i) /\ T[m] \in Vector
  BY DEF Running
<1> HIDE DEF i, w
<1>2. /\ CarryFrom(w, i) \in Int
      /\ w[i] - CarryFrom(w, i) * Full(i) \in -HalfOf(i) .. HalfOf(i)
      /\ \A X \in Nat : w[i] \in -X .. X => CarryFrom(w, i) \in -MostCarried(X) .. MostCarried(X)
  BY <1>1, FieldCarryBounds
<1>3. /\ NextLimb(i) \in Limb /\ NextLimb(i) # i
      /\ T[m][i] = w[i] - CarryFrom(w, i) * Full(i)
      /\ T[m][NextLimb(i)] = w[NextLimb(i)] + Into(i) * CarryFrom(w, i)
      /\ \A j \in Limb : j # i /\ j # NextLimb(i) => T[m][j] = w[j]
  BY <1>1, CarriedEntries
<1> QED BY <1>1, <1>2, <1>3 DEF i, w

\* A limb that is not entered any more stays within the bound it has.
LEMMA Resting ==
  ASSUME NEW T, NEW s, NEW h, Running(T, s, h), NEW t \in 0 .. Len(s), NEW u \in t .. Len(s),
         NEW j \in Limb, NEW Y \in Nat, HalfOf(j) <= Y, T[t][j] \in -Y .. Y,
         \A v \in t + 1 .. u : NextLimb(s[v]) # j
  PROVE  T[u][j] \in -Y .. Y
<1>0. Len(s) \in Nat /\ HalfOf(j) \in Nat
  BY FieldHalves DEF Running
<1> DEFINE S == {v \in Nat : v <= u => T[v][j] \in -Y .. Y}
<1>1. t \in Nat /\ t \in S
  BY <1>0
<1>2. ASSUME NEW v \in Nat, v >= t, v \in S
      PROVE  v + 1 \in S
  <2> SUFFICES ASSUME v + 1 <= u PROVE T[v + 1][j] \in -Y .. Y
    OBVIOUS
  <2> DEFINE m == v + 1
  <2>1. m \in 1 .. Len(s) /\ m - 1 = v /\ m \in t + 1 .. u /\ T[v][j] \in -Y .. Y
    BY <1>0, <1>2
  <2> HIDE DEF m
  <2>2. NextLimb(s[m]) # j
    BY <2>1
  <2>3. /\ s[m] \in Limb /\ T[m][s[m]] \in -HalfOf(s[m]) .. HalfOf(s[m])
        /\ \A k \in Limb : k # s[m] /\ k # NextLimb(s[m]) => T[m][k] = T[m - 1][k]
    BY <2>1, RunStep
  <2>4. CASE s[m] = j
    <3>1. T[m][j] \in -HalfOf(j) .. HalfOf(j)
      BY <2>3, <2>4
    <3>2. T[m][j] \in -Y .. Y
      BY <1>0, <3>1
    <3> QED BY <3>2 DEF m
  <2>5. CASE s[m] # j
    <3>1. T[m][j] = T[v][j]
      BY <2>1, <2>2, <2>3, <2>5
    <3> QED BY <2>1, <3>1 DEF m
  <2> QED BY <2>4, <2>5
<1>3. \A v \in Nat : v >= t => v \in S
  <2> HIDE DEF S
  <2> QED BY <1>1, <1>2, Upwards
<1>4. u \in Nat /\ u >= t /\ u <= u
  BY <1>0, <1>1
<1> QED BY <1>3, <1>4

\* Nor one visited and not entered again.
LEMMA Settling ==
  ASSUME NEW T, NEW s, NEW h, Running(T, s, h), NEW t \in 1 .. Len(s), NEW u \in t .. Len(s),
         NEW j \in Limb, s[t] = j, NEW Y \in Nat, HalfOf(j) <= Y,
         \A v \in t + 1 .. u : NextLimb(s[v]) # j
  PROVE  T[u][j] \in -Y .. Y
<1>1. T[t][j] \in -HalfOf(j) .. HalfOf(j) /\ HalfOf(j) \in Nat
  BY RunStep, FieldHalves
<1>2. T[t][j] \in -Y .. Y /\ t \in 0 .. Len(s)
  BY <1>1
<1> QED BY <1>2, Resting

\* A limb that is entered grows by what the limb below it is carried.
LEMMA Entering ==
  ASSUME NEW T, NEW s, NEW h, Running(T, s, h), NEW m \in 1 .. Len(s),
         NEW X \in Nat, T[m - 1][s[m]] \in -X .. X,
         NEW j \in Limb, j = NextLimb(s[m]), NEW Y \in Nat, T[m - 1][j] \in -Y .. Y
  PROVE  T[m][j] \in -(Y + Into(s[m]) * MostCarried(X)) .. Y + Into(s[m]) * MostCarried(X)
<1> DEFINE c == CarryFrom(T[m - 1], s[m])
           C == MostCarried(X)
           b == Into(s[m])
           x == T[m - 1][j]
<1>1. c \in -C .. C /\ T[m][j] = x + b * c /\ x \in -Y .. Y
  BY RunStep
<1>2. C \in Nat /\ b \in Nat
  BY CarriedTyped, Sizes DEF Into
<1> HIDE DEF c, C, b, x
<1>3. b * c \in -(b * C) .. b * C /\ b * C \in Nat
  <2>1. c \in Int /\ c <= C /\ -C <= c
    BY <1>1, <1>2
  <2>2. b * c <= b * C /\ b * (-C) <= b * c /\ b * (-C) = -(b * C) /\ b * c \in Int /\ b * C \in Nat
    BY <1>2, <2>1
  <2> QED BY <2>2
<1>4. x + b * c \in -(Y + b * C) .. Y + b * C
  BY <1>1, <1>3, SMTT(30)
<1> QED BY <1>1, <1>4 DEF C, b

\* Nothing grows beyond twice what it was, if there is room for all carries.
Roomy(s, h, X) ==
  /\ X \in Nat /\ NarrowBase <= X /\ \A j \in Limb : h[j] \in -X .. X
  /\ Len(s) * (FoldBy * MostCarried(2 * X)) <= X

\* And there is.
LEMMA NeverTwice ==
  ASSUME NEW T, NEW s, NEW h, Running(T, s, h), NEW X, Roomy(s, h, X)
  PROVE  \A m \in 0 .. Len(s), j \in Limb : T[m][j] \in -(2 * X) .. 2 * X
<1> DEFINE C == MostCarried(2 * X)
           G == FoldBy * C
           n == Len(s)
<1>0. /\ X \in Nat /\ NarrowBase <= X /\ \A j \in Limb : h[j] \in -X .. X
      /\ n * G <= X /\ n \in Nat /\ FoldBy \in Nat /\ FoldBy >= 1 /\ T[0] = h
      /\ NarrowBase \in Nat
  BY FieldAssumption, FieldHalves DEF Running, Roomy
<1>1. C \in Nat
  BY <1>0, CarriedTyped
<1> HIDE DEF C
<1>2. G \in Nat /\ C <= G
  BY <1>0, <1>1
<1> HIDE DEF G
<1> DEFINE B(m) == X + m * G
           S == {m \in Nat : m <= n => \A j \in Limb : T[m][j] \in -B(m) .. B(m)}
<1>3. \A m \in 0 .. n : B(m) \in Nat /\ B(m) <= 2 * X /\ X <= B(m)
  <2> TAKE m \in 0 .. n
  <2>1. m * G <= n * G /\ m * G \in Nat /\ n * G \in Nat
    BY <1>0, <1>2
  <2> QED BY <1>0, <2>1
<1>4. 0 \in S
  BY <1>0, <1>2
<1>5. ASSUME NEW p \in Nat, p \in S PROVE p + 1 \in S
  <2> SUFFICES ASSUME p + 1 <= n, NEW j \in Limb PROVE T[p + 1][j] \in -B(p + 1) .. B(p + 1)
    OBVIOUS
  <2> DEFINE m == p + 1
             i == s[m]
             b == B(p)
  <2>1. m \in 1 .. n /\ m - 1 = p /\ p \in 0 .. n /\ \A k \in Limb : T[p][k] \in -b .. b
    BY <1>0, <1>5
  <2>2. B(m) = b + G
    BY <1>0, <1>2
  <2>3. b \in Nat /\ b <= 2 * X /\ X <= b
    BY <1>3, <2>1
  <2> HIDE DEF m, i, b
  <2>4. /\ i \in Limb /\ T[m][i] \in -HalfOf(i) .. HalfOf(i)
        /\ \A k \in Limb : k # i /\ k # NextLimb(i) => T[m][k] = T[p][k]
    BY <2>1, RunStep DEF n, i
  <2>5. HalfOf(i) \in Nat /\ HalfOf(i) <= NarrowBase
    BY <2>4, FieldHalves
  <2>6. T[m][j] \in -(b + G) .. b + G
    <3>1. CASE j = i
      <4>1. HalfOf(i) <= b + G
        BY <1>0, <1>2, <2>3, <2>5
      <4> QED BY <1>2, <2>3, <2>4, <2>5, <3>1, <4>1
    <3>2. CASE j # i /\ j = NextLimb(i)
      <4> DEFINE X2 == 2 * X
      <4>1. X2 \in Nat /\ T[p][i] \in -X2 .. X2
        <5>1. T[p][i] \in -b .. b
          BY <2>1, <2>4
        <5> QED BY <1>0, <2>3, <5>1
      <4>2. C = MostCarried(X2)
        BY DEF C
      <4>3. T[p][j] \in -b .. b /\ b \in Nat
        BY <2>1, <2>3
      <4> HIDE DEF X2
      <4>4. T[m][j] \in -(b + Into(i) * C) .. b + Into(i) * C
        BY <2>1, <2>4, <3>2, <4>1, <4>2, <4>3, Entering DEF n, i
      <4>5. Into(i) * C \in Nat /\ Into(i) * C <= G
        BY <1>0, <1>1, <1>2 DEF Into, G
      <4> HIDE DEF C, G
      <4> DEFINE y == Into(i) * C
      <4>6. y \in Nat /\ y <= G /\ T[m][j] \in -(b + y) .. b + y
        BY <4>4, <4>5
      <4> HIDE DEF y
      <4> QED BY <1>2, <2>3, <4>6
    <3>3. CASE j # i /\ j # NextLimb(i)
      <4>1. T[m][j] = T[p][j] /\ T[p][j] \in -b .. b
        BY <2>1, <2>4, <3>3
      <4> QED BY <1>2, <2>3, <4>1
    <3> QED BY <3>1, <3>2, <3>3
  <2> QED BY <2>2, <2>6 DEF m
<1>6. \A m \in Nat : m \in S
  <2> HIDE DEF S
  <2> QED BY <1>4, <1>5, FromZero
<1> SUFFICES ASSUME NEW m \in 0 .. n, NEW j \in Limb PROVE T[m][j] \in -(2 * X) .. 2 * X
  BY DEF n
<1>7. T[m][j] \in -B(m) .. B(m) /\ B(m) \in Nat /\ B(m) <= 2 * X
  BY <1>3, <1>6
<1> HIDE DEF B
<1> QED BY <1>0, <1>7

\* When the two chains and what follows them visit which limb.
LEMMA ProductOrder ==
  LET s == ProductCarries
  IN  /\ Half \in Nat /\ Half >= 1 /\ Limbs = 2 * Half + 2 /\ Limb = 0 .. 2 * Half + 1
      /\ s \in Seq(Limb) /\ Len(s) = 2 * Half + 4
      /\ \A k \in 0 .. Half : s[2 * k + 1] = k /\ s[2 * k + 2] = k + Half
      /\ s[2 * Half + 3] = 2 * Half + 1 /\ s[2 * Half + 4] = 0
<1>0. /\ Half \in Nat /\ Half >= 1 /\ Limbs = 2 * Half + 2 /\ Limb = 0 .. 2 * Half + 1
  BY FieldAssumption DEF Limb, Half
<1> DEFINE len == 2 * (Half + 1)
<1>1. TwoChains = [n \in 1 .. len |-> IF n % 2 = 1 THEN n \div 2 ELSE n \div 2 - 1 + Half]
  BY DEF TwoChains
<1>2. len \in Nat /\ len = 2 * Half + 2
  BY <1>0
<1> HIDE DEF len
<1>3. TwoChains \in [1 .. len -> Int]
  <2>1. \A n \in 1 .. len : (IF n % 2 = 1 THEN n \div 2 ELSE n \div 2 - 1 + Half) \in Int
    BY <1>0, <1>2
  <2> QED BY <1>1, <2>1
<1>4. TwoChains \in Seq(Int) /\ Len(TwoChains) = len
  BY <1>2, <1>3, SeqOfFunction
<1>5. <<Limbs - 1, 0>> \in Seq(Int) /\ Len(<<Limbs - 1, 0>>) = 2
  BY <1>0
<1> DEFINE s == ProductCarries
           tail == <<Limbs - 1, 0>>
           chains == TwoChains
<1>6. s = chains \o tail
  BY DEF ProductCarries
<1>7. chains \in Seq(Int) /\ Len(chains) = len /\ tail \in Seq(Int) /\ Len(tail) = 2
  BY <1>4, <1>5
<1>8. tail[1] = Limbs - 1 /\ tail[2] = 0
  OBVIOUS
<1>9. s \in Seq(Limb)
  BY Orders
<1> HIDE DEF chains, tail, s
<1>a. /\ Len(s) = Len(chains) + Len(tail)
      /\ \A t \in 1 .. Len(chains) + Len(tail) :
           s[t] = IF t <= Len(chains) THEN chains[t] ELSE tail[t - Len(chains)]
  BY <1>6, <1>7, ConcatProperties
<1>b. Len(s) = len + 2 /\ \A t \in 1 .. len + 2 : s[t] = IF t <= len THEN chains[t] ELSE tail[t - len]
  BY <1>7, <1>a
<1>10. Len(s) = len + 2 /\ \A n \in 1 .. len : s[n] = chains[n]
  <2>1. \A n \in 1 .. len : n \in 1 .. len + 2 /\ n <= len
    BY <1>2
  <2> QED BY <1>b, <2>1
<1>11. s[len + 1] = tail[1] /\ s[len + 2] = tail[2]
  <2>1. /\ len + 1 \in 1 .. len + 2 /\ ~(len + 1 <= len) /\ (len + 1) - len = 1
        /\ len + 2 \in 1 .. len + 2 /\ ~(len + 2 <= len) /\ (len + 2) - len = 2
    BY <1>2
  <2> QED BY <1>b, <2>1
<1>12. ASSUME NEW k \in 0 .. Half
       PROVE  s[2 * k + 1] = k /\ s[2 * k + 2] = k + Half
  <2> DEFINE a == 2 * k + 1
             b == 2 * k + 2
  <2>1. /\ a \in 1 .. len /\ a % 2 = 1 /\ a \div 2 = k
        /\ b \in 1 .. len /\ b % 2 = 0 /\ b \div 2 = k + 1
    BY <1>0, <1>2
  <2> HIDE DEF a, b
  <2>2. s[a] = chains[a] /\ s[b] = chains[b]
    BY <1>10, <2>1
  <2>3. chains[a] = k
    BY <1>1, <2>1 DEF chains
  <2>4. chains[b] = (k + 1) - 1 + Half
    BY <1>1, <2>1 DEF chains
  <2>5. (k + 1) - 1 + Half = k + Half
    BY <1>0
  <2> QED BY <2>2, <2>3, <2>4, <2>5 DEF a, b
<1>13. len + 1 = 2 * Half + 3 /\ len + 2 = 2 * Half + 4 /\ Limbs - 1 = 2 * Half + 1
  BY <1>0, <1>2
<1>14. s[2 * Half + 3] = 2 * Half + 1 /\ s[2 * Half + 4] = 0 /\ Len(s) = 2 * Half + 4
  BY <1>8, <1>10, <1>11, <1>13
<1> QED BY <1>0, <1>9, <1>12, <1>14 DEF s

\* And only then.
LEMMA ProductVisits ==
  LET s == ProductCarries
  IN  \A v \in 1 .. Len(s) :
        \/ \E k \in 0 .. Half : v = 2 * k + 1 /\ s[v] = k
        \/ \E k \in 0 .. Half : v = 2 * k + 2 /\ s[v] = k + Half
        \/ v = 2 * Half + 3 /\ s[v] = 2 * Half + 1
        \/ v = 2 * Half + 4 /\ s[v] = 0
<1> DEFINE s == ProductCarries
<1>1. /\ Half \in Nat /\ Len(s) = 2 * Half + 4
      /\ \A k \in 0 .. Half : s[2 * k + 1] = k /\ s[2 * k + 2] = k + Half
      /\ s[2 * Half + 3] = 2 * Half + 1 /\ s[2 * Half + 4] = 0
  BY ProductOrder
<1> HIDE DEF s
<1> SUFFICES ASSUME NEW v \in 1 .. 2 * Half + 4
             PROVE  \/ \E k \in 0 .. Half : v = 2 * k + 1 /\ s[v] = k
                    \/ \E k \in 0 .. Half : v = 2 * k + 2 /\ s[v] = k + Half
                    \/ v = 2 * Half + 3 /\ s[v] = 2 * Half + 1
                    \/ v = 2 * Half + 4 /\ s[v] = 0
  BY <1>1 DEF s
<1>2. CASE v <= 2 * Half + 2
  <2> DEFINE k == (v - 1) \div 2
  <2>1. k \in 0 .. Half /\ (v = 2 * k + 1 \/ v = 2 * k + 2)
    BY <1>1, <1>2
  <2> HIDE DEF k
  <2> QED BY <1>1, <2>1
<1>3. CASE v > 2 * Half + 2
  <2>1. v = 2 * Half + 3 \/ v = 2 * Half + 4
    BY <1>1, <1>3
  <2> QED BY <1>1, <2>1
<1> QED BY <1>1, <1>2, <1>3

\* The limb a limb is entered from.
LEMMA EnteredFrom ==
  ASSUME NEW i \in Limb, NEW j \in Limb
  PROVE  /\ j = 0 => (NextLimb(i) = j <=> i = Limbs - 1)
         /\ j # 0 => (NextLimb(i) = j <=> i = j - 1)
BY LimbIndex, Sizes DEF NextLimb, Limb

\* What a limb carries that had half a limb and was entered once.
SmallCarry(X) == MostCarried(NarrowBase + FoldBy * MostCarried(2 * X))

\* It is a number.
LEMMA SmallTyped ==
  ASSUME NEW X \in Nat
  PROVE  /\ 2 * X \in Nat /\ MostCarried(2 * X) \in Nat /\ SmallCarry(X) \in Nat
         /\ NarrowBase + FoldBy * MostCarried(2 * X) \in Nat
         /\ MostCarried(2 * X) <= FoldBy * MostCarried(2 * X)
         /\ FoldBy * MostCarried(2 * X) \in Nat
<1> DEFINE C == MostCarried(2 * X)
           Z == NarrowBase + FoldBy * C
<1>1. 2 * X \in Nat
  OBVIOUS
<1>2. C \in Nat
  BY <1>1, CarriedTyped
<1>3. SmallCarry(X) = MostCarried(Z)
  BY DEF SmallCarry
<1> HIDE DEF C
<1>4. Z \in Nat /\ C <= FoldBy * C /\ FoldBy * C \in Nat
  <2>1. FoldBy \in Nat /\ FoldBy >= 1 /\ NarrowBase \in Nat
    BY FieldAssumption, FieldHalves
  <2> QED BY <1>2, <2>1
<1>5. MostCarried(Z) \in Nat
  <2> HIDE DEF Z
  <2> QED BY <1>4, CarriedTyped
<1> QED BY <1>1, <1>2, <1>3, <1>4, <1>5 DEF C

\* After the carries of a product every limb is about half a limb: all but two
\* are visited last, and what enters those two comes from a limb that was small.
LEMMA ProductSettles ==
  ASSUME NEW h \in Vector, NEW X, Roomy(ProductCarries, h, X), NEW j \in Limb
  PROVE  Carries(h, ProductCarries)[j]
           \in -(HalfOf(j) + SmallCarry(X)) .. HalfOf(j) + SmallCarry(X)
<1> DEFINE s == ProductCarries
           n == Len(s)
           C == MostCarried(2 * X)
           Z == NarrowBase + FoldBy * C
           D == SmallCarry(X)
<1>0. /\ Half \in Nat /\ Half >= 1 /\ Limbs = 2 * Half + 2 /\ Limb = 0 .. 2 * Half + 1
      /\ s \in Seq(Limb) /\ n = 2 * Half + 4
  BY ProductOrder
<1>1. \A k \in 0 .. Half : s[2 * k + 1] = k /\ s[2 * k + 2] = k + Half
  BY ProductOrder
<1>2. s[2 * Half + 3] = 2 * Half + 1 /\ s[2 * Half + 4] = 0
  BY ProductOrder
<1>3. \A v \in 1 .. n :
        \/ \E k \in 0 .. Half : v = 2 * k + 1 /\ s[v] = k
        \/ \E k \in 0 .. Half : v = 2 * k + 2 /\ s[v] = k + Half
        \/ v = 2 * Half + 3 /\ s[v] = 2 * Half + 1
        \/ v = 2 * Half + 4 /\ s[v] = 0
  BY ProductVisits
<1>4. PICK T : Running(T, s, h) /\ Carries(h, s) = T[n]
  BY <1>0, CarriesRun
<1>5. X \in Nat /\ Roomy(s, h, X)
  BY DEF Roomy
<1>6. /\ 2 * X \in Nat /\ C \in Nat /\ Z \in Nat /\ D \in Nat /\ D = MostCarried(Z)
      /\ C <= FoldBy * C /\ FoldBy * C \in Nat
  BY <1>5, SmallTyped DEF SmallCarry
<1>7. \A m \in 0 .. n, i \in Limb : T[m][i] \in -(2 * X) .. 2 * X
  BY <1>4, <1>5, NeverTwice
<1>8. \A i \in Limb : HalfOf(i) \in Nat /\ HalfOf(i) <= NarrowBase /\ NarrowBase \in Nat
  BY FieldHalves
<1>9. \A v \in 1 .. n : s[v] \in Limb
  BY <1>0
<1>10. Running(T, s, h)
  BY <1>4
<1> HIDE DEF s, n, C, D
<1>11. \A v \in 1 .. n : j # 0 /\ s[v] # j - 1 => NextLimb(s[v]) # j
  BY <1>9, EnteredFrom
<1> DEFINE Y == HalfOf(j) + D
<1>12. Y \in Nat /\ HalfOf(j) <= Y /\ HalfOf(j) \in Nat
  BY <1>6, <1>8
<1>13. ASSUME NEW t \in 1 .. n, s[t] = j, \A v \in t + 1 .. n : NextLimb(s[v]) # j
       PROVE  T[n][j] \in -Y .. Y
  <2>1. n \in t .. n /\ n = Len(s)
    BY <1>0 DEF n
  <2> HIDE DEF Y
  <2> QED BY <1>10, <1>12, <1>13, <2>1, Settling DEF n
<1>14. T[n][j] \in -Y .. Y
  <2>1. CASE j = 0
    <3>1. n \in 1 .. n /\ s[n] = j /\ \A v \in n + 1 .. n : NextLimb(s[v]) # j
      BY <1>0, <1>2, <2>1
    <3> QED BY <1>13, <3>1
  <2>2. CASE j \in 2 .. Half
    <3> DEFINE t == 2 * j + 1
    <3>1. t \in 1 .. n /\ s[t] = j
      BY <1>0, <1>1, <2>2
    <3>2. ASSUME NEW v \in t + 1 .. n PROVE NextLimb(s[v]) # j
      <4>1. v \in 1 .. n /\ s[v] # j - 1
        BY <1>0, <1>3, <2>2
      <4> QED BY <1>11, <2>2, <4>1
    <3> HIDE DEF t
    <3> QED BY <1>13, <3>1, <3>2
  <2>3. CASE j \in Half + 2 .. 2 * Half
    <3> DEFINE k == j - Half
               t == 2 * k + 2
    <3>0. k \in 0 .. Half /\ k + Half = j
      BY <1>0, <2>3
    <3>a. t \in 1 .. n /\ k = j - Half
      BY <1>0, <2>3
    <3> HIDE DEF k
    <3>1. t \in 1 .. n /\ s[t] = j
      BY <1>1, <3>0, <3>a
    <3>2. ASSUME NEW v \in t + 1 .. n PROVE NextLimb(s[v]) # j
      <4>1. v \in 1 .. n /\ s[v] # j - 1
        BY <1>0, <1>3, <2>3, <3>a, SMTT(30)
      <4> QED BY <1>0, <1>11, <2>3, <4>1
    <3> HIDE DEF t
    <3> QED BY <1>13, <3>1, <3>2
  <2>4. CASE j = 2 * Half + 1
    <3> DEFINE t == 2 * Half + 3
    <3>1. t \in 1 .. n /\ s[t] = j
      BY <1>0, <1>2, <2>4
    <3>2. ASSUME NEW v \in t + 1 .. n PROVE NextLimb(s[v]) # j
      <4>1. v \in 1 .. n /\ v = 2 * Half + 4
        BY <1>0
      <4>2. s[v] # j - 1
        BY <1>0, <1>2, <2>4, <4>1
      <4> QED BY <1>0, <1>9, <1>11, <2>4, <4>1, <4>2
    <3> HIDE DEF t
    <3> QED BY <1>13, <3>1, <3>2
  <2>5. CASE j = 1
    <3>1. 0 \in Limb /\ 0 \in 0 .. Half /\ 1 \in 0 .. Half /\ NextLimb(0) = 1 /\ Into(0) = 1
      BY <1>0 DEF NextLimb, Into
    <3>2. s[1] = 0 /\ s[3] = 1
      BY <1>1, <3>1
    <3> DEFINE a == 2 * Half + 2
               b == 2 * Half + 3
               H0 == HalfOf(0)
    <3>3. H0 \in Nat /\ H0 <= NarrowBase
      BY <1>8, <3>1
    <3>4. T[a][0] \in -H0 .. H0
      <4>1. 1 \in 1 .. n /\ a \in 1 .. n /\ n = Len(s)
        BY <1>0 DEF n
      <4>2. ASSUME NEW v \in 1 + 1 .. a PROVE NextLimb(s[v]) # 0
        <5>1. v \in 1 .. n /\ s[v] # Limbs - 1
          BY <1>0, <1>3
        <5> QED BY <1>9, <3>1, <5>1, EnteredFrom
      <4> HIDE DEF a
      <4> QED BY <1>10, <3>1, <3>2, <3>3, <4>1, <4>2, Settling DEF H0
    <3>5. T[b][0] \in -Z .. Z
      <4> DEFINE X2 == 2 * X
      <4>1. b \in 1 .. Len(s) /\ b - 1 = a /\ a \in 0 .. n /\ s[b] \in Limb /\ s[b] = Limbs - 1
        BY <1>0, <1>2, <1>9 DEF n
      <4>2. NextLimb(s[b]) = 0 /\ Into(s[b]) = FoldBy
        BY <4>1 DEF NextLimb, Into
      <4>3. T[b - 1][s[b]] \in -X2 .. X2 /\ X2 \in Nat /\ C = MostCarried(X2)
        BY <1>6, <1>7, <4>1 DEF C
      <4>4. T[b - 1][0] \in -H0 .. H0
        BY <3>4, <4>1
      <4> HIDE DEF X2, H0, a, b
      <4>5. T[b][0] \in -(H0 + Into(s[b]) * MostCarried(X2)) .. H0 + Into(s[b]) * MostCarried(X2)
        BY <1>10, <3>1, <3>3, <4>1, <4>2, <4>3, <4>4, Entering
      <4>6. T[b][0] \in -(H0 + FoldBy * C) .. H0 + FoldBy * C
        BY <4>2, <4>3, <4>5
      <4> DEFINE y == FoldBy * C
      <4>7. y \in Nat /\ Z = NarrowBase + y /\ T[b][0] \in -(H0 + y) .. H0 + y /\ NarrowBase \in Nat
        BY <1>6, <1>8, <3>1, <4>6
      <4> HIDE DEF y, Z
      <4> QED BY <3>3, <4>7
    <3>6. T[b][1] \in -HalfOf(1) .. HalfOf(1)
      <4>1. 3 \in 1 .. n /\ b \in 3 .. n /\ n = Len(s) /\ 1 \in Limb
        BY <1>0 DEF n
      <4>2. ASSUME NEW v \in 3 + 1 .. b PROVE NextLimb(s[v]) # 1
        <5>1. v \in 1 .. n /\ s[v] # 0
          BY <1>0, <1>3
        <5> QED BY <1>9, <4>1, <5>1, EnteredFrom
      <4> DEFINE H1 == HalfOf(1)
      <4>3. H1 \in Nat /\ s[3] = 1
        BY <1>8, <3>2, <4>1
      <4> HIDE DEF b
      <4> QED BY <1>10, <4>1, <4>2, <4>3, Settling
    <3>7. T[n][1] \in -Y .. Y
      <4>1. n \in 1 .. Len(s) /\ n - 1 = b /\ s[n] = 0
        BY <1>0, <1>2 DEF n
      <4>2. T[n - 1][s[n]] \in -Z .. Z /\ T[n - 1][1] \in -HalfOf(1) .. HalfOf(1)
        BY <3>5, <3>6, <4>1
      <4>3. 1 \in Limb /\ HalfOf(1) \in Nat
        BY <1>0, <1>8
      <4> HIDE DEF b, Z
      <4>4. T[n][1] \in -(HalfOf(1) + Into(s[n]) * MostCarried(Z)) .. HalfOf(1) + Into(s[n]) * MostCarried(Z)
        BY <1>6, <1>10, <3>1, <4>1, <4>2, <4>3, Entering
      <4>5. Into(s[n]) * MostCarried(Z) = D
        BY <1>6, <3>1, <4>1
      <4> QED BY <2>5, <4>4, <4>5
    <3> QED BY <2>5, <3>7
  <2>6. CASE j = Half + 1 /\ Half = 1
    <3> DEFINE t == 2 * 1 + 2
    <3>1. t \in 1 .. n /\ s[t] = j
      <4>1. 1 \in 0 .. Half
        BY <1>0
      <4>2. s[t] = 1 + Half
        BY <1>1, <4>1
      <4> QED BY <1>0, <2>6, <4>2
    <3>2. ASSUME NEW v \in t + 1 .. n PROVE NextLimb(s[v]) # j
      <4>1. v \in 1 .. n /\ s[v] # j - 1
        BY <1>0, <1>3, <2>6
      <4> QED BY <1>0, <1>9, <1>11, <2>6, <4>1
    <3> HIDE DEF t
    <3> QED BY <1>13, <3>1, <3>2
  <2>7. CASE j = Half + 1 /\ Half >= 2
    <3> DEFINE a == 2 * Half - 2
               b == 2 * Half - 1
               c == 2 * Half
               d == 2 * Half + 1
               H == HalfOf(Half)
    <3>0. /\ Half \in Limb /\ Half - 1 \in Limb /\ 0 \in 0 .. Half /\ 1 \in 0 .. Half
          /\ Half - 1 \in 0 .. Half /\ Half \in 0 .. Half
      BY <1>0
    <3>1. s[2] = Half /\ s[4] = Half + 1 /\ s[b] = Half - 1 /\ s[c] = 2 * Half - 1 /\ s[d] = Half
      <4>1. s[2 * 0 + 2] = 0 + Half /\ s[2 * 1 + 2] = 1 + Half
        BY <1>1, <3>0
      <4>2. s[2 * (Half - 1) + 1] = Half - 1 /\ s[2 * (Half - 1) + 2] = (Half - 1) + Half
        BY <1>1, <3>0
      <4>3. s[2 * Half + 1] = Half
        BY <1>1, <3>0
      <4>4. /\ 2 * 0 + 2 = 2 /\ 2 * 1 + 2 = 4 /\ 0 + Half = Half /\ 1 + Half = Half + 1
            /\ 2 * (Half - 1) + 1 = 2 * Half - 1 /\ 2 * (Half - 1) + 2 = 2 * Half
            /\ (Half - 1) + Half = 2 * Half - 1
        BY <1>0
      <4> QED BY <4>1, <4>2, <4>3, <4>4
    <3>2. H \in Nat /\ H <= NarrowBase
      BY <1>8, <3>0
    <3>3. T[a][Half] \in -H .. H
      <4>1. 2 \in 1 .. n /\ a \in 2 .. n /\ n = Len(s)
        BY <1>0, <2>7 DEF n
      <4>2. ASSUME NEW v \in 2 + 1 .. a PROVE NextLimb(s[v]) # Half
        <5>1. v \in 1 .. n /\ s[v] # Half - 1
          BY <1>0, <1>3, <2>7
        <5> QED BY <1>0, <1>9, <3>0, <5>1, EnteredFrom
      <4>3. Half \in Limb /\ s[2] = Half /\ H \in Nat /\ HalfOf(Half) <= H
        BY <3>0, <3>1, <3>2
      <4> HIDE DEF a, H
      <4> QED BY <1>10, <4>1, <4>2, <4>3, Settling DEF H
    <3>4. T[b][Half] \in -Z .. Z
      <4> DEFINE X2 == 2 * X
      <4>1. b \in 1 .. Len(s) /\ b - 1 = a /\ a \in 0 .. n /\ s[b] \in Limb
        BY <1>0, <1>9, <2>7 DEF n
      <4>2. NextLimb(s[b]) = Half /\ Into(s[b]) = 1
        BY <1>0, <3>1 DEF NextLimb, Into
      <4>3. T[b - 1][s[b]] \in -X2 .. X2 /\ X2 \in Nat /\ C = MostCarried(X2)
        BY <1>6, <1>7, <4>1 DEF C
      <4>4. T[b - 1][Half] \in -H .. H
        BY <3>3, <4>1
      <4> HIDE DEF X2, H, a, b
      <4>5. T[b][Half] \in -(H + Into(s[b]) * MostCarried(X2)) .. H + Into(s[b]) * MostCarried(X2)
        BY <1>10, <3>0, <3>2, <4>1, <4>2, <4>3, <4>4, Entering
      <4>6. T[b][Half] \in -(H + C) .. H + C
        BY <1>6, <4>2, <4>3, <4>5
      <4> DEFINE y == FoldBy * C
      <4>7. /\ y \in Nat /\ Z = NarrowBase + y /\ C <= y /\ C \in Nat /\ NarrowBase \in Nat
        BY <1>6, <1>8, <3>0
      <4> HIDE DEF y, Z
      <4> QED BY <3>2, <4>6, <4>7
    <3>5. T[c][Half] \in -Z .. Z
      <4>1. b \in 0 .. Len(s) /\ c \in b .. Len(s)
        BY <1>0, <2>7 DEF n
      <4>2. ASSUME NEW v \in b + 1 .. c PROVE NextLimb(s[v]) # Half
        <5>1. v = c
          BY <1>0
        <5>2. s[v] = 2 * Half - 1
          BY <3>1, <5>1
        <5> QED BY <1>0, <2>7, <5>2 DEF NextLimb
      <4>3. Z \in Nat /\ HalfOf(Half) <= Z
        <5> DEFINE y == FoldBy * C
        <5>1. y \in Nat /\ Z = NarrowBase + y /\ H \in Nat /\ H <= NarrowBase /\ NarrowBase \in Nat
          BY <1>6, <1>8, <3>0, <3>2
        <5> HIDE DEF y, H, Z
        <5> QED BY <5>1 DEF H
      <4> HIDE DEF b, c, Z
      <4> QED BY <1>10, <3>0, <3>4, <4>1, <4>2, <4>3, Resting
    <3>6. T[c][j] \in -HalfOf(j) .. HalfOf(j)
      <4>1. 4 \in 1 .. n /\ c \in 4 .. n /\ n = Len(s)
        BY <1>0, <2>7 DEF n
      <4>2. ASSUME NEW v \in 4 + 1 .. c PROVE NextLimb(s[v]) # j
        <5>1. v \in 1 .. n /\ s[v] # Half
          BY <1>0, <1>3, <2>7
        <5> QED BY <1>0, <1>9, <1>11, <2>7, <5>1
      <4> HIDE DEF c
      <4> QED BY <1>12, <1>10, <2>7, <3>1, <4>1, <4>2, Settling
    <3>7. T[d][j] \in -Y .. Y
      <4>0. s[d] = Half /\ Half # Limbs - 1
        BY <1>0, <3>1
      <4>1. d \in 1 .. Len(s) /\ d - 1 = c /\ NextLimb(s[d]) = j /\ Into(s[d]) = 1
        <5>1. NextLimb(Half) = j /\ Into(Half) = 1
          BY <2>7, <4>0 DEF NextLimb, Into
        <5>2. d \in 1 .. Len(s) /\ d - 1 = c
          BY <1>0 DEF n
        <5> QED BY <4>0, <5>1, <5>2
      <4>2. T[d - 1][s[d]] \in -Z .. Z /\ T[d - 1][j] \in -HalfOf(j) .. HalfOf(j)
        BY <3>1, <3>5, <3>6, <4>1
      <4> HIDE DEF c, d, Z
      <4>3. T[d][j] \in -(HalfOf(j) + Into(s[d]) * MostCarried(Z)) .. HalfOf(j) + Into(s[d]) * MostCarried(Z)
        BY <1>6, <1>10, <1>12, <4>1, <4>2, Entering
      <4>4. Into(s[d]) * MostCarried(Z) = D
        BY <1>6, <4>1
      <4> QED BY <4>3, <4>4
    <3>8. d \in 0 .. Len(s) /\ n \in d .. Len(s)
      BY <1>0 DEF n
    <3>9. ASSUME NEW v \in d + 1 .. n PROVE NextLimb(s[v]) # j
      <4>0. v \in 1 .. n /\ v >= 2 * Half + 2
        BY <1>0
      <4>1. s[v] # Half
        <5>1. CASE \E k \in 0 .. Half : v = 2 * k + 1 /\ s[v] = k
          BY <1>0, <4>0, <5>1
        <5>2. CASE \E k \in 0 .. Half : v = 2 * k + 2 /\ s[v] = k + Half
          BY <1>0, <2>7, <4>0, <5>2
        <5>3. CASE v = 2 * Half + 3 /\ s[v] = 2 * Half + 1
          BY <1>0, <5>3
        <5>4. CASE v = 2 * Half + 4 /\ s[v] = 0
          BY <1>0, <5>4
        <5> QED BY <1>3, <4>0, <5>1, <5>2, <5>3, <5>4
      <4>2. j # 0 /\ j - 1 = Half
        BY <1>0, <2>7
      <4> QED BY <1>11, <4>0, <4>1, <4>2
    <3> HIDE DEF d, Y
    <3> QED BY <1>10, <1>12, <3>7, <3>8, <3>9, Resting
  <2> QED BY <1>0, <2>1, <2>2, <2>3, <2>4, <2>5, <2>6, <2>7
<1> QED BY <1>4, <1>14 DEF s, n, D

\* When the single pass visits which limb: the top one, the odd ones, the even ones.
LEMMA SinglePassOrder ==
  LET s == OnePass
  IN  /\ s \in Seq(Limb) /\ Len(s) = 2 * Half + 2
      /\ s[1] = 2 * Half + 1
      /\ \A k \in 1 .. Half : s[1 + k] = 2 * k - 1
      /\ \A k \in 0 .. Half : s[Half + 2 + k] = 2 * k
<1>0. /\ Half \in Nat /\ Half >= 1 /\ Limbs = 2 * Half + 2 /\ Limb = 0 .. 2 * Half + 1
  BY ProductOrder
<1> DEFINE s == OnePass
           p == <<Limbs - 1>>
           q == [n \in 1 .. Half |-> 2 * n - 1]
           m == Half + 1
           r == [n \in 1 .. m |-> 2 * (n - 1)]
           pq == p \o q
<1>1. s \in Seq(Limb)
  BY Orders
<1>2. s = pq \o r
  BY DEF OnePass
<1>3. p \in Seq(Int) /\ Len(p) = 1 /\ p[1] = 2 * Half + 1
  BY <1>0
<1>4. q \in Seq(Int) /\ Len(q) = Half
  <2>1. q \in [1 .. Half -> Int]
    BY <1>0
  <2> HIDE DEF q
  <2> QED BY <1>0, <2>1, SeqOfFunction
<1>5. r \in Seq(Int) /\ Len(r) = m /\ m \in Nat
  <2>0. m \in Nat /\ \A n \in 1 .. m : 2 * (n - 1) \in Int
    BY <1>0
  <2> HIDE DEF m
  <2>1. r \in [1 .. m -> Int]
    BY <2>0
  <2> HIDE DEF r
  <2> QED BY <2>0, <2>1, SeqOfFunction
<1>6. \A n \in 1 .. Half : q[n] = 2 * n - 1
  OBVIOUS
<1>7. \A n \in 1 .. m : r[n] = 2 * (n - 1)
  OBVIOUS
<1>8. m = Half + 1
  OBVIOUS
<1> HIDE DEF s, p, q, r, m
<1>9. /\ pq \in Seq(Int) /\ Len(pq) = 1 + Half
      /\ \A t \in 1 .. 1 + Half : pq[t] = IF t <= 1 THEN p[t] ELSE q[t - 1]
  <2>1. /\ pq \in Seq(Int) /\ Len(pq) = Len(p) + Len(q)
        /\ \A t \in 1 .. Len(p) + Len(q) : pq[t] = IF t <= Len(p) THEN p[t] ELSE q[t - Len(p)]
    BY <1>3, <1>4, ConcatProperties
  <2> QED BY <1>3, <1>4, <2>1
<1> HIDE DEF pq
<1>10. /\ Len(s) = (1 + Half) + m
       /\ \A t \in 1 .. (1 + Half) + m : s[t] = IF t <= 1 + Half THEN pq[t] ELSE r[t - (1 + Half)]
  <2>1. /\ Len(s) = Len(pq) + Len(r)
        /\ \A t \in 1 .. Len(pq) + Len(r) : s[t] = IF t <= Len(pq) THEN pq[t] ELSE r[t - Len(pq)]
    BY <1>2, <1>5, <1>9, ConcatProperties
  <2> QED BY <1>5, <1>9, <2>1
<1>11. s[1] = 2 * Half + 1
  <2>1. 1 \in 1 .. (1 + Half) + m /\ 1 <= 1 + Half /\ 1 \in 1 .. 1 + Half /\ 1 <= 1
    BY <1>0, <1>5
  <2> QED BY <1>3, <1>9, <1>10, <2>1
<1>12. ASSUME NEW k \in 1 .. Half
       PROVE  s[1 + k] = 2 * k - 1
  <2>1. /\ 1 + k \in 1 .. (1 + Half) + m /\ 1 + k <= 1 + Half /\ 1 + k \in 1 .. 1 + Half
        /\ ~(1 + k <= 1) /\ (1 + k) - 1 = k
    BY <1>0, <1>5
  <2>2. s[1 + k] = pq[1 + k]
    BY <1>10, <2>1
  <2>3. pq[1 + k] = q[k]
    BY <1>9, <2>1
  <2> QED BY <1>6, <2>2, <2>3
<1>13. ASSUME NEW k \in 0 .. Half
       PROVE  s[Half + 2 + k] = 2 * k
  <2> DEFINE t == Half + 2 + k
  <2>1. /\ t \in 1 .. (1 + Half) + m /\ ~(t <= 1 + Half) /\ t - (1 + Half) = k + 1
        /\ k + 1 \in 1 .. m /\ 2 * ((k + 1) - 1) = 2 * k
    BY <1>0, <1>8
  <2> HIDE DEF t
  <2>2. s[t] = r[k + 1]
    BY <1>10, <2>1
  <2>3. r[k + 1] = 2 * ((k + 1) - 1)
    BY <1>7, <2>1
  <2> QED BY <2>1, <2>2, <2>3 DEF t
<1>14. Len(s) = 2 * Half + 2
  BY <1>0, <1>8, <1>10
<1> QED BY <1>1, <1>11, <1>12, <1>13, <1>14 DEF s

\* After the single pass every even limb is at most half a limb, every odd one
\* that and what one carry adds.
LEMMA SinglePassSettles ==
  ASSUME NEW h \in Vector, NEW X, Roomy(OnePass, h, X), NEW j \in Limb
  PROVE  Carries(h, OnePass)[j]
           \in -(HalfOf(j) + MostCarried(2 * X)) .. HalfOf(j) + MostCarried(2 * X)
<1> DEFINE s == OnePass
           n == Len(s)
           C == MostCarried(2 * X)
           Y == HalfOf(j) + C
<1>0. /\ Half \in Nat /\ Half >= 1 /\ Limbs = 2 * Half + 2 /\ Limb = 0 .. 2 * Half + 1
  BY ProductOrder
<1>1. s \in Seq(Limb) /\ n = 2 * Half + 2 /\ s[1] = 2 * Half + 1
  BY SinglePassOrder
<1>2. \A k \in 1 .. Half : s[1 + k] = 2 * k - 1
  BY SinglePassOrder
<1>3. \A k \in 0 .. Half : s[Half + 2 + k] = 2 * k
  BY SinglePassOrder
<1>4. PICK T : Running(T, s, h) /\ Carries(h, s) = T[n]
  BY <1>1, CarriesRun
<1>5. X \in Nat /\ Roomy(s, h, X)
  BY DEF Roomy
<1>6. 2 * X \in Nat /\ C \in Nat
  BY <1>5, SmallTyped
<1>7. \A m \in 0 .. n, i \in Limb : T[m][i] \in -(2 * X) .. 2 * X
  BY <1>4, <1>5, NeverTwice
<1>8. HalfOf(j) \in Nat /\ Y \in Nat /\ HalfOf(j) <= Y
  <2>1. HalfOf(j) \in Nat
    BY FieldHalves
  <2> QED BY <1>6, <2>1
<1>9. \A v \in 1 .. n : s[v] \in Limb
  BY <1>1
<1>10. Running(T, s, h)
  BY <1>4
<1> HIDE DEF s, C
<1>11. \A v \in 1 .. Half + 1 : \E i \in 0 .. Half : s[v] = 2 * i + 1
  <2> TAKE v \in 1 .. Half + 1
  <2>1. CASE v = 1
    <3>1. Half \in 0 .. Half
      BY <1>0
    <3> QED BY <1>1, <2>1, <3>1
  <2>2. CASE v # 1
    <3> DEFINE k == v - 1
    <3>1. k \in 1 .. Half /\ 1 + k = v /\ k - 1 \in 0 .. Half /\ 2 * k - 1 = 2 * (k - 1) + 1
      BY <1>0, <2>2
    <3> HIDE DEF k
    <3>2. s[v] = 2 * (k - 1) + 1
      BY <1>2, <3>1
    <3> QED BY <3>1, <3>2
  <2> QED BY <2>1, <2>2
<1>12. \A v \in Half + 2 .. n : s[v] = 2 * (v - Half - 2)
  <2> TAKE v \in Half + 2 .. n
  <2> DEFINE k == v - Half - 2
  <2>1. k \in 0 .. Half /\ Half + 2 + k = v
    BY <1>0, <1>1
  <2> HIDE DEF k
  <2>2. s[v] = 2 * k
    BY <1>3, <2>1
  <2> QED BY <2>2 DEF k
<1> HIDE DEF n
<1>13. \A v \in 1 .. n : j # 0 /\ s[v] # j - 1 => NextLimb(s[v]) # j
  BY <1>9, EnteredFrom
<1>14. T[n][j] \in -Y .. Y
  <2>1. CASE j % 2 = 0
    <3> DEFINE i == j \div 2
               t == Half + 2 + i
    <3>1. i \in 0 .. Half /\ j = 2 * i
      BY <1>0, <2>1
    <3> HIDE DEF i
    <3>2. s[t] = j /\ t \in 1 .. n /\ t >= Half + 2
      BY <1>0, <1>1, <1>3, <3>1
    <3>3. ASSUME NEW v \in t + 1 .. n PROVE NextLimb(s[v]) # j
      <4>1. v \in 1 .. n /\ v \in Half + 2 .. n
        BY <1>0, <1>1, <3>1
      <4>2. s[v] = 2 * (v - Half - 2)
        BY <1>12, <4>1
      <4>3. CASE j = 0
        <5>1. s[v] # Limbs - 1
          BY <1>0, <4>1, <4>2
        <5> QED BY <1>9, <4>1, <4>3, <5>1, EnteredFrom
      <4>4. CASE j # 0
        <5>1. s[v] # j - 1
          BY <1>0, <1>1, <3>1, <4>1, <4>2
        <5> QED BY <1>13, <4>1, <4>4, <5>1
      <4> QED BY <4>3, <4>4
    <3>4. n \in t .. n /\ n = Len(s)
      BY <1>1, <3>2 DEF n
    <3> HIDE DEF t, Y
    <3> QED BY <1>8, <1>10, <3>2, <3>3, <3>4, Settling
  <2>2. CASE j % 2 # 0
    <3> DEFINE i == j \div 2
               a == Half + 1 + i
               b == Half + 2 + i
    <3>1. i \in 0 .. Half /\ j = 2 * i + 1 /\ j # 0 /\ j - 1 = 2 * i
      BY <1>0, <2>2
    <3> HIDE DEF i
    <3>2. PICK t \in 1 .. Half + 1 : s[t] = j
      <4>1. CASE i = Half
        <5>1. 1 \in 1 .. Half + 1 /\ s[1] = j
          BY <1>0, <1>1, <3>1, <4>1
        <5> QED BY <5>1
      <4>2. CASE i # Half
        <5> DEFINE k == i + 1
        <5>1. k \in 1 .. Half /\ 1 + k \in 1 .. Half + 1 /\ 2 * k - 1 = j
          BY <1>0, <3>1, <4>2
        <5> HIDE DEF k
        <5> QED BY <1>2, <5>1
      <4> QED BY <4>1, <4>2
    <3>3. T[a][j] \in -HalfOf(j) .. HalfOf(j)
      <4>1. t \in 1 .. Len(s) /\ a \in t .. Len(s) /\ Len(s) = n
        BY <1>0, <1>1, <3>1 DEF n
      <4>2. ASSUME NEW v \in t + 1 .. a PROVE NextLimb(s[v]) # j
        <5>1. v \in 1 .. n
          BY <1>0, <1>1, <3>1
        <5>2. s[v] # 2 * i
          <6>1. CASE v <= Half + 1
            <7>1. v \in 1 .. Half + 1
              BY <5>1, <6>1
            <7>2. PICK e \in 0 .. Half : s[v] = 2 * e + 1
              BY <1>11, <7>1
            <7> QED BY <3>1, <7>2
          <6>2. CASE v > Half + 1
            <7>1. v \in Half + 2 .. n /\ v - Half - 2 < i
              BY <1>0, <1>1, <3>1, <5>1, <6>2
            <7>2. s[v] = 2 * (v - Half - 2)
              BY <1>12, <7>1
            <7> QED BY <1>0, <3>1, <5>1, <7>1, <7>2
          <6> QED BY <1>0, <5>1, <6>1, <6>2
        <5> QED BY <1>13, <3>1, <5>1, <5>2
      <4> HIDE DEF a
      <4> QED BY <1>8, <1>10, <3>2, <4>1, <4>2, Settling
    <3>4. s[b] = 2 * i /\ b \in 1 .. Len(s) /\ b - 1 = a /\ a \in 0 .. n /\ b \in 1 .. n
      BY <1>0, <1>1, <1>3, <3>1 DEF n
    <3>5. NextLimb(s[b]) = j /\ Into(s[b]) = 1
      BY <1>0, <3>1, <3>4 DEF NextLimb, Into
    <3>6. T[b][j] \in -Y .. Y
      <4> DEFINE X2 == 2 * X
      <4>1. T[b - 1][s[b]] \in -X2 .. X2 /\ X2 \in Nat /\ C = MostCarried(X2)
        <5>1. s[b] \in Limb
          BY <1>9, <3>4
        <5> QED BY <1>6, <1>7, <3>4, <5>1 DEF C
      <4>2. T[b - 1][j] \in -HalfOf(j) .. HalfOf(j)
        BY <3>3, <3>4
      <4> HIDE DEF X2, a, b
      <4>3. T[b][j] \in -(HalfOf(j) + Into(s[b]) * MostCarried(X2)) .. HalfOf(j) + Into(s[b]) * MostCarried(X2)
        BY <1>8, <1>10, <3>4, <3>5, <4>1, <4>2, Entering
      <4>4. Into(s[b]) * MostCarried(X2) = C
        BY <1>6, <3>5, <4>1
      <4> QED BY <4>3, <4>4
    <3>7. b \in 0 .. Len(s) /\ n \in b .. Len(s)
      BY <1>0, <1>1, <3>4 DEF n
    <3>8. ASSUME NEW v \in b + 1 .. n PROVE NextLimb(s[v]) # j
      <4>1. v \in 1 .. n /\ v \in Half + 2 .. n /\ v - Half - 2 > i
        BY <1>0, <3>1, <3>4
      <4>2. s[v] = 2 * (v - Half - 2)
        BY <1>12, <4>1
      <4>3. s[v] # 2 * i
        BY <1>0, <3>1, <4>1, <4>2
      <4> QED BY <1>13, <3>1, <4>1, <4>3
    <3> HIDE DEF b, Y
    <3> QED BY <1>8, <1>10, <3>6, <3>7, <3>8, Resting
  <2> QED BY <2>1, <2>2
<1> QED BY <1>4, <1>14 DEF s, n, C

\* The most a limb can be where it is multiplied: three elements, and the
\* constants that were added up.
EvenMost == 3 * EvenBound + MostOnes
OddMost == 3 * OddBound + MostOnes

\* The most a limb can be before it is carried: after fe_mul and fe_sq (fe_sq2
\* twice that), after fe_mul121666, after fe_frombytes.
ProductMost == Limbs * (FoldBy * (EvenMost * EvenMost))
ConstantMost == NarrowBase + Coefficient * EvenMost
LoadedMost == Power(2, EvenBits + (ByteWidth - 1))

\* Half a limb and this much make an element.
Settles(c) == NarrowBase + c <= EvenBound /\ Power(2, OddBits - 1) + c <= OddBound

\* What widths and bounds have to satisfy: there is room for all the carries, odd
\* limbs are enough smaller that meeting twice makes up for it, what is left after
\* carrying is within the bounds, and two elements are below twice their place.
FieldFits ==
  /\ 4 * ((Limbs + 2) * FoldBy) <= NarrowBase
  /\ OddMost <= EvenMost /\ 2 * (OddMost * OddMost) <= EvenMost * EvenMost
  /\ Settles(SmallCarry(2 * ProductMost))
  /\ Settles(MostCarried(2 * ConstantMost))
  /\ Settles(MostCarried(2 * LoadedMost))
  /\ 2 * EvenBound + MostOnes <= 4 * NarrowBase /\ 2 * OddBound + MostOnes <= 2 * NarrowBase

\* The bounds are numbers.
LEMMA BoundsTyped ==
  /\ MostOnes \in Nat /\ MostOnes >= 1 /\ EvenBound \in Nat /\ OddBound \in Nat
  /\ EvenMost \in Nat /\ OddMost \in Nat /\ ProductMost \in Nat /\ ConstantMost \in Nat
  /\ LoadedMost \in Nat /\ MaxFieldOps \in Nat
  /\ \A i \in Limb : Bound(i) \in Nat
<1>1. EvenBound \in Nat /\ OddBound \in Nat /\ MaxFieldOps \in Nat /\ Coefficient \in Nat /\ ByteWidth - 1 \in Nat
  BY FieldAssumption
<1>2. MostOnes \in Nat \ {0}
  BY DEF MostOnes
<1>3. EvenMost \in Nat /\ OddMost \in Nat
  BY <1>1, <1>2 DEF EvenMost, OddMost
<1>4. ProductMost \in Nat
  <2>1. EvenMost * EvenMost \in Nat
    BY <1>3
  <2>2. FoldBy * (EvenMost * EvenMost) \in Nat
    BY <2>1, Sizes
  <2> QED BY <2>2, Sizes DEF ProductMost
<1>5. ConstantMost \in Nat
  <2>1. NarrowBase \in Nat /\ Coefficient * EvenMost \in Nat
    BY <1>1, <1>3, FieldHalves
  <2> QED BY <2>1 DEF ConstantMost
<1>6. LoadedMost \in Nat
  <2>1. 2 \in Nat \ {0} /\ EvenBits + (ByteWidth - 1) \in Nat
    BY <1>1, Sizes
  <2> QED BY <2>1, PowerPositive DEF LoadedMost
<1>7. \A i \in Limb : Bound(i) \in Nat
  BY <1>1 DEF Bound
<1> QED BY <1>1, <1>2, <1>3, <1>4, <1>5, <1>6, <1>7

\* There is room for the carries of any vector whose limbs need any.
LEMMA EnoughRoom ==
  ASSUME FieldFits, NEW h \in Vector, NEW X \in Nat, NarrowBase <= X,
         \A j \in Limb : h[j] \in -X .. X
  PROVE  Roomy(ProductCarries, h, X) /\ Roomy(OnePass, h, X)
<1> DEFINE r == NarrowBase
           A == (Limbs + 2) * FoldBy
           y == 2 * X
           q == y \div r
<1>1. r \in Nat \ {0} /\ A \in Nat /\ 4 * A <= r /\ y \in Nat /\ FoldBy \in Nat /\ Limbs \in Nat
  <2>1. Limbs + 2 \in Nat /\ FoldBy \in Nat /\ Limbs \in Nat
    BY Sizes
  <2>2. A \in Nat
    BY <2>1
  <2> QED BY <2>1, <2>2, FieldHalves DEF FieldFits
<1>2. r <= X /\ y = 2 * X /\ X \in Nat
  OBVIOUS
<1>3. MostCarried(2 * X) = q + 1
  BY DEF MostCarried
<1>a. A = (Limbs + 2) * FoldBy
  OBVIOUS
<1> HIDE DEF r, A, y
<1>4. q \in Nat /\ r * q <= y
  <2>1. y = r * q + (y % r) /\ y % r \in 0 .. r - 1 /\ q \in Nat
    BY <1>1
  <2>2. r * q \in Nat
    BY <1>1, <2>1
  <2> HIDE DEF q
  <2> QED BY <1>1, <2>1, <2>2
<1> HIDE DEF q
<1>5. A * (q + 1) <= X /\ A * (q + 1) \in Nat
  <2>1. (4 * A) * q <= r * q
    BY <1>1, <1>4
  <2>2. (4 * A) * q = 4 * (A * q) /\ A * q \in Nat /\ r * q \in Nat
    BY <1>1, <1>4
  <2>3. A * (q + 1) = A * q + A
    BY <1>1, <1>4
  <2> DEFINE b == A * q
             c == r * q
  <2>4. b \in Nat /\ c \in Nat /\ 4 * b <= c /\ c <= y
    BY <1>4, <2>1, <2>2
  <2> HIDE DEF b, c
  <2>5. b + A <= X
    BY <1>1, <1>2, <2>4
  <2> QED BY <1>1, <2>3, <2>4, <2>5 DEF b
<1>6. (Limbs + 2) * (FoldBy * (q + 1)) = A * (q + 1)
  BY <1>1, <1>4, <1>a
<1>7. Limbs * (FoldBy * (q + 1)) <= (Limbs + 2) * (FoldBy * (q + 1))
  <2> DEFINE z == FoldBy * (q + 1)
  <2>1. z \in Nat
    BY <1>1, <1>4
  <2> HIDE DEF z
  <2>2. (Limbs + 2) * z = Limbs * z + 2 * z
    BY <1>1, <2>1
  <2>3. Limbs * z \in Nat
    BY <1>1, <2>1
  <2>4. Limbs * z <= (Limbs + 2) * z
    BY <2>1, <2>2, <2>3
  <2> QED BY <2>4 DEF z
<1>8. Len(ProductCarries) = Limbs + 2 /\ Len(OnePass) = Limbs
  <2>1. Len(ProductCarries) = 2 * Half + 4 /\ Limbs = 2 * Half + 2 /\ Half \in Nat
    BY ProductOrder
  <2>2. Len(OnePass) = 2 * Half + 2
    BY SinglePassOrder
  <2> QED BY <2>1, <2>2
<1> DEFINE L1 == (Limbs + 2) * (FoldBy * (q + 1))
           L2 == Limbs * (FoldBy * (q + 1))
<1>9. L1 <= X /\ L2 <= X
  <2>1. L2 \in Nat /\ L1 \in Nat
    <3>1. FoldBy * (q + 1) \in Nat
      BY <1>1, <1>4
    <3> QED BY <1>1, <3>1
  <2>2. L1 = A * (q + 1) /\ L2 <= L1
    BY <1>6, <1>7
  <2> HIDE DEF L1, L2
  <2> QED BY <1>2, <1>5, <2>1, <2>2
<1>10. L1 = Len(ProductCarries) * (FoldBy * MostCarried(2 * X))
  BY <1>3, <1>8
<1>11. L2 = Len(OnePass) * (FoldBy * MostCarried(2 * X))
  BY <1>3, <1>8
<1> HIDE DEF L1, L2
<1> QED BY <1>9, <1>10, <1>11 DEF Roomy

\* k reduced elements and p besides.
Fits(h, k, p) == h \in Vector /\ \A i \in Limb : h[i] \in -(Bound(i) * k + p) .. Bound(i) * k + p

\* Half a limb and what settles are one element.
LEMMA SettledFits ==
  ASSUME NEW h \in Vector, NEW c \in Nat, Settles(c),
         \A j \in Limb : h[j] \in -(HalfOf(j) + c) .. HalfOf(j) + c
  PROVE  Fits(h, 1, 0)
<1> SUFFICES ASSUME NEW i \in Limb PROVE h[i] \in -(Bound(i) * 1 + 0) .. Bound(i) * 1 + 0
  BY DEF Fits
<1>1. Bound(i) \in Nat /\ Bound(i) * 1 + 0 = Bound(i)
  BY BoundsTyped
<1>2. HalfOf(i) + c <= Bound(i) /\ HalfOf(i) \in Nat
  <2>0. HalfOf(i) \in Nat
    BY FieldHalves
  <2>1. CASE i % 2 = 0
    <3>1. Bound(i) = EvenBound /\ HalfOf(i) <= NarrowBase /\ NarrowBase \in Nat /\ EvenBound \in Nat
      BY <2>1, FieldHalves, BoundsTyped DEF Bound
    <3> QED BY <2>0, <3>1 DEF Settles
  <2>2. CASE i % 2 # 0
    <3>1. Bound(i) = OddBound /\ Width(i) = OddBits
      BY <2>2 DEF Bound, Width
    <3>2. HalfOf(i) = Power(2, OddBits - 1)
      BY <3>1 DEF HalfOf
    <3> QED BY <2>0, <3>1, <3>2 DEF Settles
  <2> QED BY <2>1, <2>2
<1>3. h[i] \in -Bound(i) .. Bound(i)
  BY <1>1, <1>2
<1> QED BY <1>1, <1>3

\* After the two orders of carrying, from not too large limbs, an element is reduced.
LEMMA CarriedFits ==
  ASSUME FieldFits, NEW h \in Vector, NEW X \in Nat, NarrowBase <= X,
         \A j \in Limb : h[j] \in -X .. X
  PROVE  /\ Settles(SmallCarry(X)) => Fits(Carries(h, ProductCarries), 1, 0)
         /\ Settles(MostCarried(2 * X)) => Fits(Carries(h, OnePass), 1, 0)
<1>1. Roomy(ProductCarries, h, X) /\ Roomy(OnePass, h, X)
  BY EnoughRoom
<1>2. Carries(h, ProductCarries) \in Vector /\ Carries(h, OnePass) \in Vector
  BY Orders, CarriesKeep
<1>3. SmallCarry(X) \in Nat /\ MostCarried(2 * X) \in Nat
  BY SmallTyped
<1>4. \A j \in Limb : Carries(h, ProductCarries)[j]
                        \in -(HalfOf(j) + SmallCarry(X)) .. HalfOf(j) + SmallCarry(X)
  BY <1>1, ProductSettles
<1>5. \A j \in Limb : Carries(h, OnePass)[j]
                        \in -(HalfOf(j) + MostCarried(2 * X)) .. HalfOf(j) + MostCarried(2 * X)
  BY <1>1, SinglePassSettles
<1>6. Settles(SmallCarry(X)) => Fits(Carries(h, ProductCarries), 1, 0)
  BY <1>2, <1>3, <1>4, SettledFits
<1>7. Settles(MostCarried(2 * X)) => Fits(Carries(h, OnePass), 1, 0)
  BY <1>2, <1>3, <1>5, SettledFits
<1> QED BY <1>6, <1>7

\* A sum of n numbers of at most B.
LEMMA SumWithinBoth ==
  ASSUME NEW n \in Nat, NEW f, NEW B \in Nat, \A i \in 0 .. n - 1 : f[i] \in -B .. B
  PROVE  SumTo(n, f) \in -(n * B) .. n * B /\ n * B \in Nat
<1>1. Ints(f, n)
  BY DEF Ints
<1> DEFINE S == {m \in Nat : m <= n => SumTo(m, f) \in -(m * B) .. m * B}
<1>2. 0 \in S
  BY <1>1, SumSteps
<1>3. ASSUME NEW m \in Nat, m \in S PROVE m + 1 \in S
  <2> SUFFICES ASSUME m + 1 <= n PROVE SumTo(m + 1, f) \in -((m + 1) * B) .. (m + 1) * B
    OBVIOUS
  <2>1. m \in 0 .. n - 1
    OBVIOUS
  <2>2. SumTo(m + 1, f) = SumTo(m, f) + f[m] /\ SumTo(m, f) \in -(m * B) .. m * B /\ f[m] \in -B .. B
    BY <1>1, <1>3, <2>1, SumSteps
  <2>3. (m + 1) * B = m * B + B /\ m * B \in Nat
    OBVIOUS
  <2> DEFINE a == SumTo(m, f)
             b == f[m]
             c == m * B
  <2>4. a \in -c .. c /\ b \in -B .. B /\ c \in Nat
    BY <2>2, <2>3
  <2> HIDE DEF a, b, c
  <2>5. a + b \in -(c + B) .. c + B
    BY <2>4
  <2> QED BY <2>2, <2>3, <2>5 DEF a, b, c
<1>4. n \in S
  <2> HIDE DEF S
  <2> QED BY <1>2, <1>3, FromZero
<1> QED BY <1>4

\* The most of each limb that is multiplied.
LimbMost(i) == IF i % 2 = 0 THEN EvenMost ELSE OddMost

\* What is within three elements is within it.
LEMMA FitsMost ==
  ASSUME NEW h, NEW k \in 0 .. 3, NEW p \in 0 .. MostOnes, Fits(h, k, p), NEW i \in Limb
  PROVE  h[i] \in -LimbMost(i) .. LimbMost(i) /\ LimbMost(i) \in Nat
<1> DEFINE b == Bound(i)
           y == b * k
<1>0. MostOnes \in Nat /\ b \in Nat
  BY BoundsTyped
<1>1. LimbMost(i) = 3 * b + MostOnes
  BY DEF LimbMost, Bound, EvenMost, OddMost
<1>2. h[i] \in -(b * k + p) .. b * k + p
  BY DEF Fits
<1> HIDE DEF b
<1>3. y \in Nat /\ y <= 3 * b
  BY <1>0
<1> HIDE DEF y
<1>4. h[i] \in -(y + p) .. y + p
  BY <1>2 DEF y
<1> QED BY <1>0, <1>1, <1>3, <1>4

\* No column of a product exceeds ProductMost.
LEMMA ColumnWithin ==
  ASSUME FieldFits, NEW f, NEW k \in 0 .. 3, NEW p \in 0 .. MostOnes, Fits(f, k, p),
         NEW g, NEW l \in 0 .. 3, NEW q \in 0 .. MostOnes, Fits(g, l, q), NEW c \in Limb
  PROVE  Products(f, g)[c] \in -ProductMost .. ProductMost
<1> DEFINE B == FoldBy * (EvenMost * EvenMost)
           w == Meeting(f, g, c)
<1>0. /\ Limbs \in Nat /\ f \in Vector /\ g \in Vector /\ FoldBy \in Nat /\ FoldBy >= 1
      /\ EvenMost \in Nat /\ OddMost \in Nat /\ Limb = 0 .. Limbs - 1
  BY Sizes, FieldAssumption, BoundsTyped DEF Fits, Limb
<1>1. /\ Products(f, g)[c] = SumTo(Limbs, w)
      /\ \A i \in 0 .. Limbs - 1 : w[i] = Weight(i, Other(c, i)) * f[i] * g[Other(c, i)]
  BY <1>0, MeetingTyped
<1> HIDE DEF w
<1>2. B \in Nat
  <2>1. EvenMost * EvenMost \in Nat
    BY <1>0
  <2> QED BY <1>0, <2>1
<1>3. ASSUME NEW i \in 0 .. Limbs - 1
      PROVE  w[i] \in -B .. B
  <2> DEFINE o == Other(c, i)
             x == f[i]
             y == g[o]
             a == LimbMost(i)
             b == LimbMost(o)
             m == Weight(i, o)
  <2>1. i \in Limb /\ o \in Limb
    BY <1>0, Others
  <2>2. x \in -a .. a /\ a \in Nat /\ y \in -b .. b /\ b \in Nat
    BY <2>1, FitsMost
  <2>3. w[i] = m * x * y
    BY <1>1
  <2>4. m \in Nat /\ m * (a * b) <= B
    <3> DEFINE F == IF i + o >= Limbs THEN FoldBy ELSE 1
               Em == EvenMost
               O == OddMost
    <3>1. F \in Nat /\ F >= 1 /\ F <= FoldBy
      BY <1>0
    <3>2. Em \in Nat /\ O \in Nat /\ O <= Em /\ 2 * (O * O) <= Em * Em
      BY <1>0 DEF FieldFits
    <3>3. F * (Em * Em) <= B /\ F * (Em * Em) \in Nat
      <4> DEFINE e == Em * Em
      <4>1. e \in Nat /\ B = FoldBy * e
        BY <3>2
      <4> HIDE DEF e, F, B
      <4>2. F * e <= FoldBy * e /\ F * e \in Nat
        BY <1>0, <3>1, <4>1
      <4> QED BY <4>1, <4>2 DEF e
    <3> HIDE DEF o, Em, O, B
    <3>4. CASE i % 2 = 1 /\ o % 2 = 1
      <4>1. m = 2 * F /\ a = O /\ b = O
        BY <3>4 DEF Weight, LimbMost, O
      <4> HIDE DEF F, a, b, m
      <4>2. m * (a * b) = F * (2 * (O * O)) /\ m \in Nat
        BY <3>1, <3>2, <4>1
      <4>3. F * (2 * (O * O)) <= F * (Em * Em)
        <5> DEFINE s == 2 * (O * O)
                   t == Em * Em
        <5>1. s \in Nat /\ t \in Nat /\ s <= t
          BY <3>2
        <5> HIDE DEF s, t
        <5>2. F * s <= F * t
          BY <3>1, <5>1
        <5> QED BY <5>2 DEF s, t
      <4>4. F * (2 * (O * O)) \in Nat
        <5>1. 2 * (O * O) \in Nat
          BY <3>2
        <5> QED BY <3>1, <5>1
      <4> QED BY <1>2, <3>3, <4>2, <4>3, <4>4
    <3>5. CASE ~(i % 2 = 1 /\ o % 2 = 1)
      <4>1. m = 1 * F
        BY <3>5 DEF Weight
      <4>2. a \in {Em, O} /\ b \in {Em, O}
        BY DEF LimbMost, Em, O
      <4> HIDE DEF F, a, b, m
      <4>3. a \in Nat /\ b \in Nat /\ a <= Em /\ b <= Em
        BY <3>2, <4>2
      <4>4. a * b <= Em * Em /\ a * b \in Nat /\ Em * Em \in Nat
        <5>1. a * b <= Em * b /\ Em * b <= Em * Em
          BY <3>2, <4>3
        <5>2. a * b \in Nat /\ Em * b \in Nat /\ Em * Em \in Nat
          BY <3>2, <4>3
        <5> QED BY <5>1, <5>2
      <4>5. m = F /\ m \in Nat
        BY <3>1, <4>1
      <4> DEFINE s == a * b
                 t == Em * Em
      <4>6. s \in Nat /\ t \in Nat /\ s <= t
        BY <4>4
      <4> HIDE DEF s, t
      <4>7. F * s <= F * t /\ F * s \in Nat
        BY <3>1, <4>6
      <4> QED BY <1>2, <3>3, <4>5, <4>7 DEF s, t
    <3> QED BY <3>4, <3>5
  <2> HIDE DEF o, x, y, a, b, m, B
  <2>5. x * y \in -(a * b) .. a * b /\ a * b \in Nat
    BY <2>2, ProductBound
  <2> DEFINE z == x * y
             n == a * b
  <2>6. z \in -n .. n /\ n \in Nat
    BY <2>5
  <2>7. m * x * y = m * z
    BY <2>2, <2>4
  <2> HIDE DEF z, n
  <2>8. m \in -m .. m
    BY <2>4
  <2>9. m * z \in -(m * n) .. m * n
    BY <2>4, <2>6, <2>8, ProductBound
  <2>10. m * n <= B /\ m * n \in Nat
    BY <2>4, <2>6 DEF n
  <2> QED BY <1>2, <2>3, <2>7, <2>9, <2>10
<1>4. SumTo(Limbs, w) \in -(Limbs * B) .. Limbs * B
  <2> HIDE DEF B
  <2> QED BY <1>0, <1>2, <1>3, SumWithinBoth
<1> QED BY <1>1, <1>4 DEF ProductMost

\* A product's bound is beyond a limb's width.
LEMMA ProductIsLarge ==
  ASSUME FieldFits
  PROVE  /\ 2 * ProductMost \in Nat /\ NarrowBase <= 2 * ProductMost /\ ProductMost <= 2 * ProductMost
         /\ OddMost <= EvenMost /\ EvenMost \in Nat
<1>1. ProductMost \in Nat /\ EvenMost \in Nat /\ EvenBound \in Nat /\ MostOnes \in Nat /\ OddMost \in Nat
  BY BoundsTyped
<1>2. NarrowBase \in Nat \ {0}
  BY FieldHalves
<1>3. SmallCarry(2 * ProductMost) \in Nat
  <2>1. 2 * ProductMost \in Nat
    BY <1>1
  <2> HIDE DEF ProductMost
  <2> QED BY <2>1, SmallTyped
<1>4. NarrowBase <= EvenMost
  <2>1. NarrowBase + SmallCarry(2 * ProductMost) <= EvenBound
    BY DEF FieldFits, Settles
  <2>2. NarrowBase <= EvenBound
    BY <1>1, <1>2, <1>3, <2>1
  <2>3. EvenBound <= EvenMost
    BY <1>1 DEF EvenMost
  <2> QED BY <1>1, <1>2, <2>2, <2>3
<1> DEFINE Em == EvenMost
           s == Em * Em
           t == FoldBy * s
<1>5. Em \in Nat /\ Em >= 1
  BY <1>1, <1>2, <1>4
<1>6. ProductMost = Limbs * t
  BY DEF ProductMost
<1> HIDE DEF Em
<1>7. s \in Nat /\ Em <= s
  BY <1>5
<1> HIDE DEF s
<1>8. t \in Nat /\ s <= t
  BY <1>7, Sizes, FieldAssumption
<1> HIDE DEF t
<1>9. t <= Limbs * t
  BY <1>8, Sizes
<1>10. NarrowBase <= ProductMost
  BY <1>1, <1>2, <1>4, <1>5, <1>6, <1>7, <1>8, <1>9 DEF Em
<1>11. OddMost <= EvenMost
  BY DEF FieldFits
<1> QED BY <1>1, <1>2, <1>10, <1>11

\* What is multiplied comes back reduced.
LEMMA ProductFits ==
  ASSUME FieldFits, NEW f, NEW k \in 0 .. 3, NEW p \in 0 .. MostOnes, Fits(f, k, p),
         NEW g, NEW l \in 0 .. 3, NEW q \in 0 .. MostOnes, Fits(g, l, q)
  PROVE  Fits(FeMul(f, g), 1, 0) /\ Fits(FeSq(f), 1, 0) /\ Fits(FeSq2(f), 1, 0)
<1> DEFINE X == 2 * ProductMost
           P == ProductMost
<1>0. f \in Vector /\ g \in Vector
  BY DEF Fits
<1>1. X \in Nat /\ NarrowBase <= X /\ P <= X /\ P \in Nat /\ X = 2 * P
  BY ProductIsLarge, BoundsTyped
<1>2. Settles(SmallCarry(X))
  BY DEF FieldFits
<1>3. \A c \in Limb : Products(f, g)[c] \in -P .. P
  BY ColumnWithin
<1>4. \A c \in Limb : Products(f, f)[c] \in -P .. P
  BY ColumnWithin
<1> HIDE DEF X, P
<1>5. ASSUME NEW h \in Vector, \A c \in Limb : h[c] \in -X .. X
      PROVE  Fits(Carries(h, ProductCarries), 1, 0)
  BY <1>1, <1>2, <1>5, CarriedFits
<1>6. Fits(FeMul(f, g), 1, 0)
  <2>1. Products(f, g) \in Vector
    BY <1>0, ProductsTyped
  <2>2. \A c \in Limb : Products(f, g)[c] \in -X .. X
    BY <1>1, <1>3
  <2> QED BY <1>5, <2>1, <2>2 DEF FeMul
<1>7. Squares(f) = Products(f, f) /\ Products(f, f) \in Vector
  BY <1>0, ProductsTyped, SquaresAreProducts
<1>8. Fits(FeSq(f), 1, 0)
  <2>1. \A c \in Limb : Products(f, f)[c] \in -X .. X
    BY <1>1, <1>4
  <2> QED BY <1>5, <1>7, <2>1 DEF FeSq
<1>9. Fits(FeSq2(f), 1, 0)
  <2> DEFINE s == Products(f, f)
             h == [i \in Limb |-> 2 * s[i]]
  <2>1. s \in Vector /\ \A c \in Limb : s[c] \in -P .. P
    BY <1>4, <1>7
  <2>2. FeSq2(f) = Carries(h, ProductCarries)
    BY <1>7 DEF FeSq2
  <2> HIDE DEF s
  <2>3. h \in Vector
    BY <2>1 DEF Vector
  <2>4. \A c \in Limb : h[c] \in -X .. X
    BY <1>1, <2>1
  <2> HIDE DEF h
  <2> QED BY <1>5, <2>2, <2>3, <2>4
<1> QED BY <1>6, <1>8, <1>9

\* What is within a bound is within a larger one.
LEMMA FitsMore ==
  ASSUME NEW h, NEW k \in Nat, NEW p \in Nat, NEW q \in Nat, p <= q, Fits(h, k, p)
  PROVE  Fits(h, k, q)
<1> SUFFICES ASSUME NEW i \in Limb PROVE h[i] \in -(Bound(i) * k + q) .. Bound(i) * k + q
  BY DEF Fits
<1> DEFINE b == Bound(i) * k
<1>1. Bound(i) \in Nat
  BY BoundsTyped
<1>2. b \in Nat
  BY <1>1
<1>3. h[i] \in -(b + p) .. b + p
  BY DEF Fits
<1> HIDE DEF b
<1>4. h[i] \in -(b + q) .. b + q
  BY <1>2, <1>3
<1> QED BY <1>4 DEF b

\* What is added or subtracted counts for both.
LEMMA SumFits ==
  ASSUME NEW f, NEW k \in Nat, NEW g, NEW l \in Nat, NEW p \in Nat, NEW q \in Nat,
         Fits(f, k, p), Fits(g, l, q)
  PROVE  Fits(FeAdd(f, g), k + l, (p + q)) /\ Fits(FeSub(f, g), k + l, (p + q))
<1>1. FeAdd(f, g) \in Vector /\ FeSub(f, g) \in Vector
  BY SumOfElements, DifferenceOfElements DEF Fits
<1>2. ASSUME NEW i \in Limb
      PROVE  /\ FeAdd(f, g)[i] \in -(Bound(i) * (k + l) + (p + q)) .. Bound(i) * (k + l) + (p + q)
             /\ FeSub(f, g)[i] \in -(Bound(i) * (k + l) + (p + q)) .. Bound(i) * (k + l) + (p + q)
  <2> DEFINE b == Bound(i)
             s == b * k
             t == b * l
             x == f[i]
             y == g[i]
  <2>1. b \in Nat
    BY BoundsTyped
  <2>2. x \in -(s + p) .. s + p /\ y \in -(t + q) .. t + q
    BY DEF Fits
  <2>3. FeAdd(f, g)[i] = x + y /\ FeSub(f, g)[i] = x - y
    BY DEF FeAdd, FeSub
  <2> HIDE DEF b, x, y
  <2>4. s \in Nat /\ t \in Nat /\ b * (k + l) = s + t
    BY <2>1
  <2> HIDE DEF s, t
  <2>5. x + y \in -((s + t) + (p + q)) .. (s + t) + (p + q) /\ x - y \in -((s + t) + (p + q)) .. (s + t) + (p + q)
    BY <2>2, <2>4
  <2> QED BY <2>3, <2>4, <2>5 DEF b
<1> QED BY <1>1, <1>2 DEF Fits

\* Nor does a sign count.
LEMMA OppositeFits ==
  ASSUME NEW f, NEW k \in Nat, NEW p \in Nat, Fits(f, k, p)
  PROVE  Fits(FeNeg(f), k, p)
<1>1. FeNeg(f) \in Vector
  BY OppositeOfElement DEF Fits
<1>2. ASSUME NEW i \in Limb
      PROVE  FeNeg(f)[i] \in -(Bound(i) * k + p) .. Bound(i) * k + p
  <2> DEFINE s == Bound(i) * k + p
             x == f[i]
  <2>1. Bound(i) \in Nat
    BY BoundsTyped
  <2>2. s \in Nat
    BY <2>1
  <2>3. x \in -s .. s
    BY DEF Fits
  <2>4. FeNeg(f)[i] = -x
    BY DEF FeNeg
  <2> HIDE DEF s, x
  <2>5. -x \in -s .. s
    BY <2>2, <2>3
  <2> QED BY <2>4, <2>5 DEF s
<1> QED BY <1>1, <1>2 DEF Fits

\* The constants 0 and 1.
LEMMA ConstantsFit ==
  ASSUME NEW x \in {0, 1}, NEW k \in Nat, NEW p \in Nat, x <= p
  PROVE  Fits(FeConst(x), k, p)
<1>1. x \in Int
  OBVIOUS
<1>2. FeConst(x) \in Vector
  BY <1>1, ConstantElement
<1>3. ASSUME NEW i \in Limb
      PROVE  FeConst(x)[i] \in -(Bound(i) * k + p) .. Bound(i) * k + p
  <2> DEFINE b == Bound(i) * k
  <2>1. Bound(i) \in Nat
    BY BoundsTyped
  <2>2. b \in Nat
    BY <2>1
  <2>3. FeConst(x)[i] \in {0, x}
    BY DEF FeConst
  <2> HIDE DEF b
  <2>4. FeConst(x)[i] \in -(b + p) .. b + p
    BY <2>2, <2>3
  <2> QED BY <2>4 DEF b
<1> QED BY <1>2, <1>3 DEF Fits

\* fe_mul121666.
LEMMA ConstantTimesFits ==
  ASSUME FieldFits, NEW f, NEW k \in 0 .. 3, NEW p \in 0 .. MostOnes, Fits(f, k, p)
  PROVE  Fits(FeMul121666(f), 1, 0)
<1> DEFINE h == [i \in Limb |-> Coefficient * f[i]]
           X == ConstantMost
<1>1. /\ Coefficient \in Nat /\ EvenMost \in Nat /\ OddMost \in Nat /\ OddMost <= EvenMost
      /\ X \in Nat /\ NarrowBase \in Nat
  BY FieldAssumption, BoundsTyped, FieldHalves DEF FieldFits
<1>2. f \in Vector
  BY DEF Fits
<1>3. h \in Vector
  <2> SUFFICES ASSUME NEW i \in Limb PROVE Coefficient * f[i] \in Int
    BY DEF Vector
  <2>1. f[i] \in Int
    BY <1>2 DEF Vector
  <2> QED BY <1>1, <2>1
<1>4. NarrowBase <= X /\ \A c \in Limb : h[c] \in -X .. X
  <2> DEFINE s == Coefficient * EvenMost
  <2>1. s \in Nat /\ X = NarrowBase + s
    BY <1>1 DEF ConstantMost
  <2>2. ASSUME NEW c \in Limb PROVE h[c] \in -s .. s
    <3> DEFINE x == f[c]
    <3>1. x \in -LimbMost(c) .. LimbMost(c) /\ LimbMost(c) \in Nat
      BY FitsMost
    <3>2. LimbMost(c) <= EvenMost
      BY <1>1 DEF LimbMost
    <3>3. x \in -EvenMost .. EvenMost
      BY <1>1, <3>1, <3>2
    <3>4. h[c] = Coefficient * x
      OBVIOUS
    <3> HIDE DEF x, h
    <3>5. Coefficient \in -Coefficient .. Coefficient
      BY <1>1
    <3>6. Coefficient * x \in -(Coefficient * EvenMost) .. Coefficient * EvenMost
      BY <1>1, <3>3, <3>5, ProductBound
    <3> QED BY <3>4, <3>6
  <2> HIDE DEF s, h, X
  <2>3. \A c \in Limb : h[c] \in -X .. X
    BY <1>1, <2>1, <2>2
  <2> QED BY <1>1, <2>1, <2>3
<1>5. FeMul121666(f) = Carries(h, OnePass)
  BY DEF FeMul121666
<1>6. Settles(MostCarried(2 * X))
  BY DEF FieldFits
<1> HIDE DEF h, X
<1> QED BY <1>1, <1>3, <1>4, <1>5, <1>6, CarriedFits

\* fe_frombytes: what is loaded into a limb.
LEMMA LoadedFits ==
  ASSUME FieldFits, NEW s \in Nat
  PROVE  Fits(FeFromBytes(s), 1, 0)
<1> DEFINE h == [i \in Limb |-> Loaded(s, i)]
           X == LoadedMost
<1>1. X \in Nat /\ NarrowBase \in Nat
  BY BoundsTyped, FieldHalves
<1>2. NarrowBase <= X
  <2>1. 2 \in Nat \ {0} /\ OddBits \in Nat /\ EvenBits + (ByteWidth - 1) \in Nat /\ OddBits <= EvenBits + (ByteWidth - 1)
    BY Sizes, FieldAssumption
  <2> QED BY <2>1, PowerGrows DEF NarrowBase, LoadedMost
<1>3. ASSUME NEW i \in Limb
      PROVE  Loaded(s, i) \in 0 .. X
  <2>1. /\ i \in Nat /\ i + 1 \in Nat /\ ByteWidth \in Nat \ {0} /\ ByteWidth <= OddBits
        /\ i \in 0 .. Limbs /\ i + 1 \in 0 .. Limbs
        /\ Offset(i) \in Nat /\ Offset(i + 1) = Offset(i) + Width(i) /\ Width(i) \in Nat
        /\ Width(i) >= OddBits /\ OddBits \in Nat /\ Width(i) <= EvenBits /\ EvenBits \in Nat
    BY LimbIndex, Offsets, Widths, FieldAssumption, Sizes DEF Width, Limb
  <2>2. /\ LoadFrom(i) \in Nat /\ LoadFrom(i) - Offset(i) \in Nat
        /\ LoadFrom(i + 1) - LoadFrom(i) \in Nat
        /\ (LoadFrom(i + 1) - LoadFrom(i)) + (LoadFrom(i) - Offset(i)) <= EvenBits + (ByteWidth - 1)
    BY <2>1, LoadPlaces
  <2> DEFINE d == LoadFrom(i + 1) - LoadFrom(i)
             e == LoadFrom(i) - Offset(i)
             a == Power(2, LoadFrom(i))
             b == Power(2, d)
             c == Power(2, e)
  <2>3. a \in Nat \ {0} /\ b \in Nat \ {0} /\ c \in Nat \ {0}
    <3>1. 2 \in Nat \ {0}
      OBVIOUS
    <3> QED BY <2>2, <3>1, PowerPositive
  <2>4. Loaded(s, i) = ((s \div a) % b) * c
    BY DEF Loaded
  <2>5. b * c <= X
    <3>1. d \in Nat /\ e \in Nat /\ d + e \in Nat /\ EvenBits + (ByteWidth - 1) \in Nat /\ d + e <= EvenBits + (ByteWidth - 1)
      BY <2>1, <2>2
    <3> HIDE DEF d, e
    <3>2. 2 \in Nat \ {0} /\ 2 \in Nat
      OBVIOUS
    <3>3. Power(2, d + e) = b * c
      BY <3>1, <3>2, PowerOfSum
    <3>4. Power(2, d + e) <= X
      BY <3>1, <3>2, PowerGrows DEF LoadedMost
    <3> QED BY <3>3, <3>4
  <2> HIDE DEF a, b, c, X
  <2> DEFINE y == s \div a
             z == y % b
  <2>6. y \in Nat
    BY <2>3
  <2> HIDE DEF y
  <2>7. z \in 0 .. b - 1
    BY <2>3, <2>6
  <2> HIDE DEF z
  <2>8. z * c \in Nat /\ z * c <= b * c /\ b * c \in Nat
    BY <2>3, <2>7
  <2>9. z * c \in 0 .. X
    BY <1>1, <2>5, <2>8
  <2>10. Loaded(s, i) = z * c
    BY <2>4 DEF y, z
  <2> QED BY <2>9, <2>10
<1>4. h \in Vector /\ \A c \in Limb : h[c] \in -X .. X
  <2> HIDE DEF X
  <2>1. \A c \in Limb : h[c] = Loaded(s, c)
    OBVIOUS
  <2>2. \A c \in Limb : h[c] \in -X .. X
    BY <1>1, <1>3, <2>1
  <2>3. h \in Vector
    BY <1>1, <1>3 DEF Vector
  <2> QED BY <2>2, <2>3
<1>5. FeFromBytes(s) = Carries(h, OnePass)
  BY DEF FeFromBytes
<1>6. Settles(MostCarried(2 * X))
  BY DEF FieldFits
<1> HIDE DEF h, X
<1> QED BY <1>1, <1>2, <1>4, <1>5, <1>6, CarriedFits

-----------------------------------------------------------------------------
\* A register holds as many reduced elements, and as many ones, as its counts say.
FieldBounded ==
  /\ reg \in [Reg -> Vector] /\ terms \in [Reg -> 0 .. 3] /\ ones \in [Reg -> 0 .. MostOnes]
  /\ \A r \in Reg : Fits(reg[r], terms[r], ones[r])

\* One register is written.
LEMMA WriteBounded ==
  ASSUME FieldBounded, NEW h \in Reg, NEW op, NEW v, NEW n \in 0 .. 3, NEW o \in 0 .. MostOnes,
         Write(op, h, v, n, o), Fits(v, n, o)
  PROVE  FieldBounded'
<1>1. reg' = [reg EXCEPT ![h] = v] /\ terms' = [terms EXCEPT ![h] = n] /\ ones' = [ones EXCEPT ![h] = o]
  BY DEF Write
<1>2. /\ reg \in [Reg -> Vector] /\ terms \in [Reg -> 0 .. 3] /\ ones \in [Reg -> 0 .. MostOnes]
      /\ \A r \in Reg : Fits(reg[r], terms[r], ones[r])
  BY DEF FieldBounded
<1>3. v \in Vector
  BY DEF Fits
<1>4. reg' \in [Reg -> Vector] /\ terms' \in [Reg -> 0 .. 3] /\ ones' \in [Reg -> 0 .. MostOnes]
  BY <1>1, <1>2, <1>3
<1>5. ASSUME NEW r \in Reg PROVE Fits(reg'[r], terms'[r], ones'[r])
  BY <1>1, <1>2
<1> QED BY <1>4, <1>5 DEF FieldBounded

\* What is loaded is one element.
LEMMA FieldBoundedStart == FieldFits /\ FieldInit => FieldBounded
<1> SUFFICES ASSUME FieldFits, FieldInit PROVE FieldBounded
  OBVIOUS
<1>1. PICK s \in [Reg -> FieldInputs] : reg = [r \in Reg |-> FeFromBytes(s[r])]
  BY DEF FieldInit
<1>2. terms = [r \in Reg |-> 1] /\ ones = [r \in Reg |-> 0]
  BY DEF FieldInit
<1>3. ASSUME NEW r \in Reg
      PROVE  Fits(reg[r], 1, 0)
  <2>1. s[r] \in Nat /\ reg[r] = FeFromBytes(s[r])
    BY <1>1, FieldAssumption
  <2> QED BY <2>1, LoadedFits
<1>4. 0 \in 0 .. MostOnes
  BY DEF MostOnes
<1>5. reg \in [Reg -> Vector]
  BY <1>1, <1>3 DEF Fits
<1> QED BY <1>2, <1>3, <1>4, <1>5 DEF FieldBounded

\* And so are the registers nobody uses.
LEMMA FieldBoundedIdle == FieldIdle => FieldBounded
<1> SUFFICES ASSUME FieldIdle PROVE FieldBounded
  OBVIOUS
<1>1. reg = [r \in Reg |-> Fe0] /\ terms = [r \in Reg |-> 0] /\ ones = [r \in Reg |-> 0]
  BY DEF FieldIdle
<1>2. 0 \in {0, 1} /\ 0 \in Nat /\ 0 <= 0
  OBVIOUS
<1>3. Fits(Fe0, 0, 0)
  BY <1>2, ConstantsFit DEF Fe0
<1>4. Fe0 \in Vector /\ 0 \in 0 .. MostOnes
  BY <1>3 DEF Fits, MostOnes
<1> QED BY <1>1, <1>3, <1>4 DEF FieldBounded

\* Every function of fe.c keeps to it.
LEMMA FieldBoundedStep ==
  ASSUME FieldFits, FieldBounded, FieldNext
  PROVE  FieldBounded'
<1>1. PICK h \in Reg, f \in Reg, g \in Reg, b \in {0, 1} :
        \/ Add(h, f, g) \/ Sub(h, f, g) \/ Mul(h, f, g)
        \/ Square(h, f) \/ DoubleSquare(h, f) \/ MulConstant(h, f)
        \/ Negate(h, f) \/ Copy(h, f) \/ SetConstant(h)
        \/ Move(f, g, b) \/ ConditionalSwap(f, g, b)
  BY DEF FieldNext
<1> DEFINE x == reg[f]
           y == reg[g]
           k == terms[f]
           l == terms[g]
           p == ones[f]
           q == ones[g]
<1>2. /\ reg \in [Reg -> Vector] /\ terms \in [Reg -> 0 .. 3] /\ ones \in [Reg -> 0 .. MostOnes]
      /\ \A r \in Reg : Fits(reg[r], terms[r], ones[r])
  BY DEF FieldBounded
<1>3. MostOnes \in Nat /\ 1 <= MostOnes
  BY BoundsTyped
<1>4. /\ x \in Vector /\ y \in Vector /\ k \in 0 .. 3 /\ l \in 0 .. 3 /\ k \in Nat /\ l \in Nat
      /\ p \in 0 .. MostOnes /\ q \in 0 .. MostOnes /\ p \in Nat /\ q \in Nat
      /\ Fits(x, k, p) /\ Fits(y, l, q)
  BY <1>2, <1>3
<1>5. 1 \in 0 .. 3 /\ 0 \in 0 .. 3 /\ 0 \in 0 .. MostOnes /\ 1 \in 0 .. MostOnes
  BY <1>3
<1>6. ASSUME NEW r \in Reg, NEW op, NEW v, NEW n \in 0 .. 3, NEW o \in 0 .. MostOnes,
             Write(op, r, v, n, o), Fits(v, n, o)
      PROVE  FieldBounded'
  BY <1>6, WriteBounded
<1>8. CASE Add(h, f, g)
  <2>1. /\ k + l \in 0 .. 3 /\ p + q \in 0 .. MostOnes
        /\ Write("add", h, FeAdd(x, y), k + l, p + q)
    BY <1>3, <1>4, <1>8 DEF Add, MayAddUp, SumOfTerms, SumOfOnes
  <2>2. Fits(FeAdd(x, y), k + l, p + q)
    <3> HIDE DEF x, y, p, q, k, l
    <3> QED BY <1>4, SumFits
  <2> QED BY <1>6, <2>1, <2>2
<1>9. CASE Sub(h, f, g)
  <2>1. /\ k + l \in 0 .. 3 /\ p + q \in 0 .. MostOnes
        /\ Write("sub", h, FeSub(x, y), k + l, p + q)
    BY <1>3, <1>4, <1>9 DEF Sub, MayAddUp, SumOfTerms, SumOfOnes
  <2>2. Fits(FeSub(x, y), k + l, p + q)
    <3> HIDE DEF x, y, p, q, k, l
    <3> QED BY <1>4, SumFits
  <2> QED BY <1>6, <2>1, <2>2
<1>10. CASE Mul(h, f, g)
  <2>1. Write("mul", h, FeMul(x, y), 1, 0)
    BY <1>10 DEF Mul
  <2>2. Fits(FeMul(x, y), 1, 0)
    <3> HIDE DEF x, y, p, q, k, l
    <3> QED BY <1>4, ProductFits
  <2> QED BY <1>5, <1>6, <2>1, <2>2
<1>11. CASE Square(h, f)
  <2>1. Write("sq", h, FeSq(x), 1, 0)
    BY <1>11 DEF Square
  <2>2. Fits(FeSq(x), 1, 0)
    <3> HIDE DEF x, y, p, q, k, l
    <3> QED BY <1>4, ProductFits
  <2> QED BY <1>5, <1>6, <2>1, <2>2
<1>12. CASE DoubleSquare(h, f)
  <2>1. Write("sq2", h, FeSq2(x), 1, 0)
    BY <1>12 DEF DoubleSquare
  <2>2. Fits(FeSq2(x), 1, 0)
    <3> HIDE DEF x, y, p, q, k, l
    <3> QED BY <1>4, ProductFits
  <2> QED BY <1>5, <1>6, <2>1, <2>2
<1>13. CASE MulConstant(h, f)
  <2>1. Write("mul121666", h, FeMul121666(x), 1, 0)
    BY <1>13 DEF MulConstant
  <2>2. Fits(FeMul121666(x), 1, 0)
    <3> HIDE DEF x, y, p, q, k, l
    <3> QED BY <1>4, ConstantTimesFits
  <2> QED BY <1>5, <1>6, <2>1, <2>2
<1>14. CASE Negate(h, f)
  <2>1. Write("neg", h, FeNeg(x), k, p)
    BY <1>14 DEF Negate
  <2>2. Fits(FeNeg(x), k, p)
    <3> HIDE DEF x, y, p, q, k, l
    <3> QED BY <1>4, OppositeFits
  <2> QED BY <1>4, <1>6, <2>1, <2>2
<1>15. CASE Copy(h, f)
  <2>1. Write("copy", h, x, k, p)
    BY <1>15 DEF Copy, FeCopy
  <2> QED BY <1>4, <1>6, <2>1
<1>16. CASE SetConstant(h)
  <2>1. Write("0", h, Fe0, 0, 0) \/ Write("1", h, Fe1, 0, 1)
    BY <1>16 DEF SetConstant
  <2>2. 0 \in {0, 1} /\ 1 \in {0, 1} /\ 0 \in Nat /\ 1 \in Nat /\ 0 <= 0 /\ 1 <= 1
    OBVIOUS
  <2>3. Fits(Fe0, 0, 0) /\ Fits(Fe1, 0, 1)
    BY <2>2, ConstantsFit DEF Fe0, Fe1
  <2> QED BY <1>5, <1>6, <2>1, <2>3
<1>17. CASE Move(f, g, b)
  <2> DEFINE v == IF b = 1 THEN y ELSE x
             n == IF b = 1 THEN l ELSE k
             o == IF b = 1 THEN q ELSE p
  <2>1. Write("cmov", f, v, n, o)
    BY <1>4, <1>17, MovedElement DEF Move
  <2>2. n \in 0 .. 3 /\ o \in 0 .. MostOnes /\ Fits(v, n, o)
    <3> HIDE DEF x, y, p, q, k, l
    <3> QED BY <1>4
  <2> QED BY <1>6, <2>1, <2>2
<1>18. CASE ConditionalSwap(f, g, b)
  <2>1. /\ reg' = [reg EXCEPT ![f] = IF b = 1 THEN y ELSE x, ![g] = IF b = 1 THEN x ELSE y]
        /\ terms' = IF b = 1 THEN [terms EXCEPT ![f] = l, ![g] = k] ELSE terms
        /\ ones' = IF b = 1 THEN [ones EXCEPT ![f] = q, ![g] = p] ELSE ones
    <3>1. FeCmov(reg[f], reg[g], b) = (IF b = 1 THEN y ELSE x)
          /\ FeCmov(reg[g], reg[f], b) = (IF b = 1 THEN x ELSE y)
      BY <1>4, MovedElement
    <3>2. /\ reg' = [reg EXCEPT ![f] = FeCmov(reg[f], reg[g], b),
                                ![g] = FeCmov(reg[g], reg[f], b)]
          /\ terms' = IF b = 1 THEN [terms EXCEPT ![f] = terms[g], ![g] = terms[f]] ELSE terms
          /\ ones' = IF b = 1 THEN [ones EXCEPT ![f] = ones[g], ![g] = ones[f]] ELSE ones
      BY <1>18 DEF ConditionalSwap, Swapped
    <3> QED BY <1>4, <3>1, <3>2
  <2>2. CASE b = 1
    <3>1. /\ reg' = [reg EXCEPT ![f] = y, ![g] = x] /\ terms' = [terms EXCEPT ![f] = l, ![g] = k]
          /\ ones' = [ones EXCEPT ![f] = q, ![g] = p]
      BY <2>1, <2>2
    <3>2. reg' \in [Reg -> Vector] /\ terms' \in [Reg -> 0 .. 3] /\ ones' \in [Reg -> 0 .. MostOnes]
      BY <1>2, <1>4, <3>1
    <3>3. ASSUME NEW r \in Reg PROVE Fits(reg'[r], terms'[r], ones'[r])
      BY <1>2, <1>4, <3>1
    <3> QED BY <3>2, <3>3 DEF FieldBounded
  <2>3. CASE b # 1
    <3>1. reg' = reg /\ terms' = terms /\ ones' = ones
      BY <1>2, <2>1, <2>3
    <3> QED BY <1>2, <3>1 DEF FieldBounded
  <2> QED BY <2>2, <2>3
<1> QED BY <1>1, <1>8, <1>9, <1>10, <1>11, <1>12, <1>13, <1>14, <1>15, <1>16, <1>17, <1>18

\* The invariant is inductive.
LEMMA FieldBoundedStays ==
  FieldFits /\ FieldBounded /\ [FieldNext]_fieldVars => FieldBounded'
<1>1. UNCHANGED fieldVars /\ FieldBounded => FieldBounded'
  BY DEF FieldBounded, fieldVars
<1> QED BY <1>1, FieldBoundedStep

\* And it implies the bounds of the comments.
LEMMA FieldBoundedSafe == FieldBounded => LimbsBounded
<1> SUFFICES ASSUME FieldBounded, NEW r \in Reg, NEW i \in Limb
             PROVE  LET most == Bound(i) * terms[r] + ones[r]
                    IN  reg[r][i] \in -most .. most
  BY DEF LimbsBounded
<1>1. Fits(reg[r], terms[r], ones[r])
  BY DEF FieldBounded
<1> QED BY <1>1 DEF Fits

\* The digit above.
LEMMA DigitAbove ==
  ASSUME NEW x \in Int, NEW p \in Nat \ {0}, NEW b \in Nat \ {0}
  PROVE  x % (p * b) = (x % p) + p * ((x \div p) % b) /\ p * b \in Nat \ {0}
<1> DEFINE q == x \div p
           r == x % p
           k == q \div b
           s == q % b
<1>1. q \in Int /\ r \in 0 .. p - 1 /\ x = p * q + r
  OBVIOUS
<1> HIDE DEF q, r
<1>2. k \in Int /\ s \in 0 .. b - 1 /\ q = b * k + s
  BY <1>1
<1> HIDE DEF k, s
<1>3. x = (p * b) * k + (p * s + r)
  <2>1. p * (b * k + s) = (p * b) * k + p * s
    BY <1>2
  <2>2. (p * b) * k \in Int /\ p * s \in Int
    BY <1>2
  <2> QED BY <1>1, <1>2, <2>1, <2>2
<1> DEFINE n == p * b
           t == p * s
<1>4. n \in Nat \ {0}
  OBVIOUS
<1>5. t \in Nat /\ t + p <= n
  <2>1. p * (s + 1) <= p * b
    BY <1>2
  <2>2. p * (s + 1) = p * s + p
    BY <1>2
  <2>3. t \in Nat
    BY <1>2
  <2> QED BY <2>1, <2>2, <2>3
<1>6. x = n * k + (t + r)
  BY <1>3
<1> HIDE DEF n, t
<1>7. t + r \in 0 .. n - 1
  BY <1>1, <1>4, <1>5
<1>8. (n * k + (t + r)) % n = t + r
  BY <1>2, <1>4, <1>7, RestOfMultiple
<1>9. x % n = r + t
  BY <1>1, <1>5, <1>6, <1>8
<1> QED BY <1>4, <1>9 DEF n, t, r, s, q

\* The quotient is the only one.
LEMMA QuotientIs ==
  ASSUME NEW p \in Nat \ {0}, NEW q \in Int, NEW r \in 0 .. p - 1
  PROVE  (p * q + r) \div p = q
<1> DEFINE a == p * q + r
           b == a \div p
<1>1. a \in Int
  BY DEF a
<1>2. a % p = r
  BY RestOfMultiple
<1>3. b \in Int /\ a = p * b + (a % p)
  <2> HIDE DEF a
  <2> QED BY <1>1
<1>4. p * b = p * q
  <2>1. p * b \in Int /\ p * q \in Int
    BY <1>3
  <2>2. p * q + r = p * b + r
    BY <1>2, <1>3
  <2> QED BY <2>1, <2>2
<1> HIDE DEF b
<1> DEFINE d == b - q
<1>5. d \in Int /\ p * d = 0
  <2>1. p * (b - q) = p * b - p * q
    BY <1>3
  <2>2. p * b \in Int
    BY <1>3
  <2> QED BY <1>3, <1>4, <2>1, <2>2
<1> HIDE DEF d
<1>6. d = 0
  BY <1>5
<1>7. b = q
  BY <1>3, <1>6 DEF d
<1> QED BY <1>7 DEF b

\* A multiple of the divisor adds to the quotient.
LEMMA QuotientOfTotal ==
  ASSUME NEW p \in Nat \ {0}, NEW q \in Int, NEW a \in Int
  PROVE  (a + p * q) \div p = (a \div p) + q
<1> DEFINE k == a \div p
           r == a % p
<1>1. k \in Int /\ r \in 0 .. p - 1 /\ a = p * k + r
  OBVIOUS
<1> HIDE DEF k, r
<1>2. a + p * q = p * (k + q) + r
  <2>1. p * (k + q) = p * k + p * q
    BY <1>1
  <2>2. p * q \in Int /\ p * k \in Int
    BY <1>1
  <2> QED BY <1>1, <2>1, <2>2
<1>3. k + q \in Int
  BY <1>1
<1> QED BY <1>1, <1>2, <1>3, QuotientIs DEF k

\* What the limbs below n amount to.
LowLimbs(h, n) == SumTo(n, PlacedLimbs(h))

\* Limb by limb.
LEMMA LowLimbsSteps ==
  ASSUME NEW h \in Vector
  PROVE  /\ LowLimbs(h, 0) = 0 /\ LowLimbs(h, Limbs) = FieldNumber(h)
         /\ \A n \in 0 .. Limbs : LowLimbs(h, n) \in Int
         /\ \A n \in Limb : LowLimbs(h, n + 1) = LowLimbs(h, n) + Place[n] * h[n]
<1>1. Ints(PlacedLimbs(h), Limbs)
  BY Placed
<1>2. /\ LowLimbs(h, 0) = 0 /\ \A n \in 0 .. Limbs : LowLimbs(h, n) \in Int
      /\ \A n \in 0 .. Limbs - 1 : LowLimbs(h, n + 1) = LowLimbs(h, n) + PlacedLimbs(h)[n]
  BY <1>1, SumSteps DEF LowLimbs
<1>3. ASSUME NEW n \in Limb PROVE PlacedLimbs(h)[n] = Place[n] * h[n] /\ n \in 0 .. Limbs - 1
  <2>1. n \in 0 .. Limbs - 1
    BY DEF Limb
  <2>2. h[n] \in Int /\ Place[n] \in Int /\ PlacedLimbs(h)[n] = h[n] * Place[n]
    BY <2>1, Placed
  <2> QED BY <2>1, <2>2
<1> QED BY <1>2, <1>3 DEF LowLimbs, FieldNumber

\* A place is the one below times a limb.
LEMMA PlaceAbove ==
  ASSUME NEW n \in Limb
  PROVE  /\ Place[n] \in Nat \ {0} /\ Full(n) \in Nat \ {0} /\ Place[n + 1] = Place[n] * Full(n)
         /\ n \in Nat /\ n \in 0 .. Limbs /\ n + 1 \in 0 .. Limbs /\ n + 1 \in Nat
<1>1. n \in Nat /\ n \in 0 .. Limbs /\ n + 1 \in 0 .. Limbs /\ n + 1 \in Nat
  BY LimbIndex
<1> QED BY <1>1, Places, FieldHalves DEF Full

\* Carrying c into it, limb by limb, divides by the places.
LEMMA CarriedUp ==
  ASSUME NEW h \in Vector, NEW c \in Int, NEW n \in Limb
  PROVE  /\ (h[n] + ((LowLimbs(h, n) + c) \div Place[n])) \div Full(n)
              = (LowLimbs(h, n + 1) + c) \div Place[n + 1]
         /\ (LowLimbs(h, n + 1) + c) % Place[n + 1]
              = ((LowLimbs(h, n) + c) % Place[n])
                  + Place[n] * ((h[n] + ((LowLimbs(h, n) + c) \div Place[n])) % Full(n))
         /\ (LowLimbs(h, n) + c) \div Place[n] \in Int
<1> DEFINE p == Place[n]
           f == Full(n)
           y == h[n]
           A == LowLimbs(h, n) + c
           B == LowLimbs(h, n + 1) + c
           q == A \div p
<1>1. p \in Nat \ {0} /\ f \in Nat \ {0} /\ Place[n + 1] = p * f
  BY PlaceAbove
<1>2. y \in Int
  BY DEF Vector
<1>3. A \in Int /\ B \in Int /\ B = A + p * y
  <2> DEFINE a == LowLimbs(h, n)
             b == LowLimbs(h, n + 1)
             z == p * y
  <2>1. a \in Int /\ b \in Int /\ b = a + z
    BY LowLimbsSteps, PlaceAbove
  <2>2. z \in Int
    BY <1>1, <1>2
  <2>3. A = a + c /\ B = b + c
    OBVIOUS
  <2> HIDE DEF a, b, z, A, B
  <2>4. A \in Int /\ B \in Int /\ B = A + z
    BY <2>1, <2>2, <2>3
  <2> QED BY <2>4 DEF z
<1> HIDE DEF p, f, y, A, B
<1>4. B \div p = q + y /\ B % p = A % p
  BY <1>1, <1>2, <1>3, QuotientOfTotal, RestOfSum
<1>5. q \in Int
  BY <1>1, <1>3
<1>6. B \div (p * f) = (B \div p) \div f
  BY <1>1, <1>3, QuotientOfQuotient
<1>7. B % (p * f) = (B % p) + p * ((B \div p) % f)
  BY <1>1, <1>3, DigitAbove, ZenonT(60)
<1> HIDE DEF q
<1>8. q + y = y + q
  BY <1>2, <1>5
<1>9. B \div (p * f) = (y + q) \div f /\ B % (p * f) = (A % p) + p * ((y + q) % f)
  BY <1>4, <1>6, <1>7, <1>8
<1> QED BY <1>1, <1>5, <1>9 DEF p, f, y, A, B, q

-----------------------------------------------------------------------------
(* The quotient that fe_tobytes subtracts.                                   *)

\* What the chain starts with: the rounded carry of the top limb.
TopCarry(h) == (FoldBy * h[Limbs - 1] + Power(2, OddBits - 1)) \div NarrowBase

\* The top limb is an odd one.
LEMMA TopLimbWidth ==
  /\ Limbs - 1 \in Limb /\ (Limbs - 1) + 1 = Limbs /\ Full(Limbs - 1) = NarrowBase
  /\ HalfOf(Limbs - 1) = Power(2, OddBits - 1)
  /\ NarrowBase \in Nat \ {0} /\ HalfOf(Limbs - 1) \in Nat \ {0} /\ NarrowBase = 2 * HalfOf(Limbs - 1)
<1>1. Limbs \in Nat /\ Limbs >= 4 /\ Limbs % 2 = 0
  BY FieldAssumption
<1>2. Limbs - 1 \in Limb /\ (Limbs - 1) + 1 = Limbs /\ (Limbs - 1) % 2 = 1
  BY <1>1 DEF Limb
<1>3. Width(Limbs - 1) = OddBits
  BY <1>2 DEF Width
<1> QED BY <1>2, <1>3, FieldHalves DEF Full, HalfOf, NarrowBase

\* It is a number.
LEMMA TopCarryTyped ==
  ASSUME NEW h \in Vector
  PROVE  TopCarry(h) \in Int
<1> DEFINE x == FoldBy * h[Limbs - 1] + Power(2, OddBits - 1)
<1>1. NarrowBase \in Nat \ {0}
  BY TopLimbWidth
<1>2. x \in Int
  <2>1. h[Limbs - 1] \in Int /\ FoldBy \in Int /\ Power(2, OddBits - 1) \in Int
    BY TopLimbWidth, Sizes DEF Vector
  <2> DEFINE y == h[Limbs - 1]
             z == Power(2, OddBits - 1)
  <2> HIDE DEF y, z
  <2>2. FoldBy * y + z \in Int
    BY <2>1 DEF y, z
  <2> QED BY <2>2 DEF y, z
<1> HIDE DEF x
<1>3. x \div NarrowBase \in Int
  BY <1>1, <1>2
<1> QED BY <1>3 DEF TopCarry, x

\* The carries of Quotient, one per limb.
QuotientTable(h) ==
  CHOOSE Q : Q = [n \in 0 .. Limbs |->
                    IF n = 0 THEN (FoldBy * h[Limbs - 1] + Power(2, OddBits - 1)) \div Power(2, OddBits)
                    ELSE (h[n - 1] + Q[n - 1]) \div Power(2, Width(n - 1))]

\* The table of the carries, entry by entry.
LEMMA QuotientTabled ==
  ASSUME NEW h \in Vector
  PROVE  /\ Quotient(h) = QuotientTable(h)[Limbs]
         /\ QuotientTable(h)[0] = TopCarry(h)
         /\ \A n \in Limb : QuotientTable(h)[n + 1] = (h[n] + QuotientTable(h)[n]) \div Full(n)
<1> DEFINE D == Int
           n == Limbs
           base == TopCarry(h)
           step == [m \in 1 .. n |-> [w \in D |-> (h[m - 1] + w) \div Full(m - 1)]]
           Table(V) == V = [m \in 0 .. n |->
                              IF m = 0 THEN TopCarry(h) ELSE (h[m - 1] + V[m - 1]) \div Full(m - 1)]
<1>1. n \in Nat /\ \A m \in 1 .. n : m - 1 \in Limb
  BY Sizes DEF Limb
<1>2. base \in D
  BY TopCarryTyped
<1>3. \A w \in D, i \in Limb : (h[i] + w) \div Full(i) \in D
  <2> TAKE w \in D, i \in Limb
  <2>1. h[i] \in Int /\ Full(i) \in Nat \ {0}
    BY FieldHalves DEF Vector
  <2> DEFINE y == h[i] + w
             f == Full(i)
  <2>2. y \in Int /\ f \in Nat \ {0}
    BY <2>1
  <2> HIDE DEF y, f
  <2>3. y \div f \in Int
    BY <2>2
  <2> QED BY <2>3 DEF y, f
<1> HIDE DEF D
<1>4. step \in [1 .. n -> [D -> D]]
  BY <1>1, <1>3
<1>5. \A m \in 1 .. n, w \in D : step[m][w] = (h[m - 1] + w) \div Full(m - 1)
  OBVIOUS
<1> HIDE DEF step, base, n
<1>6. PICK V : Stepwise(V, D, n, base, step)
  BY <1>1, <1>2, <1>4, StepwiseFunction
<1>7. /\ V \in [0 .. n -> D] /\ V[0] = TopCarry(h)
      /\ \A m \in 1 .. n : V[m] = (h[m - 1] + V[m - 1]) \div Full(m - 1)
  <2>1. V \in [0 .. n -> D] /\ V[0] = TopCarry(h) /\ \A m \in 1 .. n : V[m] = step[m][V[m - 1]]
    BY <1>6 DEF Stepwise, base
  <2>2. \A m \in 1 .. n : V[m - 1] \in D
    BY <1>1, <2>1
  <2> QED BY <1>5, <2>1, <2>2
<1>8. Table(V)
  BY <1>1, <1>7
<1> DEFINE T == QuotientTable(h)
<1>9. Table(T)
  <2>1. T = CHOOSE A : Table(A)
    BY DEF QuotientTable, n, TopCarry, Full, NarrowBase
  <2> HIDE DEF Table, T
  <2> QED BY <1>8, <2>1
<1>10. Quotient(h) = T[n]
  BY DEF Quotient, QuotientTable, n
<1> HIDE DEF T
<1>11. T[0] = TopCarry(h) /\ \A m \in 1 .. n : T[m] = (h[m - 1] + T[m - 1]) \div Full(m - 1)
  BY <1>1, <1>9
<1>12. \A m \in Limb : m + 1 \in 1 .. n /\ (m + 1) - 1 = m
  BY Sizes DEF Limb, n
<1>13. \A m \in Limb : T[m + 1] = (h[m] + T[m]) \div Full(m)
  BY <1>11, <1>12
<1> QED BY <1>10, <1>11, <1>13 DEF n, T

\* The chain of carries divides the whole number.
LEMMA QuotientIsWhole ==
  ASSUME NEW h \in Vector
  PROVE  Quotient(h) = (FieldNumber(h) + TopCarry(h)) \div Place[Limbs]
<1> DEFINE Q == QuotientTable(h)
           c == TopCarry(h)
           S == {n \in Nat : n <= Limbs => Q[n] = (LowLimbs(h, n) + c) \div Place[n]}
<1>1. c \in Int
  BY TopCarryTyped
<1>2. 0 \in S
  <2>1. Q[0] = c /\ Place[0] = 1 /\ LowLimbs(h, 0) = 0
    BY QuotientTabled, Places, LowLimbsSteps
  <2> HIDE DEF Q, c
  <2>2. (0 + c) \div 1 = c
    BY <1>1
  <2> QED BY <2>1, <2>2
<1>3. ASSUME NEW n \in Nat, n \in S PROVE n + 1 \in S
  <2> SUFFICES ASSUME n + 1 <= Limbs PROVE Q[n + 1] = (LowLimbs(h, n + 1) + c) \div Place[n + 1]
    OBVIOUS
  <2>1. n \in Limb
    BY Sizes DEF Limb
  <2>2. Q[n] = (LowLimbs(h, n) + c) \div Place[n]
    BY <1>3, Sizes
  <2>3. Q[n + 1] = (h[n] + Q[n]) \div Full(n)
    BY <2>1, QuotientTabled
  <2> HIDE DEF Q, c
  <2>4. (h[n] + ((LowLimbs(h, n) + c) \div Place[n])) \div Full(n) = (LowLimbs(h, n + 1) + c) \div Place[n + 1]
    BY <1>1, <2>1, CarriedUp
  <2> QED BY <2>2, <2>3, <2>4
<1>4. \A n \in Nat : n \in S
  <2> HIDE DEF S
  <2> QED BY <1>2, <1>3, FromZero
<1>5. Q[Limbs] = (LowLimbs(h, Limbs) + c) \div Place[Limbs]
  BY <1>4, Sizes
<1> QED BY <1>5, QuotientTabled, LowLimbsSteps

\* Two reduced elements, as fe_tobytes takes them.
Tame(h) == h \in Vector /\ \A i \in Limb : h[i] \in -(2 * Full(i)) .. 2 * Full(i)

\* Two elements and the ones besides are.
LEMMA FitsTame ==
  ASSUME FieldFits, NEW h, NEW k \in 0 .. 2, NEW p \in 0 .. MostOnes, Fits(h, k, p)
  PROVE  Tame(h)
<1> SUFFICES ASSUME NEW i \in Limb PROVE h[i] \in -(2 * Full(i)) .. 2 * Full(i)
  BY DEF Tame, Fits
<1> DEFINE b == Bound(i)
           f == Full(i)
           x == h[i]
           y == b * k
<1>1. b \in Nat /\ f \in Nat /\ MostOnes \in Nat /\ 2 * b + MostOnes <= 2 * f
  <2>1. /\ EvenBound \in Nat /\ OddBound \in Nat /\ MostOnes \in Nat /\ NarrowBase \in Nat
        /\ f = (IF i % 2 = 0 THEN 2 * NarrowBase ELSE NarrowBase)
    BY BoundsTyped, FieldHalves
  <2>2. 2 * EvenBound + MostOnes <= 4 * NarrowBase /\ 2 * OddBound + MostOnes <= 2 * NarrowBase
    BY DEF FieldFits
  <2>3. b = IF i % 2 = 0 THEN EvenBound ELSE OddBound
    BY DEF Bound
  <2> HIDE DEF b, f
  <2> QED BY <2>1, <2>2, <2>3
<1>2. x \in -(y + p) .. y + p
  BY DEF Fits
<1> HIDE DEF b, f, x
<1>3. y \in Nat /\ y <= 2 * b
  BY <1>1
<1> HIDE DEF y
<1>4. x \in -(2 * f) .. 2 * f
  BY <1>1, <1>2, <1>3
<1> QED BY <1>4 DEF x, f

\* What the limbs below n amount to is small against their place.
LEMMA LowLimbsBound ==
  ASSUME NEW h, Tame(h)
  PROVE  \A n \in 0 .. Limbs : LowLimbs(h, n) \in -(4 * Place[n]) .. 4 * Place[n]
<1> DEFINE S == {n \in Nat : n <= Limbs => LowLimbs(h, n) \in -(4 * Place[n]) .. 4 * Place[n]}
<1>0. h \in Vector
  BY DEF Tame
<1>1. 0 \in S
  <2>1. LowLimbs(h, 0) = 0 /\ Place[0] = 1
    BY <1>0, LowLimbsSteps, Places
  <2> QED BY <2>1
<1>2. ASSUME NEW n \in Nat, n \in S PROVE n + 1 \in S
  <2> SUFFICES ASSUME n + 1 <= Limbs PROVE LowLimbs(h, n + 1) \in -(4 * Place[n + 1]) .. 4 * Place[n + 1]
    OBVIOUS
  <2>1. n \in Limb
    BY Sizes DEF Limb
  <2> DEFINE a == LowLimbs(h, n)
             p == Place[n]
             f == Full(n)
             x == h[n]
             b == LowLimbs(h, n + 1)
  <2>2. b = a + p * x /\ p \in Nat \ {0} /\ f \in Nat \ {0} /\ Place[n + 1] = p * f
    BY <1>0, <2>1, LowLimbsSteps, PlaceAbove
  <2>3. a \in -(4 * p) .. 4 * p
    BY <1>2, Sizes
  <2>4. x \in -(2 * f) .. 2 * f
    BY <2>1 DEF Tame
  <2>5. f >= 2
    BY <2>1, FieldHalves
  <2> HIDE DEF a, p, f, x, b
  <2> DEFINE z == p * f
             w == p * x
  <2>6. z \in Nat /\ 2 * p <= z
    <3>1. p * 2 <= p * f
      BY <2>2, <2>5
    <3> QED BY <2>2, <3>1
  <2>7. w \in -(2 * z) .. 2 * z
    <3>1. x \in Int /\ x <= 2 * f /\ -(2 * f) <= x
      BY <2>2, <2>4
    <3>2. p * x <= p * (2 * f) /\ p * (-(2 * f)) <= p * x
      BY <2>2, <3>1
    <3>3. p * (2 * f) = 2 * (p * f) /\ p * (-(2 * f)) = -(2 * (p * f))
      BY <2>2
    <3>4. w \in Int
      BY <2>2, <3>1
    <3> QED BY <2>6, <3>2, <3>3, <3>4
  <2>8. b = a + w /\ Place[n + 1] = z
    BY <2>2
  <2> HIDE DEF z, w
  <2>9. b \in -(4 * z) .. 4 * z
    BY <2>2, <2>3, <2>6, <2>7, <2>8
  <2> QED BY <2>8, <2>9 DEF b
<1>3. \A n \in Nat : n \in S
  <2> HIDE DEF S
  <2> QED BY <1>1, <1>2, FromZero
<1> QED BY <1>3, Sizes

\* How large the prime is.
LEMMA PrimeIsLarge ==
  ASSUME FieldFits
  PROVE  LET w == NarrowBase
             p == Place[Limbs - 1]
         IN  /\ w \in Nat \ {0} /\ p \in Nat \ {0} /\ FoldBy \in Nat /\ FoldBy >= 1
             /\ Place[Limbs] = p * w /\ 24 * FoldBy <= w /\ w <= p
             /\ FieldPrime \in Nat \ {0} /\ p * w = FieldPrime + FoldBy /\ 2 * FoldBy <= p * w
<1> DEFINE w == NarrowBase
           p == Place[Limbs - 1]
           q == Place[Limbs - 2]
           f == Full(Limbs - 2)
<1>1. /\ Limbs \in Nat /\ Limbs >= 4 /\ FoldBy \in Nat /\ FoldBy >= 1 /\ Limbs - 2 \in Limb
      /\ (Limbs - 2) + 1 = Limbs - 1
  BY FieldAssumption DEF Limb
<1>2. w \in Nat \ {0} /\ Place[Limbs] = p * w /\ p \in Nat \ {0}
  BY TopLimbWidth, PlaceAbove
<1>3. p = q * f /\ q \in Nat \ {0} /\ f \in Nat \ {0} /\ w <= f
  BY <1>1, PlaceAbove, FieldHalves
<1>4. 24 * FoldBy <= w
  <2>1. 4 * ((Limbs + 2) * FoldBy) <= w
    BY DEF FieldFits
  <2>2. 6 * FoldBy <= (Limbs + 2) * FoldBy /\ (Limbs + 2) * FoldBy \in Nat
    BY <1>1
  <2> DEFINE z == (Limbs + 2) * FoldBy
  <2>3. 6 * FoldBy <= z /\ z \in Nat /\ 4 * z <= w
    BY <2>1, <2>2
  <2> HIDE DEF z, w
  <2> QED BY <1>1, <1>2, <2>3
<1>5. FieldPrime \in Nat \ {0} /\ Place[Limbs] = FieldPrime + FoldBy
  BY Places
<1> HIDE DEF w, p, q, f
<1>6. w <= p
  <2>1. f <= q * f
    BY <1>3
  <2> QED BY <1>2, <1>3, <2>1
<1>7. w <= p * w /\ p * w \in Nat
  BY <1>2
<1>8. 2 * FoldBy <= p * w
  BY <1>1, <1>2, <1>4, <1>7
<1> QED BY <1>1, <1>2, <1>4, <1>5, <1>6, <1>8 DEF w, p

\* The rounded top carry is what the quotient adds up at the bottom, but for what
\* the rest can absorb.
LEMMA TopCarryNear ==
  ASSUME FieldFits, NEW h, Tame(h)
  PROVE  TopCarry(h) - FoldBy * (FieldNumber(h) \div FieldPrime) \in 0 .. FoldBy
<1> DEFINE w == NarrowBase
           g == HalfOf(Limbs - 1)
           p == Place[Limbs - 1]
           T == p * w
           P == FieldPrime
           N == FieldNumber(h)
           q == N \div P
           r == N % P
           top == h[Limbs - 1]
           low == LowLimbs(h, Limbs - 1)
           c == TopCarry(h)
           F == FoldBy
           d == c - F * q
<1>0. h \in Vector
  BY DEF Tame
<1>1. /\ w \in Nat \ {0} /\ p \in Nat \ {0} /\ F \in Nat /\ F >= 1 /\ Place[Limbs] = T
      /\ 24 * F <= w /\ w <= p /\ P \in Nat \ {0} /\ T = P + F /\ 2 * F <= T
  BY PrimeIsLarge
<1>2. g \in Nat \ {0} /\ w = 2 * g
  BY TopLimbWidth
<1>3. N \in Int /\ low \in -(4 * p) .. 4 * p /\ top \in Int /\ N = low + p * top
  <2>1. Limbs - 1 \in Limb /\ (Limbs - 1) + 1 = Limbs /\ Limbs - 1 \in 0 .. Limbs
    BY TopLimbWidth, LimbIndex
  <2>2. LowLimbs(h, Limbs) = N /\ LowLimbs(h, (Limbs - 1) + 1) = low + p * top
    BY <1>0, <2>1, LowLimbsSteps
  <2>3. low \in -(4 * p) .. 4 * p
    BY <2>1, LowLimbsBound
  <2> QED BY <1>0, <2>1, <2>2, <2>3, FieldNumberIsInt DEF Vector
<1>4. N \in -(4 * T) .. 4 * T
  <2>1. Limbs \in 0 .. Limbs
    BY Sizes
  <2>2. LowLimbs(h, Limbs) = N
    BY <1>0, LowLimbsSteps
  <2> QED BY <1>1, <2>1, <2>2, LowLimbsBound
<1>5. c \in Int /\ w * c <= F * top + g /\ F * top + g < w * c + w
  <2> DEFINE x == F * top + g
  <2>1. c = x \div w
    BY TopLimbWidth DEF TopCarry
  <2>2. x \in Int
    BY <1>1, <1>2, <1>3
  <2> HIDE DEF x, w, c
  <2> DEFINE k == x \div w
             s == x % w
  <2>3. k \in Int /\ s \in 0 .. w - 1 /\ x = w * k + s
    BY <1>1, <2>2
  <2>4. c = k
    BY <2>1
  <2> HIDE DEF k, s
  <2>5. w * k \in Int
    BY <1>1, <2>3
  <2>6. w * c <= x /\ x < w * c + w
    BY <1>1, <2>3, <2>4, <2>5
  <2> QED BY <2>3, <2>4, <2>6 DEF x
<1>6. q \in Int /\ r \in 0 .. P - 1 /\ N = P * q + r
  <2> HIDE DEF N, P
  <2> QED BY <1>1, <1>3
<1>t. T \in Nat /\ T = p * w
  BY <1>1
<1> HIDE DEF w, g, p, T, P, N, q, r, top, low, c, F
<1>7. q \in -8 .. 8
  <2>1. T <= 2 * P
    BY <1>1, <1>t
  <2>2. ~(q >= 9)
    <3> SUFFICES ASSUME q >= 9 PROVE FALSE
      OBVIOUS
    <3>1. P * 9 <= P * q
      BY <1>1, <1>6
    <3>2. P * q \in Int
      BY <1>1, <1>6
    <3> DEFINE z == P * q
    <3>3. z \in Int /\ 9 * P <= z /\ N = z + r
      BY <1>1, <1>6, <3>1, <3>2
    <3> HIDE DEF z
    <3> QED BY <1>1, <1>4, <1>6, <1>t, <2>1, <3>3
  <2>3. ~(q <= -9)
    <3> SUFFICES ASSUME q <= -9 PROVE FALSE
      OBVIOUS
    <3>1. P * q <= P * (-9)
      BY <1>1, <1>6
    <3>2. P * q \in Int
      BY <1>1, <1>6
    <3> DEFINE z == P * q
    <3>3. z \in Int /\ z <= -(9 * P) /\ N = z + r
      BY <1>1, <1>6, <3>1, <3>2
    <3> HIDE DEF z
    <3> QED BY <1>1, <1>4, <1>6, <1>t, <2>1, <3>3
  <2> QED BY <1>6, <2>2, <2>3
<1> DEFINE e == F * (F * q) + F * low
           m == g * p
<1>8. m \in Nat /\ T = 2 * m
  BY <1>1, <1>2, <1>t
<1>9. e \in -m .. m
  <2> DEFINE u == F * F
             v == F * p
             x == u * q
             y == F * low
  <2>1. u \in Nat /\ v \in Nat
    BY <1>1
  <2>2. u <= v
    <3>1. F <= p
      BY <1>1
    <3> QED BY <1>1, <3>1
  <2>3. 24 * v <= T
    <3>1. p * (24 * F) <= p * w
      BY <1>1
    <3>2. p * (24 * F) = 24 * (F * p)
      BY <1>1
    <3> QED BY <1>t, <3>1, <3>2
  <2>4. y \in -(4 * v) .. 4 * v
    <3>1. F * low <= F * (4 * p) /\ F * (-(4 * p)) <= F * low
      BY <1>1, <1>3
    <3>2. F * (4 * p) = 4 * (F * p) /\ F * (-(4 * p)) = -(4 * (F * p)) /\ F * low \in Int
      BY <1>1, <1>3
    <3> QED BY <2>1, <3>1, <3>2
  <2>5. e = x + y
    BY <1>1, <1>6
  <2> HIDE DEF u, v, y
  <2>6. x \in -(8 * u) .. 8 * u
    <3>1. q = -8 \/ q = -7 \/ q = -6 \/ q = -5 \/ q = -4 \/ q = -3 \/ q = -2 \/ q = -1 \/ q = 0
          \/ q = 1 \/ q = 2 \/ q = 3 \/ q = 4 \/ q = 5 \/ q = 6 \/ q = 7 \/ q = 8
      BY <1>7
    <3> QED BY <2>1, <3>1
  <2> HIDE DEF x, e, m
  <2>7. e \in -m .. m
    BY <1>8, <2>1, <2>2, <2>3, <2>4, <2>5, <2>6, <1>t
  <2> QED BY <2>7
<1>10. d \in Int /\ T * d <= F * r - e + m /\ F * r - e + m < T * d + T
  <2>1. d \in Int
    BY <1>1, <1>5, <1>6
  <2>2. T * c <= F * (top * p) + m /\ F * (top * p) + m < T * c + T
    <3> DEFINE a == w * c
               b == F * top + g
    <3>1. a \in Int /\ b \in Int /\ a <= b /\ b + 1 <= a + w
      BY <1>1, <1>2, <1>3, <1>5
    <3>2. a * p = T * c /\ b * p = F * (top * p) + m
      <4>1. (w * c) * p = (p * w) * c
        BY <1>1, <1>5
      <4>2. (F * top + g) * p = F * (top * p) + g * p
        BY <1>1, <1>2, <1>3
      <4> QED BY <1>t, <4>1, <4>2
    <3> HIDE DEF a, b
    <3>3. a * p <= b * p
      BY <1>1, <3>1
    <3>4. (b + 1) * p <= (a + w) * p
      <4> DEFINE s == b + 1
                 t == a + w
      <4>1. s \in Int /\ t \in Int /\ s <= t
        BY <1>1, <3>1
      <4> HIDE DEF s, t
      <4>2. s * p <= t * p
        BY <1>1, <4>1
      <4> QED BY <4>2 DEF s, t
    <3>5. (b + 1) * p = b * p + p /\ (a + w) * p = a * p + T
      BY <1>1, <1>t, <3>1
    <3>6. a * p \in Int /\ b * p \in Int
      BY <1>1, <3>1
    <3> DEFINE A == a * p
               B == b * p
    <3>7. A \in Int /\ B \in Int /\ A <= B /\ B + p <= A + T
      BY <3>3, <3>4, <3>5, <3>6
    <3>8. A = T * c /\ B = F * (top * p) + m
      BY <3>2
    <3> HIDE DEF A, B, m
    <3>9. B < A + T
      BY <1>1, <1>t, <3>7
    <3> QED BY <3>7, <3>8, <3>9
  <2>3. F * (top * p) = T * (F * q) + F * r - e
    <3> DEFINE n == P * q
               k == F * q
    <3>1. n \in Int /\ k \in Int /\ T * q = n + k
      <4>1. (P + F) * q = P * q + F * q
        BY <1>1, <1>6
      <4> QED BY <1>1, <1>6, <4>1
    <3>2. top * p = n + r - low
      <4>1. p * top = top * p /\ top * p \in Int
        BY <1>1, <1>3
      <4> DEFINE z == top * p
      <4>2. z \in Int /\ N = low + z /\ N = n + r
        BY <1>3, <1>6, <4>1
      <4> HIDE DEF z, n
      <4>3. z = n + r - low
        BY <1>1, <1>3, <1>6, <3>1, <4>2
      <4> QED BY <4>3 DEF z
    <3>3. F * (n + r - low) = F * n + F * r - F * low
      <4> HIDE DEF n
      <4>1. n \in Int /\ r \in Int /\ low \in Int /\ F \in Int
        BY <1>1, <1>3, <1>6, <3>1
      <4> QED BY <4>1
    <3>4. T * (F * q) = F * n + F * (F * q)
      <4>1. T * (F * q) = F * (T * q)
        BY <1>1, <1>6, <1>t
      <4>2. F * (n + k) = F * n + F * k
        <5> HIDE DEF n, k
        <5> QED BY <1>1, <3>1
      <4> QED BY <3>1, <4>1, <4>2
    <3> DEFINE A == F * n
               B == F * (F * q)
               C == F * r
               D0 == F * low
               E0 == T * (F * q)
    <3>5. A \in Int /\ B \in Int /\ C \in Int /\ D0 \in Int
      <4>1. n \in Int /\ F \in Int /\ q \in Int /\ r \in Int /\ low \in Int
        BY <1>1, <1>3, <1>6, <3>1
      <4> HIDE DEF n
      <4>2. F * n \in Int /\ F * q \in Int /\ F * r \in Int /\ F * low \in Int
        BY <4>1
      <4>3. F * (F * q) \in Int
        BY <4>1, <4>2
      <4> QED BY <4>2, <4>3
    <3>6. E0 = A + B /\ e = B + D0
      BY <3>4
    <3>7. F * (top * p) = A + C - D0
      BY <3>2, <3>3
    <3> HIDE DEF A, B, C, D0, E0, e
    <3>8. A + C - D0 = E0 + C - e
      BY <3>5, <3>6
    <3> QED BY <3>7, <3>8 DEF E0, C
  <2>4. T * d = T * c - T * (F * q)
    <3> DEFINE k == F * q
    <3>1. k \in Int
      BY <1>1, <1>6
    <3> HIDE DEF k
    <3>2. T * (c - k) = T * c - T * k
      BY <1>5, <1>t, <3>1
    <3> QED BY <3>2 DEF k
  <2> DEFINE A == T * c
             B == T * (F * q)
             C == F * r
             D0 == T * d
             E0 == F * (top * p)
  <2>5. A \in Int /\ B \in Int /\ C \in Int /\ e \in Int /\ m \in Int /\ T \in Int
    <3>1. F * q \in Int /\ T \in Int /\ F \in Int /\ r \in Int /\ c \in Int
      BY <1>1, <1>5, <1>6, <1>t
    <3>2. T * c \in Int /\ F * r \in Int
      BY <3>1
    <3>3. T * (F * q) \in Int
      <4> DEFINE k == F * q
      <4> HIDE DEF k
      <4>1. T * k \in Int
        BY <3>1 DEF k
      <4> QED BY <4>1 DEF k
    <3> HIDE DEF e, m
    <3> QED BY <1>8, <1>9, <3>1, <3>2, <3>3
  <2>6. D0 = A - B /\ E0 = B + C - e /\ A <= E0 + m /\ E0 + m < A + T
    BY <2>2, <2>3, <2>4
  <2> HIDE DEF A, B, C, D0, E0, e, m, d
  <2>7. D0 <= C - e + m /\ C - e + m < D0 + T
    BY <2>5, <2>6
  <2> QED BY <2>1, <2>7 DEF D0, C
<1> DEFINE R == F * r
<1>11. R \in Nat /\ R <= F * (P - 1) /\ F * (P - 1) < T * F
  <2>1. F * r <= F * (P - 1) /\ F * r \in Nat
    BY <1>1, <1>6
  <2>2. F * (P - 1) < F * T
    <3>1. P - 1 + 1 <= T
      BY <1>1
    <3> DEFINE s == P - 1
    <3>2. s \in Nat /\ s + 1 <= T
      BY <1>1, <3>1
    <3> HIDE DEF s
    <3>3. F * (s + 1) <= F * T
      BY <1>1, <1>t, <3>2
    <3>4. F * (s + 1) = F * s + F /\ F * s \in Int /\ F * T \in Int
      BY <1>1, <1>t, <3>2
    <3> DEFINE A == F * s
               B == F * T
    <3>5. A \in Int /\ B \in Int /\ A + F <= B
      BY <3>3, <3>4
    <3> HIDE DEF A, B
    <3>6. A < B
      BY <1>1, <3>5
    <3> QED BY <3>6 DEF A, B, s
  <2>3. F * T = T * F
    BY <1>1, <1>t
  <2> QED BY <2>1, <2>2, <2>3
<1> HIDE DEF d, e, m, R
<1>12. ~(d <= -1)
  <2> SUFFICES ASSUME d <= -1 PROVE FALSE
    OBVIOUS
  <2> DEFINE z == T * d
  <2>1. z <= -T /\ z \in Int
    <3>1. T * d <= T * (-1)
      BY <1>10, <1>t
    <3> QED BY <1>10, <1>t, <3>1
  <2>2. R - e + m < z + T
    BY <1>10 DEF R
  <2> HIDE DEF z
  <2> QED BY <1>8, <1>9, <1>11, <1>t, <2>1, <2>2
<1>13. ~(d >= F + 1)
  <2> SUFFICES ASSUME d >= F + 1 PROVE FALSE
    OBVIOUS
  <2> DEFINE z == T * d
             y == T * F
             x == F * (P - 1)
  <2>1. y + T <= z /\ z \in Int /\ y \in Int
    <3>1. T * (F + 1) <= T * d
      BY <1>1, <1>10, <1>t
    <3>2. T * (F + 1) = T * F + T
      BY <1>1, <1>t
    <3> QED BY <1>1, <1>10, <1>t, <3>1, <3>2
  <2>2. z <= R - e + m /\ R <= x /\ x < y
    BY <1>10, <1>11 DEF R
  <2>3. x \in Int
    BY <1>1
  <2> HIDE DEF z, x, y
  <2> QED BY <1>8, <1>9, <1>11, <1>t, <2>1, <2>2, <2>3
<1>14. d \in 0 .. F
  BY <1>1, <1>10, <1>12, <1>13
<1> QED BY <1>14 DEF d, c, F, q, N, P

\* fe_tobytes finds how often the prime is in the number.
LEMMA QuotientIsRight ==
  ASSUME FieldFits, NEW h, Tame(h)
  PROVE  /\ Quotient(h) = FieldNumber(h) \div FieldPrime /\ Quotient(h) \in Int
         /\ (FieldNumber(h) + FoldBy * Quotient(h)) % Place[Limbs] = FieldNumber(h) % FieldPrime
         /\ FieldNumber(h) + FoldBy * Quotient(h) \in Int
<1> DEFINE T == Place[Limbs]
           P == FieldPrime
           N == FieldNumber(h)
           q == N \div P
           r == N % P
           c == TopCarry(h)
           F == FoldBy
           d == c - F * q
<1>0. h \in Vector
  BY DEF Tame
<1>1. P \in Nat \ {0} /\ T = P + F /\ F \in Nat
  BY Places, Sizes
<1>2. N \in Int /\ c \in Int
  BY <1>0, FieldNumberIsInt, TopCarryTyped
<1>3. d \in 0 .. F
  BY TopCarryNear
<1>4. Quotient(h) = (N + c) \div T
  BY <1>0, QuotientIsWhole
<1> HIDE DEF T, P, N, c, F
<1>5. q \in Int /\ r \in 0 .. P - 1 /\ N = P * q + r
  BY <1>1, <1>2
<1> HIDE DEF q, r
<1> DEFINE k == F * q
           n == P * q
<1>6. k \in Int /\ n \in Int /\ T * q = n + k
  <2>1. (P + F) * q = P * q + F * q
    BY <1>1, <1>5
  <2> QED BY <1>1, <1>5, <2>1
<1>7. N = n + r /\ d = c - k
  BY <1>5
<1> HIDE DEF k, n, d
<1>8. N + c = T * q + (r + d) /\ r + d \in 0 .. T - 1
  <2> DEFINE z == T * q
  <2>1. z = n + k
    BY <1>6
  <2> HIDE DEF z
  <2>2. N + c = z + (r + d)
    BY <1>1, <1>2, <1>3, <1>5, <1>6, <1>7, <2>1
  <2>3. r + d \in 0 .. T - 1
    BY <1>1, <1>3, <1>5
  <2> QED BY <2>2, <2>3 DEF z
<1>9. T \in Nat \ {0}
  BY <1>1
<1> DEFINE s == r + d
<1>10. (T * q + s) \div T = q
  <2>1. s \in 0 .. T - 1
    BY <1>8
  <2> HIDE DEF s
  <2> QED BY <1>5, <1>9, <2>1, QuotientIs
<1>11. Quotient(h) = q
  BY <1>4, <1>8, <1>10
<1>12. N + k = T * q + r /\ r \in 0 .. T - 1
  <2> DEFINE z == T * q
  <2>1. z = n + k
    BY <1>6
  <2> HIDE DEF z
  <2>2. N + k = z + r
    BY <1>1, <1>5, <1>6, <1>7, <2>1
  <2>3. r \in 0 .. T - 1
    BY <1>1, <1>5
  <2> QED BY <2>2, <2>3 DEF z
<1>13. (T * q + r) % T = r
  BY <1>5, <1>9, <1>12, RestOfMultiple
<1>14. (N + k) % T = r /\ N + k \in Int
  BY <1>2, <1>6, <1>12, <1>13
<1>15. N + F * Quotient(h) = N + k
  BY <1>11 DEF k
<1> QED BY <1>5, <1>11, <1>14, <1>15 DEF q, r, N, P, F, T

\* One limb is brought into its range, and the next takes what is above.
LEMMA FlooredField ==
  ASSUME NEW v \in Vector, NEW i \in Limb
  PROVE  LET u == FlooredCarry(v, i)
         IN  /\ u \in Vector /\ u[i] = v[i] % Full(i)
             /\ (i + 1 \in Limb => u[i + 1] = v[i + 1] + (v[i] \div Full(i)))
             /\ \A j \in Limb : j # i /\ j # i + 1 => u[j] = v[j]
<1> DEFINE u == FlooredCarry(v, i)
           f == Full(i)
           x == v[i]
           c == x \div f
           n == (i + 1) % Limbs
<1>1. f \in Nat \ {0} /\ x \in Int
  BY FieldHalves DEF Vector
<1>2. Limbs \in Nat /\ Limbs >= 4 /\ i \in 0 .. Limbs - 1 /\ Limb = 0 .. Limbs - 1
  BY Sizes, LimbIndex DEF Limb
<1>3. u = [v EXCEPT ![i] = x - c * f, ![n] = IF i = Limbs - 1 THEN @ ELSE @ + c]
  BY DEF FlooredCarry, Full
<1>4. n = (IF i = Limbs - 1 THEN 0 ELSE i + 1) /\ n \in Limb /\ n # i
  <2>1. CASE i = Limbs - 1
    <3>1. n = Limbs % Limbs
      BY <1>2, <2>1
    <3>2. Limbs % Limbs = 0
      <4>1. (Limbs * 1 + 0) % Limbs = 0
        BY <1>2, RestOfMultiple
      <4> QED BY <1>2, <4>1
    <3> QED BY <1>2, <2>1, <3>1, <3>2
  <2>2. CASE i # Limbs - 1
    <3>1. (Limbs * 0 + (i + 1)) % Limbs = i + 1
      <4>1. Limbs \in Nat \ {0} /\ 0 \in Int /\ i + 1 \in 0 .. Limbs - 1
        BY <1>2, <2>2
      <4> QED BY <4>1, RestOfMultiple
    <3>2. n = i + 1
      BY <1>2, <3>1
    <3> QED BY <1>2, <2>2, <3>2
  <2> QED BY <2>1, <2>2
<1>5. c \in Int /\ x - c * f = x % f /\ x % f \in Int
  <2> HIDE DEF x, f
  <2>1. x = f * (x \div f) + (x % f) /\ x \div f \in Int /\ x % f \in Int
    BY <1>1
  <2>2. c * f = f * (x \div f) /\ c * f \in Int
    BY <1>1, <2>1
  <2> HIDE DEF c
  <2>3. x - c * f = x % f
    BY <1>1, <2>1, <2>2
  <2> QED BY <2>1, <2>3 DEF c
<1> DEFINE d == x - c * f
<1>6. u = [v EXCEPT ![i] = d, ![n] = IF i = Limbs - 1 THEN @ ELSE @ + c]
  BY <1>3
<1>7. d \in Int /\ d = x % f
  BY <1>5
<1> HIDE DEF u, d, c, n, f
<1>8. u[i] = d /\ u[n] = (IF i = Limbs - 1 THEN v[n] ELSE v[n] + c)
      /\ \A j \in Limb : j # i /\ j # n => u[j] = v[j]
  BY <1>4, <1>6 DEF Vector
<1>9. u \in Vector
  BY <1>4, <1>5, <1>6, <1>7 DEF Vector
<1>10. i + 1 \in Limb => i # Limbs - 1
  BY <1>2
<1>11. \A j \in Limb : j # i /\ j # i + 1 => u[j] = v[j]
  <2> TAKE j \in Limb
  <2>1. CASE i = Limbs - 1
    BY <1>4, <1>8, <2>1
  <2>2. CASE i # Limbs - 1
    BY <1>4, <1>8, <2>2
  <2> QED BY <2>1, <2>2
<1>12. i + 1 \in Limb => u[i + 1] = v[i + 1] + c
  BY <1>4, <1>8, <1>10
<1> QED BY <1>7, <1>8, <1>9, <1>11, <1>12 DEF u, c, f, x

\* What fe_tobytes adds at the bottom.
Bottomed(h) == [h EXCEPT ![0] = @ + FoldBy * Quotient(h)]

\* The vectors of fe_tobytes' pass, one per limb.
BytesTable(h) ==
  CHOOSE T : T = [n \in 0 .. Limbs |->
                    IF n = 0 THEN [h EXCEPT ![0] = @ + FoldBy * Quotient(h)]
                    ELSE FlooredCarry(T[n - 1], n - 1)]

\* The table of fe_tobytes, entry by entry.
LEMMA BytesTabled ==
  ASSUME NEW h, Bottomed(h) \in Vector
  PROVE  /\ FeToBytes(h) = SumTo(Limbs, [i \in Limb |-> BytesTable(h)[Limbs][i] * Place[i]])
         /\ BytesTable(h)[0] = Bottomed(h)
         /\ \A n \in Limb : BytesTable(h)[n + 1] = FlooredCarry(BytesTable(h)[n], n)
<1> DEFINE D == Vector
           n == Limbs
           base == Bottomed(h)
           step == [m \in 1 .. n |-> [w \in D |-> FlooredCarry(w, m - 1)]]
           Table(V) == V = [m \in 0 .. n |-> IF m = 0 THEN Bottomed(h) ELSE FlooredCarry(V[m - 1], m - 1)]
<1>1. n \in Nat /\ \A m \in 1 .. n : m - 1 \in Limb
  BY Sizes DEF Limb
<1>2. base \in D
  OBVIOUS
<1>3. \A w \in D, i \in Limb : FlooredCarry(w, i) \in D
  BY FlooredField
<1> HIDE DEF D
<1>4. step \in [1 .. n -> [D -> D]]
  BY <1>1, <1>3
<1>5. \A m \in 1 .. n, w \in D : step[m][w] = FlooredCarry(w, m - 1)
  OBVIOUS
<1> HIDE DEF step, base, n
<1>6. PICK V : Stepwise(V, D, n, base, step)
  BY <1>1, <1>2, <1>4, StepwiseFunction
<1>7. /\ V \in [0 .. n -> D] /\ V[0] = Bottomed(h)
      /\ \A m \in 1 .. n : V[m] = FlooredCarry(V[m - 1], m - 1)
  <2>1. V \in [0 .. n -> D] /\ V[0] = Bottomed(h) /\ \A m \in 1 .. n : V[m] = step[m][V[m - 1]]
    BY <1>6 DEF Stepwise, base
  <2>2. \A m \in 1 .. n : V[m - 1] \in D
    BY <1>1, <2>1
  <2> QED BY <1>5, <2>1, <2>2
<1>8. Table(V)
  BY <1>1, <1>7
<1> DEFINE T == BytesTable(h)
<1>9. Table(T)
  <2>1. T = CHOOSE A : Table(A)
    BY DEF BytesTable, n, Bottomed
  <2> HIDE DEF Table, T
  <2> QED BY <1>8, <2>1
<1>10. FeToBytes(h) = SumTo(n, [i \in Limb |-> T[n][i] * Place[i]])
  BY DEF FeToBytes, BytesTable, n
<1> HIDE DEF T
<1>11. T[0] = Bottomed(h) /\ \A m \in 1 .. n : T[m] = FlooredCarry(T[m - 1], m - 1)
  BY <1>1, <1>9
<1>12. \A m \in Limb : m + 1 \in 1 .. n /\ (m + 1) - 1 = m
  BY Sizes DEF Limb, n
<1>13. \A m \in Limb : T[m + 1] = FlooredCarry(T[m], m)
  BY <1>11, <1>12
<1> QED BY <1>10, <1>11, <1>13 DEF n, T

\* Limb by limb the digits of the number of g come out.
Digited(v, g, n) ==
  /\ v \in Vector
  /\ \A j \in Limb : j > n => v[j] = g[j]
  /\ n \in Limb => v[n] = g[n] + (LowLimbs(g, n) \div Place[n])
  /\ LowLimbs(v, n) = LowLimbs(g, n) % Place[n]

\* One limb more.
LEMMA DigitedStep ==
  ASSUME NEW g \in Vector, NEW n \in Limb, NEW v, Digited(v, g, n)
  PROVE  Digited(FlooredCarry(v, n), g, n + 1)
<1> DEFINE u == FlooredCarry(v, n)
           f == Full(n)
           p == Place[n]
           x == v[n]
<1>1. v \in Vector
  BY DEF Digited
<1>2. /\ u \in Vector /\ u[n] = x % f /\ (n + 1 \in Limb => u[n + 1] = v[n + 1] + (x \div f))
      /\ \A j \in Limb : j # n /\ j # n + 1 => u[j] = v[j]
  BY <1>1, FlooredField
<1>3. /\ p \in Nat \ {0} /\ f \in Nat \ {0} /\ Place[n + 1] = p * f
      /\ n \in Nat /\ n \in 0 .. Limbs /\ n + 1 \in 0 .. Limbs
  BY PlaceAbove
<1>4. x = g[n] + (LowLimbs(g, n) \div p)
  BY DEF Digited
<1>5. /\ x \div f = LowLimbs(g, n + 1) \div Place[n + 1]
      /\ LowLimbs(g, n + 1) % Place[n + 1] = (LowLimbs(g, n) % p) + p * (x % f)
  <2>1. 0 \in Int /\ LowLimbs(g, n) \in Int /\ LowLimbs(g, n + 1) \in Int
    BY <1>3, LowLimbsSteps
  <2>2. LowLimbs(g, n) + 0 = LowLimbs(g, n) /\ LowLimbs(g, n + 1) + 0 = LowLimbs(g, n + 1)
    BY <2>1
  <2>3. /\ (g[n] + ((LowLimbs(g, n) + 0) \div Place[n])) \div Full(n)
              = (LowLimbs(g, n + 1) + 0) \div Place[n + 1]
        /\ (LowLimbs(g, n + 1) + 0) % Place[n + 1]
              = ((LowLimbs(g, n) + 0) % Place[n])
                  + Place[n] * ((g[n] + ((LowLimbs(g, n) + 0) \div Place[n])) % Full(n))
    BY <2>1, CarriedUp
  <2> QED BY <1>4, <2>2, <2>3
<1> HIDE DEF u
<1>6. \A j \in Limb : j > n + 1 => u[j] = g[j]
  <2> TAKE j \in Limb
  <2>1. j \in Nat
    BY LimbIndex
  <2>2. j > n + 1 => j # n /\ j # n + 1 /\ j > n
    BY <1>3, <2>1
  <2> QED BY <1>2, <2>2 DEF Digited
<1>7. n + 1 \in Limb => u[n + 1] = g[n + 1] + (LowLimbs(g, n + 1) \div Place[n + 1])
  <2> SUFFICES ASSUME n + 1 \in Limb PROVE u[n + 1] = g[n + 1] + (LowLimbs(g, n + 1) \div Place[n + 1])
    OBVIOUS
  <2>1. n + 1 > n
    BY <1>3
  <2>2. v[n + 1] = g[n + 1]
    BY <2>1 DEF Digited
  <2> QED BY <1>2, <1>5, <2>2
<1>8. LowLimbs(u, n + 1) = LowLimbs(g, n + 1) % Place[n + 1]
  <2>1. LowLimbs(u, n + 1) = LowLimbs(u, n) + p * u[n]
    BY <1>2, LowLimbsSteps
  <2>2. LowLimbs(u, n) = LowLimbs(v, n)
    <3>1. Ints(PlacedLimbs(v), Limbs)
      BY <1>1, Placed
    <3>2. Ints(PlacedLimbs(v), n)
      BY <1>3, <3>1, Sizes DEF Ints
    <3>3. \A i \in 0 .. n - 1 : PlacedLimbs(u)[i] = PlacedLimbs(v)[i]
      <4> TAKE i \in 0 .. n - 1
      <4>1. i \in Limb /\ i # n /\ i # n + 1
        BY <1>3, Sizes DEF Limb
      <4>2. u[i] = v[i]
        BY <1>2, <4>1
      <4> QED BY <4>1, <4>2 DEF PlacedLimbs
    <3> QED BY <3>2, <3>3, SumSame DEF LowLimbs
  <2>3. LowLimbs(v, n) = LowLimbs(g, n) % p
    BY DEF Digited
  <2> QED BY <1>2, <1>5, <2>1, <2>2, <2>3
<1> QED BY <1>2, <1>6, <1>7, <1>8 DEF Digited, u

\* fe_tobytes: the one representative below the prime.
LEMMA BytesAreValue ==
  ASSUME FieldFits, NEW h, Tame(h)
  PROVE  FeToBytes(h) = Value(h)
<1> DEFINE g == Bottomed(h)
           T == BytesTable(h)
           e == FoldBy * Quotient(h)
           S == {n \in Nat : n <= Limbs => Digited(T[n], g, n)}
<1>0. h \in Vector /\ 0 \in Limb /\ Limbs \in Nat
  BY Sizes DEF Tame, Limb
<1>1. e \in Int
  <2>1. Quotient(h) \in Int /\ FoldBy \in Int
    BY QuotientIsRight, Sizes
  <2> QED BY <2>1
<1>2. g \in Vector /\ g[0] = h[0] + e /\ \A j \in Limb : j # 0 => g[j] = h[j]
  <2>1. g = [h EXCEPT ![0] = @ + e]
    BY DEF Bottomed
  <2> HIDE DEF g, e
  <2> QED BY <1>0, <1>1, <2>1 DEF Vector
<1>3. FieldNumber(g) = FieldNumber(h) + e
  <2>1. FieldNumber(g) = FieldNumber(h) + e * Place[0]
    <3> HIDE DEF g, e
    <3> QED BY <1>0, <1>1, <1>2, FieldNumberChanged
  <2> HIDE DEF e
  <2>2. e * Place[0] = e
    BY <1>1, Places
  <2> QED BY <2>1, <2>2
<1>4. /\ FeToBytes(h) = SumTo(Limbs, [i \in Limb |-> T[Limbs][i] * Place[i]])
      /\ T[0] = g /\ \A n \in Limb : T[n + 1] = FlooredCarry(T[n], n)
  BY <1>2, BytesTabled
<1>5. 0 \in S
  <2> HIDE DEF g
  <2>1. LowLimbs(g, 0) = 0 /\ Place[0] = 1
    BY <1>2, LowLimbsSteps, Places
  <2>2. 0 \div 1 = 0 /\ 0 % 1 = 0
    OBVIOUS
  <2>3. g[0] \in Int
    BY <1>0, <1>2 DEF Vector
  <2>4. g[0] + (LowLimbs(g, 0) \div Place[0]) = g[0]
    BY <2>1, <2>2, <2>3
  <2>5. Digited(g, g, 0)
    BY <1>2, <2>1, <2>2, <2>4 DEF Digited
  <2> QED BY <1>4, <2>5
<1>6. ASSUME NEW n \in Nat, n \in S PROVE n + 1 \in S
  <2> SUFFICES ASSUME n + 1 <= Limbs PROVE Digited(T[n + 1], g, n + 1)
    OBVIOUS
  <2>1. n \in Limb /\ n <= Limbs
    BY Sizes DEF Limb
  <2> HIDE DEF g, T
  <2>2. Digited(T[n], g, n)
    BY <1>6, <2>1
  <2> QED BY <1>2, <1>4, <2>1, <2>2, DigitedStep
<1>7. \A n \in Nat : n \in S
  <2> HIDE DEF S
  <2> QED BY <1>5, <1>6, FromZero
<1>8. Digited(T[Limbs], g, Limbs)
  BY <1>0, <1>7
<1> HIDE DEF g, T
<1>9. FeToBytes(h) = LowLimbs(T[Limbs], Limbs)
  BY <1>4 DEF LowLimbs, PlacedLimbs
<1>10. LowLimbs(T[Limbs], Limbs) = FieldNumber(g) % Place[Limbs]
  BY <1>2, <1>8, LowLimbsSteps DEF Digited
<1>11. FieldNumber(g) % Place[Limbs] = FieldNumber(h) % FieldPrime
  BY <1>3, QuotientIsRight
<1> QED BY <1>0, <1>9, <1>10, <1>11, ValueOf

-----------------------------------------------------------------------------
(* Reading the bytes again.                                                  *)

\* The loads cut a number below 2^255 at byte boundaries and lose nothing.
LEMMA LoadedWhole ==
  ASSUME NEW s \in Nat, s < Place[Limbs]
  PROVE  /\ [i \in Limb |-> Loaded(s, i)] \in Vector
         /\ FieldNumber([i \in Limb |-> Loaded(s, i)]) = s
<1> DEFINE h == [i \in Limb |-> Loaded(s, i)]
           a(i) == Power(2, LoadFrom(i))
           b(i) == Power(2, LoadFrom(i + 1) - LoadFrom(i))
           c(i) == Power(2, LoadFrom(i) - Offset(i))
<1>1. ASSUME NEW i \in Limb
      PROVE  /\ LoadFrom(i) \in Nat /\ LoadFrom(i) - Offset(i) \in Nat /\ Offset(i) \in Nat
             /\ LoadFrom(i + 1) - LoadFrom(i) \in Nat /\ LoadFrom(i + 1) \in Nat
  <2>1. /\ i \in Nat /\ i + 1 \in Nat /\ ByteWidth \in Nat \ {0} /\ ByteWidth <= OddBits
        /\ i \in 0 .. Limbs /\ i + 1 \in 0 .. Limbs
        /\ Offset(i) \in Nat /\ Offset(i + 1) = Offset(i) + Width(i) /\ Width(i) \in Nat
        /\ Width(i) >= OddBits /\ OddBits \in Nat
    BY LimbIndex, Offsets, Widths, FieldAssumption, Sizes DEF Width, Limb
  <2> QED BY <2>1, LoadPlaces
<1>2. ASSUME NEW i \in Limb
      PROVE  /\ a(i) \in Nat \ {0} /\ b(i) \in Nat \ {0} /\ c(i) \in Nat \ {0}
             /\ a(i + 1) = a(i) * b(i) /\ a(i) = Place[i] * c(i) /\ Place[i] \in Nat \ {0}
  <2>1. 2 \in Nat \ {0} /\ 2 \in Nat
    OBVIOUS
  <2>2. a(i) \in Nat \ {0} /\ b(i) \in Nat \ {0} /\ c(i) \in Nat \ {0}
    BY <1>1, <2>1, PowerPositive
  <2>3. a(i + 1) = a(i) * b(i)
    <3> DEFINE x == LoadFrom(i)
               y == LoadFrom(i + 1) - LoadFrom(i)
    <3>1. x \in Nat /\ y \in Nat /\ LoadFrom(i + 1) = x + y
      BY <1>1
    <3> HIDE DEF x, y
    <3>2. Power(2, x + y) = Power(2, x) * Power(2, y)
      BY <2>1, <3>1, PowerOfSum
    <3> QED BY <3>1, <3>2 DEF x, y
  <2>4. a(i) = Place[i] * c(i)
    <3> DEFINE x == Offset(i)
               y == LoadFrom(i) - Offset(i)
    <3>1. x \in Nat /\ y \in Nat /\ LoadFrom(i) = x + y
      BY <1>1
    <3> HIDE DEF x, y
    <3>2. Power(2, x + y) = Power(2, x) * Power(2, y)
      BY <2>1, <3>1, PowerOfSum
    <3>3. Place[i] = Power(2, Offset(i))
      BY LimbIndex, Places
    <3> QED BY <3>1, <3>2, <3>3 DEF x, y
  <2> QED BY <2>2, <2>3, <2>4, PlaceAbove
<1>3. \A i \in Limb : Loaded(s, i) = ((s \div a(i)) % b(i)) * c(i)
  BY DEF Loaded
<1>4. a(0) = 1 /\ a(Limbs) = Place[Limbs]
  <2>1. LoadFrom(0) = 0 /\ LoadFrom(Limbs) = Offset(Limbs)
    BY LoadPlaces DEF LoadFrom
  <2>2. Power(2, 0) = 1
    <3>1. 2 \in Nat
      OBVIOUS
    <3> QED BY <3>1, PowerSteps
  <2>3. Place[Limbs] = Power(2, Offset(Limbs))
    <3>1. Limbs \in 0 .. Limbs
      BY Sizes
    <3> QED BY <3>1, Places
  <2> QED BY <2>1, <2>2, <2>3
<1>5. \A i \in Limb : h[i] = ((s \div a(i)) % b(i)) * c(i)
  BY <1>3
<1> HIDE DEF a, b, c
<1>6. ASSUME NEW i \in Limb
      PROVE  /\ h[i] \in Int /\ Place[i] * h[i] = a(i) * ((s \div a(i)) % b(i))
             /\ s % a(i + 1) = (s % a(i)) + a(i) * ((s \div a(i)) % b(i))
  <2> DEFINE x == a(i)
             y == b(i)
             z == c(i)
             p == Place[i]
             q == s \div x
             r == q % y
  <2>1. x \in Nat \ {0} /\ y \in Nat \ {0} /\ z \in Nat \ {0} /\ p \in Nat \ {0} /\ x = p * z
        /\ a(i + 1) = x * y
    BY <1>2
  <2>2. h[i] = r * z
    BY <1>5
  <2> HIDE DEF x, y, z, p, h
  <2>3. q \in Int
    BY <2>1
  <2>4. s % (x * y) = (s % x) + x * ((s \div x) % y)
    <3>1. s \in Int
      OBVIOUS
    <3> HIDE DEF q, r
    <3> QED BY <2>1, <3>1, DigitAbove
  <2> HIDE DEF q
  <2>5. r \in Int
    BY <2>1, <2>3
  <2> HIDE DEF r
  <2>6. r * z \in Int /\ p * (r * z) = x * r
    BY <2>1, <2>5
  <2> QED BY <2>1, <2>2, <2>4, <2>6 DEF q, r, x, y, z, p
<1>7. h \in Vector
  <2>1. h = [i \in Limb |-> h[i]]
    OBVIOUS
  <2> HIDE DEF h
  <2> QED BY <1>6, <2>1 DEF Vector
<1> HIDE DEF h
<1> DEFINE S == {n \in Nat : n <= Limbs => LowLimbs(h, n) = s % a(n)}
<1>8. 0 \in S
  <2>1. LowLimbs(h, 0) = 0
    BY <1>7, LowLimbsSteps
  <2>2. s % 1 = 0
    OBVIOUS
  <2> QED BY <1>4, <2>1, <2>2
<1>9. ASSUME NEW n \in Nat, n \in S PROVE n + 1 \in S
  <2> SUFFICES ASSUME n + 1 <= Limbs PROVE LowLimbs(h, n + 1) = s % a(n + 1)
    OBVIOUS
  <2>1. n \in Limb /\ n <= Limbs
    BY Sizes DEF Limb
  <2>2. LowLimbs(h, n + 1) = LowLimbs(h, n) + Place[n] * h[n]
    BY <1>7, <2>1, LowLimbsSteps
  <2>3. LowLimbs(h, n) = s % a(n)
    BY <1>9, <2>1
  <2> QED BY <1>6, <2>1, <2>2, <2>3
<1>10. \A n \in Nat : n \in S
  <2> HIDE DEF S
  <2> QED BY <1>8, <1>9, FromZero
<1>11. FieldNumber(h) = s % Place[Limbs]
  BY <1>4, <1>7, <1>10, Sizes, LowLimbsSteps
<1>12. s % Place[Limbs] = s
  <2> DEFINE T == Place[Limbs]
  <2>1. T \in Nat \ {0} /\ s \in 0 .. T - 1
    <3>1. Limbs \in 0 .. Limbs
      BY Sizes
    <3> QED BY <3>1, Places
  <2> HIDE DEF T
  <2>2. (T * 0 + s) % T = s
    BY <2>1, RestOfMultiple
  <2> QED BY <2>1, <2>2 DEF T
<1> QED BY <1>7, <1>11, <1>12 DEF h

\* Bytes below the prime are read as the element they name.
LEMMA ReadAgain ==
  ASSUME NEW s \in 0 .. FieldPrime - 1
  PROVE  Value(FeFromBytes(s)) = s
<1> DEFINE h == [i \in Limb |-> Loaded(s, i)]
<1>1. s \in Nat /\ s < Place[Limbs] /\ FieldPrime \in Nat \ {0} /\ s \in Int
  BY Places, Sizes
<1>2. h \in Vector /\ FieldNumber(h) = s
  BY <1>1, LoadedWhole
<1>3. Congruent(FieldPrime, FieldNumber(h), s)
  BY <1>1, <1>2, SameSelf
<1>4. FeFromBytes(s) = Carries(h, OnePass)
  BY DEF FeFromBytes
<1> HIDE DEF h
<1>5. Value(FeFromBytes(s)) = s % FieldPrime
  BY <1>2, <1>3, <1>4, Orders, CarriedValue
<1> QED BY <1>5, RestOfElement

\* So the bytes of an element are canonical.
LEMMA FieldBoundedCanonical == FieldFits /\ FieldBounded => CanonicalBytes
<1> SUFFICES ASSUME FieldFits, FieldBounded, NEW r \in Reg, terms[r] <= 2
             PROVE  /\ FeToBytes(reg[r]) = Value(reg[r])
                    /\ FeIsNegative(reg[r]) = Value(reg[r]) % 2
                    /\ FeIsNonzero(reg[r]) <=> Value(reg[r]) # 0
                    /\ Value(FeFromBytes(FeToBytes(reg[r]))) = Value(reg[r])
  BY DEF CanonicalBytes
<1>1. terms[r] \in 0 .. 2 /\ ones[r] \in 0 .. MostOnes /\ reg[r] \in Vector
      /\ Fits(reg[r], terms[r], ones[r])
  BY DEF FieldBounded
<1>2. Tame(reg[r])
  BY <1>1, FitsTame
<1>3. FeToBytes(reg[r]) = Value(reg[r])
  BY <1>2, BytesAreValue
<1>4. Value(reg[r]) \in 0 .. FieldPrime - 1
  BY <1>1, ValueOf
<1>5. Value(FeFromBytes(Value(reg[r]))) = Value(reg[r])
  BY <1>4, ReadAgain
<1> QED BY <1>3, <1>5 DEF FeIsNegative, FeIsNonzero

-----------------------------------------------------------------------------
(* The exponents of fe_invert and fe_pow22523.                               *)

\* A number as the digits an exponent is written in.
DigitsOf(x) == [i \in 1 .. Digits |-> (x \div Power(Radix, i - 1)) % Radix]

\* The radix and its powers.
LEMMA RadixSize ==
  /\ Radix \in Nat \ {0} /\ Radix >= 32 /\ Digits \in Nat /\ DigitBits \in Nat \ {0}
  /\ \A i \in Nat : Power(Radix, i) \in Nat \ {0} /\ Power(Radix, i + 1) = Power(Radix, i) * Radix
  /\ Power(Radix, 0) = 1
<1>1. 2 \in Nat \ {0} /\ DigitBits \in Nat /\ DigitBits >= 5 /\ 5 \in Nat /\ Digits \in Nat
  BY PowerAssumption
<1>2. Power(2, 5) <= Radix /\ Power(2, DigitBits) \in Nat \ {0}
  BY <1>1, PowerGrows, PowerPositive DEF Radix
<1>3. Radix \in Nat \ {0} /\ Radix >= 32
  BY <1>2, SmallPowers DEF Radix
<1>4. Radix \in Nat
  BY <1>3
<1>5. \A i \in Nat : Power(Radix, i) \in Nat \ {0} /\ Power(Radix, i + 1) = Power(Radix, i) * Radix
  BY <1>3, <1>4, PowerSteps, PowerPositive
<1> QED BY <1>1, <1>3, <1>4, <1>5, PowerSteps

\* The carries of Sum2.
DigitCarries(a, b) ==
  CHOOSE c : c = [i \in 0 .. Digits |-> IF i = 0 THEN 0 ELSE (a[i] + b[i] + c[i - 1]) \div Radix]

\* The table of Sum2's carries, entry by entry.
LEMMA CarriesTabled ==
  ASSUME NEW a \in [1 .. Digits -> Int], NEW b \in [1 .. Digits -> Int]
  PROVE  /\ Sum2(a, b) = [i \in 1 .. Digits |-> (a[i] + b[i] + DigitCarries(a, b)[i - 1]) % Radix]
         /\ DigitCarries(a, b)[0] = 0
         /\ \A i \in 1 .. Digits :
              DigitCarries(a, b)[i] = (a[i] + b[i] + DigitCarries(a, b)[i - 1]) \div Radix
<1> DEFINE D == Int
           n == Digits
           base == 0
           step == [m \in 1 .. n |-> [w \in D |-> (a[m] + b[m] + w) \div Radix]]
           Table(V) == V = [m \in 0 .. n |->
                              IF m = 0 THEN 0 ELSE (a[m] + b[m] + V[m - 1]) \div Radix]
<1>1. n \in Nat /\ Radix \in Nat \ {0}
  BY RadixSize
<1>2. base \in D
  OBVIOUS
<1>3. \A w \in D, m \in 1 .. n : (a[m] + b[m] + w) \div Radix \in D
  <2> TAKE w \in D, m \in 1 .. n
  <2> DEFINE y == a[m] + b[m] + w
             f == Radix
  <2>1. y \in Int /\ f \in Nat \ {0}
    BY <1>1
  <2> HIDE DEF y, f
  <2>2. y \div f \in Int
    BY <2>1
  <2> QED BY <2>2 DEF y, f
<1> HIDE DEF D
<1>4. step \in [1 .. n -> [D -> D]]
  BY <1>3
<1>5. \A m \in 1 .. n, w \in D : step[m][w] = (a[m] + b[m] + w) \div Radix
  OBVIOUS
<1> HIDE DEF step, base, n
<1>6. PICK V : Stepwise(V, D, n, base, step)
  BY <1>1, <1>2, <1>4, StepwiseFunction
<1>7. /\ V \in [0 .. n -> D] /\ V[0] = 0
      /\ \A m \in 1 .. n : V[m] = (a[m] + b[m] + V[m - 1]) \div Radix
  <2>1. V \in [0 .. n -> D] /\ V[0] = 0 /\ \A m \in 1 .. n : V[m] = step[m][V[m - 1]]
    BY <1>6 DEF Stepwise, base
  <2>2. \A m \in 1 .. n : V[m - 1] \in D
    BY <1>1, <2>1
  <2> QED BY <1>5, <2>1, <2>2
<1>8. Table(V)
  BY <1>1, <1>7
<1> DEFINE T == DigitCarries(a, b)
<1>9. Table(T)
  <2>1. T = CHOOSE A : Table(A)
    BY DEF DigitCarries, n
  <2> HIDE DEF Table, T
  <2> QED BY <1>8, <2>1
<1>10. Sum2(a, b) = [i \in 1 .. n |-> (a[i] + b[i] + T[i - 1]) % Radix]
  BY DEF Sum2, DigitCarries, n
<1> HIDE DEF T
<1>11. T[0] = 0 /\ \A m \in 1 .. n : T[m] = (a[m] + b[m] + T[m - 1]) \div Radix
  BY <1>1, <1>9
<1> QED BY <1>10, <1>11 DEF n, T

\* One digit of a sum, with the carry that comes from below.
CarriedInto(u, v, s, r) ==
  /\ ((u % r) + (v % r) + (s - u - v)) \div r = (s \div r) - (u \div r) - (v \div r)
  /\ ((u % r) + (v % r) + (s - u - v)) % r = s % r

\* That is how it is carried.
LEMMA DigitOfSum ==
  ASSUME NEW u \in Int, NEW v \in Int, NEW s \in Int, NEW r \in Nat \ {0}
  PROVE  CarriedInto(u, v, s, r)
<1> DEFINE k == u \div r
           l == v \div r
           a == u % r
           b == v % r
           m == -(k + l)
<1>1. k \in Int /\ l \in Int /\ a \in Int /\ b \in Int /\ u = r * k + a /\ v = r * l + b
  OBVIOUS
<1>2. m \in Int
  BY <1>1
<1> HIDE DEF k, l, a, b
<1>3. a + b + (s - u - v) = s + r * m
  <2>1. r * (-(k + l)) = -(r * k) - r * l
    BY <1>1
  <2> DEFINE x == r * k
             y == r * l
             w == r * m
  <2>2. x \in Int /\ y \in Int /\ u = x + a /\ v = y + b /\ w = -x - y
    BY <1>1, <2>1
  <2> HIDE DEF x, y, w, m
  <2>3. a + b + (s - u - v) = s + w
    BY <1>1, <2>2
  <2> QED BY <2>3 DEF w
<1> HIDE DEF m
<1>4. (s + r * m) \div r = (s \div r) + m
  BY <1>2, QuotientOfTotal
<1>5. (s + r * m) % r = s % r
  BY <1>2, RestOfSum
<1>6. s \div r \in Int
  OBVIOUS
<1>7. (s \div r) + m = (s \div r) - k - l
  BY <1>1, <1>6 DEF m
<1> QED BY <1>3, <1>4, <1>5, <1>7 DEF k, l, a, b, CarriedInto

\* Sum2 adds.
LEMMA SumDigits ==
  ASSUME NEW x \in Nat, NEW y \in Nat
  PROVE  Sum2(DigitsOf(x), DigitsOf(y)) = DigitsOf(x + y)
<1> DEFINE a == DigitsOf(x)
           b == DigitsOf(y)
           c == DigitCarries(a, b)
           u(i) == x \div Power(Radix, i)
           v(i) == y \div Power(Radix, i)
           s(i) == (x + y) \div Power(Radix, i)
           S == {i \in Nat : i <= Digits => c[i] = s(i) - u(i) - v(i)}
<1>0. x \in Int /\ y \in Int /\ x + y \in Int /\ Radix \in Nat \ {0} /\ Digits \in Nat
  BY RadixSize
<1>1. ASSUME NEW i \in Nat
      PROVE  /\ u(i) \in Int /\ v(i) \in Int /\ s(i) \in Int
             /\ u(i + 1) = u(i) \div Radix /\ v(i + 1) = v(i) \div Radix /\ s(i + 1) = s(i) \div Radix
  <2> DEFINE p == Power(Radix, i)
             z == x + y
  <2>1. p \in Nat \ {0} /\ Power(Radix, i + 1) = p * Radix
    BY RadixSize
  <2>2. z \in Int
    BY <1>0
  <2> HIDE DEF p, z
  <2>3. x \div (p * Radix) = (x \div p) \div Radix /\ y \div (p * Radix) = (y \div p) \div Radix
        /\ z \div (p * Radix) = (z \div p) \div Radix
    BY <1>0, <2>1, <2>2, QuotientOfQuotient
  <2>4. x \div p \in Int /\ y \div p \in Int /\ z \div p \in Int
    BY <1>0, <2>1, <2>2
  <2> QED BY <2>1, <2>3, <2>4 DEF p, z
<1>2. u(0) = x /\ v(0) = y /\ s(0) = x + y
  <2> DEFINE z == x + y
  <2>1. Power(Radix, 0) = 1 /\ z \in Int
    BY <1>0, RadixSize
  <2> HIDE DEF z
  <2>2. x \div 1 = x /\ y \div 1 = y /\ z \div 1 = z
    BY <1>0, <2>1
  <2> QED BY <2>1, <2>2 DEF z
<1>3. \A i \in 1 .. Digits :
        /\ i - 1 \in Nat /\ a[i] = u(i - 1) % Radix /\ b[i] = v(i - 1) % Radix
        /\ DigitsOf(x + y)[i] = s(i - 1) % Radix
  BY DEF DigitsOf
<1>4. a \in [1 .. Digits -> Int] /\ b \in [1 .. Digits -> Int]
  <2>1. \A i \in 1 .. Digits : u(i - 1) \in Int /\ v(i - 1) \in Int
    BY <1>1, <1>3
  <2>2. \A w \in Int : w % Radix \in Int
    BY <1>0
  <2>3. \A i \in 1 .. Digits : a[i] \in Int /\ b[i] \in Int
    <3> HIDE DEF a, b, u, v
    <3> QED BY <1>3, <2>1, <2>2
  <2>4. a = [i \in 1 .. Digits |-> a[i]] /\ b = [i \in 1 .. Digits |-> b[i]]
    BY DEF DigitsOf
  <2> HIDE DEF a, b
  <2> QED BY <2>3, <2>4
<1>5. /\ Sum2(a, b) = [i \in 1 .. Digits |-> (a[i] + b[i] + c[i - 1]) % Radix]
      /\ c[0] = 0 /\ \A i \in 1 .. Digits : c[i] = (a[i] + b[i] + c[i - 1]) \div Radix
  <2> HIDE DEF a, b
  <2> QED BY <1>4, CarriesTabled
<1> HIDE DEF a, b, c, u, v, s
<1>6. ASSUME NEW i \in 1 .. Digits, c[i - 1] = s(i - 1) - u(i - 1) - v(i - 1)
      PROVE  /\ (a[i] + b[i] + c[i - 1]) \div Radix = s(i) - u(i) - v(i)
             /\ (a[i] + b[i] + c[i - 1]) % Radix = s(i - 1) % Radix
  <2> DEFINE j == i - 1
  <2>1. j \in Nat /\ j + 1 = i
    OBVIOUS
  <2>2. a[i] = u(j) % Radix /\ b[i] = v(j) % Radix /\ c[i - 1] = s(j) - u(j) - v(j)
    BY <1>3, <1>6
  <2> HIDE DEF j
  <2>3. /\ u(j) \in Int /\ v(j) \in Int /\ s(j) \in Int
        /\ u(i) = u(j) \div Radix /\ v(i) = v(j) \div Radix /\ s(i) = s(j) \div Radix
    BY <1>1, <2>1
  <2>4. /\ ((u(j) % Radix) + (v(j) % Radix) + (s(j) - u(j) - v(j))) \div Radix
              = (s(j) \div Radix) - (u(j) \div Radix) - (v(j) \div Radix)
        /\ ((u(j) % Radix) + (v(j) % Radix) + (s(j) - u(j) - v(j))) % Radix = s(j) % Radix
    <3>1. CarriedInto(u(j), v(j), s(j), Radix)
      BY <1>0, <2>3, DigitOfSum
    <3> QED BY <3>1 DEF CarriedInto
  <2> QED BY <2>2, <2>3, <2>4 DEF j
<1>7. 0 \in S
  <2>1. 0 = (x + y) - x - y
    BY <1>0
  <2> QED BY <1>2, <1>5, <2>1
<1>8. ASSUME NEW i \in Nat, i \in S PROVE i + 1 \in S
  <2> SUFFICES ASSUME i + 1 <= Digits PROVE c[i + 1] = s(i + 1) - u(i + 1) - v(i + 1)
    OBVIOUS
  <2> DEFINE k == i + 1
  <2>1. k \in 1 .. Digits /\ k - 1 = i
    BY <1>0
  <2>2. c[k - 1] = s(k - 1) - u(k - 1) - v(k - 1)
    BY <1>0, <1>8, <2>1
  <2> HIDE DEF k, S
  <2> QED BY <1>5, <1>6, <2>1, <2>2 DEF k
<1>9. \A i \in Nat : i \in S
  <2> HIDE DEF S
  <2> QED BY <1>7, <1>8, FromZero
<1>10. \A i \in 1 .. Digits : (a[i] + b[i] + c[i - 1]) % Radix = DigitsOf(x + y)[i]
  <2> TAKE i \in 1 .. Digits
  <2>1. i - 1 \in Nat /\ i - 1 <= Digits
    BY <1>0
  <2>2. c[i - 1] = s(i - 1) - u(i - 1) - v(i - 1)
    BY <1>9, <2>1
  <2>3. (a[i] + b[i] + c[i - 1]) % Radix = s(i - 1) % Radix
    BY <1>6, <2>2
  <2> QED BY <1>3, <2>3
<1>11. DigitsOf(x + y) = [i \in 1 .. Digits |-> DigitsOf(x + y)[i]]
  BY DEF DigitsOf
<1>12. Sum2(a, b) = DigitsOf(x + y)
  BY <1>5, <1>10, <1>11
<1> QED BY <1>12 DEF a, b

\* Of a smaller number nothing is left.
LEMMA NothingLeft ==
  ASSUME NEW x \in Nat, NEW p \in Nat, x < p
  PROVE  x \div p = 0 /\ x % p = x
<1>1. p \in Nat \ {0} /\ x \in 0 .. p - 1 /\ 0 \in Int /\ p * 0 + x = x
  OBVIOUS
<1>2. (p * 0 + x) \div p = 0 /\ (p * 0 + x) % p = x
  BY <1>1, QuotientIs, RestOfMultiple
<1> QED BY <1>1, <1>2

\* Number writes one digit.
LEMMA NumberDigits ==
  ASSUME NEW n \in 0 .. 31
  PROVE  Number(n) = DigitsOf(n)
<1> SUFFICES ASSUME NEW i \in 1 .. Digits
             PROVE  (n \div Power(Radix, i - 1)) % Radix = IF i = 1 THEN n ELSE 0
  BY DEF Number, DigitsOf
<1>0. Radix \in Nat \ {0} /\ n \in Nat /\ n < Radix /\ Digits \in Nat /\ Radix \in Nat
  BY RadixSize
<1>1. n % Radix = n
  BY <1>0, NothingLeft
<1>2. CASE i = 1
  <2>1. Power(Radix, i - 1) = 1
    BY <1>2, RadixSize
  <2>2. n \div 1 = n
    BY <1>0
  <2> QED BY <1>1, <1>2, <2>1, <2>2
<1>3. CASE i # 1
  <2> DEFINE p == Power(Radix, i - 1)
  <2>1. p \in Nat /\ n < p
    <3> DEFINE j == i - 2
    <3>1. j \in Nat /\ i - 1 = j + 1
      BY <1>0, <1>3
    <3> HIDE DEF j
    <3>2. Power(Radix, j) \in Nat \ {0} /\ Power(Radix, j + 1) = Power(Radix, j) * Radix
      BY <3>1, RadixSize
    <3> DEFINE q == Power(Radix, j)
    <3>3. q \in Nat \ {0} /\ p = q * Radix
      BY <3>1, <3>2
    <3> HIDE DEF q, p
    <3>4. Radix <= q * Radix /\ q * Radix \in Nat
      BY <1>0, <3>3
    <3> QED BY <1>0, <3>3, <3>4
  <2> HIDE DEF p
  <2>2. n \div p = 0
    BY <1>0, <2>1, NothingLeft
  <2>3. 0 % Radix = 0
    BY <1>0, NothingLeft
  <2> QED BY <1>3, <2>2, <2>3 DEF p
<1> QED BY <1>2, <1>3

\* A power of the radix is a power of two.
LEMMA RadixPowers == \A i \in Nat : Power(Radix, i) = Power(2, DigitBits * i) /\ DigitBits * i \in Nat
<1> DEFINE S == {i \in Nat : Power(Radix, i) = Power(2, DigitBits * i)}
<1>0. DigitBits \in Nat /\ 2 \in Nat
  BY RadixSize
<1>1. 0 \in S
  <2>1. DigitBits * 0 = 0
    BY <1>0
  <2> QED BY <1>0, <2>1, RadixSize, PowerSteps
<1>2. ASSUME NEW i \in Nat, i \in S PROVE i + 1 \in S
  <2> DEFINE e == DigitBits * i
  <2>1. e \in Nat /\ DigitBits * (i + 1) = e + DigitBits
    BY <1>0
  <2> HIDE DEF e
  <2>2. Power(2, e + DigitBits) = Power(2, e) * Power(2, DigitBits)
    BY <1>0, <2>1, PowerOfSum
  <2>3. Power(Radix, i + 1) = Power(Radix, i) * Radix /\ Power(Radix, i) = Power(2, e)
    BY <1>2, RadixSize DEF e
  <2> QED BY <2>1, <2>2, <2>3 DEF Radix
<1>3. \A i \in Nat : i \in S
  <2> HIDE DEF S
  <2> QED BY <1>1, <1>2, FromZero
<1>4. \A i \in Nat : DigitBits * i \in Nat
  BY <1>0
<1> QED BY <1>3, <1>4

\* PowerOfTwo sets one bit.
LEMMA PowerDigits ==
  ASSUME NEW k \in Nat
  PROVE  PowerOfTwo(k) = DigitsOf(Power(2, k))
<1> SUFFICES ASSUME NEW i \in 1 .. Digits
             PROVE  (Power(2, k) \div Power(Radix, i - 1)) % Radix
                      = IF i = k \div DigitBits + 1 THEN Power(2, k % DigitBits) ELSE 0
  BY DEF PowerOfTwo, DigitsOf
<1> DEFINE d == DigitBits
           q == k \div d
           r == k % d
           e == d * (i - 1)
<1>0. /\ d \in Nat \ {0} /\ d \in Nat /\ Radix \in Nat \ {0} /\ Radix \in Nat /\ 2 \in Nat /\ 2 \in Nat \ {0}
      /\ i - 1 \in Nat /\ Digits \in Nat
  BY RadixSize
<1>1. q \in Nat /\ r \in 0 .. d - 1 /\ k = d * q + r
  BY <1>0
<1>2. e \in Nat /\ Power(Radix, i - 1) = Power(2, e)
  BY <1>0, RadixPowers
<1>3. Radix = Power(2, d)
  BY DEF Radix
<1>4. 0 % Radix = 0
  BY <1>0, NothingLeft
<1>5. i = q + 1 <=> i - 1 = q
  BY <1>1
<1>d. d = DigitBits /\ q = k \div DigitBits /\ r = k % DigitBits
  OBVIOUS
<1>e. e = d * (i - 1)
  OBVIOUS
<1> HIDE DEF d, q, r, e
<1>6. CASE i - 1 = q
  <2>1. e = d * q /\ k = e + r
    BY <1>1, <1>6, <1>e
  <2>2. r \in Nat /\ r + 1 <= d /\ r + 1 \in Nat
    BY <1>0, <1>1
  <2>3. Power(2, e + r) \div Power(2, e) = Power(2, r)
    BY <1>2, <2>2, PowerOfQuotient
  <2>4. Power(2, r) \in Nat /\ Power(2, r) < Radix
    <3>1. Power(2, r) \in Nat \ {0} /\ Power(2, r + 1) = Power(2, r) * 2 /\ Power(2, r + 1) <= Power(2, d)
      BY <1>0, <2>2, PowerSteps, PowerPositive, PowerGrows
    <3> DEFINE z == Power(2, r)
    <3>2. z \in Nat \ {0} /\ z * 2 <= Radix
      BY <1>3, <3>1
    <3> HIDE DEF z
    <3>3. z \in Nat /\ z < Radix
      BY <1>0, <3>2
    <3> QED BY <3>3 DEF z
  <2>5. Power(2, r) % Radix = Power(2, r)
    BY <1>0, <2>4, NothingLeft
  <2> QED BY <1>2, <1>5, <1>6, <1>d, <2>1, <2>3, <2>5
<1>7. CASE i - 1 < q
  <2> DEFINE m == k - e - d
  <2>1. d * (i - 1) + d <= d * q
    <3> DEFINE j == i - 1
    <3>1. j \in Nat /\ j + 1 <= q
      BY <1>0, <1>1, <1>7
    <3> HIDE DEF j
    <3>2. d * (j + 1) <= d * q /\ d * (j + 1) = d * j + d
      BY <1>0, <1>1, <3>1
    <3> QED BY <3>2 DEF j
  <2>2. m \in Nat /\ k = e + (d + m)
    <3> DEFINE z == d * q
    <3>1. z \in Nat /\ k = z + r /\ e + d <= z
      BY <1>0, <1>1, <1>e, <2>1
    <3> HIDE DEF z
    <3> QED BY <1>0, <1>1, <1>2, <3>1
  <2> HIDE DEF m
  <2>3. d + m \in Nat
    BY <1>0, <2>2
  <2>4. Power(2, e + (d + m)) \div Power(2, e) = Power(2, d + m)
    BY <1>2, <2>3, PowerOfQuotient
  <2>5. Power(2, d + m) = Radix * Power(2, m) /\ Power(2, m) \in Nat \ {0}
    <3>1. Power(2, d + m) = Power(2, d) * Power(2, m)
      BY <1>0, <2>2, PowerOfSum
    <3>2. Power(2, m) \in Nat \ {0}
      BY <1>0, <2>2, PowerPositive
    <3> QED BY <1>3, <3>1, <3>2
  <2>6. (Radix * Power(2, m) + 0) % Radix = 0
    <3>1. 0 \in 0 .. Radix - 1 /\ Power(2, m) \in Int
      BY <1>0, <2>5
    <3> QED BY <1>0, <3>1, RestOfMultiple
  <2>7. Radix * Power(2, m) + 0 = Radix * Power(2, m)
    <3> DEFINE z == Power(2, m)
    <3>1. z \in Nat
      BY <2>5
    <3> HIDE DEF z
    <3>2. Radix * z + 0 = Radix * z
      BY <1>0, <3>1
    <3> QED BY <3>2 DEF z
  <2>8. (Power(2, k) \div Power(Radix, i - 1)) % Radix = 0
    BY <1>2, <2>2, <2>4, <2>5, <2>6, <2>7
  <2>9. i - 1 # q
    BY <1>0, <1>1, <1>7
  <2> QED BY <1>5, <1>d, <2>8, <2>9
<1>8. CASE i - 1 > q
  <2>1. k + 1 <= e
    <3> DEFINE j == i - 1
    <3>1. j \in Nat /\ q + 1 <= j
      BY <1>0, <1>1, <1>8
    <3> HIDE DEF j
    <3>2. d * (q + 1) <= d * j /\ d * (q + 1) = d * q + d
      BY <1>0, <1>1, <3>1
    <3> DEFINE z == d * q
    <3>3. z \in Nat /\ k = z + r /\ z + d <= e
      BY <1>0, <1>1, <1>e, <3>2 DEF j
    <3> HIDE DEF z
    <3> QED BY <1>0, <1>1, <1>2, <3>3
  <2>2. Power(2, k) \in Nat /\ Power(2, e) \in Nat /\ Power(2, k) < Power(2, e)
    <3>0. k + 1 \in Nat
      OBVIOUS
    <3>1. Power(2, k) \in Nat \ {0} /\ Power(2, k + 1) = Power(2, k) * 2 /\ Power(2, k + 1) <= Power(2, e)
          /\ Power(2, e) \in Nat \ {0}
      BY <1>0, <1>2, <2>1, <3>0, PowerSteps, PowerPositive, PowerGrows
    <3> DEFINE z == Power(2, k)
               y == Power(2, e)
    <3>2. z \in Nat \ {0} /\ y \in Nat /\ z * 2 <= y
      BY <3>1
    <3> HIDE DEF z, y
    <3>3. z \in Nat /\ y \in Nat /\ z < y
      BY <3>2
    <3> QED BY <3>3 DEF z, y
  <2>3. Power(2, k) \div Power(2, e) = 0
    BY <2>2, NothingLeft
  <2>4. i - 1 # q
    BY <1>0, <1>1, <1>8
  <2> QED BY <1>2, <1>4, <1>5, <1>d, <2>3, <2>4
<1>9. i - 1 = q \/ i - 1 < q \/ i - 1 > q
  BY <1>0, <1>1
<1> QED BY <1>6, <1>7, <1>8, <1>9

\* The variables of fe_invert and fe_pow22523, and their statements.
PowerNames == {"z", "t0", "t1", "t2", "t3", "out"}
PowerStatement == [to : PowerNames, factors : PowerNames \X PowerNames, calls : Nat \ {0}]
Chains == {FeInvert, FePow22523, <<>>}

\* The statements of fe_invert, one by one.
LEMMA InvertStatements ==
  /\ Len(FeInvert) = 22 /\ FeInvert \in Seq(PowerStatement)
  /\ FeInvert[1] = Sq("t0", "z", 1) /\ FeInvert[2] = Sq("t1", "t0", 2)
  /\ FeInvert[3] = Times("t1", "z", "t1") /\ FeInvert[4] = Times("t0", "t0", "t1")
  /\ FeInvert[5] = Sq("t2", "t0", 1) /\ FeInvert[6] = Times("t1", "t1", "t2")
  /\ FeInvert[7] = Sq("t2", "t1", 5) /\ FeInvert[8] = Times("t1", "t2", "t1")
  /\ FeInvert[9] = Sq("t2", "t1", 10) /\ FeInvert[10] = Times("t2", "t2", "t1")
  /\ FeInvert[11] = Sq("t3", "t2", 20) /\ FeInvert[12] = Times("t2", "t3", "t2")
  /\ FeInvert[13] = Sq("t2", "t2", 10) /\ FeInvert[14] = Times("t1", "t2", "t1")
  /\ FeInvert[15] = Sq("t2", "t1", 50) /\ FeInvert[16] = Times("t2", "t2", "t1")
  /\ FeInvert[17] = Sq("t3", "t2", 100) /\ FeInvert[18] = Times("t2", "t3", "t2")
  /\ FeInvert[19] = Sq("t2", "t2", 50) /\ FeInvert[20] = Times("t1", "t2", "t1")
  /\ FeInvert[21] = Sq("t1", "t1", 5) /\ FeInvert[22] = Times("out", "t1", "t0")
<1> DEFINE S == PowerStatement
<1>1. \A to, from \in PowerNames, n \in Nat \ {0} : Sq(to, from, n) \in S
  BY DEF Sq, PowerStatement
<1>2. \A to, a, b \in PowerNames : Times(to, a, b) \in S
  BY DEF Times, PowerStatement
<1>3. "z" \in PowerNames /\ "t0" \in PowerNames /\ "t1" \in PowerNames /\ "t2" \in PowerNames
      /\ "t3" \in PowerNames /\ "out" \in PowerNames
  BY DEF PowerNames
<1> HIDE DEF S
<1>4. FeInvert \in Seq(S)
  <2>1. /\ Sq("t0", "z", 1) \in S /\ Sq("t1", "t0", 2) \in S /\ Times("t1", "z", "t1") \in S
        /\ Times("t0", "t0", "t1") \in S /\ Sq("t2", "t0", 1) \in S /\ Times("t1", "t1", "t2") \in S
        /\ Sq("t2", "t1", 5) \in S /\ Times("t1", "t2", "t1") \in S /\ Sq("t2", "t1", 10) \in S
        /\ Times("t2", "t2", "t1") \in S /\ Sq("t3", "t2", 20) \in S /\ Times("t2", "t3", "t2") \in S
        /\ Sq("t2", "t2", 10) \in S /\ Sq("t2", "t1", 50) \in S /\ Sq("t3", "t2", 100) \in S
        /\ Sq("t2", "t2", 50) \in S /\ Sq("t1", "t1", 5) \in S /\ Times("out", "t1", "t0") \in S
    BY <1>1, <1>2, <1>3
  <2> QED BY <2>1 DEF FeInvert
<1>5. Len(FeInvert) = 22
  BY DEF FeInvert
<1> QED BY <1>4, <1>5 DEF FeInvert, S

\* And those of fe_pow22523.
LEMMA RootStatements ==
  /\ Len(FePow22523) = 22 /\ FePow22523 \in Seq(PowerStatement)
  /\ FePow22523[1] = Sq("t0", "z", 1) /\ FePow22523[2] = Sq("t1", "t0", 2)
  /\ FePow22523[3] = Times("t1", "z", "t1") /\ FePow22523[4] = Times("t0", "t0", "t1")
  /\ FePow22523[5] = Sq("t0", "t0", 1) /\ FePow22523[6] = Times("t0", "t1", "t0")
  /\ FePow22523[7] = Sq("t1", "t0", 5) /\ FePow22523[8] = Times("t0", "t1", "t0")
  /\ FePow22523[9] = Sq("t1", "t0", 10) /\ FePow22523[10] = Times("t1", "t1", "t0")
  /\ FePow22523[11] = Sq("t2", "t1", 20) /\ FePow22523[12] = Times("t1", "t2", "t1")
  /\ FePow22523[13] = Sq("t1", "t1", 10) /\ FePow22523[14] = Times("t0", "t1", "t0")
  /\ FePow22523[15] = Sq("t1", "t0", 50) /\ FePow22523[16] = Times("t1", "t1", "t0")
  /\ FePow22523[17] = Sq("t2", "t1", 100) /\ FePow22523[18] = Times("t1", "t2", "t1")
  /\ FePow22523[19] = Sq("t1", "t1", 50) /\ FePow22523[20] = Times("t0", "t1", "t0")
  /\ FePow22523[21] = Sq("t0", "t0", 2) /\ FePow22523[22] = Times("z", "t0", "z")
<1> DEFINE S == PowerStatement
<1>1. \A to, from \in PowerNames, n \in Nat \ {0} : Sq(to, from, n) \in S
  BY DEF Sq, PowerStatement
<1>2. \A to, a, b \in PowerNames : Times(to, a, b) \in S
  BY DEF Times, PowerStatement
<1>3. "z" \in PowerNames /\ "t0" \in PowerNames /\ "t1" \in PowerNames /\ "t2" \in PowerNames
      /\ "t3" \in PowerNames /\ "out" \in PowerNames
  BY DEF PowerNames
<1> HIDE DEF S
<1>4. FePow22523 \in Seq(S)
  <2>1. /\ Sq("t0", "z", 1) \in S /\ Sq("t1", "t0", 2) \in S /\ Times("t1", "z", "t1") \in S
        /\ Times("t0", "t0", "t1") \in S /\ Sq("t0", "t0", 1) \in S /\ Times("t0", "t1", "t0") \in S
        /\ Sq("t1", "t0", 5) \in S /\ Sq("t1", "t0", 10) \in S /\ Times("t1", "t1", "t0") \in S
        /\ Sq("t2", "t1", 20) \in S /\ Times("t1", "t2", "t1") \in S /\ Sq("t1", "t1", 10) \in S
        /\ Sq("t1", "t0", 50) \in S /\ Sq("t2", "t1", 100) \in S /\ Sq("t1", "t1", 50) \in S
        /\ Sq("t0", "t0", 2) \in S /\ Times("z", "t0", "z") \in S
    BY <1>1, <1>2, <1>3
  <2> QED BY <2>1 DEF FePow22523
<1>5. Len(FePow22523) = 22
  BY DEF FePow22523
<1> QED BY <1>4, <1>5 DEF FePow22523, S

\* The exponents themselves: before the first statement, and after one more.
AtOutset == [t \in PowerNames |-> IF t = "z" THEN 1 ELSE 0]
Operands(e, s) == e[s.factors[1]] + e[s.factors[2]]
AfterStatement(e, s) == [e EXCEPT ![s.to] = Power(2, s.calls - 1) * Operands(e, s)]

\* What every register of the chain c holds after its first n statements.
Held(c) ==
  CHOOSE H : H = [n \in 0 .. Len(c) |-> IF n = 0 THEN AtOutset ELSE AfterStatement(H[n - 1], c[n])]

\* Both are sequences of statements.
LEMMA ChainsTyped ==
  ASSUME NEW c \in Chains
  PROVE  c \in Seq(PowerStatement) /\ Len(c) \in Nat /\ \A n \in 1 .. Len(c) : c[n] \in PowerStatement
<1>1. c \in Seq(PowerStatement)
  <2>1. <<>> \in Seq(PowerStatement)
    OBVIOUS
  <2> QED BY <2>1, InvertStatements, RootStatements DEF Chains
<1> QED BY <1>1

\* A statement writes a register.
LEMMA StatementTyped ==
  ASSUME NEW e \in [PowerNames -> Nat], NEW s \in PowerStatement
  PROVE  /\ s.to \in PowerNames /\ s.calls \in Nat \ {0} /\ s.calls - 1 \in Nat
         /\ s.factors[1] \in PowerNames /\ s.factors[2] \in PowerNames
         /\ Operands(e, s) \in Nat /\ AfterStatement(e, s) \in [PowerNames -> Nat]
<1>1. /\ s.to \in PowerNames /\ s.calls \in Nat \ {0}
      /\ s.factors[1] \in PowerNames /\ s.factors[2] \in PowerNames
  BY DEF PowerStatement
<1>2. Operands(e, s) \in Nat
  <2>1. e[s.factors[1]] \in Nat /\ e[s.factors[2]] \in Nat
    BY <1>1
  <2> QED BY <2>1 DEF Operands
<1>3. s.calls - 1 \in Nat
  BY <1>1
<1> DEFINE p == Power(2, s.calls - 1)
           o == Operands(e, s)
<1>4. p \in Nat
  <2>1. 2 \in Nat
    OBVIOUS
  <2> QED BY <1>3, <2>1, PowerSteps
<1>5. AfterStatement(e, s) = [e EXCEPT ![s.to] = p * o]
  BY DEF AfterStatement
<1> HIDE DEF p, o
<1>6. p * o \in Nat
  BY <1>2, <1>4 DEF o
<1>7. AfterStatement(e, s) \in [PowerNames -> Nat]
  BY <1>1, <1>5, <1>6
<1> QED BY <1>1, <1>2, <1>3, <1>7

\* The table of what is held, entry by entry.
LEMMA HeldTabled ==
  ASSUME NEW c \in Chains
  PROVE  /\ Held(c)[0] = AtOutset
         /\ \A n \in 0 .. Len(c) : Held(c)[n] \in [PowerNames -> Nat]
         /\ \A n \in 1 .. Len(c) : Held(c)[n] = AfterStatement(Held(c)[n - 1], c[n])
<1> DEFINE D == [PowerNames -> Nat]
           n == Len(c)
           base == AtOutset
           step == [m \in 1 .. n |-> [w \in D |-> AfterStatement(w, c[m])]]
           Table(V) == V = [m \in 0 .. n |-> IF m = 0 THEN AtOutset ELSE AfterStatement(V[m - 1], c[m])]
<1>1. n \in Nat /\ \A m \in 1 .. n : c[m] \in PowerStatement
  BY ChainsTyped
<1>2. base \in D
  BY DEF AtOutset
<1>3. \A w \in D, s \in PowerStatement : AfterStatement(w, s) \in D
  BY StatementTyped
<1> HIDE DEF D
<1>4. step \in [1 .. n -> [D -> D]]
  BY <1>1, <1>3
<1>5. \A m \in 1 .. n, w \in D : step[m][w] = AfterStatement(w, c[m])
  OBVIOUS
<1> HIDE DEF step, base, n
<1>6. PICK V : Stepwise(V, D, n, base, step)
  BY <1>1, <1>2, <1>4, StepwiseFunction
<1>7. /\ V \in [0 .. n -> D] /\ V[0] = AtOutset
      /\ \A m \in 1 .. n : V[m] = AfterStatement(V[m - 1], c[m])
  <2>1. V \in [0 .. n -> D] /\ V[0] = AtOutset /\ \A m \in 1 .. n : V[m] = step[m][V[m - 1]]
    BY <1>6 DEF Stepwise, base
  <2>2. \A m \in 1 .. n : V[m - 1] \in D
    BY <1>1, <2>1
  <2> QED BY <1>5, <2>1, <2>2
<1>8. Table(V)
  BY <1>1, <1>7
<1> DEFINE T == Held(c)
<1>9. Table(T)
  <2>1. T = CHOOSE A : Table(A)
    BY DEF Held, n
  <2> HIDE DEF Table, T
  <2> QED BY <1>8, <2>1
<1> HIDE DEF T
<1>10. T[0] = AtOutset /\ \A m \in 1 .. n : T[m] = AfterStatement(T[m - 1], c[m])
  BY <1>1, <1>9
<1> DEFINE S == {m \in Nat : m <= n => T[m] \in D}
<1>11. 0 \in S
  BY <1>2, <1>10 DEF base
<1>12. ASSUME NEW m \in Nat, m \in S PROVE m + 1 \in S
  <2> SUFFICES ASSUME m + 1 <= n PROVE T[m + 1] \in D
    OBVIOUS
  <2> DEFINE k == m + 1
  <2>1. k \in 1 .. n /\ k - 1 = m /\ T[m] \in D
    BY <1>1, <1>12
  <2> HIDE DEF k
  <2>2. T[k] = AfterStatement(T[m], c[k]) /\ c[k] \in PowerStatement
    BY <1>1, <1>10, <2>1
  <2>3. T[k] \in D
    BY <1>3, <2>1, <2>2
  <2> QED BY <2>3 DEF k
<1>13. \A m \in Nat : m \in S
  <2> HIDE DEF S
  <2> QED BY <1>11, <1>12, FromZero
<1>14. \A m \in 0 .. n : T[m] \in D
  BY <1>13
<1> QED BY <1>10, <1>14 DEF n, T, D

-----------------------------------------------------------------------------
\* In the middle of a statement its register has been squared so often.
Current ==
  [t \in PowerNames |->
     IF squared > 0 /\ t = Statements[line].to
     THEN Power(2, squared - 1) * Operands(Held(Statements)[line - 1], Statements[line])
     ELSE Held(Statements)[line - 1][t]]

\* The registers hold the exponents the statements so far amount to, written in digits.
PowersInv ==
  /\ chain \in {"fe_invert", "fe_pow22523", "none"}
  /\ line \in 1 .. Len(Statements) + 1 /\ squared \in Nat
  /\ squared > 0 => line <= Len(Statements)
  /\ line <= Len(Statements) => squared < Statements[line].calls
  /\ exponent = [t \in PowerNames |-> DigitsOf(Current[t])]

\* Which of the chains is called.
LEMMA StatementsAreChains ==
  ASSUME chain \in {"fe_invert", "fe_pow22523", "none"}
  PROVE  Statements \in Chains /\ Statements = (CASE chain = "fe_invert" -> FeInvert
                                                  [] chain = "fe_pow22523" -> FePow22523
                                                  [] OTHER -> <<>>)
<1>1. CASE chain = "fe_invert"
  <2>1. Statements = FeInvert
    BY <1>1 DEF Statements
  <2> QED BY <2>1 DEF Chains, Statements
<1>2. CASE chain = "fe_pow22523"
  <2>1. Statements = FePow22523
    BY <1>2 DEF Statements
  <2> QED BY <2>1 DEF Chains, Statements
<1>3. CASE chain = "none"
  <2>1. Statements = <<>>
    BY <1>3 DEF Statements
  <2> QED BY <2>1 DEF Chains, Statements
<1> QED BY <1>1, <1>2, <1>3

\* The invariant holds at the start, whichever is called.
LEMMA PowersStart ==
  ASSUME NEW chains \in SUBSET {"fe_invert", "fe_pow22523", "none"}, PowerStart(chains)
  PROVE  PowersInv
<1> DEFINE c == Statements
<1>1. chain \in {"fe_invert", "fe_pow22523", "none"} /\ line = 1 /\ squared = 0
  BY DEF PowerStart
<1>2. c \in Chains
  BY <1>1, StatementsAreChains
<1>3. Len(c) \in Nat /\ \A n \in 1 .. Len(c) : c[n] \in PowerStatement
  BY <1>2, ChainsTyped
<1>4. Held(c)[0] = AtOutset
  BY <1>2, HeldTabled
<1>5. exponent = [t \in PowerNames |-> Number(IF t = "z" THEN 1 ELSE 0)]
  BY DEF PowerStart, PowerNames
<1>6. \A t \in PowerNames : Current[t] = (IF t = "z" THEN 1 ELSE 0)
  <2>1. line - 1 = 0
    BY <1>1
  <2> QED BY <1>1, <1>4, <2>1 DEF Current, AtOutset
<1>7. \A t \in PowerNames : Number(IF t = "z" THEN 1 ELSE 0) = DigitsOf(Current[t])
  <2>1. Number(0) = DigitsOf(0) /\ Number(1) = DigitsOf(1)
    BY NumberDigits
  <2> QED BY <1>6, <2>1
<1>8. line <= Len(c) => squared < c[line].calls
  <2> SUFFICES ASSUME line <= Len(c) PROVE squared < c[line].calls
    OBVIOUS
  <2>1. c[1] \in PowerStatement
    BY <1>1, <1>3
  <2>2. c[1].calls \in Nat \ {0}
    BY <2>1 DEF PowerStatement
  <2> QED BY <1>1, <2>2
<1>9. line \in 1 .. Len(c) + 1
  BY <1>1, <1>3
<1>10. exponent = [t \in PowerNames |-> DigitsOf(Current[t])]
  BY <1>5, <1>7
<1> QED BY <1>1, <1>8, <1>9, <1>10 DEF PowersInv

\* One call of fe_sq or fe_mul.
LEMMA PowersStep ==
  ASSUME PowersInv, PowerNext
  PROVE  PowersInv'
<1> DEFINE c == Statements
           s == c[line]
           H == Held(c)[line - 1]
           o == Operands(H, s)
           read == IF squared = 0 THEN s.factors ELSE <<s.to, s.to>>
           v == Power(2, squared) * o
<1>1. chain \in {"fe_invert", "fe_pow22523", "none"} /\ squared \in Nat
  BY DEF PowersInv
<1>2. c \in Chains
  BY <1>1, StatementsAreChains
<1>3. line \in 1 .. Len(c) /\ Len(c) \in Nat /\ s \in PowerStatement
  <2>1. Len(c) \in Nat /\ \A n \in 1 .. Len(c) : c[n] \in PowerStatement
    BY <1>2, ChainsTyped
  <2>2. line \in 1 .. Len(c) + 1 /\ line <= Len(c)
    BY DEF PowersInv, PowerNext
  <2> HIDE DEF c
  <2>3. line \in 1 .. Len(c)
    BY <2>1, <2>2
  <2> QED BY <2>1, <2>3
<1>4. /\ exponent' = [exponent EXCEPT ![s.to] = Sum2(exponent[read[1]], exponent[read[2]])]
      /\ IF squared + 1 = s.calls THEN line' = line + 1 /\ squared' = 0
         ELSE squared' = squared + 1 /\ line' = line
      /\ chain' = chain
  BY DEF PowerNext, LoopEnds
<1>5. c' = c
  BY <1>4 DEF Statements
<1>6. H \in [PowerNames -> Nat]
  <2>1. line - 1 \in 0 .. Len(c)
    BY <1>3
  <2> QED BY <1>2, <2>1, HeldTabled
<1>7. /\ s.to \in PowerNames /\ s.calls \in Nat \ {0} /\ o \in Nat
      /\ s.factors[1] \in PowerNames /\ s.factors[2] \in PowerNames
  BY <1>3, <1>6, StatementTyped
<1>8. squared < s.calls
  <2>1. line <= Len(c)
    BY DEF PowerNext
  <2> QED BY <2>1 DEF PowersInv
<1>9. exponent = [t \in PowerNames |-> DigitsOf(Current[t])]
  BY DEF PowersInv
<1>10. \A t \in PowerNames : Current[t] = IF squared > 0 /\ t = s.to THEN Power(2, squared - 1) * o ELSE H[t]
  BY DEF Current
<1> HIDE DEF c, s, H, o, v
<1>11. Power(2, 0) = 1 /\ \A e \in Nat : Power(2, e) \in Nat /\ Power(2, e + 1) = Power(2, e) * 2
  <2>1. 2 \in Nat
    OBVIOUS
  <2> QED BY <2>1, PowerSteps
<1>12. v \in Nat
  <2>1. Power(2, squared) \in Nat
    BY <1>1, <1>11
  <2> DEFINE p == Power(2, squared)
  <2>2. p \in Nat
    BY <2>1
  <2> HIDE DEF p
  <2>3. p * o \in Nat
    BY <1>7, <2>2
  <2> QED BY <2>3 DEF v, p
<1>13. Sum2(exponent[read[1]], exponent[read[2]]) = DigitsOf(v)
  <2>1. CASE squared = 0
    <3> DEFINE a == H[s.factors[1]]
               b == H[s.factors[2]]
    <3>1. a \in Nat /\ b \in Nat /\ o = a + b
      BY <1>6, <1>7 DEF o, Operands
    <3>2. exponent[read[1]] = DigitsOf(a) /\ exponent[read[2]] = DigitsOf(b)
      BY <1>7, <1>9, <1>10, <2>1
    <3>3. v = o
      <4>1. v = Power(2, 0) * o
        BY <2>1 DEF v
      <4>2. 1 * o = o
        BY <1>7
      <4> QED BY <1>11, <4>1, <4>2
    <3> HIDE DEF a, b
    <3> QED BY <3>1, <3>2, <3>3, SumDigits
  <2>2. CASE squared # 0
    <3> DEFINE p == Power(2, squared - 1)
               w == p * o
    <3>1. squared - 1 \in Nat /\ (squared - 1) + 1 = squared /\ squared > 0
      BY <1>1, <2>2
    <3>2. p \in Nat /\ Power(2, squared) = p * 2
      BY <1>11, <3>1
    <3>3. read[1] = s.to /\ read[2] = s.to
      BY <2>2
    <3>4. exponent[s.to] = DigitsOf(w)
      BY <1>7, <1>9, <1>10, <3>1
    <3> HIDE DEF p
    <3>5. w \in Nat /\ v = w + w
      <4>1. (p * 2) * o = p * o + p * o /\ p * o \in Nat
        BY <1>7, <3>2
      <4> QED BY <3>2, <4>1 DEF v
    <3> HIDE DEF w, read
    <3> QED BY <3>3, <3>4, <3>5, SumDigits
  <2> QED BY <2>1, <2>2
<1>14. exponent' = [exponent EXCEPT ![s.to] = DigitsOf(v)]
  BY <1>4, <1>13
<1>15. \A t \in PowerNames : exponent'[t] = DigitsOf(IF t = s.to THEN v ELSE H[t])
  <2> TAKE t \in PowerNames
  <2>1. CASE t = s.to
    BY <1>7, <1>9, <1>14, <2>1
  <2>2. CASE t # s.to
    BY <1>7, <1>9, <1>10, <1>14, <2>2
  <2> QED BY <2>1, <2>2
<1>16. exponent' = [t \in PowerNames |-> exponent'[t]]
  BY <1>9, <1>14
<1>17. CASE squared + 1 = s.calls
  <2>1. line' = line + 1 /\ squared' = 0
    BY <1>4, <1>17
  <2>2. Held(c)[line] = AfterStatement(H, s)
    BY <1>2, <1>3, HeldTabled DEF H, s
  <2>3. s.calls - 1 = squared
    BY <1>1, <1>17
  <2>4. \A t \in PowerNames : Held(c)[line][t] = IF t = s.to THEN v ELSE H[t]
    <3>1. AfterStatement(H, s) = [H EXCEPT ![s.to] = v]
      BY <2>3 DEF AfterStatement, v, o
    <3> QED BY <1>6, <1>7, <2>2, <3>1
  <2>5. (line + 1) - 1 = line
    BY <1>3
  <2>6. \A t \in PowerNames : Current'[t] = Held(c)[line][t]
    <3>1. \A t \in PowerNames : Current'[t] = IF squared' > 0 /\ t = c'[line'].to
                                   THEN Power(2, squared' - 1) * Operands(Held(c')[line' - 1], c'[line'])
                                   ELSE Held(c')[line' - 1][t]
      BY DEF Current, c
    <3> QED BY <1>5, <2>1, <2>5, <3>1
  <2>7. exponent' = [t \in PowerNames |-> DigitsOf(Current'[t])]
    BY <1>15, <1>16, <2>4, <2>6
  <2>8. line' \in 1 .. Len(c) + 1
    BY <1>3, <2>1
  <2>9. line' <= Len(c) => squared' < c[line'].calls
    <3> SUFFICES ASSUME line + 1 <= Len(c) PROVE 0 < c[line + 1].calls
      BY <2>1
    <3>1. line + 1 \in 1 .. Len(c)
      BY <1>3
    <3>2. c[line + 1] \in PowerStatement
      BY <1>2, <3>1, ChainsTyped
    <3>3. c[line + 1].calls \in Nat \ {0}
      BY <3>2 DEF PowerStatement
    <3> QED BY <3>3
  <2>10. squared' \in Nat /\ ~(squared' > 0)
    BY <2>1
  <2> QED BY <1>1, <1>4, <1>5, <2>7, <2>8, <2>9, <2>10 DEF PowersInv, c
<1>18. CASE squared + 1 # s.calls
  <2>1. line' = line /\ squared' = squared + 1
    BY <1>4, <1>18
  <2>2. squared' \in Nat /\ squared' > 0 /\ squared' - 1 = squared
    BY <1>1, <2>1
  <2>3. squared' < s.calls
    BY <1>1, <1>7, <1>8, <1>18, <2>1
  <2>4. \A t \in PowerNames : Current'[t] = IF t = s.to THEN v ELSE H[t]
    <3>1. \A t \in PowerNames : Current'[t] = IF squared' > 0 /\ t = c'[line'].to
                                   THEN Power(2, squared' - 1) * Operands(Held(c')[line' - 1], c'[line'])
                                   ELSE Held(c')[line' - 1][t]
      BY DEF Current, c
    <3> QED BY <1>5, <2>1, <2>2, <3>1 DEF s, H, o, v
  <2>5. exponent' = [t \in PowerNames |-> DigitsOf(Current'[t])]
    BY <1>15, <1>16, <2>4
  <2>6. line' \in 1 .. Len(c) + 1 /\ line' <= Len(c)
    BY <1>3, <2>1
  <2>7. squared' < c[line'].calls
    BY <2>1, <2>3 DEF s
  <2> QED BY <1>1, <1>4, <1>5, <2>2, <2>5, <2>6, <2>7 DEF PowersInv, c
<1> QED BY <1>17, <1>18

\* The invariant is inductive.
LEMMA PowersStays == PowersInv /\ [PowerNext]_powerVars => PowersInv'
<1>1. PowersInv /\ UNCHANGED powerVars => PowersInv'
  <2> SUFFICES ASSUME PowersInv, UNCHANGED powerVars PROVE PowersInv'
    OBVIOUS
  <2>1. chain' = chain /\ line' = line /\ squared' = squared /\ exponent' = exponent
    BY DEF powerVars
  <2>2. Statements' = Statements
    BY <2>1 DEF Statements
  <2>3. Current' = Current
    BY <2>1, <2>2 DEF Current
  <2> QED BY <2>1, <2>2, <2>3 DEF PowersInv
<1> QED BY <1>1, PowersStep

\* What the chains hold is a few bits and then ones only: 2^a - 2^b.
Spread(a, b) == Power(2, a) - Power(2, b)

\* Squaring k times shifts both by k.
LEMMA SpreadSquared ==
  ASSUME NEW a \in Nat, NEW b \in Nat, NEW j \in Nat, NEW u \in Nat, NEW v \in Nat,
         u = a + (j + 1), v = b + (j + 1)
  PROVE  Power(2, j) * (Spread(a, b) + Spread(a, b)) = Spread(u, v)
<1> DEFINE k == j + 1
           p == Power(2, j)
           x == Power(2, a)
           y == Power(2, b)
<1>0. 2 \in Nat /\ 2 \in Nat \ {0} /\ k \in Nat /\ u = a + k /\ v = b + k
  OBVIOUS
<1>1. p \in Nat /\ Power(2, k) = p * 2
  <2>1. Power(2, j + 1) = Power(2, j) * 2 /\ Power(2, j) \in Nat
    BY <1>0, PowerSteps
  <2> QED BY <1>0, <2>1
<1>2. x \in Nat /\ y \in Nat
  BY <1>0, PowerSteps
<1>3. Power(2, a + k) = x * Power(2, k)
  BY <1>0, PowerOfSum
<1>4. Power(2, b + k) = y * Power(2, k)
  BY <1>0, PowerOfSum
<1> HIDE DEF p, x, y, k
<1>5. p * ((x - y) + (x - y)) = x * (p * 2) - y * (p * 2)
  <2> DEFINE q == p * 2
             d == x - y
  <2>1. d \in Int /\ d + d = 2 * d
    BY <1>2
  <2>2. p * (2 * d) = q * d
    BY <1>1, <2>1
  <2>3. q \in Nat
    BY <1>1
  <2> HIDE DEF q
  <2>4. q * d = x * q - y * q
    BY <1>2, <2>3
  <2> QED BY <2>1, <2>2, <2>4 DEF q
<1> QED BY <1>0, <1>1, <1>3, <1>4, <1>5 DEF Spread, p, x, y

\* A product joins two runs of ones.
LEMMA SpreadJoined ==
  ASSUME NEW a \in Nat, NEW b \in Nat, NEW d \in Nat
  PROVE  Spread(a, b) + Spread(b, d) = Spread(a, d)
<1> DEFINE x == Power(2, a)
           y == Power(2, b)
           w == Power(2, d)
<1>1. x \in Nat /\ y \in Nat /\ w \in Nat
  <2>1. 2 \in Nat
    OBVIOUS
  <2> QED BY <2>1, PowerSteps
<1> HIDE DEF x, y, w
<1>2. (x - y) + (y - w) = x - w
  BY <1>1
<1> QED BY <1>2 DEF Spread, x, y, w

\* The first powers of two.
LEMMA TinyPowers == Power(2, 0) = 1 /\ Power(2, 1) = 2 /\ Power(2, 5) = 32
<1> DEFINE P(e) == Power(2, e)
<1>1. P(0) = 1 /\ \A e \in Nat : P(e) \in Nat /\ P(e + 1) = P(e) * 2
  <2>1. 2 \in Nat
    OBVIOUS
  <2> QED BY <2>1, PowerSteps
<1> HIDE DEF P
<1>2. P(0 + 1) = P(0) * 2 /\ P(1 + 1) = P(1) * 2 /\ P(2 + 1) = P(2) * 2
      /\ P(3 + 1) = P(3) * 2 /\ P(4 + 1) = P(4) * 2
  BY <1>1
<1>3. 0 + 1 = 1 /\ 1 + 1 = 2 /\ 2 + 1 = 3 /\ 3 + 1 = 4 /\ 4 + 1 = 5
  OBVIOUS
<1> QED BY <1>1, <1>2, <1>3 DEF P

\* The registers e, and f after a statement.
Registers(e, a, b, c, d) == e["t0"] = a /\ e["t1"] = b /\ e["t2"] = c /\ e["t3"] = d
AfterSquares(e, f, to, from, j) == f = [e EXCEPT ![to] = Power(2, j) * (e[from] + e[from])]
AfterProduct(e, f, to, a, b) == f = [e EXCEPT ![to] = e[a] + e[b]]

\* A statement that squares.
LEMMA HeldSquared ==
  ASSUME NEW c \in Chains, NEW n \in 1 .. Len(c), NEW m \in Nat, NEW to, NEW from, NEW j, NEW k,
         m + 1 = n, j = k - 1, c[n] = Sq(to, from, k)
  PROVE  AfterSquares(Held(c)[m], Held(c)[n], to, from, j)
<1>0. n - 1 = m
  <2>1. Len(c) \in Nat
    BY ChainsTyped
  <2> QED BY <2>1
<1>1. Held(c)[n] = AfterStatement(Held(c)[n - 1], c[n])
  BY HeldTabled
<1>2. c[n].to = to /\ c[n].factors[1] = from /\ c[n].factors[2] = from /\ c[n].calls = k
  BY DEF Sq
<1> QED BY <1>0, <1>1, <1>2 DEF AfterStatement, AfterSquares, Operands

\* A statement that multiplies.
LEMMA HeldMultiplied ==
  ASSUME NEW c \in Chains, NEW n \in 1 .. Len(c), NEW to \in PowerNames, NEW a \in PowerNames,
         NEW b \in PowerNames, NEW m \in Nat, m + 1 = n, c[n] = Times(to, a, b)
  PROVE  AfterProduct(Held(c)[m], Held(c)[n], to, a, b)
<1> DEFINE e == Held(c)[m]
<1>0. Len(c) \in Nat /\ n - 1 = m
  <2>1. Len(c) \in Nat
    BY ChainsTyped
  <2> QED BY <2>1
<1>1. Held(c)[n] = AfterStatement(e, c[n]) /\ e \in [PowerNames -> Nat]
  <2>1. n - 1 \in 0 .. Len(c)
    BY <1>0
  <2> QED BY <1>0, <2>1, HeldTabled
<1>2. c[n].to = to /\ c[n].factors[1] = a /\ c[n].factors[2] = b /\ c[n].calls = 1
  BY DEF Times
<1> HIDE DEF e
<1>3. Power(2, c[n].calls - 1) = 1
  <2>1. c[n].calls - 1 = 0
    BY <1>2
  <2> QED BY <2>1, TinyPowers
<1>4. e[a] + e[b] \in Nat
  BY <1>1
<1>5. 1 * (e[a] + e[b]) = e[a] + e[b]
  BY <1>4
<1>6. AfterStatement(e, c[n]) = [e EXCEPT ![to] = 1 * (e[a] + e[b])]
  BY <1>2, <1>3 DEF AfterStatement, Operands
<1> QED BY <1>1, <1>5, <1>6 DEF AfterProduct, e

\* fe_invert before its last product, and fe_pow22523.
LEMMA InvertHeld ==
  /\ Registers(Held(FeInvert)[21], 11, Spread(255, 5), Spread(250, 50), Spread(200, 100))
  /\ Held(FeInvert)[21]["z"] = 1
<1> DEFINE H == Held(FeInvert)
           At(n, a, b, c, d) == Registers(H[n], a, b, c, d) /\ H[n]["z"] = 1
<1>0. FeInvert \in Chains /\ Len(FeInvert) = 22
  BY InvertStatements DEF Chains
<1>s. \A e \in 0 .. 22 : H[e] \in [PowerNames -> Nat]
  BY <1>0, HeldTabled
<1>n. "z" \in PowerNames /\ "t0" \in PowerNames /\ "t1" \in PowerNames /\ "t2" \in PowerNames
      /\ "t3" \in PowerNames /\ "out" \in PowerNames
  BY DEF PowerNames
<1>100. At(0, 0, 0, 0, 0)
  <2>1. H[0] = AtOutset
    BY <1>0, HeldTabled
  <2> QED BY <1>n, <2>1 DEF AtOutset, Registers
<1> HIDE DEF H
<1>101. At(1, 2, 0, 0, 0)
  <2>1. FeInvert[1] = Sq("t0", "z", 1) /\ 1 \in 1 .. Len(FeInvert)
    BY <1>0, InvertStatements
  <2>a. 0 \in Nat /\ 0 + 1 = 1 /\ 0 = 1 - 1
    OBVIOUS
  <2>2. AfterSquares(H[0], H[1], "t0", "z", 0)
    BY <1>0, <1>n, <2>1, <2>a, HeldSquared, Zenon DEF H
  <2>3. Power(2, 0) = 1
    BY TinyPowers
  <2> QED BY <1>100, <1>s, <1>n, <2>2, <2>3 DEF AfterSquares, Registers
<1>102. At(2, 2, 8, 0, 0)
  <2>1. FeInvert[2] = Sq("t1", "t0", 2) /\ 2 \in 1 .. Len(FeInvert)
    BY <1>0, InvertStatements
  <2>a. 1 \in Nat /\ 1 + 1 = 2 /\ 1 = 2 - 1
    OBVIOUS
  <2>2. AfterSquares(H[1], H[2], "t1", "t0", 1)
    BY <1>0, <1>n, <2>1, <2>a, HeldSquared, Zenon DEF H
  <2>3. Power(2, 1) = 2
    BY TinyPowers
  <2> QED BY <1>101, <1>s, <1>n, <2>2, <2>3 DEF AfterSquares, Registers
<1>103. At(3, 2, 9, 0, 0)
  <2>1. FeInvert[3] = Times("t1", "z", "t1") /\ 3 \in 1 .. Len(FeInvert)
    BY <1>0, InvertStatements
  <2>a. 2 \in Nat /\ 2 + 1 = 3
    OBVIOUS
  <2>2. AfterProduct(H[2], H[3], "t1", "z", "t1")
    BY <1>0, <1>n, <2>1, <2>a, HeldMultiplied, Zenon DEF H
  <2>3. 1 + 8 = 9
    OBVIOUS
  <2> QED BY <1>102, <1>s, <1>n, <2>2, <2>3 DEF AfterProduct, Registers
<1>104. At(4, 11, 9, 0, 0)
  <2>1. FeInvert[4] = Times("t0", "t0", "t1") /\ 4 \in 1 .. Len(FeInvert)
    BY <1>0, InvertStatements
  <2>a. 3 \in Nat /\ 3 + 1 = 4
    OBVIOUS
  <2>2. AfterProduct(H[3], H[4], "t0", "t0", "t1")
    BY <1>0, <1>n, <2>1, <2>a, HeldMultiplied, Zenon DEF H
  <2>3. 2 + 9 = 11
    OBVIOUS
  <2> QED BY <1>103, <1>s, <1>n, <2>2, <2>3 DEF AfterProduct, Registers
<1>105. At(5, 11, 9, 22, 0)
  <2>1. FeInvert[5] = Sq("t2", "t0", 1) /\ 5 \in 1 .. Len(FeInvert)
    BY <1>0, InvertStatements
  <2>a. 4 \in Nat /\ 4 + 1 = 5 /\ 0 = 1 - 1
    OBVIOUS
  <2>2. AfterSquares(H[4], H[5], "t2", "t0", 0)
    BY <1>0, <1>n, <2>1, <2>a, HeldSquared, Zenon DEF H
  <2>3. Power(2, 0) = 1
    BY TinyPowers
  <2> QED BY <1>104, <1>s, <1>n, <2>2, <2>3 DEF AfterSquares, Registers
<1>106. At(6, 11, Spread(5, 0), 22, 0)
  <2>1. FeInvert[6] = Times("t1", "t1", "t2") /\ 6 \in 1 .. Len(FeInvert)
    BY <1>0, InvertStatements
  <2>a. 5 \in Nat /\ 5 + 1 = 6
    OBVIOUS
  <2>2. AfterProduct(H[5], H[6], "t1", "t1", "t2")
    BY <1>0, <1>n, <2>1, <2>a, HeldMultiplied, Zenon DEF H
  <2>3. 9 + 22 = Spread(5, 0)
    BY TinyPowers DEF Spread
  <2> QED BY <1>105, <1>s, <1>n, <2>2, <2>3 DEF AfterProduct, Registers
<1>107. At(7, 11, Spread(5, 0), Spread(10, 5), 0)
  <2>1. FeInvert[7] = Sq("t2", "t1", 5) /\ 7 \in 1 .. Len(FeInvert)
    BY <1>0, InvertStatements
  <2>a. 6 \in Nat /\ 6 + 1 = 7 /\ 4 = 5 - 1
    OBVIOUS
  <2>2. AfterSquares(H[6], H[7], "t2", "t1", 4)
    BY <1>0, <1>n, <2>1, <2>a, HeldSquared, Zenon DEF H
  <2>3. Power(2, 4) * (Spread(5, 0) + Spread(5, 0)) = Spread(10, 5)
    BY SpreadSquared
  <2> QED BY <1>106, <1>s, <1>n, <2>2, <2>3 DEF AfterSquares, Registers
<1>108. At(8, 11, Spread(10, 0), Spread(10, 5), 0)
  <2>1. FeInvert[8] = Times("t1", "t2", "t1") /\ 8 \in 1 .. Len(FeInvert)
    BY <1>0, InvertStatements
  <2>a. 7 \in Nat /\ 7 + 1 = 8
    OBVIOUS
  <2>2. AfterProduct(H[7], H[8], "t1", "t2", "t1")
    BY <1>0, <1>n, <2>1, <2>a, HeldMultiplied, Zenon DEF H
  <2>3. Spread(10, 5) + Spread(5, 0) = Spread(10, 0)
    BY SpreadJoined
  <2> QED BY <1>107, <1>s, <1>n, <2>2, <2>3 DEF AfterProduct, Registers
<1>109. At(9, 11, Spread(10, 0), Spread(20, 10), 0)
  <2>1. FeInvert[9] = Sq("t2", "t1", 10) /\ 9 \in 1 .. Len(FeInvert)
    BY <1>0, InvertStatements
  <2>a. 8 \in Nat /\ 8 + 1 = 9 /\ 9 = 10 - 1
    OBVIOUS
  <2>2. AfterSquares(H[8], H[9], "t2", "t1", 9)
    BY <1>0, <1>n, <2>1, <2>a, HeldSquared, Zenon DEF H
  <2>3. Power(2, 9) * (Spread(10, 0) + Spread(10, 0)) = Spread(20, 10)
    BY SpreadSquared
  <2> QED BY <1>108, <1>s, <1>n, <2>2, <2>3 DEF AfterSquares, Registers
<1>110. At(10, 11, Spread(10, 0), Spread(20, 0), 0)
  <2>1. FeInvert[10] = Times("t2", "t2", "t1") /\ 10 \in 1 .. Len(FeInvert)
    BY <1>0, InvertStatements
  <2>a. 9 \in Nat /\ 9 + 1 = 10
    OBVIOUS
  <2>2. AfterProduct(H[9], H[10], "t2", "t2", "t1")
    BY <1>0, <1>n, <2>1, <2>a, HeldMultiplied, Zenon DEF H
  <2>3. Spread(20, 10) + Spread(10, 0) = Spread(20, 0)
    BY SpreadJoined
  <2> QED BY <1>109, <1>s, <1>n, <2>2, <2>3 DEF AfterProduct, Registers
<1>111. At(11, 11, Spread(10, 0), Spread(20, 0), Spread(40, 20))
  <2>1. FeInvert[11] = Sq("t3", "t2", 20) /\ 11 \in 1 .. Len(FeInvert)
    BY <1>0, InvertStatements
  <2>a. 10 \in Nat /\ 10 + 1 = 11 /\ 19 = 20 - 1
    OBVIOUS
  <2>2. AfterSquares(H[10], H[11], "t3", "t2", 19)
    BY <1>0, <1>n, <2>1, <2>a, HeldSquared, Zenon DEF H
  <2>3. Power(2, 19) * (Spread(20, 0) + Spread(20, 0)) = Spread(40, 20)
    BY SpreadSquared
  <2> QED BY <1>110, <1>s, <1>n, <2>2, <2>3 DEF AfterSquares, Registers
<1>112. At(12, 11, Spread(10, 0), Spread(40, 0), Spread(40, 20))
  <2>1. FeInvert[12] = Times("t2", "t3", "t2") /\ 12 \in 1 .. Len(FeInvert)
    BY <1>0, InvertStatements
  <2>a. 11 \in Nat /\ 11 + 1 = 12
    OBVIOUS
  <2>2. AfterProduct(H[11], H[12], "t2", "t3", "t2")
    BY <1>0, <1>n, <2>1, <2>a, HeldMultiplied, Zenon DEF H
  <2>3. Spread(40, 20) + Spread(20, 0) = Spread(40, 0)
    BY SpreadJoined
  <2> QED BY <1>111, <1>s, <1>n, <2>2, <2>3 DEF AfterProduct, Registers
<1>113. At(13, 11, Spread(10, 0), Spread(50, 10), Spread(40, 20))
  <2>1. FeInvert[13] = Sq("t2", "t2", 10) /\ 13 \in 1 .. Len(FeInvert)
    BY <1>0, InvertStatements
  <2>a. 12 \in Nat /\ 12 + 1 = 13 /\ 9 = 10 - 1
    OBVIOUS
  <2>2. AfterSquares(H[12], H[13], "t2", "t2", 9)
    BY <1>0, <1>n, <2>1, <2>a, HeldSquared, Zenon DEF H
  <2>3. Power(2, 9) * (Spread(40, 0) + Spread(40, 0)) = Spread(50, 10)
    BY SpreadSquared
  <2> QED BY <1>112, <1>s, <1>n, <2>2, <2>3 DEF AfterSquares, Registers
<1>114. At(14, 11, Spread(50, 0), Spread(50, 10), Spread(40, 20))
  <2>1. FeInvert[14] = Times("t1", "t2", "t1") /\ 14 \in 1 .. Len(FeInvert)
    BY <1>0, InvertStatements
  <2>a. 13 \in Nat /\ 13 + 1 = 14
    OBVIOUS
  <2>2. AfterProduct(H[13], H[14], "t1", "t2", "t1")
    BY <1>0, <1>n, <2>1, <2>a, HeldMultiplied, Zenon DEF H
  <2>3. Spread(50, 10) + Spread(10, 0) = Spread(50, 0)
    BY SpreadJoined
  <2> QED BY <1>113, <1>s, <1>n, <2>2, <2>3 DEF AfterProduct, Registers
<1>115. At(15, 11, Spread(50, 0), Spread(100, 50), Spread(40, 20))
  <2>1. FeInvert[15] = Sq("t2", "t1", 50) /\ 15 \in 1 .. Len(FeInvert)
    BY <1>0, InvertStatements
  <2>a. 14 \in Nat /\ 14 + 1 = 15 /\ 49 = 50 - 1
    OBVIOUS
  <2>2. AfterSquares(H[14], H[15], "t2", "t1", 49)
    BY <1>0, <1>n, <2>1, <2>a, HeldSquared, ZenonT(60) DEF H
  <2>3. Power(2, 49) * (Spread(50, 0) + Spread(50, 0)) = Spread(100, 50)
    BY SpreadSquared
  <2> QED BY <1>114, <1>s, <1>n, <2>2, <2>3 DEF AfterSquares, Registers
<1>116. At(16, 11, Spread(50, 0), Spread(100, 0), Spread(40, 20))
  <2>1. FeInvert[16] = Times("t2", "t2", "t1") /\ 16 \in 1 .. Len(FeInvert)
    BY <1>0, InvertStatements
  <2>a. 15 \in Nat /\ 15 + 1 = 16
    OBVIOUS
  <2>2. AfterProduct(H[15], H[16], "t2", "t2", "t1")
    BY <1>0, <1>n, <2>1, <2>a, HeldMultiplied, Zenon DEF H
  <2>3. Spread(100, 50) + Spread(50, 0) = Spread(100, 0)
    BY SpreadJoined
  <2> QED BY <1>115, <1>s, <1>n, <2>2, <2>3 DEF AfterProduct, Registers
<1>117. At(17, 11, Spread(50, 0), Spread(100, 0), Spread(200, 100))
  <2>1. FeInvert[17] = Sq("t3", "t2", 100) /\ 17 \in 1 .. Len(FeInvert)
    BY <1>0, InvertStatements
  <2>a. 16 \in Nat /\ 16 + 1 = 17 /\ 99 = 100 - 1
    OBVIOUS
  <2>2. AfterSquares(H[16], H[17], "t3", "t2", 99)
    <3> DEFINE j == 99
               k == 100
    <3>1. FeInvert[17] = Sq("t3", "t2", k) /\ j = k - 1
      BY <2>1
    <3> HIDE DEF j, k
    <3>2. AfterSquares(H[16], H[17], "t3", "t2", j)
      BY <1>0, <1>n, <2>1, <2>a, <3>1, HeldSquared, ZenonT(60) DEF H
    <3> QED BY <3>2 DEF j
  <2>3. Power(2, 99) * (Spread(100, 0) + Spread(100, 0)) = Spread(200, 100)
    BY SpreadSquared
  <2> QED BY <1>116, <1>s, <1>n, <2>2, <2>3 DEF AfterSquares, Registers
<1>118. At(18, 11, Spread(50, 0), Spread(200, 0), Spread(200, 100))
  <2>1. FeInvert[18] = Times("t2", "t3", "t2") /\ 18 \in 1 .. Len(FeInvert)
    BY <1>0, InvertStatements
  <2>a. 17 \in Nat /\ 17 + 1 = 18
    OBVIOUS
  <2>2. AfterProduct(H[17], H[18], "t2", "t3", "t2")
    BY <1>0, <1>n, <2>1, <2>a, HeldMultiplied, Zenon DEF H
  <2>3. Spread(200, 100) + Spread(100, 0) = Spread(200, 0)
    BY SpreadJoined
  <2> QED BY <1>117, <1>s, <1>n, <2>2, <2>3 DEF AfterProduct, Registers
<1>119. At(19, 11, Spread(50, 0), Spread(250, 50), Spread(200, 100))
  <2>1. FeInvert[19] = Sq("t2", "t2", 50) /\ 19 \in 1 .. Len(FeInvert)
    BY <1>0, InvertStatements
  <2>a. 18 \in Nat /\ 18 + 1 = 19 /\ 49 = 50 - 1
    OBVIOUS
  <2>2. AfterSquares(H[18], H[19], "t2", "t2", 49)
    BY <1>0, <1>n, <2>1, <2>a, HeldSquared, ZenonT(60) DEF H
  <2>3. Power(2, 49) * (Spread(200, 0) + Spread(200, 0)) = Spread(250, 50)
    BY SpreadSquared
  <2> QED BY <1>118, <1>s, <1>n, <2>2, <2>3 DEF AfterSquares, Registers
<1>120. At(20, 11, Spread(250, 0), Spread(250, 50), Spread(200, 100))
  <2>1. FeInvert[20] = Times("t1", "t2", "t1") /\ 20 \in 1 .. Len(FeInvert)
    BY <1>0, InvertStatements
  <2>a. 19 \in Nat /\ 19 + 1 = 20
    OBVIOUS
  <2>2. AfterProduct(H[19], H[20], "t1", "t2", "t1")
    BY <1>0, <1>n, <2>1, <2>a, HeldMultiplied, Zenon DEF H
  <2>3. Spread(250, 50) + Spread(50, 0) = Spread(250, 0)
    BY SpreadJoined
  <2> QED BY <1>119, <1>s, <1>n, <2>2, <2>3 DEF AfterProduct, Registers
<1>121. At(21, 11, Spread(255, 5), Spread(250, 50), Spread(200, 100))
  <2>1. FeInvert[21] = Sq("t1", "t1", 5) /\ 21 \in 1 .. Len(FeInvert)
    BY <1>0, InvertStatements
  <2>a. 20 \in Nat /\ 20 + 1 = 21 /\ 4 = 5 - 1
    OBVIOUS
  <2>2. AfterSquares(H[20], H[21], "t1", "t1", 4)
    BY <1>0, <1>n, <2>1, <2>a, HeldSquared, Zenon DEF H
  <2>3. Power(2, 4) * (Spread(250, 0) + Spread(250, 0)) = Spread(255, 5)
    BY SpreadSquared
  <2> QED BY <1>120, <1>s, <1>n, <2>2, <2>3 DEF AfterSquares, Registers
<1> QED BY <1>121 DEF H

\* Likewise fe_pow22523.
LEMMA RootHeld ==
  /\ Registers(Held(FePow22523)[21], Spread(252, 2), Spread(250, 50), Spread(200, 100), 0)
  /\ Held(FePow22523)[21]["z"] = 1
<1> DEFINE H == Held(FePow22523)
           At(n, a, b, c, d) == Registers(H[n], a, b, c, d) /\ H[n]["z"] = 1
<1>0. FePow22523 \in Chains /\ Len(FePow22523) = 22
  BY RootStatements DEF Chains
<1>s. \A e \in 0 .. 22 : H[e] \in [PowerNames -> Nat]
  BY <1>0, HeldTabled
<1>n. "z" \in PowerNames /\ "t0" \in PowerNames /\ "t1" \in PowerNames /\ "t2" \in PowerNames
      /\ "t3" \in PowerNames /\ "out" \in PowerNames
  BY DEF PowerNames
<1>100. At(0, 0, 0, 0, 0)
  <2>1. H[0] = AtOutset
    BY <1>0, HeldTabled
  <2> QED BY <1>n, <2>1 DEF AtOutset, Registers
<1> HIDE DEF H
<1>101. At(1, 2, 0, 0, 0)
  <2>1. FePow22523[1] = Sq("t0", "z", 1) /\ 1 \in 1 .. Len(FePow22523)
    BY <1>0, RootStatements
  <2>a. 0 \in Nat /\ 0 + 1 = 1 /\ 0 = 1 - 1
    OBVIOUS
  <2>2. AfterSquares(H[0], H[1], "t0", "z", 0)
    BY <1>0, <1>n, <2>1, <2>a, HeldSquared, Zenon DEF H
  <2>3. Power(2, 0) = 1
    BY TinyPowers
  <2> QED BY <1>100, <1>s, <1>n, <2>2, <2>3 DEF AfterSquares, Registers
<1>102. At(2, 2, 8, 0, 0)
  <2>1. FePow22523[2] = Sq("t1", "t0", 2) /\ 2 \in 1 .. Len(FePow22523)
    BY <1>0, RootStatements
  <2>a. 1 \in Nat /\ 1 + 1 = 2 /\ 1 = 2 - 1
    OBVIOUS
  <2>2. AfterSquares(H[1], H[2], "t1", "t0", 1)
    BY <1>0, <1>n, <2>1, <2>a, HeldSquared, Zenon DEF H
  <2>3. Power(2, 1) = 2
    BY TinyPowers
  <2> QED BY <1>101, <1>s, <1>n, <2>2, <2>3 DEF AfterSquares, Registers
<1>103. At(3, 2, 9, 0, 0)
  <2>1. FePow22523[3] = Times("t1", "z", "t1") /\ 3 \in 1 .. Len(FePow22523)
    BY <1>0, RootStatements
  <2>a. 2 \in Nat /\ 2 + 1 = 3
    OBVIOUS
  <2>2. AfterProduct(H[2], H[3], "t1", "z", "t1")
    BY <1>0, <1>n, <2>1, <2>a, HeldMultiplied, Zenon DEF H
  <2>3. 1 + 8 = 9
    OBVIOUS
  <2> QED BY <1>102, <1>s, <1>n, <2>2, <2>3 DEF AfterProduct, Registers
<1>104. At(4, 11, 9, 0, 0)
  <2>1. FePow22523[4] = Times("t0", "t0", "t1") /\ 4 \in 1 .. Len(FePow22523)
    BY <1>0, RootStatements
  <2>a. 3 \in Nat /\ 3 + 1 = 4
    OBVIOUS
  <2>2. AfterProduct(H[3], H[4], "t0", "t0", "t1")
    BY <1>0, <1>n, <2>1, <2>a, HeldMultiplied, Zenon DEF H
  <2>3. 2 + 9 = 11
    OBVIOUS
  <2> QED BY <1>103, <1>s, <1>n, <2>2, <2>3 DEF AfterProduct, Registers
<1>105. At(5, 22, 9, 0, 0)
  <2>1. FePow22523[5] = Sq("t0", "t0", 1) /\ 5 \in 1 .. Len(FePow22523)
    BY <1>0, RootStatements
  <2>a. 4 \in Nat /\ 4 + 1 = 5 /\ 0 = 1 - 1
    OBVIOUS
  <2>2. AfterSquares(H[4], H[5], "t0", "t0", 0)
    BY <1>0, <1>n, <2>1, <2>a, HeldSquared, Zenon DEF H
  <2>3. Power(2, 0) = 1
    BY TinyPowers
  <2> QED BY <1>104, <1>s, <1>n, <2>2, <2>3 DEF AfterSquares, Registers
<1>106. At(6, Spread(5, 0), 9, 0, 0)
  <2>1. FePow22523[6] = Times("t0", "t1", "t0") /\ 6 \in 1 .. Len(FePow22523)
    BY <1>0, RootStatements
  <2>a. 5 \in Nat /\ 5 + 1 = 6
    OBVIOUS
  <2>2. AfterProduct(H[5], H[6], "t0", "t1", "t0")
    BY <1>0, <1>n, <2>1, <2>a, HeldMultiplied, Zenon DEF H
  <2>3. 9 + 22 = Spread(5, 0)
    BY TinyPowers DEF Spread
  <2> QED BY <1>105, <1>s, <1>n, <2>2, <2>3 DEF AfterProduct, Registers
<1>107. At(7, Spread(5, 0), Spread(10, 5), 0, 0)
  <2>1. FePow22523[7] = Sq("t1", "t0", 5) /\ 7 \in 1 .. Len(FePow22523)
    BY <1>0, RootStatements
  <2>a. 6 \in Nat /\ 6 + 1 = 7 /\ 4 = 5 - 1
    OBVIOUS
  <2>2. AfterSquares(H[6], H[7], "t1", "t0", 4)
    BY <1>0, <1>n, <2>1, <2>a, HeldSquared, Zenon DEF H
  <2>3. Power(2, 4) * (Spread(5, 0) + Spread(5, 0)) = Spread(10, 5)
    BY SpreadSquared
  <2> QED BY <1>106, <1>s, <1>n, <2>2, <2>3 DEF AfterSquares, Registers
<1>108. At(8, Spread(10, 0), Spread(10, 5), 0, 0)
  <2>1. FePow22523[8] = Times("t0", "t1", "t0") /\ 8 \in 1 .. Len(FePow22523)
    BY <1>0, RootStatements
  <2>a. 7 \in Nat /\ 7 + 1 = 8
    OBVIOUS
  <2>2. AfterProduct(H[7], H[8], "t0", "t1", "t0")
    BY <1>0, <1>n, <2>1, <2>a, HeldMultiplied, Zenon DEF H
  <2>3. Spread(10, 5) + Spread(5, 0) = Spread(10, 0)
    BY SpreadJoined
  <2> QED BY <1>107, <1>s, <1>n, <2>2, <2>3 DEF AfterProduct, Registers
<1>109. At(9, Spread(10, 0), Spread(20, 10), 0, 0)
  <2>1. FePow22523[9] = Sq("t1", "t0", 10) /\ 9 \in 1 .. Len(FePow22523)
    BY <1>0, RootStatements
  <2>a. 8 \in Nat /\ 8 + 1 = 9 /\ 9 = 10 - 1
    OBVIOUS
  <2>2. AfterSquares(H[8], H[9], "t1", "t0", 9)
    BY <1>0, <1>n, <2>1, <2>a, HeldSquared, Zenon DEF H
  <2>3. Power(2, 9) * (Spread(10, 0) + Spread(10, 0)) = Spread(20, 10)
    BY SpreadSquared
  <2> QED BY <1>108, <1>s, <1>n, <2>2, <2>3 DEF AfterSquares, Registers
<1>110. At(10, Spread(10, 0), Spread(20, 0), 0, 0)
  <2>1. FePow22523[10] = Times("t1", "t1", "t0") /\ 10 \in 1 .. Len(FePow22523)
    BY <1>0, RootStatements
  <2>a. 9 \in Nat /\ 9 + 1 = 10
    OBVIOUS
  <2>2. AfterProduct(H[9], H[10], "t1", "t1", "t0")
    BY <1>0, <1>n, <2>1, <2>a, HeldMultiplied, Zenon DEF H
  <2>3. Spread(20, 10) + Spread(10, 0) = Spread(20, 0)
    BY SpreadJoined
  <2> QED BY <1>109, <1>s, <1>n, <2>2, <2>3 DEF AfterProduct, Registers
<1>111. At(11, Spread(10, 0), Spread(20, 0), Spread(40, 20), 0)
  <2>1. FePow22523[11] = Sq("t2", "t1", 20) /\ 11 \in 1 .. Len(FePow22523)
    BY <1>0, RootStatements
  <2>a. 10 \in Nat /\ 10 + 1 = 11 /\ 19 = 20 - 1
    OBVIOUS
  <2>2. AfterSquares(H[10], H[11], "t2", "t1", 19)
    BY <1>0, <1>n, <2>1, <2>a, HeldSquared, Zenon DEF H
  <2>3. Power(2, 19) * (Spread(20, 0) + Spread(20, 0)) = Spread(40, 20)
    BY SpreadSquared
  <2> QED BY <1>110, <1>s, <1>n, <2>2, <2>3 DEF AfterSquares, Registers
<1>112. At(12, Spread(10, 0), Spread(40, 0), Spread(40, 20), 0)
  <2>1. FePow22523[12] = Times("t1", "t2", "t1") /\ 12 \in 1 .. Len(FePow22523)
    BY <1>0, RootStatements
  <2>a. 11 \in Nat /\ 11 + 1 = 12
    OBVIOUS
  <2>2. AfterProduct(H[11], H[12], "t1", "t2", "t1")
    BY <1>0, <1>n, <2>1, <2>a, HeldMultiplied, Zenon DEF H
  <2>3. Spread(40, 20) + Spread(20, 0) = Spread(40, 0)
    BY SpreadJoined
  <2> QED BY <1>111, <1>s, <1>n, <2>2, <2>3 DEF AfterProduct, Registers
<1>113. At(13, Spread(10, 0), Spread(50, 10), Spread(40, 20), 0)
  <2>1. FePow22523[13] = Sq("t1", "t1", 10) /\ 13 \in 1 .. Len(FePow22523)
    BY <1>0, RootStatements
  <2>a. 12 \in Nat /\ 12 + 1 = 13 /\ 9 = 10 - 1
    OBVIOUS
  <2>2. AfterSquares(H[12], H[13], "t1", "t1", 9)
    BY <1>0, <1>n, <2>1, <2>a, HeldSquared, Zenon DEF H
  <2>3. Power(2, 9) * (Spread(40, 0) + Spread(40, 0)) = Spread(50, 10)
    BY SpreadSquared
  <2> QED BY <1>112, <1>s, <1>n, <2>2, <2>3 DEF AfterSquares, Registers
<1>114. At(14, Spread(50, 0), Spread(50, 10), Spread(40, 20), 0)
  <2>1. FePow22523[14] = Times("t0", "t1", "t0") /\ 14 \in 1 .. Len(FePow22523)
    BY <1>0, RootStatements
  <2>a. 13 \in Nat /\ 13 + 1 = 14
    OBVIOUS
  <2>2. AfterProduct(H[13], H[14], "t0", "t1", "t0")
    BY <1>0, <1>n, <2>1, <2>a, HeldMultiplied, Zenon DEF H
  <2>3. Spread(50, 10) + Spread(10, 0) = Spread(50, 0)
    BY SpreadJoined
  <2> QED BY <1>113, <1>s, <1>n, <2>2, <2>3 DEF AfterProduct, Registers
<1>115. At(15, Spread(50, 0), Spread(100, 50), Spread(40, 20), 0)
  <2>1. FePow22523[15] = Sq("t1", "t0", 50) /\ 15 \in 1 .. Len(FePow22523)
    BY <1>0, RootStatements
  <2>a. 14 \in Nat /\ 14 + 1 = 15 /\ 49 = 50 - 1
    OBVIOUS
  <2>2. AfterSquares(H[14], H[15], "t1", "t0", 49)
    BY <1>0, <1>n, <2>1, <2>a, HeldSquared, ZenonT(60) DEF H
  <2>3. Power(2, 49) * (Spread(50, 0) + Spread(50, 0)) = Spread(100, 50)
    BY SpreadSquared
  <2> QED BY <1>114, <1>s, <1>n, <2>2, <2>3 DEF AfterSquares, Registers
<1>116. At(16, Spread(50, 0), Spread(100, 0), Spread(40, 20), 0)
  <2>1. FePow22523[16] = Times("t1", "t1", "t0") /\ 16 \in 1 .. Len(FePow22523)
    BY <1>0, RootStatements
  <2>a. 15 \in Nat /\ 15 + 1 = 16
    OBVIOUS
  <2>2. AfterProduct(H[15], H[16], "t1", "t1", "t0")
    BY <1>0, <1>n, <2>1, <2>a, HeldMultiplied, Zenon DEF H
  <2>3. Spread(100, 50) + Spread(50, 0) = Spread(100, 0)
    BY SpreadJoined
  <2> QED BY <1>115, <1>s, <1>n, <2>2, <2>3 DEF AfterProduct, Registers
<1>117. At(17, Spread(50, 0), Spread(100, 0), Spread(200, 100), 0)
  <2>1. FePow22523[17] = Sq("t2", "t1", 100) /\ 17 \in 1 .. Len(FePow22523)
    BY <1>0, RootStatements
  <2>a. 16 \in Nat /\ 16 + 1 = 17 /\ 99 = 100 - 1
    OBVIOUS
  <2>2. AfterSquares(H[16], H[17], "t2", "t1", 99)
    <3> DEFINE j == 99
               k == 100
    <3>1. FePow22523[17] = Sq("t2", "t1", k) /\ j = k - 1
      BY <2>1
    <3> HIDE DEF j, k
    <3>2. AfterSquares(H[16], H[17], "t2", "t1", j)
      BY <1>0, <1>n, <2>1, <2>a, <3>1, HeldSquared, ZenonT(60) DEF H
    <3> QED BY <3>2 DEF j
  <2>3. Power(2, 99) * (Spread(100, 0) + Spread(100, 0)) = Spread(200, 100)
    BY SpreadSquared
  <2> QED BY <1>116, <1>s, <1>n, <2>2, <2>3 DEF AfterSquares, Registers
<1>118. At(18, Spread(50, 0), Spread(200, 0), Spread(200, 100), 0)
  <2>1. FePow22523[18] = Times("t1", "t2", "t1") /\ 18 \in 1 .. Len(FePow22523)
    BY <1>0, RootStatements
  <2>a. 17 \in Nat /\ 17 + 1 = 18
    OBVIOUS
  <2>2. AfterProduct(H[17], H[18], "t1", "t2", "t1")
    BY <1>0, <1>n, <2>1, <2>a, HeldMultiplied, Zenon DEF H
  <2>3. Spread(200, 100) + Spread(100, 0) = Spread(200, 0)
    BY SpreadJoined
  <2> QED BY <1>117, <1>s, <1>n, <2>2, <2>3 DEF AfterProduct, Registers
<1>119. At(19, Spread(50, 0), Spread(250, 50), Spread(200, 100), 0)
  <2>1. FePow22523[19] = Sq("t1", "t1", 50) /\ 19 \in 1 .. Len(FePow22523)
    BY <1>0, RootStatements
  <2>a. 18 \in Nat /\ 18 + 1 = 19 /\ 49 = 50 - 1
    OBVIOUS
  <2>2. AfterSquares(H[18], H[19], "t1", "t1", 49)
    BY <1>0, <1>n, <2>1, <2>a, HeldSquared, ZenonT(60) DEF H
  <2>3. Power(2, 49) * (Spread(200, 0) + Spread(200, 0)) = Spread(250, 50)
    BY SpreadSquared
  <2> QED BY <1>118, <1>s, <1>n, <2>2, <2>3 DEF AfterSquares, Registers
<1>120. At(20, Spread(250, 0), Spread(250, 50), Spread(200, 100), 0)
  <2>1. FePow22523[20] = Times("t0", "t1", "t0") /\ 20 \in 1 .. Len(FePow22523)
    BY <1>0, RootStatements
  <2>a. 19 \in Nat /\ 19 + 1 = 20
    OBVIOUS
  <2>2. AfterProduct(H[19], H[20], "t0", "t1", "t0")
    BY <1>0, <1>n, <2>1, <2>a, HeldMultiplied, Zenon DEF H
  <2>3. Spread(250, 50) + Spread(50, 0) = Spread(250, 0)
    BY SpreadJoined
  <2> QED BY <1>119, <1>s, <1>n, <2>2, <2>3 DEF AfterProduct, Registers
<1>121. At(21, Spread(252, 2), Spread(250, 50), Spread(200, 100), 0)
  <2>1. FePow22523[21] = Sq("t0", "t0", 2) /\ 21 \in 1 .. Len(FePow22523)
    BY <1>0, RootStatements
  <2>a. 20 \in Nat /\ 20 + 1 = 21 /\ 1 = 2 - 1
    OBVIOUS
  <2>2. AfterSquares(H[20], H[21], "t0", "t0", 1)
    BY <1>0, <1>n, <2>1, <2>a, HeldSquared, Zenon DEF H
  <2>3. Power(2, 1) * (Spread(250, 0) + Spread(250, 0)) = Spread(252, 2)
    BY SpreadSquared
  <2> QED BY <1>120, <1>s, <1>n, <2>2, <2>3 DEF AfterSquares, Registers
<1> QED BY <1>121 DEF H

\* What is left after the last statement.
LEMMA InvertPower == Held(FeInvert)[22]["out"] \in Nat /\ Held(FeInvert)[22]["out"] + 21 = Power(2, 255)
<1> DEFINE H == Held(FeInvert)
<1>0. FeInvert \in Chains /\ 22 \in 1 .. Len(FeInvert) /\ 22 \in 0 .. Len(FeInvert) /\ 21 \in 0 .. Len(FeInvert)
      /\ FeInvert[22] = Times("out", "t1", "t0")
  BY InvertStatements DEF Chains
<1>1. "out" \in PowerNames /\ "t1" \in PowerNames /\ "t0" \in PowerNames
  BY DEF PowerNames
<1>2. H[21] \in [PowerNames -> Nat] /\ H[22] \in [PowerNames -> Nat]
  BY <1>0, HeldTabled
<1>3. 21 \in Nat /\ 21 + 1 = 22
  OBVIOUS
<1>4. AfterProduct(H[21], H[22], "out", "t1", "t0")
  BY <1>0, <1>1, <1>3, HeldMultiplied, Zenon
<1>5. H[21]["t1"] = Spread(255, 5) /\ H[21]["t0"] = 11
  BY InvertHeld DEF Registers
<1> HIDE DEF H
<1>6. H[22]["out"] = Spread(255, 5) + 11
  BY <1>1, <1>2, <1>4, <1>5 DEF AfterProduct
<1> DEFINE p == Power(2, 255)
<1>7. p \in Nat
  <2>1. 2 \in Nat /\ 255 \in Nat
    OBVIOUS
  <2> QED BY <2>1, PowerSteps
<1>8. Spread(255, 5) = p - 32
  BY TinyPowers DEF Spread
<1> HIDE DEF p
<1>9. (p - 32 + 11) + 21 = p
  BY <1>7
<1>10. H[22]["out"] \in Nat
  BY <1>1, <1>2
<1> QED BY <1>6, <1>8, <1>9, <1>10 DEF H, p

\* Likewise.
LEMMA RootPower == Held(FePow22523)[22]["z"] \in Nat /\ Held(FePow22523)[22]["z"] + 3 = Power(2, 252)
<1> DEFINE H == Held(FePow22523)
<1>0. FePow22523 \in Chains /\ 22 \in 1 .. Len(FePow22523) /\ 22 \in 0 .. Len(FePow22523) /\ 21 \in 0 .. Len(FePow22523)
      /\ FePow22523[22] = Times("z", "t0", "z")
  BY RootStatements DEF Chains
<1>1. "z" \in PowerNames /\ "t0" \in PowerNames
  BY DEF PowerNames
<1>2. H[21] \in [PowerNames -> Nat] /\ H[22] \in [PowerNames -> Nat]
  BY <1>0, HeldTabled
<1>3. 21 \in Nat /\ 21 + 1 = 22
  OBVIOUS
<1>4. AfterProduct(H[21], H[22], "z", "t0", "z")
  BY <1>0, <1>1, <1>3, HeldMultiplied, Zenon
<1>5. H[21]["t0"] = Spread(252, 2) /\ H[21]["z"] = 1
  BY RootHeld DEF Registers
<1> HIDE DEF H
<1>6. H[22]["z"] = Spread(252, 2) + 1
  BY <1>1, <1>2, <1>4, <1>5 DEF AfterProduct
<1> DEFINE p == Power(2, 252)
<1>7. p \in Nat /\ Power(2, 2) = 4
  <2>1. 2 \in Nat /\ 252 \in Nat /\ 1 \in Nat /\ 1 + 1 = 2
    OBVIOUS
  <2>2. Power(2, 1 + 1) = Power(2, 1) * 2
    BY <2>1, PowerSteps
  <2>3. Power(2, 2) = 4
    BY <2>1, <2>2, TinyPowers
  <2>4. Power(2, 252) \in Nat
    BY <2>1, PowerSteps
  <2> QED BY <2>3, <2>4
<1>8. Spread(252, 2) = p - 4
  BY <1>7 DEF Spread
<1> HIDE DEF p
<1>9. (p - 4 + 1) + 3 = p
  BY <1>7
<1>10. H[22]["z"] \in Nat
  BY <1>1, <1>2
<1> QED BY <1>6, <1>8, <1>9, <1>10 DEF H, p

\* Past the last statement every register holds what the whole chain left.
LEMMA PowersInvExact == PowersInv => PowersExact
<1> SUFFICES ASSUME PowersInv, line > Len(Statements)
             PROVE  CASE chain = "fe_invert" -> Sum2(exponent["out"], Number(21)) = PowerOfTwo(255)
                      [] chain = "fe_pow22523" -> Sum2(exponent["z"], Number(3)) = PowerOfTwo(252)
                      [] OTHER -> TRUE
  BY DEF PowersExact
<1>1. chain \in {"fe_invert", "fe_pow22523", "none"} /\ squared \in Nat
  BY DEF PowersInv
<1>2. Statements \in Chains
  BY <1>1, StatementsAreChains
<1>3. line - 1 = Len(Statements) /\ ~(squared > 0)
  <2>1. Len(Statements) \in Nat
    BY <1>2, ChainsTyped
  <2>2. line \in 1 .. Len(Statements) + 1 /\ (squared > 0 => line <= Len(Statements))
    BY DEF PowersInv
  <2> QED BY <2>1, <2>2
<1>4. \A t \in PowerNames : exponent[t] = DigitsOf(Held(Statements)[Len(Statements)][t])
  BY <1>3 DEF PowersInv, Current
<1>5. CASE chain = "fe_invert"
  <2> DEFINE x == Held(FeInvert)[22]["out"]
  <2>1. Statements = FeInvert /\ Len(FeInvert) = 22
    BY <1>1, <1>5, StatementsAreChains, InvertStatements
  <2>2. "out" \in PowerNames
    BY DEF PowerNames
  <2>3. exponent["out"] = DigitsOf(x)
    BY <1>4, <2>1, <2>2
  <2>4. x \in Nat /\ x + 21 = Power(2, 255)
    BY InvertPower
  <2> HIDE DEF x
  <2>5. 21 \in Nat /\ 21 \in 0 .. 31 /\ 255 \in Nat
    OBVIOUS
  <2>6. Number(21) = DigitsOf(21)
    BY <2>5, NumberDigits
  <2>7. Sum2(DigitsOf(x), DigitsOf(21)) = DigitsOf(x + 21)
    BY <2>4, <2>5, SumDigits
  <2>8. PowerOfTwo(255) = DigitsOf(Power(2, 255))
    BY <2>5, PowerDigits
  <2> QED BY <1>5, <2>3, <2>4, <2>6, <2>7, <2>8
<1>6. CASE chain = "fe_pow22523"
  <2> DEFINE x == Held(FePow22523)[22]["z"]
  <2>1. Statements = FePow22523 /\ Len(FePow22523) = 22
    BY <1>1, <1>6, StatementsAreChains, RootStatements
  <2>2. "z" \in PowerNames
    BY DEF PowerNames
  <2>3. exponent["z"] = DigitsOf(x)
    BY <1>4, <2>1, <2>2
  <2>4. x \in Nat /\ x + 3 = Power(2, 252)
    BY RootPower
  <2> HIDE DEF x
  <2>5. 3 \in Nat /\ 3 \in 0 .. 31 /\ 252 \in Nat
    OBVIOUS
  <2>6. Number(3) = DigitsOf(3)
    BY <2>5, NumberDigits
  <2>7. Sum2(DigitsOf(x), DigitsOf(3)) = DigitsOf(x + 3)
    BY <2>4, <2>5, SumDigits
  <2>8. PowerOfTwo(252) = DigitsOf(Power(2, 252))
    BY <2>5, PowerDigits
  <2> QED BY <1>6, <2>3, <2>4, <2>6, <2>7, <2>8
<1>7. CASE chain = "none"
  BY <1>7
<1> QED BY <1>1, <1>5, <1>6, <1>7

\* fe_invert and fe_pow22523, for every digit width: the one ends with the
\* inverse's exponent, the other with the root's.
THEOREM PowersAreExact == PowerSpec => []PowersExact
<1>1. PowerInit => PowersInv
  BY PowersStart DEF PowerInit
<1>2. PowersInv /\ [PowerNext]_powerVars => PowersInv'
  BY PowersStays
<1> QED BY <1>1, <1>2, PowersInvExact, PTL DEF PowerSpec

\* fe.c, for every layout of limbs with room for its carries: no limb outgrows its
\* bound, and what fe_tobytes writes is the representative below the prime.
THEOREM FieldIsBounded == FieldFits => (FieldSpec => [](LimbsBounded /\ CanonicalBytes))
<1> SUFFICES ASSUME FieldFits PROVE FieldSpec => [](LimbsBounded /\ CanonicalBytes)
  OBVIOUS
<1>1. FieldInit => FieldBounded
  BY FieldBoundedStart
<1>2. FieldBounded /\ [FieldNext]_fieldVars => FieldBounded'
  BY FieldBoundedStays
<1>3. FieldBounded => LimbsBounded /\ CanonicalBytes
  BY FieldBoundedSafe, FieldBoundedCanonical
<1> QED BY <1>1, <1>2, <1>3, PTL DEF FieldSpec

\* All of it, whichever layer of the library is called.
THEOREM LibraryFieldSound == FieldFits => (LibrarySpec => []FieldSound)
<1> SUFFICES ASSUME FieldFits PROVE LibrarySpec => []FieldSound
  OBVIOUS
<1>1. LibraryInit => FieldBounded /\ PowersInv
  <2>1. FieldInit \/ FieldIdle => FieldBounded
    BY FieldBoundedStart, FieldBoundedIdle
  <2>2. PowerInit \/ PowerIdle => PowersInv
    BY PowersStart DEF PowerInit, PowerIdle
  <2> QED BY <2>1, <2>2 DEF LibraryInit
<1>2. [LibraryNext]_libraryVars => [FieldNext]_fieldVars /\ [PowerNext]_powerVars
  BY DEF LibraryNext, libraryVars
<1>3. FieldBounded /\ [FieldNext]_fieldVars => FieldBounded'
  BY FieldBoundedStays
<1>4. PowersInv /\ [PowerNext]_powerVars => PowersInv'
  BY PowersStays
<1>5. FieldBounded /\ PowersInv => FieldSound
  BY FieldBoundedSafe, FieldBoundedCanonical, PowersInvExact DEF FieldSound
<1> QED BY <1>1, <1>2, <1>3, <1>4, <1>5, PTL DEF LibrarySpec

-----------------------------------------------------------------------------
(* The widths of fe.c.                                                       *)

\* The widths and bounds of fe.c: "1.1*2^25" and "1.1*2^24".
FieldAsInTheCode ==
  /\ Limbs = 10 /\ EvenBits = 26 /\ FoldBy = 19 /\ ByteWidth = 8 /\ Coefficient = 121666
  /\ EvenBound = 36909875 /\ OddBound = 18454937

\* The numbers of the code.
LEMMA CodeFieldSizes ==
  ASSUME FieldAsInTheCode
  PROVE  /\ NarrowBase = 33554432 /\ Power(2, OddBits - 1) = 16777216
         /\ MostOnes \in Nat /\ MostOnes <= 2
         /\ EvenMost \in Nat /\ EvenMost <= 110729627 /\ OddMost \in Nat /\ OddMost <= 55364813
         /\ EvenMost = 110729625 + MostOnes /\ OddMost = 55364811 + MostOnes
<1>1. OddBits = 25 /\ OddBits - 1 = 24
  BY FieldAssumption, SMT DEF FieldAsInTheCode
<1>2. 2 \in Nat /\ 24 \in Nat /\ 20 \in Nat /\ 24 + 1 = 25 /\ 2 \in Nat \ {0}
  OBVIOUS
<1>3. Power(2, 20) = 1048576 /\ Power(2, 25) = 33554432
  BY SmallPowers
<1>4. Power(2, 24) = 16777216
  <2>1. Power(2, 24 + 1) = Power(2, 24) * 2 /\ Power(2, 24) \in Nat
    BY <1>2, PowerSteps
  <2> DEFINE p == Power(2, 24)
  <2>2. p \in Nat /\ p * 2 = 33554432
    BY <1>2, <1>3, <2>1, SMT
  <2> HIDE DEF p
  <2>3. p = 16777216
    BY <2>2, SMT
  <2> QED BY <2>3 DEF p
<1>5. MostOnes \in Nat /\ MostOnes <= 2
  BY DEF MostOnes
<1>6. EvenBound = 36909875 /\ OddBound = 18454937
  BY DEF FieldAsInTheCode
<1>7. EvenMost = 110729625 + MostOnes /\ OddMost = 55364811 + MostOnes
  BY <1>5, <1>6, SMT DEF EvenMost, OddMost
<1>8. EvenMost \in Nat /\ EvenMost <= 110729627 /\ OddMost \in Nat /\ OddMost <= 55364813
  BY <1>5, <1>7, SMT
<1> QED BY <1>1, <1>3, <1>4, <1>5, <1>7, <1>8, SMT DEF NarrowBase

\* What so many times a limb's size carries.
LEMMA MostCarriedOf ==
  ASSUME NEW X \in Nat, NEW k \in Nat, X <= NarrowBase * k
  PROVE  MostCarried(X) \in Nat /\ MostCarried(X) <= k + 1
<1> DEFINE r == NarrowBase
<1>1. r \in Nat \ {0} /\ MostCarried(X) = X \div r + 1 /\ MostCarried(X) \in Nat
  BY FieldHalves, CarriedTyped DEF MostCarried
<1> HIDE DEF r
<1> DEFINE q == X \div r
<1>2. q \in Nat /\ X = r * q + (X % r) /\ X % r \in 0 .. r - 1
  BY <1>1
<1>3. X <= r * k
  BY DEF r
<1> HIDE DEF q
<1>4. q <= k
  <2> SUFFICES ASSUME k + 1 <= q PROVE FALSE
    BY <1>2
  <2>1. r * (k + 1) <= r * q
    BY <1>1, <1>2
  <2>2. r * (k + 1) = r * k + r
    BY <1>1
  <2> DEFINE u == r * k
             v == r * q
             w == X % r
  <2>3. u \in Nat /\ v \in Nat /\ w \in Nat /\ X = v + w /\ X <= u
    BY <1>1, <1>2, <1>3
  <2>5. u + r <= v
    BY <2>1, <2>2
  <2> HIDE DEF u, v, w
  <2>4. u + r <= v /\ v <= X /\ X <= u
    BY <2>3, <2>5
  <2> QED BY <1>1, <2>3, <2>4
<1> QED BY <1>1, <1>2, <1>4 DEF q

\* The columns of a product, with the widths of the code: 380 * 2^54 at most,
\* doubled as in fe_sq2.
LEMMA CodeProducts ==
  ASSUME FieldAsInTheCode
  PROVE  /\ ProductMost \in Nat /\ 2 * ProductMost <= 380 * Power(2, 54)
         /\ Power(2, 54) \in Nat \ {0} /\ Power(2, 54) = 33554432 * 536870912
<1> DEFINE Em == EvenMost
           p == Power(2, 54)
           q == 134217728
<1>1. Em \in Nat /\ Em <= q
  BY CodeFieldSizes, SMT
<1>2. Power(2, 25) = 33554432 /\ Power(2, 29) = 536870912
  BY SmallPowers
<1>3. 2 \in Nat /\ 25 \in Nat /\ 29 \in Nat /\ 25 + 29 = 54 /\ 2 \in Nat \ {0} /\ 54 \in Nat
  OBVIOUS
<1>4. Power(2, 54) = 33554432 * 536870912
  <2>1. Power(2, 25 + 29) = Power(2, 25) * Power(2, 29)
    BY <1>3, PowerOfSum
  <2> QED BY <1>2, <1>3, <2>1, SMT
<1>5. p = q * q
  BY <1>4, SMT
<1>6. q \in Nat
  BY SMT
<1>7. Limbs = 10 /\ FoldBy = 19
  BY DEF FieldAsInTheCode
<1>8. Power(2, 54) \in Nat \ {0}
  BY <1>3, PowerPositive
<1> HIDE DEF Em, q, p
<1>9. Em * Em <= q * q /\ Em * Em \in Nat
  <2>1. Em * Em <= Em * q
    BY <1>1, <1>6
  <2>2. Em * q <= q * q
    BY <1>1, <1>6
  <2>3. Em * Em \in Nat /\ Em * q \in Nat /\ q * q \in Nat
    BY <1>1, <1>6
  <2> QED BY <2>1, <2>2, <2>3
<1>10. ProductMost = 10 * (19 * (Em * Em))
  BY <1>7 DEF ProductMost, Em
<1> DEFINE S == Em * Em
<1>11. S \in Nat /\ S <= p /\ ProductMost = 10 * (19 * S) /\ p \in Nat
  BY <1>5, <1>8, <1>9, <1>10 DEF p
<1> HIDE DEF S
<1>12. ProductMost \in Nat /\ 2 * ProductMost <= 380 * p
  BY <1>11
<1> QED BY <1>4, <1>8, <1>12 DEF p

\* The widths of fe.c leave the room the proofs ask for.
THEOREM CodeFieldFits == FieldAsInTheCode => FieldFits
<1> SUFFICES ASSUME FieldAsInTheCode PROVE FieldFits
  OBVIOUS
<1>1. /\ Limbs = 10 /\ FoldBy = 19 /\ EvenBits = 26 /\ ByteWidth = 8 /\ Coefficient = 121666
      /\ EvenBound = 36909875 /\ OddBound = 18454937
  BY DEF FieldAsInTheCode
<1>2. /\ NarrowBase = 33554432 /\ Power(2, OddBits - 1) = 16777216
      /\ MostOnes \in Nat /\ MostOnes <= 2
      /\ EvenMost \in Nat /\ EvenMost <= 110729627 /\ OddMost \in Nat /\ OddMost <= 55364813
      /\ EvenMost = 110729625 + MostOnes /\ OddMost = 55364811 + MostOnes
  BY CodeFieldSizes
<1>3. 4 * ((Limbs + 2) * FoldBy) <= NarrowBase
  <2>1. (10 + 2) * 19 = 228
    OBVIOUS
  <2> QED BY <1>1, <1>2, <2>1, SMT
<1>4. OddMost <= EvenMost /\ 2 * (OddMost * OddMost) <= EvenMost * EvenMost
  <2> DEFINE a == OddMost
             b == EvenMost
             x == a * a
             y == b * b
  <2>1. a \in Nat /\ b \in Nat /\ a <= b /\ 3 * a <= 2 * b
    BY <1>2, SMT
  <2> HIDE DEF a, b
  <2>2. (3 * a) * (3 * a) <= (2 * b) * (2 * b)
    <3> DEFINE u == 3 * a
               v == 2 * b
    <3>1. u \in Nat /\ v \in Nat /\ u <= v
      BY <2>1
    <3> HIDE DEF u, v
    <3>2. u * u <= u * v /\ u * v <= v * v /\ u * u \in Nat /\ u * v \in Nat /\ v * v \in Nat
      BY <3>1
    <3>3. u * u <= v * v
      BY <3>2
    <3> QED BY <3>3 DEF u, v
  <2>3. (3 * a) * (3 * a) = 9 * (a * a) /\ (2 * b) * (2 * b) = 4 * (b * b)
    BY <2>1
  <2>4. x \in Nat /\ y \in Nat /\ 9 * x <= 4 * y
    BY <2>1, <2>2, <2>3
  <2> HIDE DEF x, y
  <2>5. 2 * x <= y
    BY <2>4
  <2> QED BY <2>1, <2>5 DEF x, y, a, b
<1>5. ASSUME NEW c \in Nat, c <= 1677721 PROVE Settles(c)
  BY <1>1, <1>2, <1>5, SMT DEF Settles
<1>6. Settles(SmallCarry(2 * ProductMost))
  <2> DEFINE r == NarrowBase
             X == 4 * ProductMost
             A == 2 * ProductMost
             j == 536870912
             k == 760 * j
             C == MostCarried(X)
             Z == NarrowBase + FoldBy * C
  <2>1. /\ ProductMost \in Nat /\ 2 * ProductMost <= 380 * Power(2, 54)
        /\ Power(2, 54) \in Nat /\ Power(2, 54) = r * j
    BY <1>2, CodeProducts, SMT
  <2>2. j \in Nat /\ r \in Nat /\ k \in Nat
    BY <1>2, SMT
  <2>3. X \in Nat /\ X <= r * k /\ 2 * A = X /\ A \in Nat
    <3> DEFINE p == ProductMost
               w == r * j
    <3>1. p \in Nat /\ w \in Nat /\ 2 * p <= 380 * w
      BY <2>1
    <3>2. r * (760 * j) = 760 * w
      <4> HIDE DEF r, j
      <4> QED BY <2>2
    <3> HIDE DEF p, w
    <3>3. 4 * p <= 760 * w /\ 4 * p \in Nat /\ 2 * (2 * p) = 4 * p /\ 2 * p \in Nat
      BY <3>1
    <3> QED BY <3>2, <3>3 DEF p
  <2>4. C \in Nat /\ C <= k + 1
    <3> HIDE DEF X, k
    <3> QED BY <2>2, <2>3, MostCarriedOf
  <2>5. k + 1 = 408021893121
    BY SMT
  <2>6. Z \in Nat /\ Z <= 33554432 * 300000
    <3> HIDE DEF C
    <3> QED BY <1>1, <1>2, <2>4, <2>5, SMT DEF Z
  <2>7. MostCarried(Z) \in Nat /\ MostCarried(Z) <= 300000 + 1
    <3> HIDE DEF Z
    <3>1. Z <= NarrowBase * 300000 /\ 300000 \in Nat
      BY <1>2, <2>6, SMT
    <3> QED BY <2>6, <3>1, MostCarriedOf, SMT
  <2>8. SmallCarry(A) = MostCarried(Z)
    <3> HIDE DEF A, X
    <3> QED BY <2>3 DEF SmallCarry, Z, C
  <2>9. SmallCarry(A) \in Nat /\ SmallCarry(A) <= 1677721
    <3> HIDE DEF A, Z
    <3> QED BY <2>7, <2>8, SMT
  <2> HIDE DEF A
  <2>10. Settles(SmallCarry(A))
    BY <1>5, <2>9
  <2> QED BY <2>10 DEF A
<1>7. Settles(MostCarried(2 * ConstantMost))
  <2> DEFINE X == 2 * ConstantMost
  <2>1. ConstantMost = 33554432 + 121666 * EvenMost
    BY <1>1, <1>2, SMT DEF ConstantMost
  <2>2. X \in Nat /\ X <= NarrowBase * 973330
    BY <1>2, <2>1, SMT
  <2> HIDE DEF X
  <2>3. MostCarried(X) \in Nat /\ MostCarried(X) <= 973330 + 1
    <3>1. 973330 \in Nat
      BY SMT
    <3> QED BY <2>2, <3>1, MostCarriedOf, SMT
  <2>4. MostCarried(X) <= 1677721
    BY <2>3, SMT
  <2>5. Settles(MostCarried(X))
    BY <1>5, <2>3, <2>4, SMT
  <2> QED BY <2>5 DEF X
<1>8. Settles(MostCarried(2 * LoadedMost))
  <2> DEFINE X == 2 * LoadedMost
             e == EvenBits + (ByteWidth - 1)
  <2>1. e \in Nat /\ e <= 33
    BY <1>1
  <2>2. Power(2, 33) = 33554432 * 256
    <3>1. 2 \in Nat /\ 25 \in Nat /\ 5 \in Nat /\ 3 \in Nat /\ 8 \in Nat /\ 25 + 8 = 33 /\ 5 + 3 = 8
          /\ 0 \in Nat /\ 1 \in Nat /\ 1 + 1 = 2 /\ 2 + 1 = 3
      OBVIOUS
    <3>2. Power(2, 1 + 1) = Power(2, 1) * 2 /\ Power(2, 2 + 1) = Power(2, 2) * 2
      BY <3>1, PowerSteps
    <3>3. Power(2, 5 + 3) = Power(2, 5) * Power(2, 3)
      BY <3>1, PowerOfSum
    <3>4. Power(2, 25 + 8) = Power(2, 25) * Power(2, 8)
      BY <3>1, PowerOfSum
    <3>5. Power(2, 8) = 256
      BY <3>1, <3>2, <3>3, TinyPowers
    <3>6. Power(2, 25) = 33554432
      BY SmallPowers
    <3> QED BY <3>1, <3>4, <3>5, <3>6, SMT
  <2>3. Power(2, e) \in Nat /\ Power(2, e) <= Power(2, 33)
    <3>1. 2 \in Nat \ {0} /\ 33 \in Nat
      OBVIOUS
    <3> HIDE DEF e
    <3> QED BY <2>1, <3>1, PowerGrows, PowerPositive
  <2>4. X \in Nat /\ X <= NarrowBase * 512
    <3> HIDE DEF e
    <3>1. X = 2 * Power(2, e)
      BY DEF LoadedMost, e
    <3> HIDE DEF X
    <3> QED BY <1>2, <2>2, <2>3, <3>1, SMT
  <2> HIDE DEF X
  <2>5. MostCarried(X) \in Nat /\ MostCarried(X) <= 512 + 1
    <3>1. 512 \in Nat
      OBVIOUS
    <3> QED BY <2>4, <3>1, MostCarriedOf
  <2>6. MostCarried(X) <= 1677721
    BY <2>5, SMT
  <2>7. Settles(MostCarried(X))
    BY <1>5, <2>5, <2>6, SMT
  <2> QED BY <2>7 DEF X
<1>9. 2 * EvenBound + MostOnes <= 4 * NarrowBase /\ 2 * OddBound + MostOnes <= 2 * NarrowBase
  BY <1>1, <1>2, SMT
<1> QED BY <1>3, <1>4, <1>6, <1>7, <1>8, <1>9, Zenon DEF FieldFits

\* The types of fe.c: limbs, and limbs times 19, 38 or 2, are int32_t; the columns of
\* a product, doubled in fe_sq2, are int64_t.
FitsInt32(x) == x \in -Power(2, 31) .. Power(2, 31) - 1

\* Every operand of a product and every column.
TypesHold ==
  /\ \A r \in Reg, i \in Limb :
       /\ FitsInt32(reg[r][i]) /\ FitsInt32(2 * reg[r][i]) /\ FitsInt32(FoldBy * reg[r][i])
       /\ i % 2 = 1 => FitsInt32((2 * FoldBy) * reg[r][i])
  /\ \A f, g \in Reg, k \in Limb :
       FitsInt64(Products(reg[f], reg[g])[k]) /\ FitsInt64(2 * Squares(reg[f])[k])

\* The ends of the types.
LEMMA Powers31And63 ==
  Power(2, 31) = 2147483648 /\ Power(2, 63) = 512 * Power(2, 54) /\ Power(2, 54) \in Nat \ {0}
<1>1. 2 \in Nat \ {0} /\ 2 \in Nat /\ 29 \in Nat /\ 54 \in Nat /\ 9 \in Nat /\ 4 \in Nat /\ 5 \in Nat
      /\ 1 \in Nat /\ 3 \in Nat /\ 29 + 2 = 31 /\ 54 + 9 = 63 /\ 5 + 4 = 9 /\ 1 + 1 = 2 /\ 2 + 1 = 3 /\ 3 + 1 = 4
  OBVIOUS
<1>2. Power(2, 1 + 1) = Power(2, 1) * 2 /\ Power(2, 2 + 1) = Power(2, 2) * 2 /\ Power(2, 3 + 1) = Power(2, 3) * 2
  BY <1>1, PowerSteps
<1>3. Power(2, 2) = 4 /\ Power(2, 4) = 16
  BY <1>1, <1>2, TinyPowers
<1>4. Power(2, 5 + 4) = Power(2, 5) * Power(2, 4)
  BY <1>1, PowerOfSum
<1>5. Power(2, 9) = 512
  BY <1>1, <1>3, <1>4, TinyPowers
<1>6. Power(2, 29 + 2) = Power(2, 29) * Power(2, 2)
  BY <1>1, PowerOfSum
<1>7. Power(2, 54 + 9) = Power(2, 54) * Power(2, 9)
  BY <1>1, PowerOfSum
<1>8. Power(2, 54) \in Nat \ {0}
  BY <1>1, PowerPositive
<1>9. Power(2, 29) = 536870912
  BY SmallPowers
<1>10. Power(2, 31) = 2147483648
  BY <1>1, <1>3, <1>6, <1>9, SMT
<1> DEFINE p == Power(2, 54)
<1>11. p \in Nat \ {0} /\ Power(2, 63) = p * 512
  BY <1>1, <1>5, <1>7, <1>8
<1> HIDE DEF p
<1>12. p * 512 = 512 * p
  BY <1>11
<1> QED BY <1>8, <1>10, <1>11, <1>12 DEF p

\* The limbs within their bounds are within these types.
LEMMA CodeTypesHold ==
  ASSUME FieldAsInTheCode, FieldBounded
  PROVE  TypesHold
<1>1. FieldFits
  BY CodeFieldFits
<1>4. /\ \A r \in Reg : ones[r] \in 0 .. MostOnes
      /\ \A r \in Reg : terms[r] \in 0 .. 3 /\ Fits(reg[r], terms[r], ones[r]) /\ reg[r] \in Vector
  BY DEF FieldBounded, Fits
<1>5. /\ EvenMost \in Nat /\ EvenMost <= 110729627 /\ OddMost \in Nat /\ OddMost <= 55364813
      /\ FoldBy = 19 /\ Power(2, 31) = 2147483648
  BY CodeFieldSizes, Powers31And63, SMT DEF FieldAsInTheCode
<1>6. ASSUME NEW r \in Reg, NEW i \in Limb
      PROVE  /\ FitsInt32(reg[r][i]) /\ FitsInt32(2 * reg[r][i]) /\ FitsInt32(FoldBy * reg[r][i])
             /\ i % 2 = 1 => FitsInt32((2 * FoldBy) * reg[r][i])
  <2> DEFINE x == reg[r][i]
  <2>1. x \in -LimbMost(i) .. LimbMost(i) /\ LimbMost(i) \in Nat
    BY <1>4, FitsMost
  <2>2. LimbMost(i) = IF i % 2 = 0 THEN EvenMost ELSE OddMost
    BY DEF LimbMost
  <2> HIDE DEF x
  <2>3. x \in Int /\ -110729627 <= x /\ x <= 110729627
    BY <1>5, <2>1, <2>2, SMT
  <2>4. FitsInt32(x) /\ FitsInt32(2 * x) /\ FitsInt32(FoldBy * x)
    BY <1>5, <2>3, SMT DEF FitsInt32
  <2>5. ASSUME i % 2 = 1 PROVE FitsInt32((2 * FoldBy) * x)
    <3>1. -55364813 <= x /\ x <= 55364813
      BY <1>5, <2>1, <2>2, <2>5, SMT
    <3>2. (2 * FoldBy) * x = 38 * x
      BY <1>5, <2>3, SMT
    <3> QED BY <1>5, <2>3, <3>1, <3>2, SMT DEF FitsInt32
  <2> QED BY <2>4, <2>5 DEF x
<1>7. ASSUME NEW f \in Reg, NEW g \in Reg, NEW k \in Limb
      PROVE  FitsInt64(Products(reg[f], reg[g])[k]) /\ FitsInt64(2 * Squares(reg[f])[k])
  <2> DEFINE p == Power(2, 54)
             P == ProductMost
             x == Products(reg[f], reg[g])[k]
             y == Products(reg[f], reg[f])[k]
  <2>1. P \in Nat /\ 2 * P <= 380 * p /\ p \in Nat \ {0} /\ Power(2, 63) = 512 * p
    BY CodeProducts, Powers31And63
  <2>2. x \in -P .. P /\ y \in -P .. P
    BY <1>1, <1>4, ColumnWithin
  <2>3. Squares(reg[f])[k] = y
    BY <1>4, SquaresAreProducts
  <2> HIDE DEF p, P, x, y
  <2>4. x \in -(512 * p) .. 512 * p - 1 /\ 2 * y \in -(512 * p) .. 512 * p - 1
    BY <2>1, <2>2
  <2> QED BY <2>1, <2>3, <2>4 DEF FitsInt64, x
<1> QED BY <1>6, <1>7 DEF TypesHold

\* fe.c with its own widths, whichever layer of the library is called: the field is
\* sound, and no integer of a sum or of a product leaves its type, so that the
\* integers of the model are those of the code.
THEOREM CodeFieldSound == FieldAsInTheCode => (LibrarySpec => [](FieldSound /\ TypesHold))
<1> SUFFICES ASSUME FieldAsInTheCode PROVE LibrarySpec => [](FieldSound /\ TypesHold)
  OBVIOUS
<1>1. FieldFits
  BY CodeFieldFits
<1>2. LibrarySpec => []FieldSound
  BY <1>1, LibraryFieldSound
<1>3. LibraryInit => FieldBounded
  BY <1>1, FieldBoundedStart, FieldBoundedIdle DEF LibraryInit
<1>4. [LibraryNext]_libraryVars => [FieldNext]_fieldVars
  BY DEF LibraryNext, libraryVars
<1>5. FieldBounded /\ [FieldNext]_fieldVars => FieldBounded'
  BY <1>1, FieldBoundedStays
<1>6. FieldBounded => TypesHold
  BY CodeTypesHold
<1> QED BY <1>2, <1>3, <1>4, <1>5, <1>6, PTL DEF LibrarySpec
=============================================================================
