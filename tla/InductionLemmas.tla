-------------------------- MODULE InductionLemmas --------------------------
(***************************************************************************)
(* Induction over the natural numbers, stated about the set of numbers for *)
(* which a fact holds: the provers can instantiate a set where they cannot *)
(* instantiate the predicate of the library's induction theorems.  Then    *)
(* what the operators of Numerals compute (powers, numerals and sums), and *)
(* what is kept modulo a number.                                           *)
(***************************************************************************)
EXTENDS Numerals, FiniteSets, FiniteSetTheorems, SequencesExt, SequenceTheorems,
        WellFoundedInduction, TLAPS

\* An array of n places is a sequence of that length.
LEMMA SeqOfFunction ==
  ASSUME NEW Elem, NEW n \in Nat, NEW f \in [1 .. n -> Elem]
  PROVE  f \in Seq(Elem) /\ Len(f) = n
<1>1. f \in Seq(Elem)
  BY SeqDef
<1> QED BY <1>1, LenProperties

\* Every inhabited set of naturals has a least element.
LEMMA LeastElement ==
  ASSUME NEW T \in SUBSET Nat, T # {}
  PROVE  \E x \in T : \A y \in T : x <= y
<1> DEFINE Less == {pair \in Nat \X Nat : pair[1] < pair[2]}
<1>1. IsWellFoundedOn(Less, Nat)
  BY NatLessThanWellFounded DEF OpToRel
<1>2. \A x, y \in Nat : <<y, x>> \in Less <=> y < x
  OBVIOUS
<1> HIDE DEF Less
<1>3. PICK x \in T : \A y \in T : ~(<<y, x>> \in Less)
  BY <1>1, WFMin
<1>4. x \in Nat /\ \A y \in T : y \in Nat /\ ~(y < x)
  BY <1>2, <1>3
<1>5. \A y \in T : x <= y
  BY <1>4
<1> QED BY <1>5

\* A set that holds a number and with every number its successor holds all
\* numbers from there on.
LEMMA Upwards ==
  ASSUME NEW S, NEW b \in Nat, b \in S,
         \A n \in Nat : n >= b /\ n \in S => n + 1 \in S
  PROVE  \A n \in Nat : n >= b => n \in S
<1> DEFINE T == {n \in Nat : n >= b /\ n \notin S}
<1> SUFFICES ASSUME T # {} PROVE FALSE
  OBVIOUS
<1>1. PICK x \in T : \A y \in T : x <= y
  BY LeastElement
<1>2. x # b /\ x - 1 \in Nat /\ x - 1 >= b /\ x - 1 \in S
  BY <1>1
<1> QED BY <1>1, <1>2

\* The same from zero.
LEMMA FromZero ==
  ASSUME NEW S, 0 \in S, \A n \in Nat : n \in S => n + 1 \in S
  PROVE  \A n \in Nat : n \in S
<1>1. 0 \in Nat
  OBVIOUS
<1>2. \A n \in Nat : n >= 0 => n \in S
  BY <1>1, Upwards
<1> QED BY <1>2

Stepwise(f, D, n, base, step) ==
  /\ f \in [0 .. n -> D] /\ f[0] = base
  /\ \A i \in 1 .. n : f[i] = step[i][f[i - 1]]

\* A function defined step by step from its value at 0 exists: what a recursive
\* definition over an interval needs for its equation to hold.
LEMMA StepwiseFunction ==
  ASSUME NEW D, NEW base \in D, NEW n \in Nat, NEW step \in [1 .. n -> [D -> D]]
  PROVE  \E f : Stepwise(f, D, n, base, step)
<1> DEFINE Steps(f, m) == f[0] = base /\ \A i \in 1 .. m : f[i] = step[i][f[i - 1]]
           S == {m \in Nat : m <= n => \E f \in [0 .. m -> D] : Steps(f, m)}
<1>1. 0 \in S
  <2> DEFINE f == [i \in 0 .. 0 |-> base]
  <2>1. f \in [0 .. 0 -> D] /\ Steps(f, 0)
    OBVIOUS
  <2> HIDE DEF f, Steps
  <2> QED BY <2>1
<1>2. ASSUME NEW m \in Nat, m \in S
      PROVE  m + 1 \in S
  <2> SUFFICES ASSUME m + 1 <= n
               PROVE  \E f \in [0 .. m + 1 -> D] : Steps(f, m + 1)
    OBVIOUS
  <2>1. PICK f \in [0 .. m -> D] : Steps(f, m)
    BY <1>2
  <2> DEFINE g == [i \in 0 .. m + 1 |-> IF i = m + 1 THEN step[m + 1][f[m]] ELSE f[i]]
  <2>2. step[m + 1] \in [D -> D] /\ f[m] \in D
    OBVIOUS
  <2>3. g \in [0 .. m + 1 -> D]
    BY <2>2
  <2>4. Steps(g, m + 1)
    <3>1. g[0] = base
      BY <2>1
    <3>2. ASSUME NEW i \in 1 .. m + 1
          PROVE  g[i] = step[i][g[i - 1]]
      <4>1. CASE i = m + 1
        BY <4>1
      <4>2. CASE i # m + 1
        <5>1. i \in 1 .. m /\ i - 1 \in 0 .. m
          BY <4>2
        <5> QED BY <2>1, <4>2, <5>1
      <4> QED BY <4>1, <4>2
    <3> QED BY <3>1, <3>2
  <2> HIDE DEF g, Steps
  <2> QED BY <2>3, <2>4
<1>3. n \in S
  <2> HIDE DEF S
  <2>1. \A m \in Nat : m \in S
    BY <1>1, <1>2, FromZero
  <2> QED BY <2>1
<1>4. \E f \in [0 .. n -> D] : Steps(f, n)
  BY <1>3
<1> QED BY <1>4 DEF Stepwise

\* The same for numbers: Horner's scheme over the values g, from a.
Linear(f, n, a, b, g) ==
  /\ f \in [0 .. n -> Nat] /\ f[0] = a
  /\ \A i \in 1 .. n : f[i] = f[i - 1] * b + g[i]

LEMMA LinearRecursion ==
  ASSUME NEW n \in Nat, NEW a \in Nat, NEW b \in Nat, NEW g \in [1 .. n -> Nat]
  PROVE  \E f : Linear(f, n, a, b, g)
<1> DEFINE step == [i \in 1 .. n |-> [x \in Nat |-> x * b + g[i]]]
           D == Nat
           base == a
           last == n
<1>1. step \in [1 .. n -> [D -> D]]
  OBVIOUS
<1>2. \A i \in 1 .. n, x \in Nat : step[i][x] = x * b + g[i]
  OBVIOUS
<1>3. base \in D /\ last \in Nat /\ step \in [1 .. last -> [D -> D]]
  BY <1>1
<1> HIDE DEF step, D, base, last
<1>4. PICK f : Stepwise(f, D, last, base, step)
  BY <1>3, StepwiseFunction
<1>5. ASSUME NEW i \in 1 .. n
      PROVE  f[i] = f[i - 1] * b + g[i]
  <2>1. f[i - 1] \in Nat
    BY <1>4 DEF Stepwise, D, last
  <2> QED BY <1>2, <1>4, <2>1 DEF Stepwise, last
<1> QED BY <1>4, <1>5 DEF Stepwise, Linear, D, base, last

\* Adding a multiple of the divisor changes no rest.
LEMMA RestOfMultiple ==
  ASSUME NEW p \in Nat \ {0}, NEW q \in Int, NEW r \in 0 .. p - 1
  PROVE  (p * q + r) % p = r
<1> DEFINE a == p * q + r
           b == a \div p
           c == a % p
<1>1. a \in Int /\ b \in Int /\ c \in 0 .. p - 1 /\ a = p * b + c
  <2>1. a \in Int
    BY DEF a
  <2> HIDE DEF a
  <2> QED BY <2>1
<1>2. r = p * (b - q) + c
  <2>1. p * (b - q) = p * b - p * q
    BY <1>1
  <2>2. p * q \in Int /\ p * b \in Int
    BY <1>1
  <2> QED BY <1>1, <2>1, <2>2
<1> DEFINE d == b - q
<1>3. d \in Int
  BY <1>1
<1> HIDE DEF b, c, d
<1>4. d = 0
  <2>1. ~(d >= 1)
    <3> SUFFICES ASSUME d >= 1 PROVE FALSE
      OBVIOUS
    <3>1. p * d >= p * 1
      BY <1>3
    <3> QED BY <1>1, <1>2, <1>3, <3>1 DEF d
  <2>2. ~(d <= -1)
    <3> SUFFICES ASSUME d <= -1 PROVE FALSE
      OBVIOUS
    <3>1. p * d <= p * (-1)
      BY <1>3
    <3> QED BY <1>1, <1>2, <1>3, <3>1 DEF d
  <2> QED BY <1>3, <2>1, <2>2
<1>5. c = r
  BY <1>1, <1>2, <1>4 DEF d
<1> QED BY <1>5 DEF c

LEMMA RestOfSum ==
  ASSUME NEW p \in Nat \ {0}, NEW q \in Int, NEW a \in Int
  PROVE  (a + p * q) % p = a % p
<1> DEFINE k == a \div p
           r == a % p
<1>1. k \in Int /\ r \in 0 .. p - 1 /\ a = p * k + r
  OBVIOUS
<1> HIDE DEF k, r
<1>2. a + p * q = p * (k + q) + r
  <2>1. p * (k + q) = p * k + p * q
    BY <1>1
  <2>2. p * q \in Int /\ p * k \in Int
    BY <1>1
  <2> QED BY <1>1, <2>1, <2>2
<1>3. k + q \in Int
  BY <1>1
<1> QED BY <1>1, <1>2, <1>3, RestOfMultiple DEF r

-----------------------------------------------------------------------------
(* Powers and numerals.                                                      *)

PowerTable(b, e) == CHOOSE P : P = [i \in 0 .. e |-> IF i = 0 THEN 1 ELSE P[i - 1] * b]

LEMMA PowerTabled ==
  ASSUME NEW b \in Nat, NEW e \in Nat
  PROVE  /\ PowerTable(b, e) \in [0 .. e -> Nat]
         /\ PowerTable(b, e)[0] = 1
         /\ \A i \in 1 .. e : PowerTable(b, e)[i] = PowerTable(b, e)[i - 1] * b
<1> DEFINE Table(P) == P = [i \in 0 .. e |-> IF i = 0 THEN 1 ELSE P[i - 1] * b]
           g == [i \in 1 .. e |-> 0]
           P0 == PowerTable(b, e)
<1>1. g \in [1 .. e -> Nat] /\ 1 \in Nat
  OBVIOUS
<1>2. PICK f : Linear(f, e, 1, b, g)
  <2> HIDE DEF g
  <2> QED BY <1>1, LinearRecursion
<1>3. \A i \in 1 .. e : f[i] = f[i - 1] * b
  <2> SUFFICES ASSUME NEW i \in 1 .. e PROVE f[i] = f[i - 1] * b
    OBVIOUS
  <2>1. f[i - 1] \in Nat
    BY <1>2 DEF Linear
  <2>2. f[i - 1] * b \in Nat /\ g[i] = 0
    BY <2>1
  <2> HIDE DEF g
  <2> QED BY <1>2, <2>2 DEF Linear
<1>4. Table(f)
  BY <1>2, <1>3 DEF Linear
<1>5. Table(P0)
  <2>1. P0 = CHOOSE P : Table(P)
    BY DEF PowerTable
  <2> HIDE DEF Table, P0
  <2> QED BY <1>4, <2>1
<1> HIDE DEF P0
<1>6. P0[0] = 1 /\ \A i \in 1 .. e : P0[i] = P0[i - 1] * b
  BY <1>5
<1> DEFINE S == {i \in Nat : i <= e => P0[i] \in Nat}
<1>7. 0 \in S
  BY <1>6
<1>8. ASSUME NEW i \in Nat, i \in S
      PROVE  i + 1 \in S
  <2> SUFFICES ASSUME i + 1 <= e PROVE P0[i + 1] \in Nat
    OBVIOUS
  <2>1. i + 1 \in 1 .. e /\ (i + 1) - 1 = i /\ P0[i] \in Nat
    BY <1>8
  <2> QED BY <1>6, <2>1
<1>9. \A i \in Nat : i \in S
  <2> HIDE DEF S, Table, g
  <2>1. \A i \in Nat : i >= 0 => i \in S
    BY <1>7, <1>8, Upwards
  <2> QED BY <2>1
<1>10. P0 = [i \in 0 .. e |-> P0[i]]
  BY <1>5
<1>11. P0 \in [0 .. e -> Nat]
  BY <1>9, <1>10
<1> QED BY <1>6, <1>11 DEF P0

LEMMA PowerSteps ==
  ASSUME NEW b \in Nat
  PROVE  /\ Power(b, 0) = 1
         /\ \A e \in Nat : Power(b, e) \in Nat /\ Power(b, e + 1) = Power(b, e) * b
<1>1. \A e \in Nat : Power(b, e) = PowerTable(b, e)[e]
  BY DEF Power, PowerTable
<1>2. ASSUME NEW e \in Nat
      PROVE  Power(b, e) \in Nat /\ Power(b, e + 1) = Power(b, e) * b
  <2> DEFINE P == PowerTable(b, e)
             Q == PowerTable(b, e + 1)
             S == {i \in Nat : i <= e => P[i] = Q[i]}
  <2>1. /\ P \in [0 .. e -> Nat] /\ P[0] = 1
        /\ \A i \in 1 .. e : P[i] = P[i - 1] * b
    BY PowerTabled
  <2>2. /\ Q[0] = 1
        /\ \A i \in 1 .. e + 1 : Q[i] = Q[i - 1] * b
    BY PowerTabled
  <2>3. Power(b, e) = P[e] /\ Power(b, e + 1) = Q[e + 1]
    BY <1>1
  <2> HIDE DEF P, Q
  <2>4. 0 \in S
    BY <2>1, <2>2
  <2>5. ASSUME NEW i \in Nat, i \in S
        PROVE  i + 1 \in S
    <3> SUFFICES ASSUME i + 1 <= e PROVE P[i + 1] = Q[i + 1]
      OBVIOUS
    <3>1. i + 1 \in 1 .. e /\ i + 1 \in 1 .. e + 1 /\ (i + 1) - 1 = i /\ P[i] = Q[i]
      BY <2>5
    <3> QED BY <2>1, <2>2, <3>1
  <2>6. e \in S
    <3> HIDE DEF S
    <3>1. \A i \in Nat : i \in S
      BY <2>4, <2>5, FromZero
    <3> QED BY <3>1
  <2>7. P[e] \in Nat /\ Q[e + 1] = Q[e] * b
    <3>1. e + 1 \in 1 .. e + 1 /\ (e + 1) - 1 = e /\ e \in 0 .. e
      OBVIOUS
    <3> QED BY <2>1, <2>2, <3>1
  <2> QED BY <2>3, <2>6, <2>7
<1>3. Power(b, 0) = 1
  BY <1>1, PowerTabled
<1> QED BY <1>2, <1>3

LEMMA PowerPositive ==
  ASSUME NEW b \in Nat \ {0}
  PROVE  \A e \in Nat : Power(b, e) \in Nat \ {0}
<1> DEFINE S == {e \in Nat : Power(b, e) \in Nat \ {0}}
<1>1. 0 \in S
  BY PowerSteps
<1>2. ASSUME NEW e \in Nat, e \in S
      PROVE  e + 1 \in S
  <2>1. Power(b, e + 1) = Power(b, e) * b /\ Power(b, e) \in Nat \ {0}
    BY <1>2, PowerSteps
  <2>2. \A x, y \in Nat \ {0} : x * y \in Nat \ {0}
    OBVIOUS
  <2>3. Power(b, e + 1) \in Nat \ {0}
    BY <2>1, <2>2
  <2> QED BY <2>3
<1> HIDE DEF S
<1>3. \A e \in Nat : e \in S
  BY <1>1, <1>2, FromZero
<1> QED BY <1>3 DEF S

LEMMA PowerGrows ==
  ASSUME NEW b \in Nat \ {0}, NEW d \in Nat
  PROVE  \A e \in Nat : d <= e => Power(b, d) <= Power(b, e)
<1> DEFINE S == {e \in Nat : Power(b, d) <= Power(b, e)}
<1>0. \A e \in Nat : Power(b, e) \in Nat \ {0}
  BY PowerPositive
<1>1. d \in S
  BY <1>0
<1>2. ASSUME NEW e \in Nat, e \in S
      PROVE  e + 1 \in S
  <2>1. Power(b, e + 1) = Power(b, e) * b
    BY PowerSteps
  <2>2. \A x, y \in Nat \ {0} : x <= x * y
    OBVIOUS
  <2>3. Power(b, e) <= Power(b, e + 1)
    BY <1>0, <2>1, <2>2
  <2>4. Power(b, d) \in Nat /\ Power(b, e) \in Nat /\ Power(b, e + 1) \in Nat
    BY <1>0
  <2>5. Power(b, d) <= Power(b, e)
    BY <1>2
  <2>6. Power(b, d) <= Power(b, e + 1)
    BY <2>3, <2>4, <2>5
  <2> QED BY <2>6
<1> HIDE DEF S
<1>3. \A e \in Nat : e >= d => e \in S
  BY <1>1, <1>2, Upwards
<1> QED BY <1>3 DEF S

\* The number that n digits g in base b make of the number a in front of them.
Numeral(n, a, b, g) == (CHOOSE f : Linear(f, n, a, b, g))[n]

LEMMA LinearIsOne ==
  ASSUME NEW n \in Nat, NEW a \in Nat, NEW b \in Nat, NEW g \in [1 .. n -> Nat],
         NEW e, Linear(e, n, a, b, g), NEW f, Linear(f, n, a, b, g)
  PROVE  \A i \in 0 .. n : e[i] = f[i]
<1> DEFINE S == {i \in Nat : i <= n => e[i] = f[i]}
<1>1. 0 \in S
  BY DEF Linear
<1>2. ASSUME NEW i \in Nat, i \in S
      PROVE  i + 1 \in S
  <2> SUFFICES ASSUME i + 1 <= n PROVE e[i + 1] = f[i + 1]
    OBVIOUS
  <2>1. i + 1 \in 1 .. n /\ (i + 1) - 1 = i /\ e[i] = f[i]
    BY <1>2
  <2> QED BY <2>1 DEF Linear
<1>3. \A i \in Nat : i >= 0 => i \in S
  <2> HIDE DEF S
  <2> QED BY <1>1, <1>2, Upwards
<1> QED BY <1>3

LEMMA NumeralBy ==
  ASSUME NEW n \in Nat, NEW a \in Nat, NEW b \in Nat, NEW g \in [1 .. n -> Nat],
         NEW f, Linear(f, n, a, b, g)
  PROVE  Numeral(n, a, b, g) = f[n] /\ Numeral(n, a, b, g) \in Nat
<1> DEFINE e == CHOOSE e : Linear(e, n, a, b, g)
<1>1. Linear(e, n, a, b, g)
  OBVIOUS
<1>2. Numeral(n, a, b, g) = e[n]
  BY DEF Numeral
<1> HIDE DEF e
<1>3. n \in 0 .. n
  OBVIOUS
<1>4. e[n] = f[n]
  BY <1>1, <1>3, LinearIsOne
<1>5. f[n] \in Nat
  BY <1>3 DEF Linear
<1> QED BY <1>2, <1>4, <1>5

LEMMA NumberAsNumeral ==
  ASSUME NEW b \in Nat, NEW n \in Nat, NEW s \in [1 .. n -> Nat]
  PROVE  NumberIn(b, s) = Numeral(n, 0, b, s)
<1> DEFINE Table(N) == N = [i \in 0 .. n |-> IF i = 0 THEN 0 ELSE N[i - 1] * b + s[i]]
           t == CHOOSE N : Table(N)
<1>1. Len(s) = n
  BY SeqOfFunction
<1>2. NumberIn(b, s) = t[n]
  BY <1>1 DEF NumberIn
<1>3. 0 \in Nat
  OBVIOUS
<1>4. PICK f : Linear(f, n, 0, b, s)
  BY <1>3, LinearRecursion
<1>5. Table(f)
  BY <1>4 DEF Linear
<1>6. Table(t)
  <2> HIDE DEF Table
  <2> QED BY <1>5
<1> HIDE DEF t
<1> DEFINE S == {i \in Nat : i <= n => t[i] = f[i]}
<1>7. 0 \in S
  BY <1>4, <1>6 DEF Linear
<1>8. ASSUME NEW i \in Nat, i \in S
      PROVE  i + 1 \in S
  <2> SUFFICES ASSUME i + 1 <= n PROVE t[i + 1] = f[i + 1]
    OBVIOUS
  <2>1. i + 1 \in 1 .. n /\ (i + 1) - 1 = i /\ t[i] = f[i]
    BY <1>8
  <2>2. t[i + 1] = t[i] * b + s[i + 1]
    BY <1>6, <2>1
  <2> QED BY <1>4, <2>1, <2>2 DEF Linear
<1>9. n \in S
  <2> HIDE DEF S, Table
  <2>1. \A i \in Nat : i \in S
    BY <1>7, <1>8, FromZero
  <2> QED BY <2>1
<1>10. t[n] = f[n]
  BY <1>9
<1> QED BY <1>2, <1>3, <1>4, <1>10, NumeralBy

Numbered(f, n, a, b, g) ==
  /\ n \in Nat /\ a \in Nat /\ b \in Nat /\ g \in [1 .. n -> Nat]
  /\ Linear(f, n, a, b, g)

LEMMA NumeralOf ==
  ASSUME NEW n, NEW a, NEW b, NEW g, NEW f, Numbered(f, n, a, b, g)
  PROVE  Numeral(n, a, b, g) = f[n] /\ Numeral(n, a, b, g) \in Nat
BY NumeralBy DEF Numbered

LEMMA NumeralTyped ==
  ASSUME NEW n \in Nat, NEW a \in Nat, NEW b \in Nat, NEW g \in [1 .. n -> Nat]
  PROVE  Numeral(n, a, b, g) \in Nat
<1>1. PICK f : Linear(f, n, a, b, g)
  BY LinearRecursion
<1> QED BY <1>1, NumeralBy

\* A digit more in front.
OneMore(h, n, g) ==
  /\ n \in Nat /\ g \in [1 .. n -> Nat] /\ h \in [1 .. n + 1 -> Nat]
  /\ \A i \in 1 .. n : h[i + 1] = g[i]

LEMMA NumeralFirst ==
  ASSUME NEW n, NEW a \in Nat, NEW b \in Nat, NEW g, NEW h, OneMore(h, n, g)
  PROVE  Numeral(n + 1, a, b, h) = Numeral(n, a * b + h[1], b, g)
<1> USE DEF OneMore
<1> DEFINE c == a * b + h[1]
<1>1. c \in Nat
  <2>1. h[1] \in Nat
    OBVIOUS
  <2>2. a * b \in Nat
    OBVIOUS
  <2> QED BY <2>1, <2>2
<1> HIDE DEF c
<1>2. PICK f : Linear(f, n, c, b, g)
  BY <1>1, LinearRecursion
<1> DEFINE e == [i \in 0 .. n + 1 |-> IF i = 0 THEN a ELSE f[i - 1]]
<1>3. e \in [0 .. n + 1 -> Nat] /\ e[0] = a
  BY <1>2 DEF Linear
<1>4. ASSUME NEW i \in 1 .. n + 1
      PROVE  e[i] = e[i - 1] * b + h[i]
  <2>1. CASE i = 1
    <3>1. e[1] = c /\ e[0] = a
      BY <1>2 DEF Linear
    <3> QED BY <2>1, <3>1 DEF c
  <2>2. CASE i # 1
    <3>1. i - 1 \in 1 .. n /\ (i - 1) + 1 = i
      BY <2>2
    <3>2. e[i] = f[i - 1] /\ e[i - 1] = f[(i - 1) - 1]
      BY <2>2
    <3>3. f[i - 1] = f[(i - 1) - 1] * b + g[i - 1] /\ g[i - 1] = h[i]
      BY <1>2, <3>1 DEF Linear
    <3> QED BY <3>2, <3>3
  <2> QED BY <2>1, <2>2
<1>5. e[n + 1] = f[n]
  OBVIOUS
<1>6. Linear(e, n + 1, a, b, h)
  <2> HIDE DEF e
  <2> QED BY <1>3, <1>4 DEF Linear
<1>7. Numeral(n + 1, a, b, h) = e[n + 1]
  <2> HIDE DEF e
  <2>1. n + 1 \in Nat
    OBVIOUS
  <2>2. Numbered(e, n + 1, a, b, h)
    BY <1>6, <2>1 DEF Numbered
  <2> QED BY <2>2, NumeralOf
<1>8. Numeral(n, c, b, g) = f[n]
  <2>1. Numbered(f, n, c, b, g)
    BY <1>1, <1>2 DEF Numbered
  <2> QED BY <2>1, NumeralOf
<1> QED BY <1>5, <1>7, <1>8 DEF c

\* What is in front counts b for every digit behind it, and digits below b
\* never make up for one of it.
LEMMA NumeralBounds ==
  ASSUME NEW n \in Nat, NEW a \in Nat, NEW b \in Nat \ {0}, NEW g \in [1 .. n -> 0 .. b - 1]
  PROVE  /\ a * Power(b, n) <= Numeral(n, a, b, g)
         /\ Numeral(n, a, b, g) < (a + 1) * Power(b, n)
<1>1. g \in [1 .. n -> Nat]
  OBVIOUS
<1>2. PICK f : Linear(f, n, a, b, g)
  BY <1>1, LinearRecursion
<1>3. \A i \in Nat : Power(b, i) \in Nat \ {0} /\ Power(b, i + 1) = Power(b, i) * b
  BY PowerPositive, PowerSteps
<1> DEFINE S == {i \in Nat : i <= n => /\ a * Power(b, i) <= f[i]
                                       /\ f[i] + 1 <= (a + 1) * Power(b, i)}
<1>4. 0 \in S
  <2>1. Power(b, 0) = 1 /\ f[0] = a
    BY <1>2, PowerSteps DEF Linear
  <2> QED BY <2>1
<1>5. ASSUME NEW i \in Nat, i \in S
      PROVE  i + 1 \in S
  <2> SUFFICES ASSUME i + 1 <= n
               PROVE  /\ a * Power(b, i + 1) <= f[i + 1]
                      /\ f[i + 1] + 1 <= (a + 1) * Power(b, i + 1)
    OBVIOUS
  <2>1. i + 1 \in 1 .. n /\ (i + 1) - 1 = i /\ i \in 0 .. n
    OBVIOUS
  <2>2. f[i + 1] = f[i] * b + g[i + 1]
    BY <1>2, <2>1 DEF Linear
  <2>3. f[i] \in Nat /\ g[i + 1] \in 0 .. b - 1
    BY <1>2, <2>1 DEF Linear
  <2>4. a * Power(b, i) <= f[i] /\ f[i] + 1 <= (a + 1) * Power(b, i)
    BY <1>5
  <2> DEFINE p == Power(b, i)
             x == f[i]
             y == g[i + 1]
  <2>5. p \in Nat /\ Power(b, i + 1) = p * b
    BY <1>3
  <2>6. x \in Nat /\ y \in 0 .. b - 1 /\ f[i + 1] = x * b + y
    BY <2>2, <2>3
  <2>7. a * p <= x /\ x + 1 <= (a + 1) * p
    BY <2>4
  <2> HIDE DEF p, x, y
  <2>8. \A u, v \in Nat : u <= v => u * b <= v * b
    OBVIOUS
  <2>9. (a * p) * b <= x * b /\ (x + 1) * b <= ((a + 1) * p) * b
    <3>1. a * p \in Nat /\ (a + 1) * p \in Nat /\ x + 1 \in Nat
      BY <2>5, <2>6
    <3> QED BY <2>6, <2>7, <2>8, <3>1
  <2>10. (a * p) * b = a * (p * b) /\ ((a + 1) * p) * b = (a + 1) * (p * b)
    BY <2>5
  <2>11. (x + 1) * b = x * b + b /\ x * b \in Nat
    BY <2>6
  <2>12. a * (p * b) \in Nat /\ (a + 1) * (p * b) \in Nat
    BY <2>5
  <2>13. a * (p * b) <= x * b + y /\ (x * b + y) + 1 <= (a + 1) * (p * b)
    <3> DEFINE low == a * (p * b)
               high == (a + 1) * (p * b)
               z == x * b
    <3>1. low \in Nat /\ high \in Nat /\ z \in Nat
      BY <2>11, <2>12
    <3>2. low <= z /\ z + b <= high
      BY <2>9, <2>10, <2>11
    <3> HIDE DEF low, high, z
    <3>3. low <= z + y /\ (z + y) + 1 <= high
      BY <2>6, <3>1, <3>2
    <3> QED BY <3>3 DEF low, high, z
  <2> QED BY <2>5, <2>6, <2>13
<1>6. n \in S
  <2> HIDE DEF S
  <2>1. \A i \in Nat : i >= 0 => i \in S
    BY <1>4, <1>5, Upwards
  <2> QED BY <2>1
<1>7. Numeral(n, a, b, g) = f[n] /\ f[n] \in Nat
  BY <1>1, <1>2, NumeralBy
<1>8. (a + 1) * Power(b, n) \in Nat
  <2>1. Power(b, n) \in Nat
    BY <1>3
  <2> HIDE DEF S
  <2> QED BY <2>1
<1> QED BY <1>6, <1>7, <1>8

LEMMA NumeralShift ==
  ASSUME NEW n, NEW a, NEW b, NEW g,
         NEW e, Numbered(e, n, 0, b, g), NEW f, Numbered(f, n, a, b, g)
  PROVE  f[n] = a * Power(b, n) + e[n]
<1>0. /\ n \in Nat /\ a \in Nat /\ b \in Nat /\ g \in [1 .. n -> Nat]
      /\ Linear(e, n, 0, b, g) /\ Linear(f, n, a, b, g)
  BY DEF Numbered
<1> DEFINE S == {i \in Nat : i <= n => f[i] = a * Power(b, i) + e[i]}
<1>1. 0 \in S
  BY <1>0, PowerSteps DEF Linear
<1>2. ASSUME NEW i \in Nat, i \in S
      PROVE  i + 1 \in S
  <2> SUFFICES ASSUME i + 1 <= n
               PROVE  f[i + 1] = a * Power(b, i + 1) + e[i + 1]
    OBVIOUS
  <2>1. i + 1 \in 1 .. n /\ (i + 1) - 1 = i /\ i \in 0 .. n
    BY <1>0
  <2> DEFINE p == Power(b, i)
             x == e[i]
             y == g[i + 1]
  <2>2. p \in Nat /\ Power(b, i + 1) = p * b
    BY <1>0, PowerSteps
  <2>3. x \in Nat /\ y \in Nat
    BY <1>0, <2>1 DEF Linear
  <2>4. f[i] = a * p + x
    BY <1>0, <1>2, <2>1
  <2>5. f[i + 1] = f[i] * b + y /\ e[i + 1] = x * b + y
    BY <1>0, <2>1 DEF Linear
  <2> HIDE DEF p, x, y
  <2>6. (a * p + x) * b = a * (p * b) + x * b
    BY <1>0, <2>2, <2>3
  <2>7. a * (p * b) \in Nat /\ x * b \in Nat
    BY <1>0, <2>2, <2>3
  <2>8. f[i + 1] = (a * (p * b) + x * b) + y
    BY <2>4, <2>5, <2>6
  <2> QED BY <2>2, <2>3, <2>5, <2>7, <2>8
<1>3. \A i \in Nat : i >= 0 => i \in S
  <2> HIDE DEF S
  <2> QED BY <1>1, <1>2, Upwards
<1> QED BY <1>0, <1>3

\* m groups of k digits are m digits of the base to the k.
Groups(k, m, c, l, g, G) ==
  /\ k \in Nat /\ m \in Nat /\ c \in Nat /\ l \in Nat /\ l = m * k
  /\ g \in [1 .. l -> Nat] /\ G \in [1 .. m -> Nat]
  /\ \A j \in 1 .. m : G[j] = Numeral(k, 0, c, [i \in 1 .. k |-> g[(j - 1) * k + i]])

LEMMA Grouped ==
  ASSUME NEW k, NEW m, NEW c, NEW l, NEW g, NEW G, Groups(k, m, c, l, g, G)
  PROVE  Numeral(m, 0, Power(c, k), G) = Numeral(l, 0, c, g)
<1> USE DEF Groups
<1>1. 0 \in Nat /\ Power(c, k) \in Nat
  BY PowerSteps
<1>2. PICK F : Linear(F, l, 0, c, g)
  BY <1>1, LinearRecursion
<1> DEFINE f == [j \in 0 .. m |-> F[j * k]]
<1>3. ASSUME NEW j \in 0 .. m
      PROVE  j * k \in 0 .. l
  <2>1. j * k \in Nat /\ (m - j) * k \in Nat /\ (m - j) * k = m * k - j * k
    OBVIOUS
  <2> QED BY <2>1
<1>4. f \in [0 .. m -> Nat] /\ f[0] = 0
  <2>1. 0 * k = 0 /\ F \in [0 .. l -> Nat] /\ F[0] = 0
    BY <1>2 DEF Linear
  <2>2. f \in [0 .. m -> Nat]
    BY <1>3, <2>1
  <2>3. 0 \in 0 .. m /\ f[0] = F[0 * k]
    OBVIOUS
  <2> HIDE DEF f
  <2> QED BY <2>1, <2>2, <2>3
<1>5. ASSUME NEW j \in 1 .. m
      PROVE  f[j] = f[j - 1] * Power(c, k) + G[j]
  <2> DEFINE s == (j - 1) * k
             w == [i \in 1 .. k |-> g[s + i]]
             d == [i \in 0 .. k |-> F[s + i]]
  <2>1. j - 1 \in 0 .. m /\ s \in 0 .. l /\ s + k = j * k /\ s + k \in 0 .. l
    <3>1. j - 1 \in 0 .. m /\ j \in 0 .. m
      OBVIOUS
    <3>2. (j - 1) * k = j * k - k /\ j * k \in Int
      OBVIOUS
    <3> QED BY <1>3, <3>1, <3>2
  <2>2. f[j] = F[s + k] /\ f[j - 1] = F[s]
    BY <2>1
  <2>3. G[j] = Numeral(k, 0, c, w)
    OBVIOUS
  <2> HIDE DEF s, f
  <2>4. \A i \in 1 .. k : s + i \in 1 .. l /\ (s + i) - 1 = s + (i - 1)
    BY <2>1
  <2>5. \A i \in 0 .. k : s + i \in 0 .. l
    BY <2>1
  <2>6. w \in [1 .. k -> Nat]
    BY <2>4
  <2>7. d \in [0 .. k -> Nat] /\ d[0] = F[s] /\ d[k] = F[s + k]
    <3>1. s + 0 = s
      BY <2>1
    <3> QED BY <1>2, <2>5, <3>1 DEF Linear
  <2>8. ASSUME NEW i \in 1 .. k
        PROVE  d[i] = d[i - 1] * c + w[i]
    <3>1. F[s + i] = F[(s + i) - 1] * c + g[s + i]
      BY <1>2, <2>4 DEF Linear
    <3>2. d[i] = F[s + i] /\ d[i - 1] = F[s + (i - 1)] /\ w[i] = g[s + i]
      OBVIOUS
    <3> QED BY <2>4, <3>1, <3>2
  <2> HIDE DEF w, d
  <2>9. Linear(d, k, F[s], c, w)
    BY <2>7, <2>8 DEF Linear
  <2>10. PICK e : Linear(e, k, 0, c, w)
    BY <1>1, <2>6, LinearRecursion
  <2>11. F[s] \in Nat
    BY <1>2, <2>1 DEF Linear
  <2>12. d[k] = F[s] * Power(c, k) + e[k]
    <3>1. Numbered(d, k, F[s], c, w) /\ Numbered(e, k, 0, c, w)
      BY <1>1, <2>6, <2>9, <2>10, <2>11 DEF Numbered
    <3> QED BY <3>1, NumeralShift
  <2>13. Numeral(k, 0, c, w) = e[k]
    <3>1. Numbered(e, k, 0, c, w)
      BY <1>1, <2>6, <2>10 DEF Numbered
    <3> QED BY <3>1, NumeralOf
  <2> QED BY <2>2, <2>3, <2>7, <2>12, <2>13
<1>6. f[m] = F[l]
  OBVIOUS
<1> HIDE DEF f
<1>7. Numbered(f, m, 0, Power(c, k), G)
  <2>1. Linear(f, m, 0, Power(c, k), G)
    BY <1>4, <1>5 DEF Linear
  <2> QED BY <1>1, <2>1 DEF Numbered
<1>8. Numbered(F, l, 0, c, g)
  BY <1>1, <1>2 DEF Numbered
<1> QED BY <1>6, <1>7, <1>8, NumeralOf
-----------------------------------------------------------------------------
(* Sums.                                                                     *)

Ints(f, n) == n \in Nat /\ \A i \in 0 .. n - 1 : f[i] \in Int


\* The table behind SumTo.
SumTable(n, f) == CHOOSE S : S = [i \in 0 .. n |-> IF i = 0 THEN 0 ELSE S[i - 1] + f[i - 1]]

LEMMA SumTabled ==
  ASSUME NEW n, NEW f, Ints(f, n)
  PROVE  /\ SumTable(n, f)[0] = 0
         /\ \A i \in 0 .. n : SumTable(n, f)[i] \in Int
         /\ \A i \in 1 .. n : SumTable(n, f)[i] = SumTable(n, f)[i - 1] + f[i - 1]
<1> DEFINE step == [i \in 1 .. n |-> [x \in Int |-> x + f[i - 1]]]
           D == Int
           zero == 0
           Table(T) == T = [i \in 0 .. n |-> IF i = 0 THEN 0 ELSE T[i - 1] + f[i - 1]]
           T0 == SumTable(n, f)
<1>0. n \in Nat /\ \A i \in 1 .. n : f[i - 1] \in Int
  BY DEF Ints
<1>1. step \in [1 .. n -> [D -> D]] /\ zero \in D
  BY <1>0
<1>2. \A i \in 1 .. n, x \in Int : step[i][x] = x + f[i - 1]
  OBVIOUS
<1> HIDE DEF step, D, zero
<1>3. PICK T : Stepwise(T, D, n, zero, step)
  BY <1>0, <1>1, StepwiseFunction
<1>4. /\ T \in [0 .. n -> Int] /\ T[0] = 0
      /\ \A i \in 1 .. n : T[i] = T[i - 1] + f[i - 1]
  <2>1. T \in [0 .. n -> Int] /\ T[0] = 0
    BY <1>3 DEF Stepwise, D, zero
  <2>2. ASSUME NEW i \in 1 .. n
        PROVE  T[i] = T[i - 1] + f[i - 1]
    <3>1. T[i - 1] \in Int
      BY <2>1, <1>0
    <3> QED BY <1>2, <1>3, <3>1 DEF Stepwise
  <2> QED BY <2>1, <2>2
<1>5. Table(T)
  BY <1>0, <1>4
<1>6. Table(T0)
  <2>1. T0 = CHOOSE S : Table(S)
    BY DEF SumTable
  <2> HIDE DEF Table, T0
  <2> QED BY <1>5, <2>1
<1> HIDE DEF T0
<1>7. T0[0] = 0 /\ \A i \in 1 .. n : T0[i] = T0[i - 1] + f[i - 1]
  BY <1>0, <1>6
<1> DEFINE Q == {i \in Nat : i <= n => T0[i] \in Int}
<1>8. 0 \in Q
  BY <1>7
<1>9. ASSUME NEW i \in Nat, i \in Q
      PROVE  i + 1 \in Q
  <2> SUFFICES ASSUME i + 1 <= n PROVE T0[i + 1] \in Int
    OBVIOUS
  <2>1. i + 1 \in 1 .. n /\ (i + 1) - 1 = i /\ T0[i] \in Int
    BY <1>0, <1>9
  <2>2. f[i] \in Int /\ T0[i + 1] = T0[i] + f[i]
    BY <1>0, <1>7, <2>1
  <2> QED BY <2>1, <2>2
<1>10. \A i \in Nat : i \in Q
  <2> HIDE DEF Q, Table
  <2> QED BY <1>8, <1>9, FromZero
<1>11. \A i \in 0 .. n : T0[i] \in Int
  BY <1>0, <1>10
<1> QED BY <1>7, <1>11 DEF T0

\* What SumTo computes, one term at a time.
LEMMA SumSteps ==
  ASSUME NEW n, NEW f, Ints(f, n)
  PROVE  /\ SumTo(0, f) = 0
         /\ \A m \in 0 .. n : SumTo(m, f) \in Int
         /\ \A m \in 0 .. n - 1 : SumTo(m + 1, f) = SumTo(m, f) + f[m]
<1>0. n \in Nat /\ \A m \in 0 .. n : Ints(f, m)
  BY DEF Ints
<1>1. \A m : SumTo(m, f) = SumTable(m, f)[m]
  BY DEF SumTo, SumTable
<1>2. \A m \in 0 .. n : SumTo(m, f) \in Int
  <2> TAKE m \in 0 .. n
  <2>1. Ints(f, m) /\ m \in 0 .. m
    BY <1>0
  <2> QED BY <1>1, <2>1, SumTabled
<1>3. ASSUME NEW m \in 0 .. n - 1
      PROVE  SumTo(m + 1, f) = SumTo(m, f) + f[m]
  <2> DEFINE P == SumTable(m, f)
             Q == SumTable(m + 1, f)
             S == {i \in Nat : i <= m => P[i] = Q[i]}
  <2>0. m \in Nat /\ m \in 0 .. n /\ m + 1 \in 0 .. n
    BY <1>0
  <2>1. P[0] = 0 /\ \A i \in 1 .. m : P[i] = P[i - 1] + f[i - 1]
    BY <1>0, <2>0, SumTabled
  <2>2. Q[0] = 0 /\ \A i \in 1 .. m + 1 : Q[i] = Q[i - 1] + f[i - 1]
    BY <1>0, <2>0, SumTabled
  <2>3. SumTo(m, f) = P[m] /\ SumTo(m + 1, f) = Q[m + 1]
    BY <1>1
  <2> HIDE DEF P, Q
  <2>4. 0 \in S
    BY <2>1, <2>2
  <2>5. ASSUME NEW i \in Nat, i \in S
        PROVE  i + 1 \in S
    <3> SUFFICES ASSUME i + 1 <= m PROVE P[i + 1] = Q[i + 1]
      OBVIOUS
    <3>1. i + 1 \in 1 .. m /\ i + 1 \in 1 .. m + 1 /\ (i + 1) - 1 = i /\ P[i] = Q[i]
      BY <2>0, <2>5
    <3> QED BY <2>1, <2>2, <3>1
  <2>6. m \in S
    <3> HIDE DEF S
    <3>1. \A i \in Nat : i \in S
      BY <2>4, <2>5, FromZero
    <3> QED BY <2>0, <3>1
  <2>7. P[m] = Q[m] /\ m + 1 \in 1 .. m + 1 /\ (m + 1) - 1 = m
    BY <2>0, <2>6
  <2> QED BY <2>2, <2>3, <2>7
<1>4. SumTo(0, f) = 0
  <2>1. Ints(f, 0)
    BY <1>0
  <2> QED BY <1>1, <2>1, SumTabled
<1> QED BY <1>2, <1>3, <1>4

\* h is f with c times g added to it.
Combined(h, f, c, g, n) ==
  /\ Ints(f, n) /\ Ints(g, n) /\ c \in Int
  /\ \A i \in 0 .. n - 1 : h[i] = f[i] + c * g[i]

LEMMA SumCombined ==
  ASSUME NEW n, NEW f, NEW c, NEW g, NEW h, Combined(h, f, c, g, n)
  PROVE  SumTo(n, h) = SumTo(n, f) + c * SumTo(n, g)
<1>0. n \in Nat /\ Ints(f, n) /\ Ints(g, n) /\ c \in Int
  BY DEF Combined, Ints
<1>1. \A i \in 0 .. n - 1 : h[i] = f[i] + c * g[i] /\ f[i] \in Int /\ g[i] \in Int
  BY DEF Combined, Ints
<1>2. Ints(h, n)
  <2> SUFFICES ASSUME NEW i \in 0 .. n - 1 PROVE h[i] \in Int
    BY <1>0 DEF Ints
  <2> QED BY <1>0, <1>1
<1> DEFINE S == {m \in Nat : m <= n => SumTo(m, h) = SumTo(m, f) + c * SumTo(m, g)}
<1>3. 0 \in S
  <2>1. SumTo(0, h) = 0 /\ SumTo(0, f) = 0 /\ SumTo(0, g) = 0
    BY <1>0, <1>2, SumSteps
  <2>2. c * 0 = 0
    BY <1>0
  <2> QED BY <2>1, <2>2
<1>4. ASSUME NEW m \in Nat, m \in S
      PROVE  m + 1 \in S
  <2> SUFFICES ASSUME m + 1 <= n
               PROVE  SumTo(m + 1, h) = SumTo(m + 1, f) + c * SumTo(m + 1, g)
    OBVIOUS
  <2>1. m \in 0 .. n - 1 /\ m \in 0 .. n
    BY <1>0
  <2>2. /\ SumTo(m + 1, h) = SumTo(m, h) + h[m]
        /\ SumTo(m + 1, f) = SumTo(m, f) + f[m]
        /\ SumTo(m + 1, g) = SumTo(m, g) + g[m]
        /\ SumTo(m, f) \in Int /\ SumTo(m, g) \in Int
    BY <1>0, <1>2, <2>1, SumSteps
  <2>3. SumTo(m, h) = SumTo(m, f) + c * SumTo(m, g)
    BY <1>0, <1>4
  <2>4. f[m] \in Int /\ g[m] \in Int /\ h[m] = f[m] + c * g[m]
    BY <1>1, <2>1
  <2> DEFINE F == SumTo(m, f)
             G == SumTo(m, g)
             x == f[m]
             y == g[m]
  <2>5. c * (G + y) = c * G + c * y
    <3> HIDE DEF G, y
    <3> QED BY <1>0, <2>2, <2>4 DEF G, y
  <2>6. c * G \in Int /\ c * y \in Int /\ F \in Int /\ x \in Int
    BY <1>0, <2>2, <2>4
  <2>7. (F + c * G) + (x + c * y) = (F + x) + c * (G + y)
    <3> DEFINE u == c * G
               v == c * y
               w == c * (G + y)
    <3> HIDE DEF F, G, x, y, u, v, w
    <3>1. w = u + v /\ u \in Int /\ v \in Int
      BY <2>5, <2>6 DEF u, v, w
    <3>2. (F + u) + (x + v) = (F + x) + w
      BY <2>6, <3>1
    <3> QED BY <3>2 DEF u, v, w
  <2> QED BY <2>2, <2>3, <2>4, <2>7
<1>5. n \in S
  <2> HIDE DEF S
  <2>1. \A m \in Nat : m \in S
    BY <1>3, <1>4, FromZero
  <2> QED BY <1>0, <2>1
<1> QED BY <1>0, <1>5

LEMMA SumOfZeros ==
  ASSUME NEW n \in Nat, NEW f, \A i \in 0 .. n - 1 : f[i] = 0
  PROVE  SumTo(n, f) = 0
<1>1. Ints(f, n)
  BY DEF Ints
<1> DEFINE S == {m \in Nat : m <= n => SumTo(m, f) = 0}
<1>2. 0 \in S
  BY <1>1, SumSteps
<1>3. ASSUME NEW m \in Nat, m \in S
      PROVE  m + 1 \in S
  <2> SUFFICES ASSUME m + 1 <= n PROVE SumTo(m + 1, f) = 0
    OBVIOUS
  <2>1. m \in 0 .. n - 1 /\ SumTo(m, f) = 0 /\ f[m] = 0
    BY <1>3
  <2>2. SumTo(m + 1, f) = SumTo(m, f) + f[m]
    BY <1>1, <2>1, SumSteps
  <2> QED BY <2>1, <2>2
<1>4. n \in S
  <2> HIDE DEF S
  <2>1. \A m \in Nat : m \in S
    BY <1>2, <1>3, FromZero
  <2> QED BY <2>1
<1> QED BY <1>4

\* Equal terms, equal sums.
LEMMA SumSame ==
  ASSUME NEW n, NEW f, NEW g, Ints(f, n), \A i \in 0 .. n - 1 : g[i] = f[i]
  PROVE  SumTo(n, g) = SumTo(n, f)
<1> DEFINE z == [i \in 0 .. n - 1 |-> 0]
           c == 0
<1>1. n \in Nat /\ \A i \in 0 .. n - 1 : z[i] = 0 /\ f[i] \in Int
  BY DEF Ints
<1>2. Combined(g, f, c, z, n)
  <2>1. Ints(z, n) /\ c \in Int
    BY <1>1 DEF Ints
  <2>2. \A i \in 0 .. n - 1 : g[i] = f[i] + c * z[i]
    BY <1>1
  <2> HIDE DEF z, c
  <2> QED BY <2>1, <2>2 DEF Combined
<1>3. SumTo(n, g) = SumTo(n, f) + c * SumTo(n, z)
  <2> HIDE DEF z, c
  <2> QED BY <1>2, SumCombined
<1>4. SumTo(n, z) = 0 /\ SumTo(n, f) \in Int
  <2> HIDE DEF z
  <2>1. n \in 0 .. n
    BY <1>1
  <2> QED BY <1>1, <2>1, SumOfZeros, SumSteps
<1> QED BY <1>3, <1>4

\* g continues f behind its first a terms.
Continued(g, f, a, b) ==
  a \in Nat /\ Ints(f, a + b) /\ b \in Nat /\ \A i \in 0 .. b - 1 : g[i] = f[a + i]

LEMMA SumSplit ==
  ASSUME NEW a, NEW b, NEW f, NEW g, Continued(g, f, a, b)
  PROVE  SumTo(a + b, f) = SumTo(a, f) + SumTo(b, g)
<1>0. a \in Nat /\ b \in Nat /\ Ints(f, a + b) /\ \A i \in 0 .. b - 1 : g[i] = f[a + i]
  BY DEF Continued
<1>1. Ints(g, b)
  <2> SUFFICES ASSUME NEW i \in 0 .. b - 1 PROVE g[i] \in Int
    BY <1>0 DEF Ints
  <2>1. a + i \in 0 .. a + b - 1
    BY <1>0
  <2> QED BY <1>0, <2>1 DEF Ints
<1> DEFINE S == {m \in Nat : m <= b => SumTo(a + m, f) = SumTo(a, f) + SumTo(m, g)}
<1>2. 0 \in S
  <2>1. SumTo(0, g) = 0 /\ SumTo(a, f) \in Int /\ a + 0 = a
    <3>1. a \in 0 .. a + b /\ a + 0 = a
      BY <1>0
    <3> QED BY <1>0, <1>1, <3>1, SumSteps
  <2> QED BY <2>1
<1>3. ASSUME NEW m \in Nat, m \in S
      PROVE  m + 1 \in S
  <2> SUFFICES ASSUME m + 1 <= b
               PROVE  SumTo(a + (m + 1), f) = SumTo(a, f) + SumTo(m + 1, g)
    OBVIOUS
  <2>1. m \in 0 .. b - 1 /\ m \in 0 .. b /\ a + m \in 0 .. (a + b) - 1 /\ a \in 0 .. a + b
        /\ (a + m) + 1 = a + (m + 1)
    BY <1>0
  <2>2. SumTo((a + m) + 1, f) = SumTo(a + m, f) + f[a + m] /\ SumTo(a, f) \in Int
    BY <1>0, <2>1, SumSteps
  <2>3. SumTo(m + 1, g) = SumTo(m, g) + g[m] /\ SumTo(m, g) \in Int
    BY <1>1, <2>1, SumSteps
  <2>4. g[m] = f[a + m] /\ g[m] \in Int
    BY <1>0, <1>1, <2>1 DEF Ints
  <2>5. SumTo(a + m, f) = SumTo(a, f) + SumTo(m, g)
    BY <1>3, <2>1
  <2> QED BY <2>1, <2>2, <2>3, <2>4, <2>5
<1>4. b \in S
  <2> HIDE DEF S
  <2>1. \A m \in Nat : m \in S
    BY <1>2, <1>3, FromZero
  <2> QED BY <1>0, <2>1
<1> QED BY <1>0, <1>4

\* g has the terms of f in reverse.
Backwards(g, f, n) == Ints(f, n) /\ \A i \in 0 .. n - 1 : g[i] = f[n - 1 - i]

LEMMA SumReversed ==
  ASSUME NEW n, NEW f, NEW g, Backwards(g, f, n)
  PROVE  SumTo(n, g) = SumTo(n, f)
<1>0. n \in Nat /\ Ints(f, n) /\ \A i \in 0 .. n - 1 : g[i] = f[n - 1 - i]
  BY DEF Backwards, Ints
<1>1. Ints(g, n)
  <2> SUFFICES ASSUME NEW i \in 0 .. n - 1 PROVE g[i] \in Int
    BY <1>0 DEF Ints
  <2>1. n - 1 - i \in 0 .. n - 1
    BY <1>0
  <2> QED BY <1>0, <2>1 DEF Ints
<1> DEFINE S == {m \in Nat : m <= n => SumTo(n, f) = SumTo(n - m, f) + SumTo(m, g)}
<1>2. 0 \in S
  <2>1. n - 0 = n /\ n \in 0 .. n
    BY <1>0
  <2>2. SumTo(0, g) = 0 /\ SumTo(n, f) \in Int
    BY <1>0, <1>1, <2>1, SumSteps
  <2> QED BY <2>1, <2>2
<1>3. ASSUME NEW m \in Nat, m \in S
      PROVE  m + 1 \in S
  <2> SUFFICES ASSUME m + 1 <= n
               PROVE  SumTo(n, f) = SumTo(n - (m + 1), f) + SumTo(m + 1, g)
    OBVIOUS
  <2> DEFINE k == n - (m + 1)
  <2>1. /\ m \in 0 .. n - 1 /\ m \in 0 .. n /\ k \in 0 .. n - 1 /\ k \in 0 .. n
        /\ k + 1 = n - m /\ n - 1 - m = k
    BY <1>0
  <2> HIDE DEF k
  <2>2. SumTo(k + 1, f) = SumTo(k, f) + f[k] /\ SumTo(k, f) \in Int
    BY <1>0, <2>1, SumSteps
  <2>3. SumTo(m + 1, g) = SumTo(m, g) + g[m] /\ SumTo(m, g) \in Int
    BY <1>1, <2>1, SumSteps
  <2>4. g[m] = f[k] /\ g[m] \in Int
    BY <1>0, <1>1, <2>1 DEF Ints
  <2>5. SumTo(n, f) = SumTo(k + 1, f) + SumTo(m, g)
    BY <1>3, <2>1
  <2>6. SumTo(n, f) = SumTo(k, f) + SumTo(m + 1, g)
    BY <2>2, <2>3, <2>4, <2>5
  <2> QED BY <2>6 DEF k
<1>4. n \in S
  <2> HIDE DEF S
  <2>1. \A m \in Nat : m \in S
    BY <1>2, <1>3, FromZero
  <2> QED BY <1>0, <2>1
<1>5. n - n = 0 /\ SumTo(0, f) = 0 /\ SumTo(n, g) \in Int
  <2>1. n - n = 0 /\ n \in 0 .. n
    BY <1>0
  <2> QED BY <1>0, <1>1, <2>1, SumSteps
<1> QED BY <1>0, <1>4, <1>5

\* A table of m rows and n columns, with the sums of its rows and of its columns.
Tabulated(F, m, n, r, c) ==
  /\ m \in Nat /\ n \in Nat
  /\ \A i \in 0 .. m - 1 : Ints(F[i], n) /\ r[i] = SumTo(n, F[i])
  /\ \A j \in 0 .. n - 1 : c[j] = SumTo(m, [i \in 0 .. m - 1 |-> F[i][j]])

\* Summed by rows or by columns, the same.
LEMMA SumSwapped ==
  ASSUME NEW m, NEW n, NEW F, NEW r, NEW c, Tabulated(F, m, n, r, c)
  PROVE  SumTo(m, r) = SumTo(n, c)
<1> DEFINE col(j) == [i \in 0 .. m - 1 |-> F[i][j]]
           upTo(k) == [j \in 0 .. n - 1 |-> SumTo(k, col(j))]
           S == {k \in Nat : k <= m => SumTo(k, r) = SumTo(n, upTo(k))}
<1>0. m \in Nat /\ n \in Nat
  BY DEF Tabulated
<1>1. ASSUME NEW i \in 0 .. m - 1
      PROVE  Ints(F[i], n) /\ r[i] = SumTo(n, F[i]) /\ r[i] \in Int
  <2>1. Ints(F[i], n) /\ r[i] = SumTo(n, F[i])
    BY DEF Tabulated
  <2>2. n \in 0 .. n
    BY <1>0
  <2> QED BY <2>1, <2>2, SumSteps
<1>2. Ints(r, m)
  BY <1>0, <1>1 DEF Ints
<1>3. ASSUME NEW j \in 0 .. n - 1
      PROVE  /\ Ints(col(j), m) /\ c[j] = SumTo(m, col(j))
             /\ \A i \in 0 .. m - 1 : col(j)[i] = F[i][j] /\ F[i][j] \in Int
  <2>1. \A i \in 0 .. m - 1 : col(j)[i] = F[i][j] /\ F[i][j] \in Int
    BY <1>1 DEF Ints
  <2>2. c[j] = SumTo(m, col(j))
    BY DEF Tabulated
  <2> QED BY <1>0, <2>1, <2>2 DEF Ints
<1> HIDE DEF col
<1>4. ASSUME NEW k \in 0 .. m
      PROVE  Ints(upTo(k), n) /\ \A j \in 0 .. n - 1 : upTo(k)[j] = SumTo(k, col(j))
  <2>1. \A j \in 0 .. n - 1 : SumTo(k, col(j)) \in Int
    BY <1>3, SumSteps
  <2> QED BY <1>0, <2>1 DEF Ints
<1>5. 0 \in S
  <2>1. SumTo(0, r) = 0 /\ 0 \in 0 .. m
    BY <1>0, <1>2, SumSteps
  <2>2. \A j \in 0 .. n - 1 : upTo(0)[j] = 0
    BY <1>3, SumSteps
  <2>3. SumTo(n, upTo(0)) = 0
    <3> HIDE DEF upTo
    <3> QED BY <1>0, <2>2, SumOfZeros
  <2> QED BY <2>1, <2>3
<1>6. ASSUME NEW k \in Nat, k \in S
      PROVE  k + 1 \in S
  <2> SUFFICES ASSUME k + 1 <= m PROVE SumTo(k + 1, r) = SumTo(n, upTo(k + 1))
    OBVIOUS
  <2> DEFINE one == 1
  <2>1. k \in 0 .. m - 1 /\ k \in 0 .. m /\ k + 1 \in 0 .. m
    BY <1>0
  <2>2. SumTo(k, r) = SumTo(n, upTo(k))
    BY <1>6, <2>1
  <2>3. \A j \in 0 .. n - 1 : SumTo(k + 1, col(j)) = SumTo(k, col(j)) + F[k][j]
    BY <1>3, <2>1, SumSteps
  <2>4. Combined(upTo(k + 1), upTo(k), one, F[k], n)
    <3>1. /\ Ints(upTo(k), n) /\ Ints(F[k], n) /\ one \in Int
          /\ \A j \in 0 .. n - 1 : upTo(k)[j] = SumTo(k, col(j)) /\ F[k][j] \in Int
          /\ \A j \in 0 .. n - 1 : upTo(k + 1)[j] = SumTo(k + 1, col(j))
      BY <1>1, <1>3, <1>4, <2>1
    <3> HIDE DEF upTo
    <3>2. \A j \in 0 .. n - 1 : upTo(k + 1)[j] = upTo(k)[j] + one * F[k][j]
      BY <2>3, <3>1
    <3> HIDE DEF one
    <3> QED BY <3>1, <3>2 DEF Combined
  <2>5. SumTo(n, upTo(k + 1)) = SumTo(n, upTo(k)) + one * SumTo(n, F[k])
    <3> HIDE DEF upTo, one
    <3> QED BY <2>4, SumCombined
  <2>6. r[k] = SumTo(n, F[k]) /\ r[k] \in Int
    BY <1>1, <2>1
  <2>7. SumTo(k + 1, r) = SumTo(k, r) + r[k]
    BY <1>2, <2>1, SumSteps
  <2> HIDE DEF upTo
  <2> QED BY <2>2, <2>5, <2>6, <2>7
<1>7. m \in S
  <2> HIDE DEF S
  <2>1. \A k \in Nat : k \in S
    BY <1>5, <1>6, FromZero
  <2> QED BY <1>0, <2>1
<1>8. SumTo(n, c) = SumTo(n, upTo(m))
  <2>1. m \in 0 .. m
    BY <1>0
  <2>2. Ints(upTo(m), n) /\ \A j \in 0 .. n - 1 : c[j] = upTo(m)[j]
    BY <1>3, <1>4, <2>1
  <2> HIDE DEF upTo
  <2> QED BY <2>2, SumSame
<1> QED BY <1>0, <1>7, <1>8

-----------------------------------------------------------------------------
(* Indices that wrap.                                                        *)

LEMMA Wrapped ==
  ASSUME NEW n \in Nat \ {0}, NEW k \in 0 .. n - 1, NEW i \in 0 .. n - 1
  PROVE  /\ (k - i) % n = (IF i <= k THEN k - i ELSE n + k - i)
         /\ (k + i) % n = (IF k + i < n THEN k + i ELSE k + i - n)
<1>1. ASSUME NEW q \in {-1, 0, 1}, NEW r \in 0 .. n - 1
      PROVE  (n * q + r) % n = r
  <2>1. q \in Int
    OBVIOUS
  <2> QED BY <2>1, RestOfMultiple
<1>2. ASSUME NEW r \in 0 .. n - 1
      PROVE  r % n = r /\ (r - n) % n = r /\ (r + n) % n = r
  <2>1. n * 0 + r = r /\ n * (-1) + r = r - n /\ n * 1 + r = r + n
    OBVIOUS
  <2> QED BY <1>1, <2>1
<1>3. (k - i) % n = (IF i <= k THEN k - i ELSE n + k - i)
  <2>1. CASE i <= k
    <3>1. k - i \in 0 .. n - 1
      BY <2>1
    <3> QED BY <1>2, <2>1, <3>1
  <2>2. CASE ~(i <= k)
    <3>1. n + k - i \in 0 .. n - 1 /\ (n + k - i) - n = k - i
      BY <2>2
    <3> QED BY <1>2, <2>2, <3>1
  <2> QED BY <2>1, <2>2
<1>4. (k + i) % n = (IF k + i < n THEN k + i ELSE k + i - n)
  <2>1. CASE k + i < n
    <3>1. k + i \in 0 .. n - 1
      BY <2>1
    <3> QED BY <1>2, <2>1, <3>1
  <2>2. CASE ~(k + i < n)
    <3>1. k + i - n \in 0 .. n - 1 /\ (k + i - n) + n = k + i
      BY <2>2
    <3> QED BY <1>2, <2>2, <3>1
  <2> QED BY <2>1, <2>2
<1> QED BY <1>3, <1>4

\* g looks f up at the distance of its own index from k.
Mirrored(g, f, k, n) ==
  /\ Ints(f, n) /\ k \in 0 .. n - 1
  /\ \A i \in 0 .. n - 1 : g[i] = f[IF i <= k THEN k - i ELSE n + k - i]

LEMMA SumMirrored ==
  ASSUME NEW n, NEW f, NEW g, NEW k, Mirrored(g, f, k, n)
  PROVE  SumTo(n, g) = SumTo(n, f)
<1> DEFINE a == k + 1
           b == n - (k + 1)
           fb == [i \in 0 .. b - 1 |-> f[a + i]]
           gb == [i \in 0 .. b - 1 |-> g[a + i]]
<1>0. n \in Nat /\ k \in 0 .. n - 1 /\ a \in Nat /\ b \in Nat /\ a + b = n /\ a - 1 = k
  BY DEF Mirrored, Ints
<1>1. \A i \in 0 .. n - 1 : f[i] \in Int
  BY DEF Mirrored, Ints
<1>2. \A i \in 0 .. a - 1 : i \in 0 .. n - 1 /\ g[i] = f[a - 1 - i] /\ a - 1 - i \in 0 .. n - 1
  <2> TAKE i \in 0 .. a - 1
  <2>1. i \in 0 .. n - 1 /\ i <= k /\ a - 1 - i \in 0 .. n - 1 /\ a - 1 - i = k - i
    BY <1>0
  <2> QED BY <2>1 DEF Mirrored
<1>3. \A i \in 0 .. b - 1 :
        /\ a + i \in 0 .. n - 1 /\ a + (b - 1 - i) \in 0 .. n - 1 /\ b - 1 - i \in 0 .. b - 1
        /\ g[a + i] = f[a + (b - 1 - i)]
  <2> TAKE i \in 0 .. b - 1
  <2>1. /\ a + i \in 0 .. n - 1 /\ ~(a + i <= k) /\ a + (b - 1 - i) \in 0 .. n - 1
        /\ b - 1 - i \in 0 .. b - 1 /\ a + (b - 1 - i) = n + k - (a + i)
    BY <1>0
  <2> HIDE DEF a, b
  <2> QED BY <2>1 DEF Mirrored
<1>4. \A i \in 0 .. b - 1 : fb[i] = f[a + i] /\ gb[i] = g[a + i]
  OBVIOUS
<1> HIDE DEF a, b, fb, gb
<1>5. Ints(g, n) /\ Ints(f, n)
  <2>1. \A i \in 0 .. n - 1 : (IF i <= k THEN k - i ELSE n + k - i) \in 0 .. n - 1
    BY <1>0
  <2>2. \A i \in 0 .. n - 1 : g[i] = f[IF i <= k THEN k - i ELSE n + k - i]
    BY DEF Mirrored
  <2>3. \A i \in 0 .. n - 1 : g[i] \in Int
    BY <1>1, <2>1, <2>2
  <2> QED BY <1>0, <1>1, <2>3 DEF Ints
<1>6. Ints(f, a) /\ Ints(fb, b)
  <2>1. \A i \in 0 .. b - 1 : fb[i] \in Int
    BY <1>1, <1>3, <1>4
  <2>2. \A i \in 0 .. a - 1 : f[i] \in Int
    BY <1>1, <1>2
  <2> QED BY <1>0, <2>1, <2>2 DEF Ints
<1>7. SumTo(a, g) = SumTo(a, f)
  <2>1. Backwards(g, f, a)
    BY <1>2, <1>6 DEF Backwards
  <2> QED BY <2>1, SumReversed
<1>8. SumTo(b, gb) = SumTo(b, fb)
  <2>1. Backwards(gb, fb, b)
    <3>1. \A i \in 0 .. b - 1 : gb[i] = fb[b - 1 - i]
      BY <1>3, <1>4
    <3> QED BY <1>6, <3>1 DEF Backwards
  <2> QED BY <2>1, SumReversed
<1>9. SumTo(n, f) = SumTo(a, f) + SumTo(b, fb)
  <2>1. Continued(fb, f, a, b)
    BY <1>0, <1>4, <1>5 DEF Continued
  <2> QED BY <1>0, <2>1, SumSplit
<1>10. SumTo(n, g) = SumTo(a, g) + SumTo(b, gb)
  <2>1. Continued(gb, g, a, b)
    BY <1>0, <1>4, <1>5 DEF Continued
  <2> QED BY <1>0, <2>1, SumSplit
<1> QED BY <1>7, <1>8, <1>9, <1>10

-----------------------------------------------------------------------------
(* Numbers that agree modulo p.                                              *)

Congruent(p, a, b) == a \in Int /\ b \in Int /\ \E q \in Int : a = b + p * q

LEMMA SameRest ==
  ASSUME NEW p \in Nat \ {0}, NEW a, NEW b, Congruent(p, a, b)
  PROVE  a % p = b % p
<1>1. PICK q \in Int : a = b + p * q
  BY DEF Congruent
<1>2. b \in Int
  BY DEF Congruent
<1> QED BY <1>1, <1>2, RestOfSum

LEMMA RestSame ==
  ASSUME NEW p \in Nat \ {0}, NEW a \in Int
  PROVE  Congruent(p, a % p, a) /\ Congruent(p, a, a % p) /\ a % p \in 0 .. p - 1
<1> DEFINE k == a \div p
           r == a % p
<1>1. k \in Int /\ r \in 0 .. p - 1 /\ a = p * k + r
  OBVIOUS
<1> HIDE DEF k, r
<1>2. -k \in Int /\ r \in Int /\ p * k \in Int
  BY <1>1
<1>3. p * (-k) = -(p * k)
  BY <1>1
<1>4. r = a + p * (-k)
  BY <1>1, <1>2, <1>3
<1>5. a = r + p * k
  BY <1>1, <1>2
<1> QED BY <1>1, <1>2, <1>4, <1>5 DEF Congruent, r

LEMMA SameSelf ==
  ASSUME NEW p \in Nat \ {0}, NEW a \in Int
  PROVE  Congruent(p, a, a)
<1>1. a = a + p * 0 /\ 0 \in Int
  OBVIOUS
<1> QED BY <1>1 DEF Congruent

LEMMA SamePlus ==
  ASSUME NEW p \in Nat \ {0}, NEW a, NEW b, NEW c, NEW d, Congruent(p, a, b), Congruent(p, c, d)
  PROVE  Congruent(p, a + c, b + d)
<1>1. PICK q \in Int : a = b + p * q
  BY DEF Congruent
<1>2. PICK r \in Int : c = d + p * r
  BY DEF Congruent
<1>3. a \in Int /\ b \in Int /\ c \in Int /\ d \in Int
  BY DEF Congruent
<1>4. p * (q + r) = p * q + p * r
  OBVIOUS
<1>5. a + c = (b + d) + p * (q + r)
  <2> DEFINE x == p * q
             y == p * r
             z == p * (q + r)
  <2>1. x \in Int /\ y \in Int /\ z = x + y /\ a = b + x /\ c = d + y
    BY <1>1, <1>2, <1>4
  <2> HIDE DEF x, y, z
  <2>2. a + c = (b + d) + z
    BY <1>3, <2>1
  <2> QED BY <2>2 DEF z
<1>6. q + r \in Int /\ a + c \in Int /\ b + d \in Int
  BY <1>3
<1> QED BY <1>5, <1>6 DEF Congruent

LEMMA SameTimes ==
  ASSUME NEW p \in Nat \ {0}, NEW a, NEW b, NEW c \in Int, Congruent(p, a, b)
  PROVE  Congruent(p, c * a, c * b) /\ Congruent(p, a * c, b * c)
<1>1. PICK q \in Int : a = b + p * q
  BY DEF Congruent
<1>2. a \in Int /\ b \in Int
  BY DEF Congruent
<1>3. c * (b + p * q) = c * b + p * (c * q)
  <2> DEFINE x == p * q
  <2>1. x \in Int /\ c * x = p * (c * q)
    OBVIOUS
  <2> HIDE DEF x
  <2>2. c * (b + x) = c * b + c * x
    BY <1>2, <2>1
  <2> QED BY <2>1, <2>2 DEF x
<1>4. c * q \in Int /\ c * a \in Int /\ c * b \in Int
  BY <1>2
<1>5. c * a = c * b + p * (c * q)
  BY <1>1, <1>3
<1>6. c * a = a * c /\ c * b = b * c
  BY <1>2
<1> QED BY <1>4, <1>5, <1>6 DEF Congruent

LEMMA SameSym ==
  ASSUME NEW p \in Nat \ {0}, NEW a, NEW b, Congruent(p, a, b)
  PROVE  Congruent(p, b, a)
<1>1. PICK q \in Int : a = b + p * q
  BY DEF Congruent
<1>2. a \in Int /\ b \in Int /\ -q \in Int
  BY DEF Congruent
<1>3. p * (-q) = -(p * q) /\ p * q \in Int
  OBVIOUS
<1>4. b = a + p * (-q)
  BY <1>1, <1>2, <1>3
<1> QED BY <1>2, <1>4 DEF Congruent

LEMMA SameTrans ==
  ASSUME NEW p \in Nat \ {0}, NEW a, NEW b, NEW c, Congruent(p, a, b), Congruent(p, b, c)
  PROVE  Congruent(p, a, c)
<1>1. PICK q \in Int : a = b + p * q
  BY DEF Congruent
<1>2. PICK r \in Int : b = c + p * r
  BY DEF Congruent
<1>3. a \in Int /\ b \in Int /\ c \in Int /\ q + r \in Int
  BY DEF Congruent
<1>4. p * (q + r) = p * q + p * r /\ p * q \in Int /\ p * r \in Int
  OBVIOUS
<1>5. a = c + p * (q + r)
  BY <1>1, <1>2, <1>3, <1>4
<1> QED BY <1>3, <1>5 DEF Congruent

\* Sums of terms that agree.
Agreeing(p, g, f, n) == n \in Nat /\ \A i \in 0 .. n - 1 : Congruent(p, g[i], f[i])

LEMMA SumAgrees ==
  ASSUME NEW p \in Nat \ {0}, NEW n, NEW f, NEW g, Agreeing(p, g, f, n)
  PROVE  Congruent(p, SumTo(n, g), SumTo(n, f))
<1>0. n \in Nat /\ Ints(g, n) /\ Ints(f, n) /\ \A i \in 0 .. n - 1 : Congruent(p, g[i], f[i])
  BY DEF Agreeing, Ints, Congruent
<1> DEFINE S == {m \in Nat : m <= n => Congruent(p, SumTo(m, g), SumTo(m, f))}
<1>1. 0 \in S
  <2>1. SumTo(0, g) = 0 /\ SumTo(0, f) = 0 /\ 0 \in Int
    BY <1>0, SumSteps
  <2> QED BY <2>1, SameSelf
<1>2. ASSUME NEW m \in Nat, m \in S
      PROVE  m + 1 \in S
  <2> SUFFICES ASSUME m + 1 <= n PROVE Congruent(p, SumTo(m + 1, g), SumTo(m + 1, f))
    OBVIOUS
  <2>1. m \in 0 .. n - 1 /\ Congruent(p, SumTo(m, g), SumTo(m, f))
    BY <1>0, <1>2
  <2>2. SumTo(m + 1, g) = SumTo(m, g) + g[m] /\ SumTo(m + 1, f) = SumTo(m, f) + f[m]
    BY <1>0, <2>1, SumSteps
  <2>3. Congruent(p, SumTo(m, g) + g[m], SumTo(m, f) + f[m])
    BY <1>0, <2>1, SamePlus
  <2> QED BY <2>2, <2>3
<1>3. n \in S
  <2> HIDE DEF S
  <2>1. \A m \in Nat : m \in S
    BY <1>1, <1>2, FromZero
  <2> QED BY <1>0, <2>1
<1> QED BY <1>0, <1>3

\* A sum with one term that may differ from zero.
LEMMA SumOfOne ==
  ASSUME NEW n \in Nat, NEW f, NEW k \in 0 .. n - 1, f[k] \in Int,
         \A i \in 0 .. n - 1 : i # k => f[i] = 0
  PROVE  SumTo(n, f) = f[k]
<1>1. Ints(f, n)
  <2> SUFFICES ASSUME NEW i \in 0 .. n - 1 PROVE f[i] \in Int
    BY DEF Ints
  <2> QED BY 0 \in Int
<1> DEFINE S == {m \in Nat : m <= n => SumTo(m, f) = IF m <= k THEN 0 ELSE f[k]}
<1>2. 0 \in S
  BY <1>1, SumSteps
<1>3. ASSUME NEW m \in Nat, m \in S
      PROVE  m + 1 \in S
  <2> SUFFICES ASSUME m + 1 <= n
               PROVE  SumTo(m + 1, f) = IF m + 1 <= k THEN 0 ELSE f[k]
    OBVIOUS
  <2>1. m \in 0 .. n - 1 /\ SumTo(m, f) = IF m <= k THEN 0 ELSE f[k]
    BY <1>3
  <2>2. SumTo(m + 1, f) = SumTo(m, f) + f[m]
    BY <1>1, <2>1, SumSteps
  <2>3. CASE m < k
    BY <2>1, <2>2, <2>3
  <2>4. CASE m = k
    BY <2>1, <2>2, <2>4
  <2>5. CASE m > k
    BY <2>1, <2>2, <2>5
  <2> QED BY <2>3, <2>4, <2>5
<1>4. n \in S
  <2> HIDE DEF S
  <2>1. \A m \in Nat : m \in S
    BY <1>2, <1>3, FromZero
  <2> QED BY <2>1
<1> QED BY <1>4

\* g is c times f.
Scaled(g, c, f, n) == Ints(f, n) /\ c \in Int /\ \A i \in 0 .. n - 1 : g[i] = c * f[i]

LEMMA SumScaled ==
  ASSUME NEW n, NEW f, NEW c, NEW g, Scaled(g, c, f, n)
  PROVE  SumTo(n, g) = c * SumTo(n, f)
<1> DEFINE z == [i \in 0 .. n - 1 |-> 0]
<1>1. /\ n \in Nat /\ Ints(f, n) /\ c \in Int
      /\ \A i \in 0 .. n - 1 : z[i] = 0 /\ f[i] \in Int /\ g[i] = c * f[i]
  BY DEF Scaled, Ints
<1> HIDE DEF z
<1>2. Combined(g, z, c, f, n)
  <2>1. Ints(z, n)
    BY <1>1 DEF Ints
  <2>2. \A i \in 0 .. n - 1 : g[i] = z[i] + c * f[i]
    BY <1>1
  <2> QED BY <1>1, <2>1, <2>2 DEF Combined
<1>3. SumTo(n, z) = 0
  BY <1>1, SumOfZeros
<1>4. n \in 0 .. n /\ SumTo(n, f) \in Int
  <2>1. n \in 0 .. n
    BY <1>1
  <2> QED BY <1>1, <2>1, SumSteps
<1>5. c * SumTo(n, f) \in Int
  BY <1>1, <1>4
<1> QED BY <1>2, <1>3, <1>5, SumCombined

\* g is f, i places further on and round the end.
Rotated(g, f, i, n) ==
  /\ Ints(f, n) /\ i \in 0 .. n - 1
  /\ \A k \in 0 .. n - 1 : g[k] = f[IF i <= k THEN k - i ELSE n + k - i]

LEMMA SumRotated ==
  ASSUME NEW n, NEW f, NEW g, NEW i, Rotated(g, f, i, n)
  PROVE  SumTo(n, g) = SumTo(n, f)
<1> DEFINE b == n - i
           ff == [t \in 0 .. i - 1 |-> f[b + t]]
           gg == [t \in 0 .. b - 1 |-> g[i + t]]
<1>0. n \in Nat /\ i \in Nat /\ b \in Nat /\ i + b = n /\ b + i = n
  BY DEF Rotated, Ints
<1>1. Ints(f, n) /\ \A t \in 0 .. n - 1 : f[t] \in Int
  BY DEF Rotated, Ints
<1>2. \A k \in 0 .. n - 1 : g[k] = f[IF i <= k THEN k - i ELSE n + k - i]
  BY DEF Rotated
<1>3. Ints(g, n)
  <2>1. \A k \in 0 .. n - 1 : (IF i <= k THEN k - i ELSE n + k - i) \in 0 .. n - 1
    BY <1>0
  <2>2. \A k \in 0 .. n - 1 : g[k] \in Int
    BY <1>1, <1>2, <2>1
  <2> QED BY <1>0, <2>2 DEF Ints
<1>4. \A t \in 0 .. i - 1 : ff[t] = f[b + t] /\ g[t] = f[b + t] /\ b + t \in 0 .. n - 1
  <2> TAKE t \in 0 .. i - 1
  <2>1. t \in 0 .. n - 1 /\ ~(i <= t) /\ n + t - i = b + t /\ b + t \in 0 .. n - 1
    BY <1>0
  <2> QED BY <1>2, <2>1
<1>5. \A t \in 0 .. b - 1 : gg[t] = g[i + t] /\ g[i + t] = f[t] /\ t \in 0 .. n - 1
  <2> TAKE t \in 0 .. b - 1
  <2>1. i + t \in 0 .. n - 1 /\ i <= i + t /\ (i + t) - i = t /\ t \in 0 .. n - 1
    BY <1>0
  <2> QED BY <1>2, <2>1
<1> HIDE DEF b, ff, gg
<1>6. SumTo(n, f) = SumTo(b, f) + SumTo(i, ff)
  <2>1. Continued(ff, f, b, i)
    BY <1>0, <1>1, <1>4 DEF Continued
  <2> QED BY <1>0, <2>1, SumSplit
<1>7. SumTo(n, g) = SumTo(i, g) + SumTo(b, gg)
  <2>1. Continued(gg, g, i, b)
    BY <1>0, <1>3, <1>5 DEF Continued
  <2> QED BY <1>0, <2>1, SumSplit
<1>8. Ints(ff, i) /\ Ints(f, b)
  BY <1>0, <1>1, <1>4, <1>5 DEF Ints
<1>9. SumTo(i, g) = SumTo(i, ff)
  <2>1. \A t \in 0 .. i - 1 : g[t] = ff[t]
    BY <1>4
  <2> QED BY <1>8, <2>1, SumSame
<1>10. SumTo(b, gg) = SumTo(b, f)
  <2>1. \A t \in 0 .. b - 1 : gg[t] = f[t]
    BY <1>5
  <2> QED BY <1>8, <2>1, SumSame
<1>11. SumTo(i, ff) \in Int /\ SumTo(b, f) \in Int
  <2>1. i \in 0 .. i /\ b \in 0 .. b
    BY <1>0
  <2> QED BY <1>8, <2>1, SumSteps
<1> QED BY <1>6, <1>7, <1>9, <1>10, <1>11

LEMMA SameProduct ==
  ASSUME NEW p \in Nat \ {0}, NEW a, NEW b, NEW c, NEW d, Congruent(p, a, b), Congruent(p, c, d)
  PROVE  Congruent(p, a * c, b * d)
<1>1. a \in Int /\ b \in Int /\ c \in Int /\ d \in Int
  BY DEF Congruent
<1>2. Congruent(p, a * c, b * c)
  BY <1>1, SameTimes
<1>3. Congruent(p, b * c, b * d)
  BY <1>1, SameTimes
<1> QED BY <1>2, <1>3, SameTrans

-----------------------------------------------------------------------------
(* Powers of sums.                                                           *)

\* Powers multiply where exponents add.
LEMMA PowerOfSum ==
  ASSUME NEW b \in Nat, NEW d \in Nat
  PROVE  \A e \in Nat : Power(b, d + e) = Power(b, d) * Power(b, e)
<1> DEFINE S == {e \in Nat : Power(b, d + e) = Power(b, d) * Power(b, e)}
<1>0. Power(b, d) \in Nat /\ Power(b, 0) = 1
  BY PowerSteps
<1>1. 0 \in S
  <2>1. d + 0 = d /\ Power(b, d) * 1 = Power(b, d)
    BY <1>0
  <2> QED BY <1>0, <2>1
<1>2. ASSUME NEW e \in Nat, e \in S
      PROVE  e + 1 \in S
  <2>1. d + e \in Nat /\ d + (e + 1) = (d + e) + 1
    OBVIOUS
  <2>2. Power(b, d + (e + 1)) = Power(b, d + e) * b /\ Power(b, e + 1) = Power(b, e) * b
        /\ Power(b, e) \in Nat
    BY <2>1, PowerSteps
  <2>3. Power(b, d + e) = Power(b, d) * Power(b, e)
    BY <1>2
  <2>4. \A x, y \in Nat : (x * y) * b = x * (y * b)
    OBVIOUS
  <2>5. (Power(b, d) * Power(b, e)) * b = Power(b, d) * (Power(b, e) * b)
    BY <1>0, <2>2, <2>4
  <2> QED BY <2>2, <2>3, <2>5
<1> HIDE DEF S
<1>3. \A e \in Nat : e \in S
  BY <1>1, <1>2, FromZero
<1> QED BY <1>3 DEF S

\* g is f, i places further on, between zeros.
Shifted(g, f, i, m, n) ==
  /\ Ints(f, m) /\ i \in Nat /\ n \in Nat /\ i + m <= n
  /\ \A k \in 0 .. n - 1 : g[k] = IF k - i \in 0 .. m - 1 THEN f[k - i] ELSE 0

LEMMA SumShifted ==
  ASSUME NEW n, NEW m, NEW i, NEW f, NEW g, Shifted(g, f, i, m, n)
  PROVE  SumTo(n, g) = SumTo(m, f)
<1> DEFINE l == i + m
           b == n - l
           h == [t \in 0 .. m - 1 |-> g[i + t]]
           z == [t \in 0 .. b - 1 |-> g[l + t]]
<1>0. n \in Nat /\ m \in Nat /\ i \in Nat /\ l \in Nat /\ b \in Nat /\ l + b = n /\ l = i + m
  BY DEF Shifted, Ints
<1>1. Ints(f, m) /\ \A t \in 0 .. m - 1 : f[t] \in Int
  BY DEF Shifted, Ints
<1>2. \A k \in 0 .. n - 1 : g[k] = IF k - i \in 0 .. m - 1 THEN f[k - i] ELSE 0
  BY DEF Shifted
<1>3. Ints(g, n)
  <2>1. \A k \in 0 .. n - 1 : g[k] \in Int
    BY <1>1, <1>2
  <2> QED BY <1>0, <2>1 DEF Ints
<1>4. \A t \in 0 .. i - 1 : g[t] = 0
  <2> TAKE t \in 0 .. i - 1
  <2>1. t \in 0 .. n - 1 /\ t - i \notin 0 .. m - 1
    BY <1>0
  <2> QED BY <1>2, <2>1
<1>5. \A t \in 0 .. m - 1 : h[t] = g[i + t] /\ h[t] = f[t]
  <2> TAKE t \in 0 .. m - 1
  <2>1. i + t \in 0 .. n - 1 /\ (i + t) - i = t
    BY <1>0
  <2> QED BY <1>2, <2>1
<1>6. \A t \in 0 .. b - 1 : z[t] = g[l + t] /\ z[t] = 0
  <2> TAKE t \in 0 .. b - 1
  <2>1. l + t \in 0 .. n - 1 /\ (l + t) - i \notin 0 .. m - 1
    BY <1>0
  <2>2. z[t] = g[l + t]
    OBVIOUS
  <2> HIDE DEF z, l, b
  <2> QED BY <1>2, <2>1, <2>2
<1> HIDE DEF l, b, h, z
<1>7. SumTo(n, g) = SumTo(l, g) + SumTo(b, z)
  <2>1. Continued(z, g, l, b)
    BY <1>0, <1>3, <1>6 DEF Continued
  <2> QED BY <1>0, <2>1, SumSplit
<1>8. SumTo(l, g) = SumTo(i, g) + SumTo(m, h)
  <2>1. Ints(g, i + m)
    BY <1>0, <1>3 DEF Ints
  <2>2. Continued(h, g, i, m)
    BY <1>0, <1>5, <2>1 DEF Continued
  <2> QED BY <1>0, <2>2, SumSplit
<1>9. SumTo(b, z) = 0 /\ SumTo(i, g) = 0
  BY <1>0, <1>4, <1>6, SumOfZeros
<1>10. SumTo(m, h) = SumTo(m, f)
  BY <1>1, <1>5, SumSame
<1>11. SumTo(m, f) \in Int
  <2>1. m \in 0 .. m
    BY <1>0
  <2> QED BY <1>1, <2>1, SumSteps
<1> QED BY <1>7, <1>8, <1>9, <1>10, <1>11

-----------------------------------------------------------------------------
(* Quotients.                                                                *)

\* Dividing twice is dividing by the product.
LEMMA QuotientOfQuotient ==
  ASSUME NEW x \in Int, NEW p \in Nat \ {0}, NEW b \in Nat \ {0}
  PROVE  x \div (p * b) = (x \div p) \div b
<1> DEFINE q == x \div p
           r == x % p
           k == q \div b
           s == q % b
           t == p * s + r
           n == p * b
<1>1. q \in Int /\ r \in 0 .. p - 1 /\ x = p * q + r
  OBVIOUS
<1> HIDE DEF q, r
<1>2. k \in Int /\ s \in 0 .. b - 1 /\ q = b * k + s
  BY <1>1
<1> HIDE DEF k, s
<1>3. n \in Nat \ {0} /\ t \in 0 .. n - 1
  <2>1. \A u \in 0 .. b - 1 : p * u \in Nat /\ p * u <= p * (b - 1) /\ p * (b - 1) = p * b - p
    OBVIOUS
  <2>2. p * b \in Nat \ {0}
    OBVIOUS
  <2> DEFINE y == p * s
             z == p * b
  <2>3. y \in Nat /\ y <= z - p /\ z \in Nat \ {0}
    BY <1>2, <2>1, <2>2
  <2> HIDE DEF y, z
  <2>4. y + r \in 0 .. z - 1
    BY <1>1, <2>3
  <2> QED BY <2>3, <2>4 DEF y, z
<1>4. x = n * k + t
  <2>1. p * (b * k + s) = (p * b) * k + p * s
    BY <1>2
  <2>2. (p * b) * k \in Int /\ p * s \in Int
    BY <1>2
  <2> DEFINE y == p * s
             z == (p * b) * k
  <2>3. x = (z + y) + r /\ z \in Int /\ y \in Int
    BY <1>1, <1>2, <2>1, <2>2
  <2> HIDE DEF y, z
  <2>4. x = z + (y + r)
    BY <1>1, <2>3
  <2> QED BY <2>4 DEF y, z
<1> HIDE DEF n, t
<1>5. x % n = t
  BY <1>2, <1>3, <1>4, RestOfMultiple
<1>6. x \div n \in Int /\ x = n * (x \div n) + (x % n)
  BY <1>3
<1> DEFINE k2 == x \div n
<1> HIDE DEF k2
<1>7. n * k2 = n * k /\ k2 \in Int
  <2> DEFINE u == n * k2
             w == n * k
  <2>1. k2 \in Int
    BY <1>6 DEF k2
  <2>2. u \in Int /\ w \in Int
    BY <1>2, <1>3, <2>1
  <2>3. x = u + t /\ x = w + t
    BY <1>4, <1>5, <1>6 DEF k2
  <2> HIDE DEF u, w
  <2>4. u = w
    BY <1>3, <2>2, <2>3
  <2> QED BY <2>1, <2>4 DEF u, w
<1>8. \A u, w \in Int : n * u = n * w => u = w
  BY <1>3
<1>9. k2 = k
  BY <1>2, <1>7, <1>8
<1> QED BY <1>9 DEF n, k, k2, q

-----------------------------------------------------------------------------
(* FlattenSeq, one sequence at a time.                                       *)

Flattening(f, s) == f = [i \in 1 .. Len(s) |-> IF i = 1 THEN s[i] ELSE f[i - 1] \o s[i]]

LEMMA FlatteningExists ==
  ASSUME NEW Elem, NEW s \in Seq(Seq(Elem))
  PROVE  \E f : Flattening(f, s)
<1> DEFINE n == Len(s)
           D == Seq(Elem)
           base == <<>>
           step == [i \in 1 .. n |-> [x \in D |-> x \o s[i]]]
<1>1. n \in Nat /\ base \in D /\ \A i \in 1 .. n : s[i] \in D
  BY LenProperties, EmptySeq
<1>2. step \in [1 .. n -> [D -> D]]
  BY <1>1, ConcatProperties
<1>3. \A i \in 1 .. n : \A x \in D : step[i][x] = x \o s[i]
  OBVIOUS
<1> HIDE DEF step, D, base, n
<1>4. PICK g : Stepwise(g, D, n, base, step)
  <2>1. base \in D /\ n \in Nat /\ step \in [1 .. n -> [D -> D]]
    BY <1>1, <1>2
  <2> QED BY <2>1, StepwiseFunction
<1>5. ASSUME NEW i \in 1 .. n
      PROVE  g[i] = IF i = 1 THEN s[i] ELSE g[i - 1] \o s[i]
  <2>1. i - 1 \in 0 .. n
    BY <1>1
  <2>2. g[i] = g[i - 1] \o s[i]
    BY <1>3, <1>4, <2>1 DEF Stepwise
  <2>3. CASE i = 1
    <3>1. g[i - 1] = <<>>
      BY <1>4, <2>3 DEF Stepwise, base
    <3>2. s[i] \in Seq(Elem)
      BY <1>1 DEF D
    <3> QED BY <2>2, <2>3, <3>1, <3>2, ConcatEmptySeq
  <2> QED BY <2>2, <2>3
<1> DEFINE f == [i \in 1 .. n |-> g[i]]
<1>6. ASSUME NEW i \in 1 .. n
      PROVE  f[i] = IF i = 1 THEN s[i] ELSE f[i - 1] \o s[i]
  <2>1. i # 1 => i - 1 \in 1 .. n
    BY <1>1
  <2> QED BY <1>5, <2>1
<1>7. f = [i \in 1 .. n |-> f[i]]
  OBVIOUS
<1> HIDE DEF f
<1>8. f = [i \in 1 .. n |-> IF i = 1 THEN s[i] ELSE f[i - 1] \o s[i]]
  BY <1>6, <1>7
<1>9. Flattening(f, s)
  BY <1>8 DEF Flattening, n
<1> QED BY <1>9

LEMMA FlattenIs ==
  ASSUME NEW Elem, NEW s \in Seq(Seq(Elem)), Len(s) # 0
  PROVE  \E f : Flattening(f, s) /\ FlattenSeq(s) = f[Len(s)]
<1> DEFINE f == CHOOSE f : Flattening(f, s)
<1>1. Flattening(f, s)
  BY FlatteningExists
<1>2. FlattenSeq(s) = f[Len(s)]
  BY DEF FlattenSeq, Flattening
<1> QED BY <1>1, <1>2

LEMMA FlattenAppend ==
  ASSUME NEW Elem, NEW s \in Seq(Seq(Elem)), NEW b \in Seq(Elem)
  PROVE  /\ FlattenSeq(s) \in Seq(Elem)
         /\ FlattenSeq(Append(s, b)) = FlattenSeq(s) \o b
<1> DEFINE n == Len(s)
           t == Append(s, b)
<1>1. /\ n \in Nat /\ t \in Seq(Seq(Elem)) /\ Len(t) = n + 1
      /\ \A i \in 1 .. n : t[i] = s[i] /\ s[i] \in Seq(Elem)
      /\ t[n + 1] = b
  BY LenProperties, AppendProperties
<1> HIDE DEF t
<1>2. PICK g : Flattening(g, t) /\ FlattenSeq(t) = g[n + 1]
  <2>1. Len(t) # 0
    BY <1>1
  <2> QED BY <1>1, <2>1, FlattenIs
<1>3. \A i \in 1 .. n + 1 : g[i] = IF i = 1 THEN t[i] ELSE g[i - 1] \o t[i]
  BY <1>1, <1>2 DEF Flattening
<1>4. CASE n = 0
  <2>1. FlattenSeq(s) = <<>>
    BY <1>4, EmptySeq DEF FlattenSeq
  <2>2. FlattenSeq(t) = b
    BY <1>1, <1>2, <1>3, <1>4
  <2> QED BY <2>1, <2>2, EmptySeq, ConcatEmptySeq DEF t
<1>5. CASE n # 0
  <2>1. PICK f : Flattening(f, s) /\ FlattenSeq(s) = f[n]
    BY <1>5, FlattenIs
  <2>2. \A i \in 1 .. n : f[i] = IF i = 1 THEN s[i] ELSE f[i - 1] \o s[i]
    BY <2>1 DEF Flattening
  <2> DEFINE E == {i \in Nat : i <= n => f[i] \in Seq(Elem) /\ g[i] = f[i]}
  <2>3. 1 \in E
    <3>1. 1 \in 1 .. n /\ 1 \in 1 .. n + 1
      BY <1>1, <1>5
    <3>2. f[1] = s[1] /\ g[1] = t[1] /\ t[1] = s[1] /\ s[1] \in Seq(Elem)
      BY <1>1, <1>3, <2>2, <3>1
    <3> QED BY <3>2
  <2>4. ASSUME NEW i \in Nat, i >= 1, i \in E
        PROVE  i + 1 \in E
    <3> SUFFICES ASSUME i + 1 <= n
                 PROVE  f[i + 1] \in Seq(Elem) /\ g[i + 1] = f[i + 1]
      OBVIOUS
    <3>1. i + 1 \in 1 .. n /\ i + 1 \in 1 .. n + 1 /\ i + 1 # 1 /\ (i + 1) - 1 = i /\ i <= n
      BY <1>1, <2>4
    <3>2. f[i] \in Seq(Elem) /\ g[i] = f[i]
      BY <2>4, <3>1
    <3>3. f[i + 1] = f[i] \o s[i + 1]
      BY <2>2, <3>1
    <3>4. g[i + 1] = g[i] \o t[i + 1]
      BY <1>3, <3>1
    <3>5. t[i + 1] = s[i + 1] /\ s[i + 1] \in Seq(Elem)
      BY <1>1, <3>1
    <3>6. f[i] \o s[i + 1] \in Seq(Elem)
      BY <3>2, <3>5, ConcatProperties
    <3> QED BY <3>2, <3>3, <3>4, <3>5, <3>6
  <2>5. \A i \in Nat : i >= 1 => i \in E
    <3> HIDE DEF E
    <3> QED BY <2>3, <2>4, Upwards
  <2>6. f[n] \in Seq(Elem) /\ g[n] = f[n]
    BY <1>1, <1>5, <2>5
  <2>7. g[n + 1] = g[n] \o b
    <3>1. n + 1 \in 1 .. n + 1 /\ n + 1 # 1 /\ (n + 1) - 1 = n
      BY <1>1, <1>5
    <3>2. g[n + 1] = g[n] \o t[n + 1]
      BY <1>3, <3>1
    <3> QED BY <1>1, <3>2
  <2> QED BY <1>2, <2>1, <2>6, <2>7 DEF t
<1> QED BY <1>4, <1>5
=============================================================================
