-------------------------- MODULE WalletTextProofs --------------------------
(***************************************************************************)
(* Proofs about the texts a wallet is shown as and made from, for every    *)
(* value of the constants: the Base58 address is the key, the words are    *)
(* the entropy, a passphrase is brought to its normal form whatever the    *)
(* tables are, and none of them leaves its buffer.  The first two rest on  *)
(* the numbers digits stand for (InductionLemmas).                         *)
(***************************************************************************)
EXTENDS Base58, Mnemonic, Nfkd, InductionLemmas

-----------------------------------------------------------------------------
(* Base58: numbers.                                                          *)

LEMMA Bases ==
  /\ ByteBase \in Nat /\ ByteBase >= 2 /\ DigitBase \in Nat /\ DigitBase >= 2
  /\ DigitBase <= ByteBase
  /\ MaxLen \in Nat /\ TmpSize \in Nat /\ KeyLen \in 1 .. MaxLen
  /\ AddressCap \in Nat /\ AddressCap >= 2
BY Base58Assumption

\* Bytes that are all zero stand for zero, and no others do.
LEMMA ZeroNumber ==
  ASSUME NEW n \in Nat, NEW b \in Nat \ {0}, NEW g \in [1 .. n -> Nat]
  PROVE  Numeral(n, 0, b, g) = 0 <=> \A i \in 1 .. n : g[i] = 0
<1>1. 0 \in Nat
  OBVIOUS
<1>2. PICK f : Linear(f, n, 0, b, g)
  BY <1>1, LinearRecursion
<1>3. Numeral(n, 0, b, g) = f[n]
  <2>1. Numbered(f, n, 0, b, g)
    BY <1>1, <1>2 DEF Numbered
  <2> QED BY <2>1, NumeralOf
<1>4. ASSUME \A i \in 1 .. n : g[i] = 0
      PROVE  f[n] = 0
  <2> DEFINE S == {i \in Nat : i <= n => f[i] = 0}
  <2>1. 0 \in S
    BY <1>2 DEF Linear
  <2>2. ASSUME NEW i \in Nat, i \in S
        PROVE  i + 1 \in S
    <3> SUFFICES ASSUME i + 1 <= n PROVE f[i + 1] = 0
      OBVIOUS
    <3>1. i + 1 \in 1 .. n /\ (i + 1) - 1 = i /\ f[i] = 0
      BY <2>2
    <3>2. f[i + 1] = f[i] * b + g[i + 1] /\ g[i + 1] = 0
      BY <1>2, <1>4, <3>1 DEF Linear
    <3> QED BY <3>1, <3>2
  <2>3. \A i \in Nat : i >= 0 => i \in S
    <3> HIDE DEF S
    <3> QED BY <2>1, <2>2, Upwards
  <2> QED BY <2>3
<1>5. ASSUME NEW j \in 1 .. n, g[j] # 0
      PROVE  f[n] # 0
  <2> DEFINE S == {i \in Nat : i <= n => f[i] >= 1}
  <2>1. j \in S
    <3>1. f[j] = f[j - 1] * b + g[j] /\ f[j - 1] \in Nat
      BY <1>2 DEF Linear
    <3>2. g[j] \in Nat /\ g[j] >= 1
      BY <1>5
    <3>3. f[j - 1] * b \in Nat
      BY <3>1
    <3> QED BY <3>1, <3>2, <3>3
  <2>2. ASSUME NEW i \in Nat, i >= j, i \in S
        PROVE  i + 1 \in S
    <3> SUFFICES ASSUME i + 1 <= n PROVE f[i + 1] >= 1
      OBVIOUS
    <3>1. i + 1 \in 1 .. n /\ (i + 1) - 1 = i /\ f[i] >= 1 /\ i \in 0 .. n
      BY <2>2
    <3>2. f[i + 1] = f[i] * b + g[i + 1] /\ g[i + 1] \in Nat /\ f[i] \in Nat
      BY <1>2, <3>1 DEF Linear
    <3>3. \A x \in Nat : x >= 1 => x * b >= 1 /\ x * b \in Nat
      OBVIOUS
    <3> DEFINE x == f[i]
               y == g[i + 1]
    <3>4. x \in Nat /\ x >= 1 /\ y \in Nat /\ f[i + 1] = x * b + y
      BY <3>1, <3>2
    <3> HIDE DEF x, y, S
    <3>5. x * b >= 1 /\ x * b \in Nat
      BY <3>3, <3>4
    <3> QED BY <3>4, <3>5
  <2>3. \A i \in Nat : i >= j => i \in S
    <3>1. j \in Nat
      OBVIOUS
    <3> HIDE DEF S
    <3> QED BY <2>1, <2>2, <3>1, Upwards
  <2> QED BY <2>3
<1> QED BY <1>3, <1>4, <1>5

\* Leading zeros do not count: the number is below the base to the rest.
LEMMA LeadingZerosSmall ==
  ASSUME NEW n \in Nat, NEW b \in Nat \ {0}, NEW g \in [1 .. n -> 0 .. b - 1],
         NEW z \in 0 .. n, \A i \in 1 .. z : g[i] = 0
  PROVE  Numeral(n, 0, b, g) < Power(b, n - z)
<1>1. 0 \in Nat /\ n - z \in Nat /\ z \in Nat
  OBVIOUS
<1>2. g \in [1 .. n -> Nat]
  OBVIOUS
<1>3. PICK f : Linear(f, n, 0, b, g)
  BY <1>1, <1>2, LinearRecursion
<1>4. Numeral(n, 0, b, g) = f[n]
  <2>1. Numbered(f, n, 0, b, g)
    BY <1>1, <1>2, <1>3 DEF Numbered
  <2> QED BY <2>1, NumeralOf
<1>5. f[z] = 0
  <2> DEFINE S == {i \in Nat : i <= z => f[i] = 0}
  <2>1. 0 \in S
    BY <1>3 DEF Linear
  <2>2. ASSUME NEW i \in Nat, i \in S
        PROVE  i + 1 \in S
    <3> SUFFICES ASSUME i + 1 <= z PROVE f[i + 1] = 0
      OBVIOUS
    <3>1. i + 1 \in 1 .. n /\ i + 1 \in 1 .. z /\ (i + 1) - 1 = i /\ f[i] = 0
      BY <2>2
    <3>2. f[i + 1] = f[i] * b + g[i + 1] /\ g[i + 1] = 0
      BY <1>3, <3>1 DEF Linear
    <3> QED BY <3>1, <3>2
  <2>3. \A i \in Nat : i >= 0 => i \in S
    <3> HIDE DEF S
    <3> QED BY <2>1, <2>2, Upwards
  <2> QED BY <1>1, <2>3
<1> DEFINE m == n - z
           h == [i \in 1 .. m |-> g[z + i]]
           e == [i \in 0 .. m |-> f[z + i]]
<1>6. m \in Nat /\ \A i \in 1 .. m : z + i \in 1 .. n /\ (z + i) - 1 = z + (i - 1)
  BY <1>1
<1>7. h \in [1 .. m -> 0 .. b - 1] /\ h \in [1 .. m -> Nat]
  BY <1>6
<1>8. e \in [0 .. m -> Nat] /\ e[0] = 0 /\ e[m] = f[n]
  <2>1. \A i \in 0 .. m : z + i \in 0 .. n
    OBVIOUS
  <2>2. z + 0 = z /\ z + m = n /\ m \in 0 .. m /\ 0 \in 0 .. m
    OBVIOUS
  <2>3. f \in [0 .. n -> Nat]
    BY <1>3 DEF Linear
  <2> HIDE DEF m
  <2> QED BY <1>5, <2>1, <2>2, <2>3
<1>9. ASSUME NEW i \in 1 .. m
      PROVE  e[i] = e[i - 1] * b + h[i]
  <2>1. f[z + i] = f[(z + i) - 1] * b + g[z + i]
    BY <1>3, <1>6 DEF Linear
  <2>2. e[i] = f[z + i] /\ e[i - 1] = f[z + (i - 1)] /\ h[i] = g[z + i]
    OBVIOUS
  <2> QED BY <1>6, <2>1, <2>2
<1> HIDE DEF m, h, e
<1>10. Numbered(e, m, 0, b, h)
  <2>1. Linear(e, m, 0, b, h)
    BY <1>8, <1>9 DEF Linear
  <2> QED BY <1>1, <1>6, <1>7, <2>1 DEF Numbered
<1>11. f[n] = Numeral(m, 0, b, h)
  <2>1. Numeral(m, 0, b, h) = e[m]
    BY <1>10, NumeralOf
  <2> QED BY <1>8, <2>1
<1>12. Numeral(m, 0, b, h) < (0 + 1) * Power(b, m)
  BY <1>1, <1>6, <1>7, NumeralBounds
<1>13. (0 + 1) * Power(b, m) = Power(b, m)
  <2>1. Power(b, m) \in Nat
    BY <1>6, PowerPositive
  <2> QED BY <2>1
<1> QED BY <1>4, <1>11, <1>12, <1>13 DEF m

\* A power of the larger base that a power of the smaller one covers stays
\* covered when both lose as many digits.
LEMMA FewerDigits ==
  ASSUME NEW b \in Nat, NEW d \in Nat, 2 <= d, d <= b, NEW k \in Nat, NEW m \in Nat,
         Power(b, k) <= Power(d, m), NEW z \in 0 .. k
  PROVE  z <= m /\ Power(b, k - z) <= Power(d, m - z)
<1>0. /\ \A i \in Nat : Power(b, i) \in Nat \ {0} /\ Power(b, i + 1) = Power(b, i) * b
      /\ \A i \in Nat : Power(d, i) \in Nat \ {0} /\ Power(d, i + 1) = Power(d, i) * d
      /\ Power(d, 0) = 1
  <2>1. b \in Nat \ {0} /\ d \in Nat \ {0}
    OBVIOUS
  <2>2. /\ \A i \in Nat : Power(b, i) \in Nat \ {0}
        /\ \A i \in Nat : Power(d, i) \in Nat \ {0}
    BY <2>1, PowerPositive
  <2>3. /\ \A i \in Nat : Power(b, i + 1) = Power(b, i) * b
        /\ \A i \in Nat : Power(d, i + 1) = Power(d, i) * d
        /\ Power(d, 0) = 1
    BY PowerSteps
  <2> QED BY <2>2, <2>3
<1> DEFINE S == {i \in Nat : i <= k => i <= m /\ Power(b, k - i) <= Power(d, m - i)}
<1>1. 0 \in S
  OBVIOUS
<1>2. ASSUME NEW i \in Nat, i \in S
      PROVE  i + 1 \in S
  <2> SUFFICES ASSUME i + 1 <= k
               PROVE  i + 1 <= m /\ Power(b, k - (i + 1)) <= Power(d, m - (i + 1))
    OBVIOUS
  <2> DEFINE r == k - (i + 1)
             s == m - (i + 1)
             p == Power(b, r)
  <2>1. r \in Nat /\ r + 1 = k - i
    OBVIOUS
  <2>2. i <= m /\ Power(b, r + 1) <= Power(d, m - i)
    BY <1>2, <2>1
  <2>3. p \in Nat \ {0} /\ Power(b, r + 1) = p * b
    BY <1>0, <2>1
  <2> HIDE DEF p, r
  <2>4. i # m
    <3> SUFFICES ASSUME i = m PROVE FALSE
      OBVIOUS
    <3>1. m - i = 0
      OBVIOUS
    <3>2. p * b <= 1
      BY <1>0, <2>2, <2>3, <3>1
    <3>3. p * b >= 2
      BY <2>3
    <3> QED BY <2>3, <3>2, <3>3
  <2>5. s \in Nat /\ s + 1 = m - i
    BY <2>2, <2>4
  <2> HIDE DEF s
  <2>6. PICK q \in Nat \ {0} : q = Power(d, s) /\ Power(d, s + 1) = q * d
    BY <1>0, <2>5
  <2>7. p * b <= q * d
    BY <2>2, <2>3, <2>5, <2>6
  <2>8. q * d <= q * b
    BY <2>6
  <2>9. p <= q
    <3> SUFFICES ASSUME q < p PROVE FALSE
      BY <2>3, <2>6
    <3>1. (q + 1) * b <= p * b
      BY <2>3, <2>6
    <3>2. (q + 1) * b = q * b + b
      BY <2>6
    <3>3. q * b \in Nat /\ q * d \in Nat /\ p * b \in Nat
      BY <2>3, <2>6
    <3> QED BY <2>7, <2>8, <3>1, <3>2, <3>3
  <2> QED BY <2>2, <2>4, <2>6, <2>9 DEF p, r, s
<1>3. \A i \in Nat : i >= 0 => i \in S
  <2> HIDE DEF S
  <2> QED BY <1>1, <1>2, Upwards
<1> QED BY <1>3

\* An exponent is no larger than one whose power is not smaller.
LEMMA ExponentBelow ==
  ASSUME NEW d \in Nat, 2 <= d, NEW k \in Nat, NEW m \in Nat, Power(d, k) < Power(d, m)
  PROVE  k < m
<1>1. Power(d, k) \in Nat /\ Power(d, m) \in Nat
  BY PowerPositive
<1>2. m <= k => Power(d, m) <= Power(d, k)
  BY PowerGrows
<1> QED BY <1>1, <1>2

-----------------------------------------------------------------------------
(* Base58: one pass of the division.                                         *)

Byte == 0 .. ByteBase - 1
Digit == 0 .. DigitBase - 1

\* What is divided: bytes, those up to first zero.
Dividing(n, first) ==
  /\ n \in Nat /\ first \in 0 .. n
  /\ dividend \in [1 .. n -> Byte]
  /\ \A i \in 1 .. first : dividend[i] = 0

LEMMA OneStepDown ==
  ASSUME NEW r \in Digit, NEW x \in Byte
  PROVE  /\ (r * ByteBase + x) % DigitBase \in Digit
         /\ (r * ByteBase + x) \div DigitBase \in Byte
         /\ r * ByteBase + x
              = ((r * ByteBase + x) \div DigitBase) * DigitBase + ((r * ByteBase + x) % DigitBase)
<1> DEFINE b == ByteBase
           d == DigitBase
           t == r * b + x
           q == t \div d
           m == t % d
<1>1. b \in Nat /\ b >= 2 /\ d \in Nat /\ d >= 2 /\ r \in 0 .. d - 1 /\ x \in 0 .. b - 1
  BY Bases DEF Byte, Digit
<1>2. t \in Nat
  BY <1>1
<1>3. t < d * b
  <2> HIDE DEF b, d
  <2>1. r * b <= (d - 1) * b
    BY <1>1
  <2>2. (d - 1) * b = d * b - b /\ d * b \in Nat /\ r * b \in Nat
    BY <1>1
  <2> QED BY <1>1, <2>1, <2>2
<1>4. q \in Int /\ m \in 0 .. d - 1 /\ t = d * q + m
  <2> HIDE DEF t, d
  <2> QED BY <1>1, <1>2
<1>5. q \in 0 .. b - 1
  <2> HIDE DEF t, d, b, q, m
  <2>1. q >= 0
    <3> SUFFICES ASSUME q <= -1 PROVE FALSE
      BY <1>4
    <3>1. d * q <= d * (-1)
      BY <1>1, <1>4
    <3> QED BY <1>1, <1>2, <1>4, <3>1
  <2>2. q <= b - 1
    <3> SUFFICES ASSUME q >= b PROVE FALSE
      BY <1>1, <1>4
    <3>1. d * q >= d * b
      BY <1>1, <1>4
    <3> QED BY <1>1, <1>2, <1>3, <1>4, <3>1
  <2> QED BY <1>4, <2>1, <2>2
<1>6. t = q * d + m
  <2> HIDE DEF t, q, m, d
  <2>1. d * q = q * d
    BY <1>1, <1>4
  <2> QED BY <1>4, <2>1
<1> QED BY <1>4, <1>5, <1>6 DEF Byte, Digit

LEMMA RemaindersStep ==
  ASSUME NEW n, NEW first, Dividing(n, first)
  PROVE  /\ Remainders(first)[first] = 0
         /\ \A i \in first + 1 .. n :
              /\ Remainders(first)[i - 1] \in Digit
              /\ Remainders(first)[i] = (Remainders(first)[i - 1] * ByteBase + dividend[i]) % DigitBase
         /\ \A i \in first .. n : Remainders(first)[i] \in Digit
<1> DEFINE Turned(r, x) == (r * ByteBase + x) % DigitBase
           Table(R) == R = [i \in first .. n |-> IF i = first THEN 0 ELSE Turned(R[i - 1], dividend[i])]
           rem == CHOOSE R : Table(R)
           k == n - first
           step == [i \in 1 .. k |-> [r \in Digit |-> Turned(r, dividend[first + i])]]
<1>1. n \in Nat /\ first \in 0 .. n /\ dividend \in [1 .. n -> Byte] /\ k \in Nat
  BY DEF Dividing
<1>2. Len(dividend) = n
  BY <1>1, SeqOfFunction
<1>3. Remainders(first) = rem
  BY <1>2 DEF Remainders
<1>4. \A r \in Digit, x \in Byte : Turned(r, x) \in Digit
  BY OneStepDown
<1>5. 0 \in Digit
  BY Bases DEF Digit
<1>6. \A i \in 1 .. k : first + i \in 1 .. n /\ dividend[first + i] \in Byte
  BY <1>1
<1> HIDE DEF Turned, k
<1>7. step \in [1 .. k -> [Digit -> Digit]]
  BY <1>4, <1>6
<1>8. PICK f : Stepwise(f, Digit, k, 0, step)
  <2> HIDE DEF step
  <2> QED BY <1>1, <1>5, <1>7, StepwiseFunction
<1>9. /\ f \in [0 .. k -> Digit] /\ f[0] = 0
      /\ \A i \in 1 .. k : f[i] = Turned(f[i - 1], dividend[first + i])
  <2>1. f \in [0 .. k -> Digit] /\ f[0] = 0 /\ \A i \in 1 .. k : f[i] = step[i][f[i - 1]]
    BY <1>8 DEF Stepwise
  <2>2. \A i \in 1 .. k : f[i - 1] \in Digit
    <3> SUFFICES ASSUME NEW i \in 1 .. k PROVE f[i - 1] \in Digit
      OBVIOUS
    <3>1. i - 1 \in 0 .. k
      BY <1>1
    <3> QED BY <2>1, <3>1
  <2> QED BY <2>1, <2>2
<1> DEFINE R == [i \in first .. n |-> f[i - first]]
<1>10. \A i \in first + 1 .. n : R[i] = Turned(R[i - 1], dividend[i])
  <2> SUFFICES ASSUME NEW i \in first + 1 .. n PROVE R[i] = Turned(R[i - 1], dividend[i])
    OBVIOUS
  <2>1. /\ i - first \in 1 .. k /\ i \in first .. n /\ i - 1 \in first .. n
        /\ (i - 1) - first = (i - first) - 1 /\ first + (i - first) = i
    BY <1>1 DEF k
  <2>2. f[i - first] = Turned(f[(i - first) - 1], dividend[first + (i - first)])
    BY <1>9, <2>1
  <2> QED BY <2>1, <2>2
<1>11. R[first] = 0
  BY <1>1, <1>9
<1>12. Table(R)
  <2>1. \A i \in first .. n : i # first => i \in first + 1 .. n
    BY <1>1
  <2>2. R = [i \in first .. n |-> R[i]]
    OBVIOUS
  <2> HIDE DEF R
  <2> QED BY <1>10, <1>11, <2>1, <2>2
<1>13. Table(rem)
  <2> HIDE DEF Table, R
  <2> QED BY <1>12
<1> HIDE DEF rem, R
<1>14. rem[first] = 0 /\ \A i \in first + 1 .. n : rem[i] = Turned(rem[i - 1], dividend[i])
  <2>1. first \in first .. n /\ \A i \in first + 1 .. n : i \in first .. n /\ i # first
    BY <1>1
  <2> QED BY <1>13, <2>1
<1> DEFINE S == {i \in Nat : i <= n => rem[i] \in Digit}
<1>15. first \in S
  BY <1>1, <1>5, <1>14
<1>16. ASSUME NEW i \in Nat, i >= first, i \in S
       PROVE  i + 1 \in S
  <2> SUFFICES ASSUME i + 1 <= n PROVE rem[i + 1] \in Digit
    OBVIOUS
  <2>1. i + 1 \in first + 1 .. n /\ (i + 1) - 1 = i /\ rem[i] \in Digit /\ i + 1 \in 1 .. n
    BY <1>1, <1>16
  <2>2. rem[i + 1] = Turned(rem[i], dividend[i + 1]) /\ dividend[i + 1] \in Byte
    BY <1>1, <1>14, <2>1
  <2> QED BY <1>4, <2>1, <2>2
<1>17. \A i \in Nat : i >= first => i \in S
  <2>1. first \in Nat
    BY <1>1
  <2> HIDE DEF S
  <2> QED BY <1>15, <1>16, <2>1, Upwards
<1>18. \A i \in first .. n : rem[i] \in Digit
  <2> SUFFICES ASSUME NEW i \in first .. n PROVE rem[i] \in Digit
    OBVIOUS
  <2>1. i \in Nat /\ i >= first /\ i <= n
    BY <1>1
  <2> QED BY <1>17, <2>1
<1>19. \A i \in first + 1 .. n : i - 1 \in first .. n
  BY <1>1
<1> QED BY <1>3, <1>14, <1>18, <1>19 DEF Turned

\* Dividing byte by byte is dividing the number.
LEMMA LongDivision ==
  ASSUME NEW n, NEW first, Dividing(n, first)
  PROVE  /\ Quotients(first) \in [1 .. n -> Byte]
         /\ \A i \in 1 .. first : Quotients(first)[i] = 0
         /\ Remainders(first)[n] \in Digit
         /\ Numeral(n, 0, ByteBase, Quotients(first)) \in Nat
         /\ Numeral(n, 0, ByteBase, dividend)
              = Numeral(n, 0, ByteBase, Quotients(first)) * DigitBase + Remainders(first)[n]
<1> DEFINE R == Remainders(first)
           Q == Quotients(first)
           b == ByteBase
           d == DigitBase
<1>1. /\ n \in Nat /\ first \in 0 .. n /\ dividend \in [1 .. n -> Byte]
      /\ \A i \in 1 .. first : dividend[i] = 0
  BY DEF Dividing
<1>2. /\ R[first] = 0
      /\ \A i \in first + 1 .. n :
           R[i - 1] \in Digit /\ R[i] = (R[i - 1] * b + dividend[i]) % d
      /\ \A i \in first .. n : R[i] \in Digit
  BY RemaindersStep
<1>3. Q = [i \in 1 .. n |-> IF i > first THEN (R[i - 1] * b + dividend[i]) \div d ELSE dividend[i]]
  BY <1>1 DEF Quotients
<1>4. b \in Nat \ {0} /\ d \in Nat \ {0}
  BY Bases
<1>5. ASSUME NEW i \in first + 1 .. n
      PROVE  /\ Q[i] \in Byte
             /\ R[i - 1] * b + dividend[i] = Q[i] * d + R[i]
             /\ R[i - 1] \in Nat /\ dividend[i] \in Nat /\ R[i] \in Nat
  <2>1. i \in 1 .. n /\ i > first
    BY <1>1
  <2>2. R[i - 1] \in Digit /\ dividend[i] \in Byte /\ R[i] = (R[i - 1] * b + dividend[i]) % d
    BY <1>1, <1>2, <2>1
  <2>3. Q[i] = (R[i - 1] * b + dividend[i]) \div d
    BY <1>3, <2>1
  <2>4. R[i] \in Digit
    BY <2>2, OneStepDown
  <2> HIDE DEF Q, R
  <2>5. Q[i] \in Byte /\ R[i - 1] * b + dividend[i] = Q[i] * d + R[i]
    BY <2>2, <2>3, OneStepDown
  <2> QED BY <2>2, <2>4, <2>5, Bases DEF Byte, Digit
<1> HIDE DEF R, Q, b, d
<1>6. \A i \in 1 .. n : i <= first => Q[i] = 0 /\ dividend[i] = 0
  <2> SUFFICES ASSUME NEW i \in 1 .. n, i <= first PROVE Q[i] = 0 /\ dividend[i] = 0
    OBVIOUS
  <2>1. i \in 1 .. first /\ ~(i > first)
    BY <1>1
  <2> QED BY <1>1, <1>3, <2>1
<1>7. Q \in [1 .. n -> Byte]
  <2>1. ASSUME NEW i \in 1 .. n PROVE Q[i] \in Byte
    <3>1. 0 \in Byte
      BY Bases DEF Byte
    <3>2. CASE i <= first
      BY <1>6, <3>1, <3>2
    <3>3. CASE ~(i <= first)
      <4>1. i \in first + 1 .. n
        BY <1>1, <3>3
      <4> QED BY <1>5, <4>1
    <3> QED BY <3>2, <3>3
  <2>2. Q = [i \in 1 .. n |-> Q[i]]
    BY <1>3
  <2> QED BY <2>1, <2>2
<1>8. Q \in [1 .. n -> Nat] /\ dividend \in [1 .. n -> Nat] /\ 0 \in Nat
  BY <1>1, <1>7 DEF Byte
<1>9. PICK f : Linear(f, n, 0, b, dividend)
  BY <1>1, <1>4, <1>8, LinearRecursion
<1>10. PICK e : Linear(e, n, 0, b, Q)
  BY <1>1, <1>4, <1>8, LinearRecursion
<1>11. /\ Numeral(n, 0, b, dividend) = f[n] /\ Numeral(n, 0, b, Q) = e[n]
       /\ Numeral(n, 0, b, Q) \in Nat
  <2>1. Numbered(f, n, 0, b, dividend) /\ Numbered(e, n, 0, b, Q)
    BY <1>1, <1>4, <1>8, <1>9, <1>10 DEF Numbered
  <2> QED BY <2>1, NumeralOf
<1>12. /\ f \in [0 .. n -> Nat] /\ f[0] = 0 /\ \A i \in 1 .. n : f[i] = f[i - 1] * b + dividend[i]
       /\ e \in [0 .. n -> Nat] /\ e[0] = 0 /\ \A i \in 1 .. n : e[i] = e[i - 1] * b + Q[i]
  BY <1>9, <1>10 DEF Linear
<1> DEFINE Zero == {i \in Nat : i <= first => f[i] = 0 /\ e[i] = 0}
           Divided == {i \in Nat : i <= n => f[i] = e[i] * d + R[i]}
<1>13. 0 \in Zero
  BY <1>12
<1>14. ASSUME NEW i \in Nat, i \in Zero
       PROVE  i + 1 \in Zero
  <2> SUFFICES ASSUME i + 1 <= first PROVE f[i + 1] = 0 /\ e[i + 1] = 0
    OBVIOUS
  <2>1. i + 1 \in 1 .. n /\ (i + 1) - 1 = i /\ f[i] = 0 /\ e[i] = 0
    BY <1>1, <1>14
  <2>2. Q[i + 1] = 0 /\ dividend[i + 1] = 0
    BY <1>6, <2>1
  <2>3. f[i + 1] = 0 * b + 0 /\ e[i + 1] = 0 * b + 0
    BY <1>12, <2>1, <2>2
  <2> QED BY <1>4, <2>3
<1>15. \A i \in Nat : i >= 0 => i \in Zero
  <2> HIDE DEF Zero
  <2> QED BY <1>13, <1>14, Upwards
<1>16. first \in Divided
  <2>1. f[first] = 0 /\ e[first] = 0 /\ first \in Nat
    BY <1>1, <1>15
  <2> QED BY <1>2, <1>4, <2>1
<1>17. ASSUME NEW i \in Nat, i >= first, i \in Divided
       PROVE  i + 1 \in Divided
  <2> SUFFICES ASSUME i + 1 <= n PROVE f[i + 1] = e[i + 1] * d + R[i + 1]
    OBVIOUS
  <2>1. i + 1 \in 1 .. n /\ i + 1 \in first + 1 .. n /\ (i + 1) - 1 = i /\ i \in 0 .. n
    BY <1>1, <1>17
  <2>2. f[i] = e[i] * d + R[i]
    BY <1>1, <1>17, <2>1
  <2>3. f[i + 1] = f[i] * b + dividend[i + 1] /\ e[i + 1] = e[i] * b + Q[i + 1]
    BY <1>12, <2>1
  <2>4. /\ R[i] * b + dividend[i + 1] = Q[i + 1] * d + R[i + 1]
        /\ R[i] \in Nat /\ dividend[i + 1] \in Nat /\ R[i + 1] \in Nat /\ Q[i + 1] \in Nat
    BY <1>5, <2>1 DEF Byte
  <2> DEFINE u == e[i]
             v == R[i]
             w == dividend[i + 1]
             x == R[i + 1]
             y == Q[i + 1]
             z == e[i + 1]
  <2>5. u \in Nat /\ v \in Nat /\ w \in Nat /\ x \in Nat /\ y \in Nat /\ z \in Nat
    <3>1. i + 1 \in 0 .. n
      BY <2>1
    <3>2. e[i] \in Nat /\ e[i + 1] \in Nat
      BY <1>12, <2>1, <3>1
    <3> QED BY <2>4, <3>2
  <2>6. f[i + 1] = (u * d + v) * b + w /\ z = u * b + y /\ v * b + w = y * d + x
    BY <2>2, <2>3, <2>4
  <2>9. f[i + 1] = z * d + x <=> f[i + 1] = e[i + 1] * d + R[i + 1]
    OBVIOUS
  <2> HIDE DEF u, v, w, x, y, z
  <2>7. (u * d + v) * b + w = (u * b) * d + (v * b + w)
    <3>1. (u * d + v) * b = (u * b) * d + v * b
      BY <1>4, <2>5
    <3>2. (u * b) * d \in Nat /\ v * b \in Nat
      BY <1>4, <2>5
    <3> QED BY <2>5, <3>1, <3>2
  <2>8. z * d + x = (u * b) * d + (y * d + x)
    <3>1. (u * b + y) * d = (u * b) * d + y * d
      BY <1>4, <2>5
    <3>2. (u * b) * d \in Nat /\ y * d \in Nat
      BY <1>4, <2>5
    <3> QED BY <2>5, <2>6, <3>1, <3>2
  <2> QED BY <2>5, <2>6, <2>7, <2>8, <2>9
<1>18. \A i \in Nat : i >= first => i \in Divided
  <2>1. first \in Nat
    BY <1>1
  <2> HIDE DEF Divided
  <2> QED BY <1>16, <1>17, <2>1, Upwards
<1>19. f[n] = e[n] * d + R[n]
  BY <1>1, <1>18
<1>20. R[n] \in Digit
  BY <1>1, <1>2
<1>21. \A i \in 1 .. first : Q[i] = 0
  BY <1>1, <1>6
<1> QED BY <1>7, <1>11, <1>19, <1>20, <1>21 DEF R, Q, b, d

LEMMA SkippedZeros ==
  ASSUME NEW n \in Nat, NEW bytes \in [1 .. n -> Nat], NEW first \in 0 .. n
  PROVE  /\ SkipZeros(bytes, first) \in first .. n
         /\ \A i \in first + 1 .. SkipZeros(bytes, first) : bytes[i] = 0
         /\ SkipZeros(bytes, first) < n => bytes[SkipZeros(bytes, first) + 1] # 0
<1> DEFINE Ends(k) == (\A i \in first + 1 .. k : bytes[i] = 0) /\ (k < n => bytes[k + 1] # 0)
           T == {k \in first .. n : k < n => bytes[k + 1] # 0}
<1>1. Len(bytes) = n
  BY SeqOfFunction
<1>2. T \in SUBSET Nat /\ n \in T
  OBVIOUS
<1>3. PICK k \in T : \A j \in T : k <= j
  <2> HIDE DEF T
  <2> QED BY <1>2, LeastElement
<1>4. k \in first .. n /\ Ends(k)
  <2>1. ASSUME NEW i \in first + 1 .. k PROVE bytes[i] = 0
    <3>1. i - 1 \in first .. n /\ i - 1 < n /\ (i - 1) + 1 = i /\ ~(k <= i - 1)
      BY <1>3
    <3>2. i - 1 \notin T
      BY <1>3, <3>1
    <3> QED BY <3>1, <3>2
  <2> QED BY <1>3, <2>1
<1>5. SkipZeros(bytes, first) = CHOOSE m \in first .. n : Ends(m)
  BY <1>1 DEF SkipZeros
<1>6. SkipZeros(bytes, first) \in first .. n /\ Ends(SkipZeros(bytes, first))
  <2> HIDE DEF Ends
  <2> QED BY <1>4, <1>5
<1> QED BY <1>6

-----------------------------------------------------------------------------
(* Base58: the call.                                                         *)

InputNumber == Numeral(Len(input), 0, ByteBase, input)
Remaining == Numeral(Len(input), 0, ByteBase, dividend)
\* The number that n makes with the digits found so far behind it.
WithDigits(n) == Numeral(Len(tmp), n, DigitBase, Reverse(tmp))

\* Nothing of the number is lost: what is still to be divided and the digits
\* found stand for the input, and the last digit found leads the text if nothing
\* is left to divide.
InDivision ==
  /\ Len(input) \in 1 .. MaxLen
  /\ Dividing(Len(input), start)
  /\ InputNumber = WithDigits(Remaining)
  /\ Remaining = 0 /\ tmp # <<>> => tmp[Len(tmp)] # 0

Base58Inv ==
  /\ Len(input) \in DataLens /\ input \in [1 .. Len(input) -> Byte]
  /\ outCap \in OutCaps
  /\ tmp \in Seq(Digit)
  /\ Len(tmp) <= TmpSize
  /\ encoding \in {"check", "divide", "done", "refused"}
  /\ encoding \in {"check", "divide"} => out = <<>>
  /\ encoding = "check" => tmp = <<>>
  /\ encoding = "divide" => InDivision
  /\ Base58Sound

LEMMA Reversed ==
  ASSUME NEW s \in Seq(Digit)
  PROVE  /\ Len(s) \in Nat
         /\ Reverse(s) \in [1 .. Len(s) -> Digit]
         /\ Reverse(s) \in [1 .. Len(s) -> Nat]
         /\ \A r \in Digit : /\ Len(Append(s, r)) = Len(s) + 1
                             /\ Reverse(Append(s, r))[1] = r
                             /\ \A i \in 1 .. Len(s) : Reverse(Append(s, r))[i + 1] = Reverse(s)[i]
<1>1. Len(s) \in Nat /\ \A i \in 1 .. Len(s) : s[i] \in Digit
  BY LenProperties, ElementOfSeq
<1>2. Reverse(s) \in [1 .. Len(s) -> Digit]
  <2>1. \A i \in 1 .. Len(s) : (Len(s) - i) + 1 \in 1 .. Len(s)
    BY <1>1
  <2> QED BY <1>1, <2>1 DEF Reverse
<1>3. Digit \subseteq Nat
  BY Bases DEF Digit
<1>4. ASSUME NEW r \in Digit
      PROVE  /\ Len(Append(s, r)) = Len(s) + 1
             /\ Reverse(Append(s, r))[1] = r
             /\ \A i \in 1 .. Len(s) : Reverse(Append(s, r))[i + 1] = Reverse(s)[i]
  <2> DEFINE t == Append(s, r)
             n == Len(s)
  <2>1. Len(t) = n + 1 /\ t[n + 1] = r /\ \A i \in 1 .. n : t[i] = s[i]
    BY AppendProperties
  <2> HIDE DEF t
  <2>2. Reverse(t) = [i \in 1 .. n + 1 |-> t[((n + 1) - i) + 1]]
    BY <2>1 DEF Reverse
  <2>3. Reverse(t)[1] = r
    <3>1. ((n + 1) - 1) + 1 = n + 1 /\ 1 \in 1 .. n + 1
      BY <1>1
    <3> QED BY <2>1, <2>2, <3>1
  <2>4. ASSUME NEW i \in 1 .. n PROVE Reverse(t)[i + 1] = Reverse(s)[i]
    <3>1. ((n + 1) - (i + 1)) + 1 = (n - i) + 1 /\ (n - i) + 1 \in 1 .. n /\ i + 1 \in 1 .. n + 1
      BY <1>1
    <3>2. Reverse(t)[i + 1] = t[(n - i) + 1]
      BY <2>2, <3>1
    <3>3. Reverse(s)[i] = s[(n - i) + 1]
      BY DEF Reverse
    <3> QED BY <2>1, <3>1, <3>2, <3>3
  <2> QED BY <2>1, <2>3, <2>4 DEF t
<1> QED BY <1>1, <1>2, <1>3, <1>4

LEMMA BytesAreNumbers == Byte \subseteq Nat /\ 0 \in Byte /\ ByteBase \in Nat \ {0} /\ DigitBase \in Nat \ {0}
BY Bases DEF Byte

\* The digits found fit tmp as long as something is left to divide, and the text
\* of a public key fits an address.
LEMMA DigitsFit ==
  ASSUME Base58Inv, encoding = "divide", Remaining # 0
  PROVE  Len(tmp) < TmpSize
<1> DEFINE n == Len(input)
           k == Len(tmp)
<1>1. /\ n \in Nat /\ n \in DataLens /\ n <= MaxLen /\ dividend \in [1 .. n -> Byte]
      /\ input \in [1 .. n -> Byte] /\ tmp \in Seq(Digit)
      /\ InputNumber = WithDigits(Remaining)
  BY Bases DEF Base58Inv, InDivision, Dividing
<1>2. Remaining \in Nat /\ Remaining >= 1
  <2>1. dividend \in [1 .. n -> Nat] /\ 0 \in Nat
    BY <1>1, BytesAreNumbers
  <2>2. Remaining \in Nat
    BY <1>1, <2>1, BytesAreNumbers, NumeralTyped DEF Remaining
  <2> QED BY <2>2
<1>3. k \in Nat /\ Reverse(tmp) \in [1 .. k -> Digit]
  BY <1>1, Reversed
<1>4. Remaining * Power(DigitBase, k) <= InputNumber
  <2>1. Reverse(tmp) \in [1 .. k -> 0 .. DigitBase - 1]
    BY <1>3 DEF Digit
  <2> HIDE DEF k
  <2>2. Remaining * Power(DigitBase, k) <= Numeral(k, Remaining, DigitBase, Reverse(tmp))
    BY <1>2, <1>3, <2>1, BytesAreNumbers, NumeralBounds
  <2> QED BY <1>1, <2>2 DEF WithDigits, k
<1>5. InputNumber < Power(ByteBase, n)
  <2>1. input \in [1 .. n -> 0 .. ByteBase - 1] /\ 0 \in 0 .. n /\ n - 0 = n /\ \A i \in 1 .. 0 : input[i] = 0
    BY <1>1 DEF Byte
  <2> HIDE DEF n
  <2>2. Numeral(n, 0, ByteBase, input) < Power(ByteBase, n - 0)
    BY <1>1, <2>1, BytesAreNumbers, LeadingZerosSmall
  <2> QED BY <2>1, <2>2 DEF InputNumber, n
<1>6. Power(ByteBase, n) <= Power(DigitBase, TmpSize)
  BY <1>1, Base58Assumption
<1>7. /\ Power(DigitBase, k) \in Nat /\ Power(ByteBase, n) \in Nat /\ Power(DigitBase, TmpSize) \in Nat
  <2> HIDE DEF k, n
  <2> QED BY <1>1, <1>3, Bases, BytesAreNumbers, PowerPositive
<1>8. InputNumber \in Nat
  <2>1. input \in [1 .. n -> Nat] /\ 0 \in Nat
    BY <1>1, BytesAreNumbers
  <2> QED BY <1>1, <2>1, BytesAreNumbers, NumeralTyped DEF InputNumber
<1> HIDE DEF k, n
<1>9. Power(DigitBase, k) <= Remaining * Power(DigitBase, k) /\ Remaining * Power(DigitBase, k) \in Nat
  <2>1. \A x, y \in Nat : x >= 1 => y <= x * y /\ x * y \in Nat
    OBVIOUS
  <2> QED BY <1>2, <1>7, <2>1
<1>10. Power(DigitBase, k) < Power(DigitBase, TmpSize)
  BY <1>4, <1>5, <1>6, <1>7, <1>8, <1>9
<1>11. k < TmpSize
  BY <1>3, <1>10, Bases, ExponentBelow
<1> QED BY <1>11 DEF k

LEMMA LeadingZerosOf ==
  ASSUME Base58Inv
  PROVE  /\ LeadingZeros \in 0 .. Len(input)
         /\ \A i \in 1 .. LeadingZeros : input[i] = 0
<1> DEFINE n == Len(input)
           zero == 0
<1>1. n \in Nat /\ input \in [1 .. n -> Nat]
  BY BytesAreNumbers, Bases, Base58Assumption DEF Base58Inv
<1>2. zero \in 0 .. n /\ zero + 1 = 1 /\ LeadingZeros = SkipZeros(input, zero)
  BY <1>1 DEF LeadingZeros
<1> HIDE DEF n, zero
<1>3. /\ SkipZeros(input, zero) \in zero .. n
      /\ \A i \in zero + 1 .. SkipZeros(input, zero) : input[i] = 0
  BY <1>1, <1>2, SkippedZeros
<1> QED BY <1>2, <1>3 DEF n, zero

\* At the end the digits are the number, the first of them is not zero, and what
\* is missing to a full number of digits is made up by ones.
LEMMA AllDigits ==
  ASSUME Base58Inv, encoding = "divide", start = Len(input)
  PROVE  /\ WithDigits(0) = InputNumber
         /\ tmp # <<>> => tmp[Len(tmp)] # 0
<1> DEFINE n == Len(input)
<1>1. /\ n \in Nat /\ dividend \in [1 .. n -> Byte] /\ \A i \in 1 .. n : dividend[i] = 0
      /\ InputNumber = WithDigits(Remaining)
      /\ Remaining = 0 /\ tmp # <<>> => tmp[Len(tmp)] # 0
  BY DEF Base58Inv, InDivision, Dividing
<1>2. dividend \in [1 .. n -> Nat]
  BY <1>1, BytesAreNumbers
<1>3. Remaining = 0
  <2> HIDE DEF n
  <2>1. Numeral(n, 0, ByteBase, dividend) = 0
    BY <1>1, <1>2, BytesAreNumbers, ZeroNumber
  <2> QED BY <2>1 DEF Remaining, n
<1> QED BY <1>1, <1>3

LEMMA AddressFits ==
  ASSUME Base58Inv, encoding = "divide", start = Len(input),
         Len(input) = KeyLen, outCap = AddressCap
  PROVE  ~NoRoomForOut
<1> DEFINE k == Len(tmp)
           z == LeadingZeros
           m == AddressCap - 1
<1>1. /\ KeyLen \in Nat /\ m \in Nat /\ input \in [1 .. KeyLen -> Byte]
      /\ tmp \in Seq(Digit) /\ z \in 0 .. KeyLen /\ z \in Nat /\ KeyLen - z \in Nat
      /\ \A i \in 1 .. z : input[i] = 0
  BY Bases, LeadingZerosOf DEF Base58Inv
<1>2. Power(ByteBase, KeyLen) <= Power(DigitBase, m)
  BY Base58Assumption
<1> HIDE DEF m, z, k
<1>3. z <= m /\ Power(ByteBase, KeyLen - z) <= Power(DigitBase, m - z)
  BY <1>1, <1>2, Bases, FewerDigits
<1>4. z + k <= m
  <2>1. k \in Nat /\ Reverse(tmp) \in [1 .. k -> Digit]
    BY <1>1, Reversed DEF k
  <2>2. CASE k = 0
    BY <1>1, <1>3, <2>2
  <2>3. CASE k # 0
    <3>1. k - 1 \in Nat /\ tmp # <<>> /\ 1 \in 1 .. k
      BY <2>1, <2>3 DEF k
    <3>2. Reverse(tmp)[1] = tmp[k]
      <4>1. (k - 1) + 1 = k
        BY <2>1
      <4> QED BY <3>1, <4>1 DEF Reverse, k
    <3>3. Reverse(tmp)[1] \in Nat /\ Reverse(tmp)[1] >= 1
      <4>1. tmp[k] # 0
        BY <3>1, AllDigits DEF k
      <4> QED BY <2>1, <3>1, <3>2, <4>1, Bases DEF Digit
    <3> DEFINE l == k - 1
               h == Reverse(tmp)
               g == [i \in 1 .. l |-> h[i + 1]]
               top == h[1]
    <3>4. l \in Nat /\ l + 1 = k /\ h \in [1 .. l + 1 -> Nat]
      BY <2>1, <3>1, Bases DEF Digit
    <3>5. g \in [1 .. l -> 0 .. DigitBase - 1] /\ g \in [1 .. l -> Nat]
      <4>1. \A i \in 1 .. l : i + 1 \in 1 .. k
        BY <2>1
      <4> QED BY <2>1, <4>1, Bases DEF Digit
    <3>6. top \in Nat /\ top >= 1 /\ 0 * DigitBase + top = top
      BY <3>3, Bases
    <3>7. \A i \in 1 .. l : h[i + 1] = g[i]
      OBVIOUS
    <3>8. WithDigits(0) = Numeral(l + 1, 0, DigitBase, h)
      BY <3>4 DEF WithDigits, k
    <3> HIDE DEF l, h, g, k
    <3>9. Numeral(l + 1, 0, DigitBase, h) = Numeral(l, 0 * DigitBase + top, DigitBase, g)
      <4>1. OneMore(h, l, g) /\ 0 \in Nat /\ DigitBase \in Nat
        BY <3>4, <3>5, <3>7, BytesAreNumbers DEF OneMore
      <4> QED BY <4>1, NumeralFirst
    <3> HIDE DEF top
    <3>10. top * Power(DigitBase, l) <= Numeral(l, top, DigitBase, g)
      BY <3>4, <3>5, <3>6, BytesAreNumbers, NumeralBounds
    <3>11. top * Power(DigitBase, l) <= InputNumber
      BY <3>6, <3>8, <3>9, <3>10, AllDigits
    <3>12. InputNumber < Power(ByteBase, KeyLen - z)
      <4>1. input \in [1 .. KeyLen -> 0 .. ByteBase - 1]
        BY <1>1 DEF Byte
      <4>2. Numeral(KeyLen, 0, ByteBase, input) < Power(ByteBase, KeyLen - z)
        BY <1>1, <4>1, BytesAreNumbers, LeadingZerosSmall
      <4> QED BY <4>2 DEF InputNumber
    <3>13. m - z \in Nat
      BY <1>1, <1>3
    <3>14. /\ Power(DigitBase, l) \in Nat /\ Power(DigitBase, m - z) \in Nat
           /\ Power(ByteBase, KeyLen - z) \in Nat
      BY <1>1, <3>4, <3>13, BytesAreNumbers, PowerPositive
    <3>15. InputNumber \in Nat
      <4>1. input \in [1 .. KeyLen -> Nat] /\ 0 \in Nat
        BY <1>1, BytesAreNumbers
      <4> QED BY <1>1, <4>1, BytesAreNumbers, NumeralTyped DEF InputNumber
    <3>16. /\ Power(DigitBase, l) <= top * Power(DigitBase, l)
           /\ top * Power(DigitBase, l) \in Nat
      <4>1. \A x, y \in Nat : x >= 1 => y <= x * y /\ x * y \in Nat
        OBVIOUS
      <4> QED BY <3>6, <3>14, <4>1
    <3>17. Power(DigitBase, l) < Power(DigitBase, m - z)
      BY <1>3, <3>11, <3>12, <3>14, <3>15, <3>16
    <3>18. l < m - z
      BY <3>4, <3>13, <3>17, Bases, ExponentBelow
    <3> QED BY <1>1, <3>4, <3>18, <2>1
  <2> QED BY <2>2, <2>3
<1>5. k \in Nat
  BY <1>1, Reversed DEF k
<1> QED BY <1>1, <1>4, <1>5, Bases DEF NoRoomForOut, m, z, k

LEMMA PassKeeps ==
  ASSUME Base58Inv, DividePass
  PROVE  Base58Inv'
<1> DEFINE n == Len(input)
           Q == Quotients(start)
           r == Remainders(start)[n]
           whole == Numeral(n, 0, ByteBase, Q)
           behind == SkipZeros(Q, start)
<1>1. /\ encoding = "divide" /\ start < n
      /\ dividend' = Q
      /\ tmp' = IF SomeDigit(Q, r) THEN Append(tmp, r) ELSE tmp
      /\ start' = behind
      /\ input' = input /\ outCap' = outCap /\ out' = out /\ encoding' = encoding
  BY DEF DividePass
<1>2. /\ n \in DataLens /\ input \in [1 .. n -> Byte] /\ outCap \in OutCaps
      /\ tmp \in Seq(Digit) /\ Len(tmp) <= TmpSize /\ out = <<>>
      /\ n \in 1 .. MaxLen /\ Dividing(n, start)
      /\ InputNumber = WithDigits(Remaining)
      /\ Remaining = 0 /\ tmp # <<>> => tmp[Len(tmp)] # 0
  BY <1>1 DEF Base58Inv, InDivision
<1>3. n \in Nat /\ start \in 0 .. n /\ start \in Nat
  BY <1>2 DEF Dividing
<1> HIDE DEF n
<1>4. /\ Q \in [1 .. n -> Byte] /\ (\A i \in 1 .. start : Q[i] = 0) /\ r \in Digit
      /\ whole \in Nat /\ Remaining = whole * DigitBase + r
  BY <1>2, LongDivision DEF Remaining, n
<1>5. Q \in [1 .. n -> Nat]
  BY <1>4, BytesAreNumbers
<1>6. behind \in start .. n /\ \A i \in start + 1 .. behind : Q[i] = 0
  <2> HIDE DEF Q
  <2> QED BY <1>3, <1>5, SkippedZeros
<1> HIDE DEF Q, r, behind
<1>7. whole = 0 <=> \A i \in 1 .. n : Q[i] = 0
  BY <1>3, <1>5, BytesAreNumbers, ZeroNumber
<1>8. SomeDigit(Q, r) <=> r # 0 \/ whole # 0
  <2>1. DOMAIN Q = 1 .. n
    BY <1>4
  <2>2. (\E i \in DOMAIN Q : i > start /\ Q[i] # 0) <=> \E i \in 1 .. n : Q[i] # 0
    <3>1. \A i \in 1 .. n : i > start \/ i \in 1 .. start
      BY <1>3
    <3> QED BY <1>4, <2>1, <3>1
  <2> QED BY <1>7, <2>2 DEF SomeDigit
<1> HIDE DEF whole
<1>9. Dividing(n, start)' /\ Remaining' = whole /\ InputNumber' = InputNumber
  <2>1. Remaining' = whole
    BY <1>1 DEF Remaining, whole, n
  <2>2. InputNumber' = InputNumber
    BY <1>1 DEF InputNumber
  <2>3. n' = n
    BY <1>1 DEF n
  <2>4. start' \in 0 .. n /\ dividend' \in [1 .. n -> Byte]
    BY <1>1, <1>3, <1>4, <1>6
  <2>5. \A i \in 1 .. start' : dividend'[i] = 0
    <3>1. \A i \in 1 .. behind : i \in 1 .. start \/ i \in start + 1 .. behind
      BY <1>3, <1>6
    <3> QED BY <1>1, <1>4, <1>6, <3>1
  <2> QED BY <1>3, <2>1, <2>2, <2>3, <2>4, <2>5 DEF Dividing
<1>10. /\ Len(tmp) \in Nat /\ Reverse(tmp) \in [1 .. Len(tmp) -> Nat]
       /\ Len(Append(tmp, r)) = Len(tmp) + 1
       /\ Reverse(Append(tmp, r))[1] = r
       /\ \A i \in 1 .. Len(tmp) : Reverse(Append(tmp, r))[i + 1] = Reverse(tmp)[i]
  BY <1>2, <1>4, Reversed
<1>11. whole * DigitBase \in Nat /\ r \in Nat
  BY <1>4, BytesAreNumbers, Bases DEF Digit
<1>12. /\ tmp' \in Seq(Digit) /\ Len(tmp') <= TmpSize
       /\ InputNumber' = Numeral(Len(tmp'), whole, DigitBase, Reverse(tmp'))
       /\ whole = 0 /\ tmp' # <<>> => tmp'[Len(tmp')] # 0
  <2>1. CASE SomeDigit(Q, r)
    <3> DEFINE t == Append(tmp, r)
               k == Len(tmp)
               g == Reverse(tmp)
               h == Reverse(t)
    <3>1. tmp' = t /\ t \in Seq(Digit) /\ t[Len(t)] = r
      <4>1. t[Len(t)] = r
        BY <1>2, <1>4, <1>10, AppendProperties
      <4> QED BY <1>1, <1>2, <1>4, <2>1, <4>1, AppendProperties
    <3>2. Len(t) = k + 1 /\ h \in [1 .. k + 1 -> Nat]
      BY <1>10, <3>1, Reversed
    <3>3. OneMore(h, k, g) /\ h[1] = r
      BY <1>10, <3>2 DEF OneMore
    <3>4. WithDigits(Remaining) = Numeral(k, Remaining, DigitBase, g)
      BY DEF WithDigits
    <3> HIDE DEF t, k, g, h
    <3>5. Numeral(k + 1, whole, DigitBase, h) = Numeral(k, whole * DigitBase + h[1], DigitBase, g)
      <4>1. OneMore(h, k, g) /\ whole \in Nat /\ DigitBase \in Nat
        BY <1>4, <3>3, Bases
      <4> QED BY <4>1, NumeralFirst
    <3>6. InputNumber = Numeral(Len(t), whole, DigitBase, h)
      BY <1>2, <1>4, <3>2, <3>3, <3>4, <3>5
    <3>7. Remaining # 0
      <4>1. CASE whole = 0
        BY <1>4, <1>8, <1>11, <2>1, <4>1, Bases
      <4>2. CASE whole # 0
        <5>1. \A x \in Nat : x # 0 => x * DigitBase >= 1
          BY Bases
        <5>2. whole * DigitBase >= 1
          BY <1>4, <4>2, <5>1
        <5> QED BY <1>4, <1>11, <5>2
      <4> QED BY <4>1, <4>2
    <3>8. Len(t) <= TmpSize
      <4>1. k < TmpSize
        BY <1>1, <3>7, DigitsFit DEF k
      <4>2. k \in Nat
        BY <1>10 DEF k
      <4> QED BY <3>2, <4>1, <4>2, Bases
    <3>9. whole = 0 => r # 0
      BY <1>8, <2>1
    <3> QED BY <1>9, <3>1, <3>6, <3>8, <3>9 DEF h
  <2>2. CASE ~SomeDigit(Q, r)
    <3>1. tmp' = tmp
      BY <1>1, <2>2
    <3>2. whole = 0 /\ r = 0
      BY <1>8, <2>2
    <3>3. Remaining = whole
      BY <1>4, <3>2, Bases
    <3>4. InputNumber' = Numeral(Len(tmp'), whole, DigitBase, Reverse(tmp'))
      BY <1>2, <1>9, <3>1, <3>3 DEF WithDigits
    <3> QED BY <1>2, <3>1, <3>2, <3>3, <3>4
  <2> QED BY <2>1, <2>2
<1>13. InDivision'
  <2>1. n' = n
    BY <1>1 DEF n
  <2> QED BY <1>2, <1>9, <1>12, <2>1 DEF InDivision, WithDigits, n
<1>14. Base58Sound'
  <2>1. encoding' = "divide"
    BY <1>1
  <2> QED BY <1>12, <2>1 DEF Base58Sound, Base58Exact, Base58Fits
<1> QED BY <1>1, <1>2, <1>12, <1>13, <1>14 DEF Base58Inv, n

LEMMA CheckKeeps ==
  ASSUME Base58Inv, CheckLength
  PROVE  Base58Inv'
<1>1. /\ encoding = "check" /\ input' = input /\ outCap' = outCap /\ tmp' = tmp /\ out' = out
      /\ tmp = <<>> /\ out = <<>>
  BY DEF CheckLength, Base58Inv
<1> DEFINE n == Len(input)
<1>2. /\ n \in DataLens /\ n \in Nat /\ input \in [1 .. n -> Byte] /\ outCap \in OutCaps
  BY Base58Assumption DEF Base58Inv
<1>3. CASE Len(input) = 0 \/ Len(input) > MaxLen \/ outCap < 2
  <2>1. encoding' = "refused"
    BY <1>1, <1>3 DEF CheckLength
  <2>2. ~ (Len(input) = KeyLen /\ outCap = AddressCap)
    <3>1. n = 0 \/ n > MaxLen \/ outCap < 2
      BY <1>3
    <3>2. n = KeyLen => n \in 1 .. MaxLen
      BY Bases
    <3>3. outCap = AddressCap => outCap \in Nat /\ outCap >= 2
      BY Bases
    <3> HIDE DEF n
    <3>4. ~(n = KeyLen /\ outCap = AddressCap)
      BY <1>2, <3>1, <3>2, <3>3, Bases
    <3> QED BY <3>4 DEF n
  <2>3. Base58Sound'
    <3>1. Len(tmp) <= TmpSize
      BY DEF Base58Inv
    <3> QED BY <1>1, <2>1, <2>2, <3>1 DEF Base58Sound, Base58Exact, Base58Fits
  <2> QED BY <1>1, <2>1, <2>3 DEF Base58Inv
<1>4. CASE ~(Len(input) = 0 \/ Len(input) > MaxLen \/ outCap < 2)
  <2>1. encoding' = "divide" /\ dividend' = input /\ start' = 0
    BY <1>1, <1>4 DEF CheckLength
  <2>2. n \in 1 .. MaxLen
    BY <1>2, <1>4, Bases
  <2>3. Dividing(n, start)'
    BY <1>1, <1>2, <2>1 DEF Dividing
  <2>4. InputNumber' = InputNumber /\ Remaining' = InputNumber
    BY <1>1, <2>1 DEF InputNumber, Remaining
  <2>5. WithDigits(Remaining)' = InputNumber
    <3> DEFINE a == InputNumber
               g == Reverse(tmp)
               f == [i \in 0 .. 0 |-> a]
               zero == 0
    <3>1. a \in Nat
      <4>1. input \in [1 .. n -> Nat] /\ 0 \in Nat
        BY <1>2, BytesAreNumbers
      <4> QED BY <1>2, <4>1, BytesAreNumbers, NumeralTyped DEF InputNumber
    <3>2. Len(tmp) = zero /\ g \in [1 .. zero -> Nat]
      BY <1>1 DEF Reverse
    <3>3. Numbered(f, zero, a, DigitBase, g)
      BY <3>1, <3>2, BytesAreNumbers DEF Numbered, Linear
    <3>4. f[zero] = a
      OBVIOUS
    <3> HIDE DEF a, g, f
    <3>5. Numeral(zero, a, DigitBase, g) = a
      BY <3>3, <3>4, NumeralOf
    <3> QED BY <1>1, <2>4, <3>2, <3>5 DEF WithDigits, a, g
  <2>6. InDivision'
    BY <1>1, <2>2, <2>3, <2>4, <2>5 DEF InDivision
  <2>7. Base58Sound'
    <3>1. Len(tmp) <= TmpSize
      BY DEF Base58Inv
    <3> QED BY <1>1, <2>1, <3>1 DEF Base58Sound, Base58Exact, Base58Fits
  <2> QED BY <1>1, <2>1, <2>6, <2>7 DEF Base58Inv
<1> QED BY <1>3, <1>4

Join(s, f, z, h, k, Elem) ==
  /\ z \in Nat /\ k \in Nat /\ f \in [1 .. z -> Elem] /\ h \in [1 .. k -> Elem]
  /\ s = f \o h

Parts(s, f, z, h, k, Elem) ==
  /\ s \in Seq(Elem) /\ Len(s) = z + k
  /\ \A i \in 1 .. z : s[i] = f[i]
  /\ SubSeq(s, z + 1, z + k) = h

LEMMA Joined ==
  ASSUME NEW Elem, NEW z, NEW k, NEW f, NEW h, NEW s, Join(s, f, z, h, k, Elem)
  PROVE  Parts(s, f, z, h, k, Elem)
<1> USE DEF Join, Parts
<1>1. /\ f \in Seq(Elem) /\ Len(f) = z /\ h \in Seq(Elem) /\ Len(h) = k
  BY SeqOfFunction
<1>2. /\ s \in Seq(Elem) /\ Len(s) = z + k
      /\ \A i \in 1 .. z + k : s[i] = IF i <= z THEN f[i] ELSE h[i - z]
  BY <1>1, ConcatProperties
<1>3. \A i \in 1 .. z : s[i] = f[i]
  BY <1>2
<1>4. \A i \in 1 .. k : s[z + i] = h[i]
  <2> SUFFICES ASSUME NEW i \in 1 .. k PROVE s[z + i] = h[i]
    OBVIOUS
  <2>1. z + i \in 1 .. z + k /\ ~(z + i <= z) /\ (z + i) - z = i
    OBVIOUS
  <2> QED BY <1>2, <2>1
<1> DEFINE t == SubSeq(s, z + 1, z + k)
<1>5. t \in Seq(Elem) /\ Len(t) = k /\ \A i \in 1 .. k : t[i] = s[z + i]
  <2>1. /\ z + 1 \in 1 .. Len(s) + 1 /\ z + k \in z .. Len(s)
        /\ (z + k) - (z + 1) + 1 = k
        /\ \A i \in 1 .. k : (z + 1) + i - 1 = z + i
    BY <1>2
  <2> QED BY <1>2, <2>1, SubSeqProperties
<1> HIDE DEF t
<1>6. t = h
  BY <1>1, <1>4, <1>5, SeqEqual
<1> QED BY <1>2, <1>3, <1>6 DEF t

LEMMA TextIsExact ==
  ASSUME Base58Inv, encoding = "divide", start = Len(input), ~NoRoomForOut,
         NEW shown, shown = [z \in 1 .. LeadingZeros |-> 0] \o Reverse(tmp)
  PROVE  /\ \A i \in DOMAIN shown : shown[i] \in 0 .. DigitBase - 1
         /\ \A i \in 1 .. LeadingZeros : shown[i] = 0
         /\ SubSeq(shown, LeadingZeros + 1, Len(shown)) = Reverse(tmp)
         /\ NumberIn(DigitBase, Reverse(tmp)) = NumberIn(ByteBase, input)
         /\ Reverse(tmp) # <<>> => Reverse(tmp)[1] # 0
         /\ Len(shown) + 1 <= outCap
<1> DEFINE k == Len(tmp)
           z == LeadingZeros
           ones == [i \in 1 .. z |-> 0]
           h == Reverse(tmp)
<1>1. /\ Len(input) \in Nat /\ input \in [1 .. Len(input) -> Byte] /\ tmp \in Seq(Digit)
      /\ outCap \in Nat /\ z \in Nat
  BY Bases, LeadingZerosOf, Base58Assumption DEF Base58Inv
<1>2. k \in Nat /\ h \in [1 .. k -> Digit] /\ h \in [1 .. k -> Nat]
  BY <1>1, Reversed
<1>3. 0 \in Digit
  BY Bases DEF Digit
<1> HIDE DEF z
<1>4. ones \in [1 .. z -> Digit] /\ \A i \in 1 .. z : ones[i] = 0
  BY <1>3
<1>5. shown = ones \o h
  BY DEF z
<1> HIDE DEF ones, h, k
<1>8. /\ shown \in Seq(Digit) /\ Len(shown) = z + k
      /\ \A i \in 1 .. z : shown[i] = ones[i]
      /\ SubSeq(shown, z + 1, z + k) = h
  <2>1. Join(shown, ones, z, h, k, Digit)
    BY <1>1, <1>2, <1>4, <1>5 DEF Join
  <2>2. Parts(shown, ones, z, h, k, Digit)
    BY <2>1, Joined
  <2> QED BY <2>2 DEF Parts
<1>9. \A i \in DOMAIN shown : shown[i] \in 0 .. DigitBase - 1
  <2>1. \A i \in 1 .. Len(shown) : shown[i] \in Digit
    BY <1>8, ElementOfSeq
  <2>2. DOMAIN shown = 1 .. Len(shown)
    BY <1>8, LenProperties
  <2> QED BY <2>1, <2>2 DEF Digit
<1>10. \A i \in 1 .. z : shown[i] = 0
  BY <1>4, <1>8
<1>11. SubSeq(shown, z + 1, Len(shown)) = h
  BY <1>8
<1>12. NumberIn(DigitBase, h) = NumberIn(ByteBase, input)
  <2>1. NumberIn(DigitBase, h) = WithDigits(0)
    <3>1. NumberIn(DigitBase, h) = Numeral(k, 0, DigitBase, h)
      BY <1>2, Bases, NumberAsNumeral
    <3> QED BY <3>1 DEF WithDigits, h, k
  <2>2. NumberIn(ByteBase, input) = InputNumber
    <3>1. input \in [1 .. Len(input) -> Nat]
      BY <1>1, BytesAreNumbers
    <3>2. NumberIn(ByteBase, input) = Numeral(Len(input), 0, ByteBase, input)
      BY <1>1, <3>1, Bases, NumberAsNumeral
    <3> QED BY <3>2 DEF InputNumber
  <2> QED BY <2>1, <2>2, AllDigits
<1>13. h # <<>> => h[1] # 0
  <2> SUFFICES ASSUME h # <<>> PROVE h[1] # 0
    OBVIOUS
  <2>1. k # 0 /\ 1 \in 1 .. k
    <3>1. h \in Seq(Digit) /\ Len(h) = k
      BY <1>2, SeqOfFunction
    <3> QED BY <1>2, <3>1, EmptySeq
  <2>2. h[1] = tmp[k] /\ tmp # <<>>
    <3>1. (k - 1) + 1 = k
      BY <1>2
    <3> QED BY <1>1, <1>2, <2>1, <3>1 DEF Reverse, h, k
  <2> QED BY <2>2, AllDigits DEF k
<1>14. Len(shown) + 1 <= outCap
  <2>1. ~(z + k + 1 > outCap)
    BY DEF NoRoomForOut, z, k
  <2>2. z \in Nat /\ k \in Nat /\ outCap \in Nat
    BY <1>1, <1>2
  <2>3. z + k + 1 <= outCap
    BY <2>1, <2>2
  <2> QED BY <1>8, <2>3
<1> QED BY <1>9, <1>10, <1>11, <1>12, <1>13, <1>14 DEF z, h

LEMMA WriteKeeps ==
  ASSUME Base58Inv, WriteOut
  PROVE  Base58Inv'
<1>1. /\ encoding = "divide" /\ start = Len(input)
      /\ input' = input /\ outCap' = outCap /\ tmp' = tmp /\ out = <<>>
      /\ Len(tmp) <= TmpSize
  BY DEF WriteOut, Base58Inv
<1>2. LeadingZeros' = LeadingZeros
  BY <1>1 DEF LeadingZeros, SkipZeros
<1>3. CASE NoRoomForOut
  <2>1. encoding' = "refused" /\ out' = out
    BY <1>3 DEF WriteOut
  <2>2. ~(Len(input) = KeyLen /\ outCap = AddressCap)
    BY <1>1, <1>3, AddressFits
  <2>3. Base58Sound'
    BY <1>1, <2>1, <2>2 DEF Base58Sound, Base58Exact, Base58Fits
  <2> QED BY <1>1, <2>1, <2>3 DEF Base58Inv
<1>4. CASE ~NoRoomForOut
  <2> DEFINE shown == [z \in 1 .. LeadingZeros |-> 0] \o Reverse(tmp)
  <2>1. encoding' = "done" /\ out' = shown
    BY <1>4 DEF WriteOut
  <2>2. /\ \A i \in DOMAIN shown : shown[i] \in 0 .. DigitBase - 1
        /\ \A i \in 1 .. LeadingZeros : shown[i] = 0
        /\ SubSeq(shown, LeadingZeros + 1, Len(shown)) = Reverse(tmp)
        /\ NumberIn(DigitBase, Reverse(tmp)) = NumberIn(ByteBase, input)
        /\ Reverse(tmp) # <<>> => Reverse(tmp)[1] # 0
        /\ Len(shown) + 1 <= outCap
    <3> HIDE DEF shown
    <3>1. shown = [z \in 1 .. LeadingZeros |-> 0] \o Reverse(tmp)
      BY DEF shown
    <3> QED BY <1>1, <1>4, <3>1, TextIsExact
  <2> HIDE DEF shown
  <2>3. Base58Exact'
    <3>1. NumberIn(ByteBase, input') = NumberIn(ByteBase, input)
      BY <1>1
    <3> QED BY <1>2, <2>1, <2>2, <3>1 DEF Base58Exact
  <2>4. Base58Fits'
    BY <1>1, <2>1, <2>2 DEF Base58Fits
  <2> QED BY <1>1, <2>1, <2>3, <2>4 DEF Base58Inv, Base58Sound
<1> QED BY <1>3, <1>4

LEMMA Base58Start == Base58Init => Base58Inv
<1> SUFFICES ASSUME Base58Init PROVE Base58Inv
  OBVIOUS
<1>1. PICK n \in DataLens : input \in [1 .. n -> Byte]
  BY DEF Base58Init, Byte
<1>2. n \in Nat
  BY Base58Assumption
<1>3. Len(input) = n
  BY <1>1, <1>2, SeqOfFunction
<1>4. /\ outCap \in OutCaps /\ tmp = <<>> /\ out = <<>> /\ encoding = "check"
  BY DEF Base58Init
<1>5. tmp \in Seq(Digit) /\ Len(tmp) = 0 /\ Len(tmp) <= TmpSize
  BY <1>4, Bases
<1>6. Base58Sound
  BY <1>4, <1>5 DEF Base58Sound, Base58Exact, Base58Fits
<1> QED BY <1>1, <1>3, <1>4, <1>5, <1>6 DEF Base58Inv

\* wc_base58_encode writes the only text the format has for the bytes, within
\* tmp and out, and refuses no public key, for every base and every length whose
\* numbers fit.
THEOREM AddressIsTheKey == Base58Spec => []Base58Sound
<1>1. Base58Inv /\ [Base58Next]_base58Vars => Base58Inv'
  <2> SUFFICES ASSUME Base58Inv, [Base58Next]_base58Vars PROVE Base58Inv'
    OBVIOUS
  <2>1. CASE CheckLength
    BY <2>1, CheckKeeps
  <2>2. CASE DividePass
    BY <2>2, PassKeeps
  <2>3. CASE WriteOut
    BY <2>3, WriteKeeps
  <2>4. CASE UNCHANGED base58Vars
    <3>1. /\ input' = input /\ outCap' = outCap /\ dividend' = dividend /\ start' = start
          /\ tmp' = tmp /\ out' = out /\ encoding' = encoding
      BY <2>4 DEF base58Vars
    <3>2. InDivision' = InDivision
      BY <3>1 DEF InDivision, Dividing, InputNumber, WithDigits, Remaining
    <3>3. Base58Sound' = Base58Sound
      BY <3>1 DEF Base58Sound, Base58Exact, Base58Fits, LeadingZeros, SkipZeros
    <3> QED BY <3>1, <3>2, <3>3 DEF Base58Inv
  <2> QED BY <2>1, <2>2, <2>3, <2>4 DEF Base58Next
<1>2. Base58Inv => Base58Sound
  BY DEF Base58Inv
<1> QED BY <1>1, <1>2, Base58Start, PTL DEF Base58Spec

-----------------------------------------------------------------------------
(* The phrase: its number.                                                   *)

LEMMA PowersOfTwo ==
  /\ Power(2, 0) = 1 /\ Power(2, 1) = 2 /\ Power(2, 2) = 4 /\ Power(2, 3) = 8
  /\ Power(2, 4) = 16 /\ Power(2, 5) = 32 /\ Power(2, 6) = 64 /\ Power(2, 7) = 128
  /\ Power(2, 8) = 256
<1>1. Power(2, 0) = 1 /\ \A e \in Nat : Power(2, e + 1) = Power(2, e) * 2
  BY PowerSteps
<1>2. Power(2, 0 + 1) = 2 /\ Power(2, 1 + 1) = 4
  <2>1. Power(2, 0 + 1) = Power(2, 0) * 2 /\ Power(2, 1 + 1) = Power(2, 1) * 2
    BY <1>1
  <2> QED BY <1>1, <2>1
<1>3. Power(2, 2 + 1) = 8 /\ Power(2, 3 + 1) = 16
  <2>1. Power(2, 2 + 1) = Power(2, 2) * 2 /\ Power(2, 3 + 1) = Power(2, 3) * 2
    BY <1>1
  <2> QED BY <1>2, <2>1
<1>4. Power(2, 4 + 1) = 32 /\ Power(2, 5 + 1) = 64
  <2>1. Power(2, 4 + 1) = Power(2, 4) * 2 /\ Power(2, 5 + 1) = Power(2, 5) * 2
    BY <1>1
  <2> QED BY <1>3, <2>1
<1>5. Power(2, 6 + 1) = 128 /\ Power(2, 7 + 1) = 256
  <2>1. Power(2, 6 + 1) = Power(2, 6) * 2 /\ Power(2, 7 + 1) = Power(2, 7) * 2
    BY <1>1
  <2> QED BY <1>4, <2>1
<1> QED BY <1>1, <1>2, <1>3, <1>4, <1>5

\* The eight bits of a byte, shifted and masked out of it, are the byte.
LEMMA ByteOfBits ==
  ASSUME NEW x \in 0 .. 255
  PROVE  Numeral(8, 0, 2, [i \in 1 .. 8 |-> (x \div Power(2, 8 - i)) % 2]) = x
<1> DEFINE g == [i \in 1 .. 8 |-> (x \div Power(2, 8 - i)) % 2]
           f == [i \in 0 .. 8 |-> IF i = 0 THEN 0 ELSE x \div Power(2, 8 - i)]
<1>1. /\ f[0] = 0 /\ f[1] = x \div 128 /\ f[2] = x \div 64 /\ f[3] = x \div 32
      /\ f[4] = x \div 16 /\ f[5] = x \div 8 /\ f[6] = x \div 4 /\ f[7] = x \div 2 /\ f[8] = x \div 1
  BY PowersOfTwo
<1>2. /\ g[1] = (x \div 128) % 2 /\ g[2] = (x \div 64) % 2 /\ g[3] = (x \div 32) % 2
      /\ g[4] = (x \div 16) % 2 /\ g[5] = (x \div 8) % 2 /\ g[6] = (x \div 4) % 2
      /\ g[7] = (x \div 2) % 2 /\ g[8] = (x \div 1) % 2
  BY PowersOfTwo
<1>3. f = [i \in 0 .. 8 |-> f[i]] /\ g = [i \in 1 .. 8 |-> g[i]]
  OBVIOUS
<1> HIDE DEF f, g
<1>4. f \in [0 .. 8 -> Nat]
  <2>1. \A i \in 0 .. 8 : f[i] \in Nat
    BY <1>1
  <2> QED BY <1>3, <2>1
<1>5. g \in [1 .. 8 -> Nat]
  <2>1. \A i \in 1 .. 8 : g[i] \in Nat
    BY <1>2
  <2> QED BY <1>3, <2>1
<1>6. \A i \in 1 .. 8 : f[i] = f[i - 1] * 2 + g[i]
  <2>1. /\ x \div 128 = (x \div 128) % 2
        /\ x \div 64 = (x \div 128) * 2 + ((x \div 64) % 2)
        /\ x \div 32 = (x \div 64) * 2 + ((x \div 32) % 2)
        /\ x \div 16 = (x \div 32) * 2 + ((x \div 16) % 2)
    OBVIOUS
  <2>2. /\ x \div 8 = (x \div 16) * 2 + ((x \div 8) % 2)
        /\ x \div 4 = (x \div 8) * 2 + ((x \div 4) % 2)
        /\ x \div 2 = (x \div 4) * 2 + ((x \div 2) % 2)
        /\ x \div 1 = (x \div 2) * 2 + ((x \div 1) % 2)
    OBVIOUS
  <2>3. /\ f[1] = f[0] * 2 + g[1] /\ f[2] = f[1] * 2 + g[2]
        /\ f[3] = f[2] * 2 + g[3] /\ f[4] = f[3] * 2 + g[4]
    BY <1>1, <1>2, <2>1
  <2>4. /\ f[5] = f[4] * 2 + g[5] /\ f[6] = f[5] * 2 + g[6]
        /\ f[7] = f[6] * 2 + g[7] /\ f[8] = f[7] * 2 + g[8]
    BY <1>1, <1>2, <2>1, <2>2
  <2>5. 1 - 1 = 0 /\ 2 - 1 = 1 /\ 3 - 1 = 2 /\ 4 - 1 = 3 /\ 5 - 1 = 4 /\ 6 - 1 = 5 /\ 7 - 1 = 6 /\ 8 - 1 = 7
    OBVIOUS
  <2>6. 1 .. 8 = {1, 2, 3, 4, 5, 6, 7, 8}
    OBVIOUS
  <2> QED BY <2>3, <2>4, <2>5, <2>6
<1>7. Numbered(f, 8, 0, 2, g)
  BY <1>1, <1>4, <1>5, <1>6 DEF Numbered, Linear
<1>8. Numeral(8, 0, 2, g) = f[8]
  BY <1>7, NumeralOf
<1>9. f[8] = x
  BY <1>1
<1> QED BY <1>8, <1>9 DEF g

LEMMA Sizes ==
  /\ EntropyBytes \in Nat /\ IndexBits \in Nat \ {0}
  /\ Words \in Nat \ {0} /\ Words * IndexBits = (EntropyBytes + 1) * 8
  /\ ShortestWord \in Nat \ {0} /\ LongestWord \in Nat /\ ShortestWord <= LongestWord
<1> DEFINE t == 8 * (EntropyBytes + 1)
           p == IndexBits
<1>1. t \in Nat /\ t >= 8 /\ p \in Nat \ {0} /\ t % p = 0 /\ Words = t \div p
  BY MnemonicAssumption DEF Words
<1> HIDE DEF t, p
<1>2. Words \in Int /\ t = p * Words + (t % p)
  BY <1>1
<1>3. p * Words = t
  BY <1>1, <1>2
<1>4. Words >= 1
  <2> SUFFICES ASSUME Words <= 0 PROVE FALSE
    BY <1>2
  <2>1. p * Words <= p * 0
    BY <1>1, <1>2
  <2> QED BY <1>1, <1>3, <2>1
<1>5. p * Words = Words * p
  BY <1>1, <1>2
<1> QED BY <1>1, <1>2, <1>3, <1>4, <1>5, MnemonicAssumption DEF t, p

\* All the bits, most significant first.
AllBits == [i \in 1 .. (EntropyBytes + 1) * 8 |-> BitAt(i - 1)]

LEMMA BitsTyped ==
  ASSUME bits \in [1 .. EntropyBytes + 1 -> 0 .. 255]
  PROVE  /\ \A bo \in 0 .. (EntropyBytes + 1) * 8 - 1 : BitAt(bo) \in Nat
         /\ AllBits \in [1 .. (EntropyBytes + 1) * 8 -> Nat]
<1>1. ASSUME NEW bo \in 0 .. (EntropyBytes + 1) * 8 - 1
      PROVE  BitAt(bo) \in Nat
  <2> DEFINE x == bits[1 + (bo \div 8)]
             e == 7 - (bo % 8)
             y == Power(2, e)
  <2>1. 1 + (bo \div 8) \in 1 .. EntropyBytes + 1 /\ e \in Nat
    BY Sizes
  <2> DEFINE i == 1 + (bo \div 8)
  <2>2. bits[i] \in Nat
    <3> HIDE DEF i
    <3>1. i \in 1 .. EntropyBytes + 1
      BY <2>1 DEF i
    <3>2. bits[i] \in 0 .. 255
      BY <3>1
    <3>3. \A v \in 0 .. 255 : v \in Nat
      OBVIOUS
    <3> QED BY <3>2, <3>3
  <2> HIDE DEF e
  <2>3. y \in Nat \ {0}
    <3>1. 2 \in Nat \ {0}
      OBVIOUS
    <3> QED BY <2>1, <3>1, PowerPositive
  <2>31. x \in Nat
    BY <2>2
  <2> HIDE DEF x, y
  <2>4. x \div y \in Int
    BY <2>31, <2>3
  <2>5. (x \div y) % 2 \in Nat
    BY <2>4
  <2> QED BY <2>5 DEF BitAt, x, y, e
<1>2. AllBits \in [1 .. (EntropyBytes + 1) * 8 -> Nat]
  <2>1. \A i \in 1 .. (EntropyBytes + 1) * 8 : i - 1 \in 0 .. (EntropyBytes + 1) * 8 - 1
    BY Sizes
  <2> QED BY <1>1, <2>1 DEF AllBits
<1> QED BY <1>1, <1>2

\* A word index is the number its bits stand for.
LEMMA IndexIsNumeral ==
  ASSUME bits \in [1 .. EntropyBytes + 1 -> 0 .. 255], NEW j \in 1 .. Words
  PROVE  /\ IndexOf(j - 1) = Numeral(IndexBits, 0, 2, [i \in 1 .. IndexBits |-> AllBits[(j - 1) * IndexBits + i]])
         /\ IndexOf(j - 1) \in Nat
<1> DEFINE p == IndexBits
           l == (EntropyBytes + 1) * 8
           g == [i \in 1 .. p |-> AllBits[(j - 1) * p + i]]
<1>1. \A i \in 1 .. p : /\ (j - 1) * p + i \in 1 .. l
                        /\ ((j - 1) * p + i) - 1 = p * (j - 1) + i - 1
  <2>1. p \in Nat /\ l = Words * p /\ Words \in Nat /\ l \in Nat
    BY Sizes
  <2> HIDE DEF p, l
  <2>2. (j - 1) * p = p * (j - 1) /\ (j - 1) * p \in Nat /\ (j - 1) * p = j * p - p
    BY <2>1
  <2>3. j * p <= Words * p /\ j * p \in Nat /\ Words * p \in Nat
    <3>1. (Words - j) * p \in Nat /\ (Words - j) * p = Words * p - j * p
      BY <2>1
    <3>2. j * p \in Nat /\ Words * p \in Nat
      BY <2>1
    <3> QED BY <3>1, <3>2
  <2> QED BY <2>1, <2>2, <2>3
<1>2. g \in [1 .. p -> Nat]
  BY <1>1, BitsTyped
<1>3. g = [b \in 1 .. p |-> BitAt(p * (j - 1) + b - 1)]
  BY <1>1 DEF AllBits
<1>4. IndexOf(j - 1) = NumberIn(2, g)
  BY <1>3 DEF IndexOf
<1>5. p \in Nat /\ 0 \in Nat /\ 2 \in Nat
  BY Sizes
<1> HIDE DEF g, p
<1>6. NumberIn(2, g) = Numeral(p, 0, 2, g)
  BY <1>2, <1>5, NumberAsNumeral
<1>7. Numeral(p, 0, 2, g) \in Nat
  BY <1>2, <1>5, NumeralTyped
<1> QED BY <1>4, <1>6, <1>7 DEF g, p

\* A byte is the number its bits stand for.
LEMMA ByteIsNumeral ==
  ASSUME bits \in [1 .. EntropyBytes + 1 -> 0 .. 255], NEW j \in 1 .. EntropyBytes + 1
  PROVE  bits[j] = Numeral(8, 0, 2, [i \in 1 .. 8 |-> AllBits[(j - 1) * 8 + i]])
<1> DEFINE x == bits[j]
<1>1. x \in 0 .. 255
  OBVIOUS
<1>2. ASSUME NEW i \in 1 .. 8
      PROVE  AllBits[(j - 1) * 8 + i] = (x \div Power(2, 8 - i)) % 2
  <2>1. /\ (j - 1) * 8 + i \in 1 .. (EntropyBytes + 1) * 8
        /\ 1 + ((((j - 1) * 8 + i) - 1) \div 8) = j
        /\ 7 - ((((j - 1) * 8 + i) - 1) % 8) = 8 - i
    BY Sizes
  <2> QED BY <2>1 DEF AllBits, BitAt
<1>3. [i \in 1 .. 8 |-> AllBits[(j - 1) * 8 + i]] = [i \in 1 .. 8 |-> (x \div Power(2, 8 - i)) % 2]
  BY <1>2, SMTT(30)
<1> HIDE DEF x
<1>4. Numeral(8, 0, 2, [i \in 1 .. 8 |-> (x \div Power(2, 8 - i)) % 2]) = x
  BY <1>1, ByteOfBits
<1> QED BY <1>3, <1>4 DEF x

\* The word indices are the number the bytes are.
LEMMA SameNumber ==
  ASSUME bits \in [1 .. EntropyBytes + 1 -> 0 .. 255]
  PROVE  NumberIn(Power(2, IndexBits), [w \in 1 .. Words |-> IndexOf(w - 1)]) = NumberIn(256, bits)
<1> DEFINE words == [w \in 1 .. Words |-> IndexOf(w - 1)]
           bytes == bits
           m == EntropyBytes + 1
           l == m * 8
           k == IndexBits
           eight == 8
           two == 2
<1>1. /\ Words \in Nat /\ m \in Nat /\ l \in Nat /\ k \in Nat /\ eight \in Nat /\ two \in Nat /\ 0 \in Nat
      /\ l = Words * k /\ l = m * eight
  BY Sizes
<1>2. words \in [1 .. Words -> Nat] /\ bytes \in [1 .. m -> Nat]
  <2>1. ASSUME NEW w \in 1 .. Words PROVE IndexOf(w - 1) \in Nat
    BY IndexIsNumeral
  <2>2. words \in [1 .. Words -> Nat]
    <3> HIDE DEF words
    <3> QED BY <2>1 DEF words
  <2>3. 0 .. 255 \subseteq Nat
    OBVIOUS
  <2>4. bytes \in [1 .. m -> Nat]
    BY <2>3
  <2> QED BY <2>2, <2>4
<1>3. AllBits \in [1 .. l -> Nat]
  BY BitsTyped
<1>4. \A j \in 1 .. Words : words[j] = Numeral(k, 0, two, [i \in 1 .. k |-> AllBits[(j - 1) * k + i]])
  BY IndexIsNumeral
<1>5. \A j \in 1 .. m : bytes[j] = Numeral(eight, 0, two, [i \in 1 .. eight |-> AllBits[(j - 1) * eight + i]])
  BY ByteIsNumeral
<1>6. Power(two, eight) = 256 /\ Power(two, k) \in Nat
  BY <1>1, PowersOfTwo, PowerSteps
<1>7. /\ NumberIn(Power(two, k), words) = Numeral(Words, 0, Power(two, k), words)
      /\ NumberIn(256, bytes) = Numeral(m, 0, 256, bytes)
  <2>1. 256 \in Nat
    OBVIOUS
  <2> HIDE DEF words, bytes, m, l, k, eight, two
  <2>2. NumberIn(Power(two, k), words) = Numeral(Words, 0, Power(two, k), words)
    BY <1>1, <1>2, <1>6, NumberAsNumeral, ZenonT(60)
  <2>3. NumberIn(256, bytes) = Numeral(m, 0, 256, bytes)
    BY <1>1, <1>2, <2>1, NumberAsNumeral
  <2> QED BY <2>2, <2>3
<1> HIDE DEF words, bytes, m, l, k, eight, two
<1>8. Numeral(Words, 0, Power(two, k), words) = Numeral(l, 0, two, AllBits)
  <2>1. Groups(k, Words, two, l, AllBits, words)
    BY <1>1, <1>2, <1>3, <1>4 DEF Groups
  <2> QED BY <2>1, Grouped
<1>9. Numeral(m, 0, Power(two, eight), bytes) = Numeral(l, 0, two, AllBits)
  <2>1. Groups(eight, m, two, l, AllBits, bytes)
    BY <1>1, <1>2, <1>3, <1>5 DEF Groups
  <2> QED BY <2>1, Grouped
<1> QED BY <1>6, <1>7, <1>8, <1>9 DEF words, bytes, k, two

-----------------------------------------------------------------------------
(* The phrase: its layout in the buffer.                                     *)

\* The word indices, the letters of a word, and the place each word begins at:
\* behind the words in front of it and a separator for each.
Indices == [w \in 0 .. Words - 1 |-> IndexOf(w)]
Letters(x) == ShortestWord + (x % (LongestWord + 1 - ShortestWord))
Begins(idx) ==
  CHOOSE at : Linear(at, Words, 0, 1, [w \in 1 .. Words |-> Letters(idx[w - 1]) + 1])

Laid(idx, at) ==
  /\ idx \in [0 .. Words - 1 -> Nat] /\ at \in [0 .. Words -> Nat] /\ at[0] = 0
  /\ \A w \in 0 .. Words - 1 : /\ Letters(idx[w]) \in ShortestWord .. LongestWord
                               /\ at[w + 1] = at[w] + Letters(idx[w]) + 1
  /\ \A w \in 0 .. Words : at[w] <= PhraseCap /\ \A v \in 0 .. w : at[v] <= at[w]

LEMMA LettersOfWord ==
  ASSUME NEW x \in Nat
  PROVE  Letters(x) \in ShortestWord .. LongestWord /\ Letters(x) \in Nat
<1> DEFINE p == LongestWord + 1 - ShortestWord
           r == x % p
<1>1. p \in Nat \ {0}
  BY Sizes
<1>2. r \in 0 .. p - 1
  BY <1>1
<1> HIDE DEF r
<1>3. Letters(x) = ShortestWord + r
  BY DEF Letters, r
<1> QED BY <1>2, <1>3, Sizes

LEMMA Layout ==
  ASSUME NEW idx \in [0 .. Words - 1 -> Nat]
  PROVE  Laid(idx, Begins(idx))
<1> DEFINE g == [w \in 1 .. Words |-> Letters(idx[w - 1]) + 1]
           at == Begins(idx)
           top == LongestWord + 1
<1>1. Words \in Nat /\ 0 \in Nat /\ 1 \in Nat
  BY Sizes
<1>2. \A w \in 0 .. Words - 1 : Letters(idx[w]) \in ShortestWord .. LongestWord /\ Letters(idx[w]) \in Nat
  BY LettersOfWord
<1>3. g \in [1 .. Words -> Nat]
  <2>1. ASSUME NEW w \in 1 .. Words PROVE Letters(idx[w - 1]) + 1 \in Nat
    <3>1. w - 1 \in 0 .. Words - 1
      BY <1>1
    <3> QED BY <1>2, <3>1
  <2> QED BY <2>1
<1>4. Linear(at, Words, 0, 1, g)
  <2>1. \E f : Linear(f, Words, 0, 1, g)
    <3> HIDE DEF g
    <3> QED BY <1>1, <1>3, LinearRecursion
  <2> QED BY <2>1 DEF Begins
<1> HIDE DEF at
<1>5. at \in [0 .. Words -> Nat] /\ at[0] = 0
  BY <1>4 DEF Linear
<1>6. ASSUME NEW w \in 0 .. Words - 1
      PROVE  at[w + 1] = at[w] + Letters(idx[w]) + 1
  <2>1. w + 1 \in 1 .. Words /\ (w + 1) - 1 = w /\ w \in 0 .. Words
    BY <1>1
  <2>2. at[w + 1] = at[(w + 1) - 1] * 1 + g[w + 1]
    BY <1>4, <2>1 DEF Linear
  <2>3. g[w + 1] = Letters(idx[w]) + 1
    BY <2>1
  <2>4. at[w] \in Nat /\ Letters(idx[w]) \in Nat
    BY <1>2, <1>5, <2>1
  <2> HIDE DEF g
  <2> QED BY <2>1, <2>2, <2>3, <2>4
<1> HIDE DEF g
<1>7. top \in Nat /\ PhraseCap = Words * top
  BY Sizes DEF PhraseCap
<1>8. ASSUME NEW v \in 0 .. Words, NEW w \in 0 .. Words, v <= w
      PROVE  at[v] <= at[w]
  <2> DEFINE S == {i \in Nat : i <= Words => at[v] <= at[i]}
  <2>1. v \in S /\ v \in Nat
    BY <1>5
  <2>2. ASSUME NEW i \in Nat, i \in S
        PROVE  i + 1 \in S
    <3> SUFFICES ASSUME i + 1 <= Words PROVE at[v] <= at[i + 1]
      OBVIOUS
    <3>1. i \in 0 .. Words - 1 /\ i \in 0 .. Words /\ at[v] <= at[i]
      BY <1>1, <2>2
    <3>2. at[v] \in Nat /\ at[i] \in Nat
      BY <1>5, <3>1
    <3>3. at[i + 1] = at[i] + Letters(idx[i]) + 1
      BY <1>6, <3>1
    <3>4. Letters(idx[i]) \in Nat
      BY <1>2, <3>1
    <3> QED BY <3>1, <3>2, <3>3, <3>4
  <2> HIDE DEF S
  <2>3. \A i \in Nat : i >= v => i \in S
    BY <2>1, <2>2, Upwards
  <2>4. w \in S
    BY <1>8, <2>3
  <2> QED BY <2>4 DEF S
<1>9. at[Words] <= Words * top
  <2> DEFINE S == {i \in Nat : i <= Words => at[i] <= i * top}
  <2>1. 0 \in S
    BY <1>5, <1>7
  <2>2. ASSUME NEW i \in Nat, i \in S
        PROVE  i + 1 \in S
    <3> SUFFICES ASSUME i + 1 <= Words PROVE at[i + 1] <= (i + 1) * top
      OBVIOUS
    <3> DEFINE h == i * top
               x == Letters(idx[i])
    <3>1. i \in 0 .. Words - 1 /\ i \in 0 .. Words /\ at[i] <= h
      BY <1>1, <2>2
    <3>2. at[i] \in Nat /\ at[i + 1] = at[i] + x + 1 /\ x \in Nat /\ x <= LongestWord
      <4>1. at[i] \in Nat
        BY <1>5, <3>1
      <4>2. at[i + 1] = at[i] + x + 1
        BY <1>6, <3>1
      <4>3. x \in Nat /\ x \in ShortestWord .. LongestWord
        BY <1>2, <3>1
      <4> QED BY <4>1, <4>2, <4>3, Sizes
    <3>3. (i + 1) * top = h + top /\ h \in Nat
      BY <1>7
    <3>4. x + 1 <= top
      BY <3>2, Sizes
    <3> HIDE DEF h, x, top
    <3> QED BY <1>7, <3>1, <3>2, <3>3, <3>4
  <2>3. \A i \in Nat : i >= 0 => i \in S
    <3> HIDE DEF S
    <3> QED BY <1>1, <2>1, <2>2, Upwards
  <2>4. Words \in S
    <3> HIDE DEF S
    <3> QED BY <1>1, <2>3
  <2> QED BY <1>1, <2>4
<1>10. ASSUME NEW w \in 0 .. Words
       PROVE  at[w] <= PhraseCap /\ \A v \in 0 .. w : at[v] <= at[w]
  <2>1. at[w] <= at[Words] /\ at[w] \in Nat /\ at[Words] \in Nat
    BY <1>1, <1>5, <1>8
  <2>2. PhraseCap \in Nat /\ at[Words] <= PhraseCap
    BY <1>1, <1>7, <1>9
  <2>3. \A v \in 0 .. w : v \in 0 .. Words /\ v <= w
    BY <1>1
  <2> QED BY <1>8, <2>1, <2>2, <2>3
<1>11. Laid(idx, at)
  BY <1>2, <1>5, <1>6, <1>10 DEF Laid
<1> QED BY <1>11 DEF at

-----------------------------------------------------------------------------
(* The phrase: writing it and cutting it up again.                           *)

\* The words in front of word k stand in the buffer, each with its separator.
Holds(buf, idx, at, k) ==
  \A w \in 0 .. k - 1 :
    /\ \A n \in 1 .. Letters(idx[w]) : buf[at[w] + n - 1] = Letter(idx[w], n)
    /\ buf[at[w] + Letters(idx[w])] = Separator(w)

\* The parser stands in word `word`, or behind its last letter, and has the
\* offsets of the words in front of it right.
Cut(idx, at) ==
  /\ word \in 0 .. Words - 1
  /\ reading \in at[word] .. at[word] + Letters(idx[word])
  /\ \A v \in 0 .. word : wordOff[v] = at[v]
  /\ \A v \in 0 .. word - 1 : wordLen[v] = Letters(idx[v])
  /\ \/ cursor = at[Words] /\ cursor # 0
     \/ /\ cursor = 0 /\ word = Words - 1
        /\ reading = at[word] + Letters(idx[word]) /\ wordLen[word] = Letters(idx[word])

PhraseInv ==
  /\ bits \in [1 .. EntropyBytes + 1 -> 0 .. 255]
  /\ written \in 0 .. Words
  /\ DOMAIN buffer = 0 .. PhraseCap - 1
  /\ wordOff \in [0 .. Words - 1 -> Int] /\ wordLen \in [0 .. Words - 1 -> Int]
  /\ wordOff[0] = 0
  /\ Holds(buffer, Indices, Begins(Indices), written)
  /\ written < Words => cursor = Begins(Indices)[written] /\ word = 0 /\ reading = 0
  /\ written = Words => Cut(Indices, Begins(Indices))

LEMMA IndicesLaid ==
  ASSUME bits \in [1 .. EntropyBytes + 1 -> 0 .. 255]
  PROVE  /\ Indices \in [0 .. Words - 1 -> Nat]
         /\ \A w \in 0 .. Words - 1 : Indices[w] = IndexOf(w)
         /\ Laid(Indices, Begins(Indices))
<1>1. ASSUME NEW w \in 0 .. Words - 1
      PROVE  IndexOf(w) \in Nat
  <2>1. w + 1 \in 1 .. Words /\ (w + 1) - 1 = w
    BY Sizes
  <2>2. IndexOf((w + 1) - 1) \in Nat
    BY <2>1, IndexIsNumeral
  <2> QED BY <2>1, <2>2
<1>2. Indices \in [0 .. Words - 1 -> Nat]
  BY <1>1 DEF Indices
<1>3. \A w \in 0 .. Words - 1 : Indices[w] = IndexOf(w)
  BY DEF Indices
<1> QED BY <1>2, <1>3, Layout

LEMMA PhraseStart ==
  ASSUME bits \in [1 .. EntropyBytes + 1 -> 0 .. 255], written = 0, cursor = 0, word = 0, reading = 0,
         DOMAIN buffer = 0 .. PhraseCap - 1,
         wordOff \in [0 .. Words - 1 -> Int], wordLen \in [0 .. Words - 1 -> Int], wordOff[0] = 0
  PROVE  PhraseInv
<1>1. Begins(Indices)[0] = 0
  BY IndicesLaid DEF Laid
<1>2. Words \in Nat \ {0}
  BY Sizes
<1>3. Holds(buffer, Indices, Begins(Indices), 0)
  BY DEF Holds
<1> QED BY <1>1, <1>2, <1>3 DEF PhraseInv

LEMMA BitsDrawn ==
  ASSUME NEW e \in Entropies, NEW cs \in ByteValues
  PROVE  Append(e, cs) \in [1 .. EntropyBytes + 1 -> 0 .. 255]
<1>1. e \in [1 .. EntropyBytes -> 0 .. 255] /\ cs \in 0 .. 255 /\ EntropyBytes \in Nat
  BY MnemonicAssumption DEF Entropies
<1>2. e \in Seq(0 .. 255) /\ Len(e) = EntropyBytes
  BY <1>1, SeqOfFunction
<1>3. Append(e, cs) \in Seq(0 .. 255) /\ Len(Append(e, cs)) = EntropyBytes + 1
  BY <1>1, <1>2, AppendProperties
<1> QED BY <1>3, LenProperties

LEMMA SameWords ==
  ASSUME bits' = bits
  PROVE  Indices' = Indices /\ Begins(Indices)' = Begins(Indices)
<1>1. Indices' = Indices
  BY DEF Indices, IndexOf, BitAt
<1> QED BY <1>1

\* A word and its separator as they are written.
LEMMA Characters ==
  ASSUME NEW x \in Nat, NEW mark
  PROVE  /\ Len(Append(Spelling(x), mark)) = Letters(x) + 1
         /\ \A n \in 1 .. Letters(x) : Append(Spelling(x), mark)[n] = Letter(x, n)
         /\ Append(Spelling(x), mark)[Letters(x) + 1] = mark
<1> DEFINE l == Letters(x)
           s == Spelling(x)
           D == {Letter(x, n) : n \in 1 .. l} \union {mark}
<1>1. l \in Nat
  BY LettersOfWord
<1>2. s = [n \in 1 .. l |-> Letter(x, n)]
  BY DEF Spelling, Letters
<1> HIDE DEF l, s
<1>3. s \in [1 .. l -> D]
  BY <1>2
<1>4. s \in Seq(D) /\ Len(s) = l
  <2> HIDE DEF D
  <2> QED BY <1>1, <1>3, SeqOfFunction
<1>5. mark \in D
  OBVIOUS
<1> HIDE DEF D
<1>6. /\ Len(Append(s, mark)) = l + 1
      /\ \A n \in 1 .. l : Append(s, mark)[n] = s[n]
      /\ Append(s, mark)[l + 1] = mark
  BY <1>4, <1>5, AppendProperties
<1>7. \A n \in 1 .. l : s[n] = Letter(x, n)
  BY <1>2
<1> QED BY <1>6, <1>7 DEF l, s

\* What was in the buffer stays, the word at its end is added.
LaidOut(buf, new, idx, at, k) ==
  /\ DOMAIN buf = 0 .. PhraseCap - 1
  /\ new = [i \in DOMAIN buf |->
              IF i \in at[k] .. at[k] + Letters(idx[k])
              THEN Append(Spelling(idx[k]), Separator(k))[i - at[k] + 1] ELSE buf[i]]

LEMMA WriteHolds ==
  ASSUME NEW idx, NEW at, Laid(idx, at), NEW k \in 0 .. Words - 1,
         NEW buf, NEW new, Holds(buf, idx, at, k), LaidOut(buf, new, idx, at, k)
  PROVE  Holds(new, idx, at, k + 1)
<1> DEFINE b == at[k]
           x == idx[k]
           l == Letters(x)
           s == Append(Spelling(x), Separator(k))
<1>1. Words \in Nat /\ k \in 0 .. Words /\ k + 1 \in 0 .. Words
  BY Sizes
<1>2. x \in Nat /\ b \in Nat /\ l \in Nat
  <2>1. x \in Nat /\ b \in Nat
    BY <1>1 DEF Laid
  <2> QED BY <2>1, LettersOfWord
<1>3. b + l < PhraseCap /\ PhraseCap \in Nat
  <2>1. at[k + 1] <= PhraseCap /\ at[k + 1] = b + l + 1
    BY <1>1 DEF Laid
  <2>2. PhraseCap \in Nat
    BY <1>1, Sizes DEF PhraseCap
  <2> QED BY <1>2, <2>1, <2>2
<1>4. /\ \A n \in 1 .. l : s[n] = Letter(x, n)
      /\ s[l + 1] = Separator(k)
  BY <1>2, Characters
<1>5. \A i \in 0 .. PhraseCap - 1 : new[i] = IF i \in b .. b + l THEN s[i - b + 1] ELSE buf[i]
  BY DEF LaidOut
<1> HIDE DEF b, x, l, s
<1>6. ASSUME NEW n \in 1 .. l
      PROVE  new[b + n - 1] = Letter(x, n)
  <2>1. b + n - 1 \in 0 .. PhraseCap - 1 /\ b + n - 1 \in b .. b + l /\ (b + n - 1) - b + 1 = n
    BY <1>2, <1>3
  <2> DEFINE i == b + n - 1
  <2>2. i \in 0 .. PhraseCap - 1 /\ i \in b .. b + l /\ i - b + 1 = n
    BY <2>1
  <2> HIDE DEF i
  <2>3. new[i] = s[n]
    BY <1>5, <2>2
  <2> QED BY <1>4, <2>3 DEF i
<1>7. new[b + l] = Separator(k)
  <2>1. b + l \in 0 .. PhraseCap - 1 /\ b + l \in b .. b + l /\ (b + l) - b + 1 = l + 1
    BY <1>2, <1>3
  <2> QED BY <1>4, <1>5, <2>1
<1>8. ASSUME NEW w \in 0 .. k - 1
      PROVE  /\ \A n \in 1 .. Letters(idx[w]) : new[at[w] + n - 1] = Letter(idx[w], n)
             /\ new[at[w] + Letters(idx[w])] = Separator(w)
  <2> DEFINE c == at[w]
             m == Letters(idx[w])
  <2>1. w \in 0 .. Words - 1 /\ w \in 0 .. Words /\ w + 1 \in 0 .. k
    BY <1>1
  <2>2. c \in Nat /\ m \in Nat
    <3>1. c \in Nat /\ idx[w] \in Nat
      BY <2>1 DEF Laid
    <3> QED BY <3>1, LettersOfWord
  <2>3. c + m + 1 <= b
    <3>1. at[w + 1] = c + m + 1
      BY <2>1 DEF Laid
    <3>2. at[w + 1] <= b
      BY <1>1, <2>1 DEF Laid, b
    <3> QED BY <3>1, <3>2
  <2>4. \A n \in 1 .. m : buf[c + n - 1] = Letter(idx[w], n)
    BY DEF Holds
  <2>5. buf[c + m] = Separator(w)
    BY DEF Holds
  <2> HIDE DEF c, m
  <2>6. \A i \in c .. c + m : i \in 0 .. PhraseCap - 1 /\ i \notin b .. b + l
    BY <1>2, <1>3, <2>2, <2>3
  <2>7. \A i \in c .. c + m : new[i] = buf[i]
    BY <1>5, <2>6
  <2>8. \A n \in 1 .. m : c + n - 1 \in c .. c + m
    BY <2>2
  <2>9. c + m \in c .. c + m
    BY <2>2
  <2>10. \A n \in 1 .. m : new[c + n - 1] = Letter(idx[w], n)
    BY <2>4, <2>7, <2>8
  <2>11. new[c + m] = Separator(w)
    BY <2>5, <2>7, <2>9
  <2> QED BY <2>10, <2>11 DEF c, m
<1>9. \A w \in 0 .. (k + 1) - 1 : w \in 0 .. k - 1 \/ w = k
  BY <1>1
<1>10. /\ \A n \in 1 .. Letters(idx[k]) : new[at[k] + n - 1] = Letter(idx[k], n)
       /\ new[at[k] + Letters(idx[k])] = Separator(k)
  BY <1>6, <1>7 DEF b, l, x
<1> QED BY <1>8, <1>9, <1>10 DEF Holds

\* What the parser finds in a word and behind it.
LEMMA AtReading ==
  ASSUME NEW idx, NEW at, Laid(idx, at), NEW buf, Holds(buf, idx, at, Words),
         NEW w \in 0 .. Words - 1, NEW r \in at[w] .. at[w] + Letters(idx[w])
  PROVE  /\ buf[r] = Space => r = at[w] + Letters(idx[w]) /\ w # Words - 1
         /\ buf[r] = Nul => r = at[w] + Letters(idx[w]) /\ w = Words - 1
<1>1. at[w] \in Nat /\ idx[w] \in Nat
  BY Sizes DEF Laid
<1>2. Letters(idx[w]) \in Nat
  BY <1>1, LettersOfWord
<1>3. CASE r = at[w] + Letters(idx[w])
  <2>1. buf[r] = Separator(w)
    BY <1>3 DEF Holds
  <2>2. Space # Nul
    <3>1. -1 # -2
      OBVIOUS
    <3> QED BY <3>1 DEF Space, Nul
  <2> QED BY <1>3, <2>1, <2>2 DEF Separator
<1>4. CASE r # at[w] + Letters(idx[w])
  <2> DEFINE n == r - at[w] + 1
  <2>1. n \in 1 .. Letters(idx[w]) /\ at[w] + n - 1 = r
    BY <1>1, <1>2, <1>4
  <2>2. buf[at[w] + n - 1] = Letter(idx[w], n)
    <3> HIDE DEF n
    <3> QED BY <2>1 DEF Holds
  <2>3. buf[r] = <<idx[w], n>>
    BY <2>1, <2>2 DEF Letter
  <2>4. n # 0
    BY <2>1
  <2> HIDE DEF n
  <2>5. buf[r] # Space /\ buf[r] # Nul
    BY <2>3, <2>4 DEF Space, Nul
  <2> QED BY <2>5
<1> QED BY <1>3, <1>4

LEMMA WordKeeps ==
  ASSUME PhraseInv, WriteWord
  PROVE  PhraseInv'
<1> DEFINE idx == Indices
           at == Begins(Indices)
           k == written
           s == Append(Spelling(IndexOf(k)), Separator(k))
<1>1. Laid(idx, at) /\ \A w \in 0 .. Words - 1 : idx[w] = IndexOf(w)
  BY IndicesLaid DEF PhraseInv
<1>2. idx' = idx /\ at' = at
  BY SameWords DEF WriteWord
<1>3. Words \in Nat \ {0} /\ k \in 0 .. Words - 1 /\ k \in 0 .. Words
  BY Sizes DEF PhraseInv, WriteWord
<1>4. cursor = at[k] /\ word = 0 /\ reading = 0 /\ Holds(buffer, idx, at, k) /\ idx[k] \in Nat
  BY <1>1, <1>3 DEF PhraseInv, Laid
<1>5. idx[k] = IndexOf(k) /\ Len(s) = Letters(idx[k]) + 1
  <2>1. idx[k] = IndexOf(k)
    BY <1>1, <1>3
  <2> QED BY <1>4, <2>1, Characters
<1>6. at[k] \in Nat /\ Letters(idx[k]) \in Nat /\ at[k + 1] = at[k] + Letters(idx[k]) + 1
  <2>1. at[k] \in Nat /\ at[k + 1] = at[k] + Letters(idx[k]) + 1
    BY <1>1, <1>3 DEF Laid
  <2> QED BY <1>4, <2>1, LettersOfWord
<1> HIDE DEF idx, at
<1>7. LaidOut(buffer, buffer', idx, at, k)
  <2>1. buffer' = WithChars(s) /\ DOMAIN buffer = 0 .. PhraseCap - 1
    BY DEF WriteWord, PhraseInv
  <2>2. s = Append(Spelling(idx[k]), Separator(k))
    BY <1>5
  <2> HIDE DEF s
  <2>3. cursor + Len(s) - 1 = at[k] + Letters(idx[k])
    BY <1>4, <1>5, <1>6
  <2>4. buffer' = [i \in DOMAIN buffer |-> IF i \in at[k] .. at[k] + Letters(idx[k]) THEN s[i - at[k] + 1] ELSE buffer[i]]
    BY <1>4, <2>1, <2>3 DEF WithChars
  <2> QED BY <2>1, <2>2, <2>4 DEF LaidOut
<1>8. Holds(buffer', idx, at, k + 1)
  BY <1>1, <1>3, <1>4, <1>7, WriteHolds
<1>9. cursor' = at[k + 1] /\ written' = k + 1
  <2>1. cursor' = cursor + Len(s) /\ written' = written + 1
    BY DEF WriteWord
  <2> HIDE DEF s
  <2> QED BY <1>4, <1>5, <1>6, <2>1
<1>10. DOMAIN buffer' = 0 .. PhraseCap - 1
  BY <1>7 DEF LaidOut
<1>11. UNCHANGED <<bits, wordOff, wordLen, word, reading>>
  BY DEF WriteWord
<1>12. ASSUME k + 1 = Words
       PROVE  Cut(idx, at)'
  <2>1. word' = 0 /\ reading' = 0 /\ wordOff' = wordOff /\ wordLen' = wordLen
    BY <1>4, <1>11
  <2>2. cursor' = at[Words] /\ cursor' # 0
    BY <1>6, <1>9, <1>12
  <2>3. at[0] = 0 /\ idx[0] \in Nat /\ 0 \in 0 .. Words - 1
    BY <1>1, <1>3 DEF Laid
  <2>4. Letters(idx[0]) \in Nat
    BY <2>3, LettersOfWord
  <2>5. 0 \in at[0] .. at[0] + Letters(idx[0])
    BY <2>3, <2>4
  <2>6. \A v \in 0 .. 0 : wordOff[v] = at[v]
    <3>1. wordOff[0] = 0
      BY DEF PhraseInv
    <3> QED BY <2>3, <3>1
  <2>7. \A v \in 0 .. 0 - 1 : wordLen[v] = Letters(idx[v])
    OBVIOUS
  <2> QED BY <1>2, <2>1, <2>2, <2>3, <2>5, <2>6, <2>7 DEF Cut
<1>13. /\ bits' \in [1 .. EntropyBytes + 1 -> 0 .. 255]
       /\ wordOff' \in [0 .. Words - 1 -> Int] /\ wordLen' \in [0 .. Words - 1 -> Int]
       /\ wordOff'[0] = 0
  BY <1>11 DEF PhraseInv
<1>14. written' \in 0 .. Words
  BY <1>3, <1>9
<1>15. Holds(buffer, idx, at, written)'
  BY <1>2, <1>8, <1>9
<1>16. (written < Words => cursor = at[written] /\ word = 0 /\ reading = 0)'
  BY <1>2, <1>4, <1>9, <1>11
<1>17. (written = Words => Cut(idx, at))'
  BY <1>9, <1>12
<1> QED BY <1>10, <1>13, <1>14, <1>15, <1>16, <1>17 DEF PhraseInv, idx, at

LEMMA CharKeeps ==
  ASSUME PhraseInv, ParseChar
  PROVE  PhraseInv'
<1> DEFINE idx == Indices
           at == Begins(Indices)
<1>1. Laid(idx, at)
  BY IndicesLaid DEF PhraseInv
<1>2. idx' = idx /\ at' = at
  BY SameWords DEF ParseChar
<1>3. /\ written = Words /\ Cut(idx, at) /\ Holds(buffer, idx, at, Words)
      /\ bits' = bits /\ written' = written /\ buffer' = buffer /\ cursor' = cursor
      /\ cursor # 0 /\ buffer[reading] # Nul /\ reading' = reading + 1
  BY DEF PhraseInv, ParseChar
<1>4. /\ wordOff \in [0 .. Words - 1 -> Int] /\ wordLen \in [0 .. Words - 1 -> Int] /\ wordOff[0] = 0
      /\ Words \in Nat \ {0}
  BY Sizes DEF PhraseInv
<1>5. /\ word \in 0 .. Words - 1 /\ reading \in at[word] .. at[word] + Letters(idx[word])
      /\ \A v \in 0 .. word : wordOff[v] = at[v]
      /\ \A v \in 0 .. word - 1 : wordLen[v] = Letters(idx[v])
      /\ cursor = at[Words]
  BY <1>3 DEF Cut
<1>6. buffer[reading] = Space => reading = at[word] + Letters(idx[word]) /\ word # Words - 1
  <2> HIDE DEF idx, at
  <2> QED BY <1>1, <1>3, <1>5, AtReading
<1>7. at[word] \in Nat /\ Letters(idx[word]) \in Nat /\ idx[word] \in Nat
      /\ at[word + 1] = at[word] + Letters(idx[word]) + 1
  <2>1. at[word] \in Nat /\ idx[word] \in Nat /\ at[word + 1] = at[word] + Letters(idx[word]) + 1
    BY <1>1, <1>4, <1>5 DEF Laid
  <2> QED BY <2>1, LettersOfWord
<1> HIDE DEF idx, at
<1>8. /\ wordOff' \in [0 .. Words - 1 -> Int] /\ wordLen' \in [0 .. Words - 1 -> Int] /\ wordOff'[0] = 0
      /\ Cut(idx, at)'
  <2>1. CASE buffer[reading] = Space
    <3>1. /\ wordLen' = [wordLen EXCEPT ![word] = reading - wordOff[word]]
          /\ word' = word + 1
          /\ wordOff' = IF word + 1 < Words THEN [wordOff EXCEPT ![word + 1] = reading + 1] ELSE wordOff
      BY <2>1 DEF ParseChar, NextStart
    <3>2. word + 1 \in 0 .. Words - 1 /\ word + 1 < Words /\ word \in Nat /\ Words \in Nat
      BY <1>4, <1>5, <1>6, <2>1
    <3>3. wordOff' = [wordOff EXCEPT ![word + 1] = reading + 1]
      BY <3>1, <3>2
    <3>4. reading + 1 = at[word + 1] /\ reading - wordOff[word] = Letters(idx[word])
          /\ reading + 1 \in Int /\ reading - wordOff[word] \in Int
      <4>1. wordOff[word] = at[word] /\ reading = at[word] + Letters(idx[word])
        BY <1>5, <1>6, <2>1, <3>2
      <4> QED BY <1>7, <4>1
    <3>5. wordOff' \in [0 .. Words - 1 -> Int] /\ wordOff'[0] = 0
      BY <1>4, <3>2, <3>3, <3>4
    <3>6. wordLen' \in [0 .. Words - 1 -> Int]
      BY <1>4, <1>5, <3>1, <3>4
    <3>7. \A v \in 0 .. word + 1 : wordOff'[v] = at[v]
      <4>1. \A v \in 0 .. word + 1 : v \in 0 .. Words - 1 /\ (v \in 0 .. word \/ v = word + 1)
        BY <3>2
      <4>2. wordOff'[word + 1] = at[word + 1]
        BY <1>4, <3>2, <3>3, <3>4
      <4>3. \A v \in 0 .. word : wordOff'[v] = wordOff[v]
        BY <1>4, <3>2, <3>3
      <4> QED BY <1>5, <4>1, <4>2, <4>3
    <3>8. \A v \in 0 .. (word + 1) - 1 : wordLen'[v] = Letters(idx[v])
      <4>1. \A v \in 0 .. (word + 1) - 1 : v \in 0 .. Words - 1 /\ (v \in 0 .. word - 1 \/ v = word)
        BY <3>2
      <4>2. wordLen'[word] = Letters(idx[word])
        BY <1>4, <1>5, <3>1, <3>4
      <4>3. \A v \in 0 .. word - 1 : wordLen'[v] = wordLen[v]
        BY <1>4, <1>5, <3>1
      <4> QED BY <1>5, <4>1, <4>2, <4>3
    <3>9. reading + 1 \in at[word + 1] .. at[word + 1] + Letters(idx[word + 1])
      <4>1. idx[word + 1] \in Nat
        BY <1>1, <3>2 DEF Laid
      <4>2. Letters(idx[word + 1]) \in Nat
        BY <4>1, LettersOfWord
      <4> QED BY <1>7, <3>4, <4>2
    <3>10. Cut(idx, at)'
      BY <1>2, <1>3, <1>5, <3>1, <3>2, <3>7, <3>8, <3>9 DEF Cut
    <3> QED BY <3>5, <3>6, <3>10
  <2>2. CASE buffer[reading] # Space
    <3>1. UNCHANGED <<wordOff, wordLen, word>>
      BY <2>2 DEF ParseChar
    <3>2. reading # at[word] + Letters(idx[word])
      <4>0. SUFFICES ASSUME reading = at[word] + Letters(idx[word]) PROVE FALSE
        OBVIOUS
      <4>1. buffer[reading] = Separator(word)
        BY <1>3, <1>5, <4>0 DEF Holds
      <4> QED BY <1>3, <2>2, <4>1 DEF Separator
    <3>3. reading + 1 \in at[word] .. at[word] + Letters(idx[word])
      BY <1>5, <1>7, <3>2
    <3>4. Cut(idx, at)'
      BY <1>2, <1>3, <1>5, <3>1, <3>3 DEF Cut
    <3> QED BY <1>4, <3>1, <3>4
  <2> QED BY <2>1, <2>2
<1>9. /\ bits' \in [1 .. EntropyBytes + 1 -> 0 .. 255] /\ written' = Words /\ written' \in 0 .. Words
      /\ DOMAIN buffer' = 0 .. PhraseCap - 1
  BY <1>3, <1>4 DEF PhraseInv
<1>10. Holds(buffer, idx, at, written)'
  BY <1>2, <1>3
<1>11. ~(written' < Words)
  BY <1>3, <1>4
<1> QED BY <1>8, <1>9, <1>10, <1>11 DEF PhraseInv, idx, at

LEMMA EndKeeps ==
  ASSUME PhraseInv, ParseEnd
  PROVE  PhraseInv'
<1> DEFINE idx == Indices
           at == Begins(Indices)
<1>1. Laid(idx, at)
  BY IndicesLaid DEF PhraseInv
<1>2. idx' = idx /\ at' = at
  BY SameWords DEF ParseEnd
<1>3. /\ written = Words /\ Cut(idx, at) /\ Holds(buffer, idx, at, Words)
      /\ UNCHANGED <<bits, written, buffer, wordOff, word, reading>>
      /\ cursor' = 0 /\ buffer[reading] = Nul
      /\ wordLen' = [wordLen EXCEPT ![word] = reading - wordOff[word]]
  BY DEF PhraseInv, ParseEnd
<1>4. /\ wordOff \in [0 .. Words - 1 -> Int] /\ wordLen \in [0 .. Words - 1 -> Int] /\ wordOff[0] = 0
      /\ Words \in Nat \ {0}
  BY Sizes DEF PhraseInv
<1>5. /\ word \in 0 .. Words - 1 /\ reading \in at[word] .. at[word] + Letters(idx[word])
      /\ \A v \in 0 .. word : wordOff[v] = at[v]
      /\ \A v \in 0 .. word - 1 : wordLen[v] = Letters(idx[v])
  BY <1>3 DEF Cut
<1> HIDE DEF idx, at
<1>6. reading = at[word] + Letters(idx[word]) /\ word = Words - 1
  BY <1>1, <1>3, <1>5, AtReading
<1>7. at[word] \in Nat /\ Letters(idx[word]) \in Nat
  <2>1. at[word] \in Nat /\ idx[word] \in Nat
    BY <1>1, <1>4, <1>5 DEF Laid
  <2> QED BY <2>1, LettersOfWord
<1>8. reading - wordOff[word] = Letters(idx[word]) /\ reading - wordOff[word] \in Int
  <2>1. wordOff[word] = at[word]
    BY <1>5
  <2> QED BY <1>6, <1>7, <2>1
<1>9. wordLen' \in [0 .. Words - 1 -> Int] /\ wordLen'[word] = Letters(idx[word])
  BY <1>3, <1>4, <1>5, <1>8
<1>10. \A v \in 0 .. word - 1 : wordLen'[v] = Letters(idx[v])
  BY <1>3, <1>4, <1>5
<1>11. Cut(idx, at)'
  BY <1>2, <1>3, <1>5, <1>6, <1>9, <1>10 DEF Cut
<1>12. Holds(buffer, idx, at, written)'
  BY <1>2, <1>3
<1>13. /\ bits' \in [1 .. EntropyBytes + 1 -> 0 .. 255] /\ written' = Words /\ written' \in 0 .. Words
       /\ DOMAIN buffer' = 0 .. PhraseCap - 1
  BY <1>3, <1>4 DEF PhraseInv
<1>14. ~(written' < Words)
  BY <1>3, <1>4
<1> QED BY <1>3, <1>4, <1>9, <1>11, <1>12, <1>13, <1>14 DEF PhraseInv, idx, at

LEMMA PhraseInductive ==
  MnemonicInit => PhraseInv
<1> SUFFICES ASSUME MnemonicInit PROVE PhraseInv
  OBVIOUS
<1>1. Words \in Nat \ {0}
  BY Sizes
<1>2. bits \in [1 .. EntropyBytes + 1 -> 0 .. 255]
  BY BitsDrawn DEF MnemonicInit
<1>3. /\ DOMAIN buffer = 0 .. PhraseCap - 1
      /\ wordOff \in [0 .. Words - 1 -> Int] /\ wordLen \in [0 .. Words - 1 -> Int] /\ wordOff[0] = 0
  BY <1>1 DEF MnemonicInit
<1>4. written = 0 /\ cursor = 0 /\ word = 0 /\ reading = 0
  BY DEF MnemonicInit
<1> QED BY <1>2, <1>3, <1>4, PhraseStart

LEMMA FirstWord ==
  bits \in [1 .. EntropyBytes + 1 -> 0 .. 255] => Begins(Indices)[0] = 0
BY IndicesLaid DEF Laid

LEMMA NextPhraseKeeps ==
  ASSUME PhraseInv, NextPhrase
  PROVE  PhraseInv'
<1>1. bits' \in [1 .. EntropyBytes + 1 -> 0 .. 255]
  BY BitsDrawn DEF NextPhrase
<1>2. /\ written' = 0 /\ word' = 0 /\ reading' = 0 /\ cursor' = 0
      /\ UNCHANGED <<buffer, wordOff, wordLen>>
  BY DEF NextPhrase
<1>3. DOMAIN buffer' = 0 .. PhraseCap - 1 /\ wordOff' \in [0 .. Words - 1 -> Int]
      /\ wordLen' \in [0 .. Words - 1 -> Int] /\ wordOff'[0] = 0
  BY <1>2 DEF PhraseInv
<1>4. Begins(Indices)'[0] = 0
  <2>1. (bits \in [1 .. EntropyBytes + 1 -> 0 .. 255] => Begins(Indices)[0] = 0)'
    BY FirstWord, PTL
  <2> QED BY <1>1, <2>1
<1>5. Words \in Nat \ {0}
  BY Sizes
<1>6. Holds(buffer, Indices, Begins(Indices), written)'
  BY <1>2 DEF Holds
<1> QED BY <1>1, <1>2, <1>3, <1>4, <1>5, <1>6 DEF PhraseInv

LEMMA PhraseMeant ==
  PhraseInv => PhraseSound
<1> SUFFICES ASSUME PhraseInv PROVE PhraseSound
  OBVIOUS
<1> DEFINE idx == Indices
           at == Begins(Indices)
<1>1. Laid(idx, at) /\ \A w \in 0 .. Words - 1 : idx[w] = IndexOf(w)
  BY IndicesLaid DEF PhraseInv
<1>2. Words \in Nat \ {0} /\ ShortestWord \in Nat \ {0}
  BY Sizes
<1>3. at \in [0 .. Words -> Nat] /\ idx \in [0 .. Words - 1 -> Nat] /\ at[0] = 0
  BY <1>1 DEF Laid
<1>4. \A w \in 0 .. Words : at[w] <= PhraseCap
  BY <1>1 DEF Laid
<1>5. \A w \in 0 .. Words - 1 : /\ at[w + 1] = at[w] + Letters(idx[w]) + 1
                                /\ Letters(idx[w]) \in Nat /\ Letters(idx[w]) >= ShortestWord
  <2>1. ASSUME NEW w \in 0 .. Words - 1
        PROVE  /\ at[w + 1] = at[w] + Letters(idx[w]) + 1
               /\ Letters(idx[w]) \in Nat /\ Letters(idx[w]) >= ShortestWord
    <3>1. at[w + 1] = at[w] + Letters(idx[w]) + 1 /\ Letters(idx[w]) \in ShortestWord .. LongestWord
      BY <1>1 DEF Laid
    <3>2. idx[w] \in Nat
      BY <1>3
    <3> QED BY <3>1, <3>2, LettersOfWord, Sizes
  <2> QED BY <2>1
<1>6. PhraseCap \in Nat \ {0}
  BY Sizes DEF PhraseCap
<1>7. PhraseFits
  <2>1. CASE written < Words
    <3>1. cursor = at[written] /\ word = 0 /\ reading = 0 /\ written \in 0 .. Words
      BY <2>1 DEF PhraseInv
    <3> HIDE DEF idx, at
    <3> QED BY <1>2, <1>4, <1>6, <3>1 DEF PhraseFits
  <2>2. CASE written = Words
    <3>1. /\ word \in 0 .. Words - 1 /\ reading \in at[word] .. at[word] + Letters(idx[word])
          /\ cursor = at[Words] \/ cursor = 0
      BY <2>2 DEF PhraseInv, Cut
    <3> HIDE DEF idx, at
    <3>2. Words \in 0 .. Words /\ word + 1 \in 0 .. Words /\ word \in 0 .. Words
      BY <1>2, <3>1
    <3>3. at[word] \in Nat /\ Letters(idx[word]) \in Nat /\ at[word + 1] = at[word] + Letters(idx[word]) + 1
      BY <1>3, <1>5, <3>1, <3>2
    <3>4. at[word + 1] <= PhraseCap
      BY <1>4, <3>2
    <3>5. reading < PhraseCap
      BY <1>6, <3>1, <3>3, <3>4
    <3>6. cursor <= PhraseCap
      BY <1>4, <1>6, <3>1, <3>2
    <3> QED BY <1>2, <3>1, <3>5, <3>6 DEF PhraseFits
  <2>3. written \in 0 .. Words
    BY DEF PhraseInv
  <2> QED BY <1>2, <2>1, <2>2, <2>3
<1>8. WordsAreTheEntropy
  <2> SUFFICES ASSUME Parsed
               PROVE  LET indexOfShown(w) == Shown(w)[1][1] IN
                      /\ \A w \in 0 .. Words - 1 : wordLen[w] >= ShortestWord /\ Shown(w) = Spelling(indexOfShown(w))
                      /\ NumberIn(Power(2, IndexBits), [w \in 1 .. Words |-> indexOfShown(w - 1)]) = NumberIn(256, bits)
    BY DEF WordsAreTheEntropy
  <2>1. /\ written = Words /\ cursor = 0 /\ Cut(idx, at) /\ Holds(buffer, idx, at, Words)
    BY DEF Parsed, PhraseInv
  <2>2. at[Words] # 0
    <3>1. Words - 1 \in 0 .. Words - 1 /\ (Words - 1) + 1 = Words /\ Words - 1 \in 0 .. Words
      BY <1>2
    <3> DEFINE u == Words - 1
    <3>2. u \in 0 .. Words - 1 /\ u + 1 = Words /\ u \in 0 .. Words
      BY <3>1
    <3> HIDE DEF u, idx, at
    <3>3. at[u + 1] = at[u] + Letters(idx[u]) + 1 /\ Letters(idx[u]) \in Nat /\ at[u] \in Nat
      BY <1>3, <1>5, <3>2
    <3> QED BY <3>2, <3>3
  <2>3. /\ word = Words - 1 /\ wordLen[word] = Letters(idx[word])
        /\ \A v \in 0 .. word : wordOff[v] = at[v]
        /\ \A v \in 0 .. word - 1 : wordLen[v] = Letters(idx[v])
    BY <2>1, <2>2 DEF Cut
  <2>4. ASSUME NEW w \in 0 .. Words - 1
        PROVE  wordLen[w] = Letters(idx[w]) /\ wordOff[w] = at[w]
    <3>1. w \in 0 .. word /\ (w \in 0 .. word - 1 \/ w = word)
      BY <1>2, <2>3
    <3> QED BY <2>3, <3>1
  <2>5. ASSUME NEW w \in 0 .. Words - 1
        PROVE  Shown(w) = Spelling(idx[w]) /\ Shown(w)[1][1] = idx[w] /\ wordLen[w] >= ShortestWord
    <3> HIDE DEF idx, at
    <3>1. Shown(w) = [n \in 1 .. Letters(idx[w]) |-> buffer[at[w] + n - 1]]
      BY <2>4 DEF Shown
    <3>2. \A n \in 1 .. Letters(idx[w]) : buffer[at[w] + n - 1] = Letter(idx[w], n)
      BY <2>1 DEF Holds
    <3>3. Shown(w) = [n \in 1 .. Letters(idx[w]) |-> Letter(idx[w], n)]
      BY <3>1, <3>2
    <3>4. Shown(w) = Spelling(idx[w])
      BY <3>3 DEF Spelling, Letters
    <3>5. 1 \in 1 .. Letters(idx[w]) /\ wordLen[w] >= ShortestWord
      BY <1>2, <1>5, <2>4
    <3>6. Shown(w)[1] = <<idx[w], 1>>
      BY <3>3, <3>5 DEF Letter
    <3> QED BY <3>4, <3>5, <3>6
  <2>6. [w \in 1 .. Words |-> Shown(w - 1)[1][1]] = [w \in 1 .. Words |-> IndexOf(w - 1)]
    <3>1. ASSUME NEW w \in 1 .. Words
          PROVE  Shown(w - 1)[1][1] = IndexOf(w - 1)
      <4>1. w - 1 \in 0 .. Words - 1
        BY <1>2
      <4> HIDE DEF idx, at
      <4> QED BY <1>1, <2>5, <4>1
    <3> QED BY <3>1
  <2>7. NumberIn(Power(2, IndexBits), [w \in 1 .. Words |-> IndexOf(w - 1)]) = NumberIn(256, bits)
    BY SameNumber DEF PhraseInv
  <2>8. \A w \in 0 .. Words - 1 : wordLen[w] >= ShortestWord /\ Shown(w) = Spelling(Shown(w)[1][1])
    BY <2>5
  <2> QED BY <2>6, <2>7, <2>8
<1> QED BY <1>7, <1>8 DEF PhraseSound

LEMMA PhraseIdles ==
  ASSUME PhraseInv, UNCHANGED mnemonicVars
  PROVE  PhraseInv'
<1>1. /\ bits' = bits /\ written' = written /\ buffer' = buffer /\ cursor' = cursor
      /\ wordOff' = wordOff /\ wordLen' = wordLen /\ word' = word /\ reading' = reading
  BY DEF mnemonicVars
<1>2. Indices' = Indices /\ Begins(Indices)' = Begins(Indices)
  BY <1>1, SameWords
<1>3. Holds(buffer, Indices, Begins(Indices), written)' <=> Holds(buffer, Indices, Begins(Indices), written)
  BY <1>1, <1>2
<1>4. Cut(Indices, Begins(Indices))' <=> Cut(Indices, Begins(Indices))
  BY <1>1, <1>2 DEF Cut
<1> QED BY <1>1, <1>2, <1>3, <1>4 DEF PhraseInv

\* The words on the screen stand for the entropy and its checksum, whatever an
\* earlier phrase left in the buffer and the offsets, and a phrase always fits:
\* for every length of the entropy and of the index, and every word list.
THEOREM PhraseIsTheWallet == MnemonicSpec => []PhraseSound
<1>1. MnemonicInit => PhraseInv
  BY PhraseInductive
<1>2. PhraseInv /\ [MnemonicNext]_mnemonicVars => PhraseInv'
  BY WordKeeps, CharKeeps, EndKeeps, NextPhraseKeeps, PhraseIdles DEF MnemonicNext
<1>3. PhraseInv => PhraseSound
  BY PhraseMeant
<1> QED BY <1>1, <1>2, <1>3, PTL DEF MnemonicSpec

-----------------------------------------------------------------------------
(* The tables.                                                               *)

Scalar == {c \in Int : IsScalar(c)}
Split == DOMAIN Decomposition

LEMMA LastIs == LastCodePoint \in Int /\ LastCodePoint = 1114111
BY SMT DEF LastCodePoint

LEMMA CodePointIs ==
  ASSUME NEW c
  PROVE  c \in CodePoint <=> c \in Int /\ 0 <= c /\ c <= LastCodePoint
<1>1. LastCodePoint \in Int
  BY LastIs
<1> QED BY <1>1, SMT DEF CodePoint

LEMMA ScalarIs ==
  ASSUME NEW c
  PROVE  /\ c \in Scalar <=> IsScalar(c)
         /\ c \in Scalar <=> c \in Int /\ 0 < c /\ c <= LastCodePoint /\ (c < 55296 \/ c > 57343)
         /\ c \in Scalar => c \in CodePoint
<1>1. IsScalar(c) <=> c \in Int /\ 0 < c /\ c <= LastCodePoint /\ (c < 55296 \/ c > 57343)
  BY CodePointIs, SMT DEF IsScalar
<1> QED BY <1>1, CodePointIs DEF Scalar, IsScalar

LEMMA Tables ==
  /\ \A c \in Split :
       /\ c \in Scalar
       /\ Decomposition[c] \in Seq(Scalar)
  /\ Samples \subseteq Scalar
<1>1. ASSUME NEW c \in Split
      PROVE  Decomposition[c] \in Seq(Scalar)
  <2> DEFINE d == Decomposition[c]
  <2>1. d \in Seq(Int) /\ \A i \in DOMAIN d : d[i] \in Scalar
    BY ScalarIs, TableAssumption DEF Split
  <2>2. Len(d) \in Nat /\ DOMAIN d = 1 .. Len(d) /\ d = [i \in 1 .. Len(d) |-> d[i]]
    BY <2>1, LenProperties
  <2> HIDE DEF d
  <2>3. d \in [1 .. Len(d) -> Scalar]
    BY <2>1, <2>2
  <2>4. d \in Seq(Scalar)
    BY <2>2, <2>3, SeqOfFunction
  <2> QED BY <2>4 DEF d
<1>2. \A c \in Split : c \in Scalar
  BY ScalarIs, TableAssumption DEF Split
<1>3. Samples \subseteq Scalar
  BY ScalarIs, NfkdAssumption
<1> QED BY <1>1, <1>2, <1>3

LEMMA ClassTyped ==
  ASSUME NEW c
  PROVE  CombiningClass(c) \in Nat
BY NfkdAssumption DEF CombiningClass

Hangul(c) == c - SBASE \in 0 .. SCOUNT - 1

LEMMA JamoTyped ==
  ASSUME NEW c \in Scalar, Hangul(c)
  PROVE  Jamo(c - SBASE) \in Seq(Scalar)
<1> DEFINE s == c - SBASE
<1>1. s \in 0 .. 11171
  BY ScalarIs, SMT DEF Hangul, SCOUNT, SBASE
<1> HIDE DEF s
<1>2. s \div 588 \in 0 .. 18 /\ s % 588 \in 0 .. 587
  <2>1. s \in Int /\ s >= 0 /\ s <= 11171
    BY <1>1
  <2>2. s \div 588 \in 0 .. 18
    BY <2>1
  <2>3. s % 588 \in 0 .. 587
    BY <2>1
  <2> QED BY <2>2, <2>3
<1>3. (s % 588) \div 28 \in 0 .. 20
  BY <1>2
<1>4. s % 28 \in 0 .. 27
  BY <1>1
<1>5. /\ LBASE + (s \div NCOUNT) \in Scalar
      /\ VBASE + ((s % NCOUNT) \div TCOUNT) \in Scalar
      /\ TBASE + (s % TCOUNT) \in Scalar
  <2>1. /\ LBASE + (s \div NCOUNT) \in 4352 .. 4370
        /\ VBASE + ((s % NCOUNT) \div TCOUNT) \in 4449 .. 4469
        /\ TBASE + (s % TCOUNT) \in 4519 .. 4546
    BY <1>2, <1>3, <1>4 DEF LBASE, VBASE, TBASE, NCOUNT, TCOUNT
  <2>2. \A n \in Int : n >= 4352 /\ n <= 4546 => n \in Scalar
    BY ScalarIs, LastIs, SMT
  <2> QED BY <2>1, <2>2
<1> QED BY <1>5 DEF Jamo, s

\* What stands for a part of a character, when f spells those that are split.
Piece(f, x) ==
  IF Hangul(x) THEN Jamo(x - SBASE) ELSE IF x \in Split THEN f[x] ELSE <<x>>
Assembled(f, c) == FlattenSeq([i \in DOMAIN Decomposition[c] |-> Piece(f, Decomposition[c][i])])

Solved(S, f) ==
  /\ S \subseteq Split
  /\ \A c \in S : /\ f[c] = Assembled(f, c)
                  /\ \A i \in DOMAIN Decomposition[c] :
                       Decomposition[c][i] \in Split => Decomposition[c][i] \in S

LEMMA Least ==
  ASSUME NEW S \in SUBSET Split, S # {}
  PROVE  \E c \in S : \A i \in DOMAIN Decomposition[c] : Decomposition[c][i] \notin S
BY TableAssumption DEF Split

LEMMA JoinedSame ==
  ASSUME NEW f, NEW g, NEW c,
         \A i \in DOMAIN Decomposition[c] :
           Decomposition[c][i] \in Split => f[Decomposition[c][i]] = g[Decomposition[c][i]]
  PROVE  Assembled(f, c) = Assembled(g, c)
<1>1. \A i \in DOMAIN Decomposition[c] :
        Piece(f, Decomposition[c][i]) = Piece(g, Decomposition[c][i])
  BY DEF Piece
<1>2. [i \in DOMAIN Decomposition[c] |-> Piece(f, Decomposition[c][i])]
        = [i \in DOMAIN Decomposition[c] |-> Piece(g, Decomposition[c][i])]
  BY <1>1
<1> QED BY <1>2 DEF Assembled

LEMMA SolutionsAgree ==
  ASSUME NEW S, NEW f, NEW T, NEW g, Solved(S, f), Solved(T, g), NEW c \in S, c \in T
  PROVE  f[c] = g[c]
<1> DEFINE B == {x \in S \cap T : f[x] # g[x]}
<1>1. SUFFICES ASSUME B # {} PROVE FALSE
  OBVIOUS
<1>2. B \subseteq Split
  BY DEF Solved
<1>3. PICK x \in B : \A i \in DOMAIN Decomposition[x] : Decomposition[x][i] \notin B
  BY <1>1, <1>2, Least
<1>4. \A i \in DOMAIN Decomposition[x] :
        Decomposition[x][i] \in Split => f[Decomposition[x][i]] = g[Decomposition[x][i]]
  BY <1>3 DEF Solved
<1>5. Assembled(f, x) = Assembled(g, x)
  BY <1>4, JoinedSame
<1> QED BY <1>3, <1>5 DEF Solved

\* The tables can be followed to the end.
LEMMA SpellingExists == \E f : Solved(Split, f)
<1> DEFINE Known(x) == \E S, f : Solved(S, f) /\ x \in S
           Is(x, v) == \E S, f : Solved(S, f) /\ x \in S /\ v = f[x]
           T == {x \in Split : Known(x)}
           value == [x \in Split |-> CHOOSE v : Is(x, v)]
           h == [x \in Split |-> IF x \in T THEN value[x] ELSE Assembled(value, x)]
<1>1. ASSUME NEW S, NEW f, Solved(S, f), NEW x \in S
      PROVE  x \in T /\ h[x] = f[x] /\ value[x] = f[x]
  <2>1. x \in Split /\ x \in T
    BY <1>1 DEF Solved
  <2>2. Is(x, f[x])
    BY <1>1
  <2>3. Is(x, value[x])
    <3> HIDE DEF Is
    <3> QED BY <2>1, <2>2
  <2>4. value[x] = f[x]
    BY <1>1, <2>3, SolutionsAgree
  <2> QED BY <2>1, <2>4
<1>2. Solved(T, h)
  <2>1. ASSUME NEW c \in T
        PROVE  /\ h[c] = Assembled(h, c)
               /\ \A i \in DOMAIN Decomposition[c] :
                    Decomposition[c][i] \in Split => Decomposition[c][i] \in T
    <3>1. PICK S, f : Solved(S, f) /\ c \in S
      OBVIOUS
    <3>2. f[c] = Assembled(f, c) /\ h[c] = f[c]
      <4> HIDE DEF h, T, value
      <4> QED BY <1>1, <3>1 DEF Solved
    <3>3. \A i \in DOMAIN Decomposition[c] :
            Decomposition[c][i] \in Split => Decomposition[c][i] \in S
      BY <3>1 DEF Solved
    <3>4. \A i \in DOMAIN Decomposition[c] :
            Decomposition[c][i] \in Split =>
              Decomposition[c][i] \in T /\ h[Decomposition[c][i]] = f[Decomposition[c][i]]
      <4> HIDE DEF h, T, value
      <4> QED BY <1>1, <3>1, <3>3
    <3>5. Assembled(h, c) = Assembled(f, c)
      <4> HIDE DEF h, T, value
      <4> QED BY <3>4, JoinedSame
    <3> QED BY <3>2, <3>4, <3>5
  <2> HIDE DEF h
  <2>2. T \subseteq Split
    OBVIOUS
  <2> HIDE DEF T
  <2> QED BY <2>1, <2>2 DEF Solved
<1>3. T = Split
  <2>1. SUFFICES ASSUME Split \ T # {} PROVE FALSE
    OBVIOUS
  <2>2. PICK c \in Split \ T : \A i \in DOMAIN Decomposition[c] : Decomposition[c][i] \notin Split \ T
    <3> HIDE DEF T
    <3> QED BY <2>1, Least
  <2>3. h[c] = Assembled(value, c)
    BY <2>2
  <2>4. \A x \in T : value[x] = h[x]
    OBVIOUS
  <2> HIDE DEF h, value, T
  <2>5. Assembled(value, c) = Assembled(h, c)
    BY <2>2, <2>4, JoinedSame
  <2>6. Solved(T \cup {c}, h)
    BY <1>2, <2>2, <2>3, <2>5 DEF Solved
  <2>7. c \in T
    BY <1>1, <2>6
  <2> QED BY <2>2, <2>7
<1> HIDE DEF h, T
<1> QED BY <1>2, <1>3

LEMMA DecomposedIs ==
  ASSUME NEW c \in CodePoint
  PROVE  Decomposed[c] = IF Hangul(c) THEN Jamo(c - SBASE)
                         ELSE IF c \in Split
                         THEN FlattenSeq([i \in DOMAIN Decomposition[c] |->
                                            Decomposed[Decomposition[c][i]]])
                         ELSE <<c>>
<1> DEFINE Spells(full) ==
      full = [x \in CodePoint |->
                IF Hangul(x) THEN Jamo(x - SBASE)
                ELSE IF x \in Split
                THEN FlattenSeq([i \in DOMAIN Decomposition[x] |-> full[Decomposition[x][i]]])
                ELSE <<x>>]
<1>1. PICK f : Solved(Split, f)
  BY SpellingExists
<1> DEFINE g == [x \in CodePoint |-> Piece(f, x)]
<1>2. ASSUME NEW x \in CodePoint
      PROVE  g[x] = IF Hangul(x) THEN Jamo(x - SBASE)
                    ELSE IF x \in Split
                    THEN FlattenSeq([i \in DOMAIN Decomposition[x] |-> g[Decomposition[x][i]]])
                    ELSE <<x>>
  <2>1. CASE Hangul(x) \/ x \notin Split
    BY <2>1 DEF Piece
  <2>2. CASE ~ Hangul(x) /\ x \in Split
    <3>1. g[x] = f[x] /\ f[x] = Assembled(f, x)
      BY <1>1, <2>2 DEF Piece, Solved
    <3>2. \A i \in DOMAIN Decomposition[x] : Decomposition[x][i] \in CodePoint
      <4>1. Decomposition[x] \in Seq(Scalar)
        BY <2>2, Tables
      <4>2. \A i \in DOMAIN Decomposition[x] : Decomposition[x][i] \in Scalar
        BY <4>1, LenProperties
      <4> QED BY <4>2, ScalarIs
    <3>3. \A i \in DOMAIN Decomposition[x] :
            g[Decomposition[x][i]] = Piece(f, Decomposition[x][i])
      BY <3>2
    <3>4. [i \in DOMAIN Decomposition[x] |-> g[Decomposition[x][i]]]
            = [i \in DOMAIN Decomposition[x] |-> Piece(f, Decomposition[x][i])]
      <4> HIDE DEF g
      <4> QED BY <3>3
    <3> HIDE DEF g
    <3> QED BY <2>2, <3>1, <3>4 DEF Assembled
  <2> QED BY <2>1, <2>2
<1>3. Spells(g)
  <2>1. g = [x \in CodePoint |-> g[x]]
    OBVIOUS
  <2> HIDE DEF g
  <2> QED BY <1>2, <2>1
<1>4. Decomposed = CHOOSE full : Spells(full)
  BY DEF Decomposed, Hangul, Split
<1>5. Spells(Decomposed)
  <2> HIDE DEF Spells, g
  <2> QED BY <1>3, <1>4
<1> QED BY <1>5

\* Decompositions are made of code points.
LEMMA SpellingTyped ==
  ASSUME NEW c \in Scalar
  PROVE  Decomposed[c] \in Seq(Scalar)
<1>0. \A x \in Scalar : x \in CodePoint
  BY ScalarIs
<1>1. ASSUME NEW x \in Scalar, Hangul(x) \/ x \notin Split
      PROVE  Decomposed[x] \in Seq(Scalar)
  <2>1. CASE Hangul(x)
    BY <1>0, <2>1, DecomposedIs, JamoTyped
  <2>2. CASE ~ Hangul(x)
    <3>1. Decomposed[x] = <<x>>
      BY <1>0, <1>1, <2>2, DecomposedIs
    <3> QED BY <3>1
  <2> QED BY <2>1, <2>2
<1> DEFINE B == {x \in Split : Decomposed[x] \notin Seq(Scalar)}
<1>2. B = {}
  <2>1. SUFFICES ASSUME B # {} PROVE FALSE
    OBVIOUS
  <2>2. PICK x \in B : \A i \in DOMAIN Decomposition[x] : Decomposition[x][i] \notin B
    BY <2>1, Least
  <2> DEFINE d == Decomposition[x]
             parts == [i \in DOMAIN d |-> Decomposed[d[i]]]
  <2>3. x \in Scalar /\ ~ Hangul(x) /\ d \in Seq(Scalar)
    BY <1>1, <2>2, Tables
  <2>4. DOMAIN d = 1 .. Len(d) /\ Len(d) \in Nat /\ \A i \in DOMAIN d : d[i] \in Scalar
    BY <2>3, LenProperties
  <2>5. \A i \in DOMAIN d : Decomposed[d[i]] \in Seq(Scalar)
    BY <1>1, <2>2, <2>4
  <2>6. Decomposed[x] = FlattenSeq(parts)
    BY <1>0, <2>2, <2>3, DecomposedIs
  <2>7. parts \in Seq(Seq(Scalar))
    <3> HIDE DEF d
    <3>1. parts \in [1 .. Len(d) -> Seq(Scalar)]
      BY <2>4, <2>5
    <3> QED BY <2>4, <3>1, SeqOfFunction
  <2>8. FlattenSeq(parts) \in Seq(Scalar)
    <3> HIDE DEF parts
    <3> QED BY <2>7, EmptySeq, FlattenAppend
  <2> QED BY <2>2, <2>6, <2>8
<1> QED BY <1>1, <1>2

-----------------------------------------------------------------------------
(* UTF-8.                                                                    *)

CodeUnit == 0 .. 255

LEMMA SixBits ==
  ASSUME NEW c \in Nat
  PROVE  /\ c \div 64 \in Nat /\ c \div 4096 \in Nat /\ c \div 262144 \in Nat
         /\ c % 64 \in 0 .. 63
         /\ (c \div 64) % 64 \in 0 .. 63 /\ (c \div 4096) % 64 \in 0 .. 63
         /\ c = (c \div 64) * 64 + (c % 64)
         /\ c \div 64 = (c \div 4096) * 64 + ((c \div 64) % 64)
         /\ c \div 4096 = (c \div 262144) * 64 + ((c \div 4096) % 64)
BY SMT

\* What the code writes for a code point is its UTF-8.
LEMMA Encoded ==
  ASSUME NEW c \in CodePoint
  PROVE  /\ EncodeChar(c) = Utf8(c)
         /\ Utf8(c) \in Seq(CodeUnit) /\ Len(Utf8(c)) = Utf8Length(c)
         /\ Utf8Length(c) \in 1 .. 4
         /\ c < 128 => Utf8Length(c) = 1 /\ Utf8(c)[1] = c
         /\ c >= 128 /\ c < 2048 =>
              /\ Utf8Length(c) = 2
              /\ Utf8(c)[1] = 192 + (c \div 64)
              /\ Utf8(c)[2] = 128 + (c % 64)
         /\ c >= 2048 /\ c < 65536 =>
              /\ Utf8Length(c) = 3
              /\ Utf8(c)[1] = 224 + (c \div 4096)
              /\ Utf8(c)[2] = 128 + ((c \div 64) % 64)
              /\ Utf8(c)[3] = 128 + (c % 64)
         /\ c >= 65536 =>
              /\ Utf8Length(c) = 4
              /\ Utf8(c)[1] = 240 + (c \div 262144)
              /\ Utf8(c)[2] = 128 + ((c \div 4096) % 64)
              /\ Utf8(c)[3] = 128 + ((c \div 64) % 64)
              /\ Utf8(c)[4] = 128 + (c % 64)
<1>0. c \in Nat
  BY CodePointIs, SMT
<1>5. c \div 262144 \in 0 .. 4
  BY CodePointIs, LastIs, SMT
<1> DEFINE n == Utf8Length(c)
           u == Utf8(c)
<1>1. CASE c < 128
  <2>1. n = 1
    BY <1>0, <1>1 DEF Utf8Length
  <2>2. u = [i \in 1 .. 1 |-> IF i = 1 THEN 0 + (c \div 1) ELSE 128 + ((c \div <<1, 64, 4096, 262144>>[2 - i]) % 64)]
    BY <2>1 DEF Utf8
  <2>3. u = <<c>>
    <3>1. c \div 1 = c
      BY <1>0
    <3>2. u = [i \in 1 .. 1 |-> c]
      BY <1>0, <2>2, <3>1
    <3> QED BY <3>2
  <2>4. EncodeChar(c) = <<c>> /\ c \in CodeUnit
    BY <1>0, <1>1 DEF EncodeChar, CodeUnit
  <2> QED BY <1>0, <1>1, <2>1, <2>3, <2>4
<1>2. CASE c >= 128 /\ c < 2048
  <2>1. n = 2
    BY <1>0, <1>2 DEF Utf8Length
  <2> DEFINE v == <<192 + (c \div 64), 128 + (c % 64)>>
  <2>2. c \div 64 \in 2 .. 31 /\ c % 64 \in 0 .. 63
    BY <1>0, <1>2
  <2>3. u = v
    <3>1. u = [i \in 1 .. 2 |-> IF i = 1 THEN 192 + (c \div 64)
                                ELSE 128 + ((c \div <<1, 64, 4096, 262144>>[3 - i]) % 64)]
      BY <2>1 DEF Utf8
    <3>2. u = [i \in 1 .. 2 |-> IF i = 1 THEN 192 + (c \div 64) ELSE 128 + ((c \div 1) % 64)]
      BY <3>1
    <3>3. c \div 1 = c
      BY <1>0
    <3>4. u = [i \in 1 .. 2 |-> IF i = 1 THEN 192 + (c \div 64) ELSE 128 + (c % 64)]
      BY <3>2, <3>3
    <3> QED BY <3>4
  <2>4. EncodeChar(c) = v
    BY <1>0, <1>2 DEF EncodeChar
  <2>5. v \in Seq(CodeUnit) /\ Len(v) = 2
    BY <2>2 DEF CodeUnit
  <2> QED BY <1>0, <1>2, <2>1, <2>3, <2>4, <2>5
<1>3. CASE c >= 2048 /\ c < 65536
  <2>1. n = 3
    BY <1>0, <1>3 DEF Utf8Length
  <2> DEFINE v == <<224 + (c \div 4096), 128 + ((c \div 64) % 64), 128 + (c % 64)>>
  <2>2. c \div 4096 \in 0 .. 15 /\ (c \div 64) % 64 \in 0 .. 63 /\ c % 64 \in 0 .. 63
    BY <1>0, <1>3, SMT
  <2>3. u = v
    <3>1. u = [i \in 1 .. 3 |-> IF i = 1 THEN 224 + (c \div 4096)
                                ELSE 128 + ((c \div <<1, 64, 4096, 262144>>[4 - i]) % 64)]
      BY <2>1 DEF Utf8
    <3>2. u = [i \in 1 .. 3 |-> IF i = 1 THEN 224 + (c \div 4096)
                                ELSE 128 + (IF i = 2 THEN (c \div 64) % 64 ELSE (c \div 1) % 64)]
      BY <3>1
    <3>3. c \div 1 = c
      BY <1>0
    <3>4. u = [i \in 1 .. 3 |-> IF i = 1 THEN 224 + (c \div 4096)
                                ELSE 128 + (IF i = 2 THEN (c \div 64) % 64 ELSE c % 64)]
      BY <3>2, <3>3
    <3> QED BY <3>4
  <2>4. EncodeChar(c) = v
    BY <1>0, <1>3 DEF EncodeChar
  <2>5. v \in Seq(CodeUnit) /\ Len(v) = 3
    BY <2>2 DEF CodeUnit
  <2> QED BY <1>0, <1>3, <2>1, <2>3, <2>4, <2>5
<1>4. CASE c >= 65536
  <2>1. n = 4
    BY <1>0, <1>4, SMT DEF Utf8Length
  <2> DEFINE v == <<240 + (c \div 262144), 128 + ((c \div 4096) % 64), 128 + ((c \div 64) % 64), 128 + (c % 64)>>
  <2>2. /\ c \div 262144 \in 0 .. 4 /\ (c \div 4096) % 64 \in 0 .. 63
        /\ (c \div 64) % 64 \in 0 .. 63 /\ c % 64 \in 0 .. 63
    BY <1>0, <1>5, SixBits
  <2>3. u = v
    <3>1. u = [i \in 1 .. 4 |-> IF i = 1 THEN 240 + (c \div 262144)
                                ELSE 128 + ((c \div <<1, 64, 4096, 262144>>[5 - i]) % 64)]
      BY <2>1, SMT DEF Utf8
    <3>2. u = [i \in 1 .. 4 |-> IF i = 1 THEN 240 + (c \div 262144)
                                ELSE 128 + (IF i = 2 THEN (c \div 4096) % 64
                                            ELSE IF i = 3 THEN (c \div 64) % 64 ELSE (c \div 1) % 64)]
      BY <3>1, SMT
    <3>3. c \div 1 = c
      BY <1>0, SMT
    <3>4. u = [i \in 1 .. 4 |-> IF i = 1 THEN 240 + (c \div 262144)
                                ELSE 128 + (IF i = 2 THEN (c \div 4096) % 64
                                            ELSE IF i = 3 THEN (c \div 64) % 64 ELSE c % 64)]
      BY <3>2, <3>3, SMT
    <3> QED BY <3>4, SMT
  <2>4. EncodeChar(c) = v
    BY <1>0, <1>4, SMT DEF EncodeChar
  <2>5. v \in Seq(CodeUnit) /\ Len(v) = 4
    BY <2>2, SMT DEF CodeUnit
  <2> QED BY <1>0, <1>4, <2>1, <2>3, <2>4, <2>5, SMT
<1> QED BY <1>0, <1>1, <1>2, <1>3, <1>4, SMT

\* Of a code point's UTF-8 the code reads that code point.
Reads(at, bytes) == \A j \in 1 .. Len(bytes) : text[at + j] = bytes[j]

LEMMA Decodes ==
  ASSUME NEW c \in CodePoint, c < 55296 \/ c > 57343, readPos \in Nat, Reads(readPos, Utf8(c))
  PROVE  Iterated = Scanned(Utf8Length(c), c)
<1>0. c \in Nat /\ readPos \in Nat
  BY CodePointIs, SMT
<1>1. \A i \in 0 .. 3 : i < Utf8Length(c) => At(i) = Utf8(c)[i + 1]
  <2> TAKE i \in 0 .. 3
  <2>1. Len(Utf8(c)) = Utf8Length(c) /\ Utf8Length(c) \in 1 .. 4
    BY Encoded
  <2>2. i < Utf8Length(c) => i + 1 \in 1 .. Len(Utf8(c))
    BY <2>1
  <2>3. readPos + 1 + i = readPos + (i + 1)
    BY <1>0
  <2> QED BY <2>2, <2>3 DEF Reads, At
<1>2. CASE c < 128
  <2>1. At(0) = c /\ Utf8Length(c) = 1
    BY <1>0, <1>1, <1>2, Encoded
  <2> QED BY <1>2, <2>1 DEF Iterated
<1>3. CASE c >= 128 /\ c < 2048
  <2> DEFINE q == c \div 64
             r == c % 64
  <2>1. q \in 2 .. 31 /\ r \in 0 .. 63 /\ c = q * 64 + r
    BY <1>0, <1>3, SixBits
  <2>2. Utf8Length(c) = 2 /\ Utf8(c)[1] = 192 + q /\ Utf8(c)[2] = 128 + r
    BY <1>3, Encoded
  <2>3. At(0) = 192 + q /\ At(1) = 128 + r
    BY <1>1, <2>2
  <2> HIDE DEF q, r
  <2>4. (192 + q) % 32 = q /\ (128 + r) % 64 = r /\ (128 + r) \div 64 = 2
    BY <2>1
  <2>5. Iterated = Two(192 + q)
    BY <2>1, <2>3 DEF Iterated
  <2>6. Two(192 + q) = Scanned(2, c)
    BY <2>1, <2>3, <2>4 DEF Two, IsContinuation, Six
  <2> QED BY <2>2, <2>5, <2>6
<1>4. CASE c >= 2048 /\ c < 65536
  <2> DEFINE p == c \div 4096
             q == (c \div 64) % 64
             r == c % 64
  <2>0. p * 4096 + q * 64 + r = c
    BY <1>0, SixBits
  <2>1. p \in 0 .. 15 /\ q \in 0 .. 63 /\ r \in 0 .. 63
    BY <1>0, <1>4, SixBits
  <2>2. Utf8Length(c) = 3 /\ Utf8(c)[1] = 224 + p /\ Utf8(c)[2] = 128 + q /\ Utf8(c)[3] = 128 + r
    BY <1>4, Encoded
  <2>3. At(0) = 224 + p /\ At(1) = 128 + q /\ At(2) = 128 + r
    BY <1>1, <2>2
  <2> HIDE DEF p, q, r
  <2>4. (224 + p) % 16 = p /\ (128 + r) % 64 = r /\ (128 + r) \div 64 = 2
        /\ (128 + q) % 64 = q /\ (128 + q) \div 64 = 2
    BY <2>1
  <2>5. Iterated = Three(224 + p)
    BY <2>1, <2>3 DEF Iterated
  <2>6. ~ Surrogate(224 + p, 128 + q)
    <3>1. SUFFICES ASSUME p = 13, q > 31 PROVE FALSE
      BY <2>1 DEF Surrogate
    <3>2. c >= 55296 /\ c <= 57343
      BY <2>0, <2>1, <3>1
    <3> QED BY <1>0, <3>2
  <2>7. Three(224 + p) = Scanned(3, c)
    <3>1. p * 4096 + Six(1) * 64 + Six(2) = c
      BY <2>0, <2>3, <2>4 DEF Six
    <3>2. IsContinuation(At(1)) /\ IsContinuation(At(2)) /\ ~ Surrogate(224 + p, At(1))
      BY <2>3, <2>4, <2>6 DEF IsContinuation
    <3> QED BY <1>0, <1>4, <2>4, <3>1, <3>2 DEF Three
  <2> QED BY <2>2, <2>5, <2>7
<1>5. CASE c >= 65536
  <2> DEFINE o == c \div 262144
             p == (c \div 4096) % 64
             q == (c \div 64) % 64
             r == c % 64
             oo == 262144 * o
  <2>0. oo + p * 4096 + q * 64 + r = c /\ oo = o * 262144
    BY <1>0, SixBits, SMT
  <2>1. o \in 0 .. 4 /\ p \in 0 .. 63 /\ q \in 0 .. 63 /\ r \in 0 .. 63
    <3>1. o >= 0 /\ o <= 4 /\ o \in Int
      BY <1>0, CodePointIs, LastIs, SMT
    <3> HIDE DEF o
    <3> QED BY <1>0, <3>1, SixBits
  <2>2. /\ Utf8Length(c) = 4 /\ Utf8(c)[1] = 240 + o
        /\ Utf8(c)[2] = 128 + p /\ Utf8(c)[3] = 128 + q /\ Utf8(c)[4] = 128 + r
    BY <1>5, Encoded
  <2>3. At(0) = 240 + o /\ At(1) = 128 + p /\ At(2) = 128 + q /\ At(3) = 128 + r
    BY <1>1, <2>2
  <2>6. o = 0 => oo = 0
    BY SMT
  <2>7. o = 4 => p <= 15
    <3>1. \A x, y, z \in Nat : c = 1048576 + x * 4096 + y * 64 + z => x <= 15
      BY CodePointIs, LastIs, SMT
    <3>2. o = 4 => c = 1048576 + p * 4096 + q * 64 + r
      BY <2>0, SMT
    <3> HIDE DEF o, p, q, r, oo
    <3> QED BY <2>1, <3>1, <3>2, SMT
  <2>8. o = 0 => p >= 16
    <3>1. o = 0 => c = 0 + p * 4096 + q * 64 + r
      BY <2>0, <2>6
    <3> HIDE DEF o, p, q, r, oo
    <3> QED BY <1>5, <2>1, <3>1
  <2>9. \A x \in 0 .. 4, y \in 0 .. 63 : (240 + x) % 8 = x /\ (128 + y) % 64 = y /\ (128 + y) \div 64 = 2
    OBVIOUS
  <2>10. o * 262144 + Six(1) * 4096 + Six(2) * 64 + Six(3) = c
    <3>1. Six(1) = p /\ Six(2) = q /\ Six(3) = r
      <4> HIDE DEF o, p, q, r, oo
      <4> QED BY <2>1, <2>3, <2>9 DEF Six
    <3> HIDE DEF o, p, q, r, oo
    <3> QED BY <2>0, <3>1, SMT
  <2> HIDE DEF o, p, q, r, oo
  <2>4. /\ (240 + o) % 8 = o
        /\ IsContinuation(At(1)) /\ IsContinuation(At(2)) /\ IsContinuation(At(3))
    BY <2>1, <2>3, <2>9 DEF IsContinuation
  <2>5. Iterated = Four(240 + o)
    BY <2>1, <2>3 DEF Iterated
  <2>11. ~ (240 + o = 240 /\ At(1) < 144) /\ ~ (240 + o = 244 /\ At(1) > 143)
    BY <2>1, <2>3, <2>7, <2>8
  <2>12. Four(240 + o) = Scanned(4, c)
    BY <2>4, <2>10, <2>11, SMT DEF Four
  <2> QED BY <2>2, <2>5, <2>12
<1> QED BY <1>0, <1>2, <1>3, <1>4, <1>5, SMT

LEMMA BrokenTyped == \A bad \in Broken : bad \in Seq(Nat) /\ Len(bad) > 0
<1> TAKE bad \in Broken
<1>1. CASE bad = <<128>>
  BY <1>1
<1>2. CASE bad = <<194>>
  BY <1>2
<1>3. CASE bad = <<192, 128>>
  BY <1>3
<1>4. CASE bad = <<193, 191>>
  BY <1>4
<1>5. CASE bad = <<224, 159, 191>>
  BY <1>5
<1>6. CASE bad = <<225, 184>>
  BY <1>6
<1>7. CASE bad = <<237, 160, 128>>
  BY <1>7
<1>8. CASE bad = <<240, 143, 191, 191>>
  BY <1>8
<1>9. CASE bad = <<240, 157, 133>>
  BY <1>9
<1>10. CASE bad = <<244, 144, 128, 128>>
  BY <1>10
<1>11. CASE bad = <<245, 128, 128, 128>>
  BY <1>11
<1>12. CASE bad = <<255>>
  BY <1>12
<1> QED BY <1>1, <1>2, <1>3, <1>4, <1>5, <1>6, <1>7, <1>8, <1>9, <1>10, <1>11, <1>12 DEF Broken

\* None of the malformed sequences is read as a code point.
LEMMA NotDecoded ==
  ASSUME NEW bad \in Broken, readPos \in Nat, Reads(readPos, Append(bad, 0))
  PROVE  Iterated = Invalid
<1> DEFINE b(i) == Append(bad, 0)[i + 1]
<1>1. \A i \in 0 .. 3 : i < Len(Append(bad, 0)) => At(i) = b(i)
  <2> TAKE i \in 0 .. 3
  <2>1. i < Len(Append(bad, 0)) => i + 1 \in 1 .. Len(Append(bad, 0))
    <3>1. Append(bad, 0) \in Seq(Nat)
      BY BrokenTyped, AppendProperties
    <3> HIDE DEF b
    <3> QED BY <3>1, LenProperties
  <2>2. readPos + 1 + i = readPos + (i + 1)
    OBVIOUS
  <2> QED BY <2>1, <2>2 DEF Reads, At
<1>2. CASE bad \in {<<128>>, <<255>>, <<192, 128>>, <<193, 191>>, <<245, 128, 128, 128>>}
  <2>1. Len(Append(bad, 0)) > 0
    <3>1. bad \in Seq(Nat)
      BY BrokenTyped
    <3> QED BY <3>1, LenProperties, AppendProperties
  <2>2. b(0) = bad[1]
    <3>1. bad \in Seq(Nat) /\ Len(bad) > 0
      BY BrokenTyped
    <3> QED BY <3>1, LenProperties, AppendProperties
  <2>3. bad[1] = 128 \/ bad[1] = 255 \/ bad[1] = 192 \/ bad[1] = 193 \/ bad[1] = 245
    BY <1>2
  <2> HIDE DEF b
  <2>4. At(0) = 128 \/ At(0) = 255 \/ At(0) = 192 \/ At(0) = 193 \/ At(0) = 245
    BY <1>1, <2>1, <2>2, <2>3
  <2> QED BY <2>4 DEF Iterated
<1>3. CASE bad = <<194>>
  <2>1. At(0) = 194 /\ At(1) = 0
    BY <1>1, <1>3
  <2> QED BY <2>1 DEF Iterated, Two, IsContinuation
<1>4. CASE bad = <<224, 159, 191>>
  <2>1. At(0) = 224 /\ At(1) = 159 /\ At(2) = 191
    BY <1>1, <1>4
  <2> QED BY <2>1 DEF Iterated, Three, IsContinuation, Surrogate, Six
<1>5. CASE bad = <<225, 184>>
  <2>1. At(0) = 225 /\ At(1) = 184 /\ At(2) = 0
    BY <1>1, <1>5
  <2> QED BY <2>1 DEF Iterated, Three, IsContinuation
<1>6. CASE bad = <<237, 160, 128>>
  <2>1. At(0) = 237 /\ At(1) = 160 /\ At(2) = 128
    BY <1>1, <1>6
  <2> QED BY <2>1 DEF Iterated, Three, Surrogate
<1>7. CASE bad = <<240, 143, 191, 191>>
  <2>1. At(0) = 240 /\ At(1) = 143
    BY <1>1, <1>7
  <2>2. Iterated = Four(240)
    BY <2>1 DEF Iterated
  <2> QED BY <2>1, <2>2, SMT DEF Four
<1>8. CASE bad = <<240, 157, 133>>
  <2>1. At(0) = 240 /\ At(3) = 0
    BY <1>1, <1>8
  <2>2. Iterated = Four(240)
    BY <2>1 DEF Iterated
  <2>3. ~ IsContinuation(At(3))
    BY <2>1 DEF IsContinuation
  <2> QED BY <2>2, <2>3, SMT DEF Four
<1>9. CASE bad = <<244, 144, 128, 128>>
  <2>1. At(0) = 244 /\ At(1) = 144
    BY <1>1, <1>9
  <2>2. Iterated = Four(244)
    BY <2>1 DEF Iterated
  <2> QED BY <2>1, <2>2, SMT DEF Four
<1> QED BY <1>2, <1>3, <1>4, <1>5, <1>6, <1>7, <1>8, <1>9 DEF Broken

-----------------------------------------------------------------------------
(* What a text begins with.                                                  *)

Beginning(s, k) == [i \in 1 .. k |-> s[i]]

LEMMA FlatGrows ==
  ASSUME NEW Elem, NEW s \in Seq(Seq(Elem))
  PROVE  /\ Beginning(s, Len(s)) = s
         /\ FlattenSeq(Beginning(s, 0)) = <<>>
         /\ \A k \in 0 .. Len(s) : FlattenSeq(Beginning(s, k)) \in Seq(Elem)
         /\ \A k \in 0 .. Len(s) - 1 :
              FlattenSeq(Beginning(s, k + 1)) = FlattenSeq(Beginning(s, k)) \o s[k + 1]
<1>1. Len(s) \in Nat /\ s = [i \in 1 .. Len(s) |-> s[i]] /\ \A i \in 1 .. Len(s) : s[i] \in Seq(Elem)
  BY LenProperties
<1>2. ASSUME NEW k \in 0 .. Len(s)
      PROVE  Beginning(s, k) \in Seq(Seq(Elem)) /\ Len(Beginning(s, k)) = k
  <2>1. k \in Nat /\ \A i \in 1 .. k : i \in 1 .. Len(s)
    BY <1>1
  <2>2. Beginning(s, k) \in [1 .. k -> Seq(Elem)]
    BY <1>1, <2>1 DEF Beginning
  <2> QED BY <2>1, <2>2, SeqOfFunction
<1>3. ASSUME NEW k \in 0 .. Len(s)
      PROVE  FlattenSeq(Beginning(s, k)) \in Seq(Elem)
  BY <1>2, EmptySeq, FlattenAppend
<1>4. ASSUME NEW k \in 0 .. Len(s) - 1
      PROVE  FlattenSeq(Beginning(s, k + 1)) = FlattenSeq(Beginning(s, k)) \o s[k + 1]
  <2> DEFINE b == Beginning(s, k)
             e == s[k + 1]
  <2>1. k \in Nat /\ k \in 0 .. Len(s) /\ k + 1 \in 1 .. Len(s)
    BY <1>1
  <2>2. b \in Seq(Seq(Elem)) /\ Len(b) = k /\ e \in Seq(Elem)
    BY <1>1, <1>2, <2>1
  <2>3. Append(b, e) = [i \in 1 .. k + 1 |-> IF i <= k THEN b[i] ELSE e]
    BY <2>2
  <2>4. \A i \in 1 .. k + 1 : (IF i <= k THEN b[i] ELSE e) = s[i]
    BY <2>1 DEF Beginning
  <2>5. Append(b, e) = Beginning(s, k + 1)
    <3> HIDE DEF b, e
    <3>1. [i \in 1 .. k + 1 |-> IF i <= k THEN b[i] ELSE e] = [i \in 1 .. k + 1 |-> s[i]]
      BY <2>4
    <3> QED BY <2>3, <3>1 DEF Beginning
  <2>6. FlattenSeq(Append(b, e)) = FlattenSeq(b) \o e
    BY <2>2, FlattenAppend
  <2> QED BY <2>5, <2>6
<1>5. Beginning(s, 0) = <<>>
  BY DEF Beginning
<1>6. FlattenSeq(Beginning(s, 0)) = <<>>
  BY <1>5 DEF FlattenSeq
<1>7. Beginning(s, Len(s)) = s
  BY <1>1 DEF Beginning
<1> QED BY <1>3, <1>4, <1>6, <1>7

LEMMA FlatBegins ==
  ASSUME NEW Elem, NEW s \in Seq(Seq(Elem)), NEW k \in 0 .. Len(s)
  PROVE  /\ Len(FlattenSeq(Beginning(s, k))) <= Len(FlattenSeq(s))
         /\ \A j \in 1 .. Len(FlattenSeq(Beginning(s, k))) :
              FlattenSeq(s)[j] = FlattenSeq(Beginning(s, k))[j]
<1> DEFINE f(m) == FlattenSeq(Beginning(s, m))
           S == {m \in Nat : m <= Len(s) =>
                   /\ Len(f(k)) <= Len(f(m))
                   /\ \A j \in 1 .. Len(f(k)) : f(m)[j] = f(k)[j]}
<1>1. /\ Len(s) \in Nat /\ k \in Nat /\ k <= Len(s)
      /\ \A m \in 0 .. Len(s) : f(m) \in Seq(Elem)
      /\ \A m \in 0 .. Len(s) - 1 : f(m + 1) = f(m) \o s[m + 1]
      /\ f(Len(s)) = FlattenSeq(s)
  <2>1. Len(s) \in Nat
    BY LenProperties
  <2> QED BY <2>1, FlatGrows
<1>2. \A m \in 0 .. Len(s) : Len(f(m)) \in Nat
  <2> HIDE DEF f
  <2> QED BY <1>1, LenProperties
<1>3. \A i \in 1 .. Len(s) : s[i] \in Seq(Elem)
  BY LenProperties
<1> HIDE DEF f
<1>4. k \in S
  BY <1>1, <1>2
<1>5. ASSUME NEW m \in Nat, m >= k, m \in S
      PROVE  m + 1 \in S
  <2> SUFFICES ASSUME m + 1 <= Len(s)
               PROVE  /\ Len(f(k)) <= Len(f(m + 1))
                      /\ \A j \in 1 .. Len(f(k)) : f(m + 1)[j] = f(k)[j]
    OBVIOUS
  <2>1. m \in 0 .. Len(s) - 1 /\ m \in 0 .. Len(s) /\ m + 1 \in 1 .. Len(s) /\ m + 1 \in 0 .. Len(s)
    BY <1>1
  <2>2. Len(f(k)) <= Len(f(m)) /\ \A j \in 1 .. Len(f(k)) : f(m)[j] = f(k)[j]
    BY <1>1, <1>5
  <2>3. f(m + 1) = f(m) \o s[m + 1] /\ f(m) \in Seq(Elem) /\ s[m + 1] \in Seq(Elem)
    BY <1>1, <1>3, <2>1
  <2>4. Len(f(m)) \in Nat /\ Len(s[m + 1]) \in Nat
    BY <2>3, LenProperties
  <2>5. /\ Len(f(m + 1)) = Len(f(m)) + Len(s[m + 1])
        /\ \A j \in 1 .. Len(f(m)) : f(m + 1)[j] = f(m)[j]
    BY <2>3, <2>4, ConcatProperties
  <2>6. Len(f(k)) \in Nat
    BY <1>1, <1>2
  <2>7. \A j \in 1 .. Len(f(k)) : j \in 1 .. Len(f(m))
    BY <2>2, <2>4, <2>6
  <2> QED BY <2>2, <2>4, <2>5, <2>6, <2>7
<1> HIDE DEF S
<1>6. \A m \in Nat : m >= k => m \in S
  BY <1>1, <1>4, <1>5, Upwards
<1>7. Len(s) \in S
  BY <1>1, <1>6
<1> QED BY <1>1, <1>7 DEF S, f

-----------------------------------------------------------------------------
(* The order of the marks.                                                   *)

\* A mark stands behind the first n.
Stands(x, c, n) ==
  /\ n \in 0 .. Len(x)
  /\ \A j \in n + 1 .. Len(x) : CombiningClass(x[j]) > CombiningClass(c)
  /\ n > 0 => CombiningClass(x[n]) <= CombiningClass(c)

LEMMA OnePlace ==
  ASSUME NEW Elem, NEW x \in Seq(Elem), NEW c
  PROVE  /\ Stands(x, c, Behind(x, c))
         /\ \A n : Stands(x, c, n) => n = Behind(x, c)
<1>0. Len(x) \in Nat
  BY LenProperties
<1> DEFINE cc == [j \in 1 .. Len(x) |-> CombiningClass(x[j])]
           m == CombiningClass(c)
<1>1. (\A j \in 1 .. Len(x) : cc[j] = CombiningClass(x[j]) /\ cc[j] \in Nat) /\ m \in Nat
  BY ClassTyped
<1>2. \A n : Stands(x, c, n) <=> /\ n \in 0 .. Len(x)
                                 /\ \A j \in n + 1 .. Len(x) : cc[j] > m
                                 /\ n > 0 => cc[n] <= m
  <2>1. \A n \in 0 .. Len(x) : \A j \in n + 1 .. Len(x) : j \in 1 .. Len(x)
    BY <1>0
  <2>2. \A n \in 0 .. Len(x) : n > 0 => n \in 1 .. Len(x)
    BY <1>0
  <2> QED BY <2>1, <2>2, <1>1 DEF Stands
<1> HIDE DEF cc, m
<1>3. ASSUME NEW n, NEW k, Stands(x, c, n), Stands(x, c, k), n < k
      PROVE  FALSE
  <2>1. n \in 0 .. Len(x) /\ k \in n + 1 .. Len(x) /\ k > 0 /\ k \in 1 .. Len(x)
    BY <1>0, <1>2, <1>3
  <2>2. cc[k] > m /\ cc[k] <= m
    BY <1>2, <1>3, <2>1
  <2> QED BY <1>1, <2>1, <2>2
<1>4. \A n, k : Stands(x, c, n) /\ Stands(x, c, k) => n = k
  <2> TAKE n, k
  <2> HAVE Stands(x, c, n) /\ Stands(x, c, k)
  <2>1. n \in 0 .. Len(x) /\ k \in 0 .. Len(x)
    BY <1>2
  <2>2. ~ (n < k) /\ ~ (k < n)
    BY <1>3
  <2> QED BY <1>0, <2>1, <2>2
<1>5. \E n : Stands(x, c, n)
  <2> DEFINE T == {t \in 0 .. Len(x) : t = Len(x) \/ cc[Len(x) - t] <= m}
  <2>1. T \in SUBSET Nat /\ T # {}
    BY <1>0
  <2>2. PICK t \in T : \A u \in T : t <= u
    BY <2>1, LeastElement
  <2> DEFINE n == Len(x) - t
  <2>3. n \in 0 .. Len(x) /\ t \in 0 .. Len(x)
    BY <1>0, <2>2
  <2>4. n > 0 => cc[n] <= m
    BY <1>0, <2>2
  <2>5. ASSUME NEW j \in n + 1 .. Len(x)
        PROVE  cc[j] > m
    <3>1. Len(x) - j \in 0 .. Len(x) /\ Len(x) - j < t /\ Len(x) - (Len(x) - j) = j /\ j \in 1 .. Len(x)
      BY <1>0, <2>3
    <3>2. Len(x) - j \notin T
      BY <1>0, <2>2, <3>1
    <3>3. ~ (cc[j] <= m)
      BY <3>1, <3>2
    <3> QED BY <1>1, <3>1, <3>3
  <2>6. Stands(x, c, n)
    BY <1>2, <2>3, <2>4, <2>5
  <2> QED BY <2>6
<1>6. Behind(x, c) = CHOOSE n \in 0 .. Len(x) : Stands(x, c, n)
  <2>1. \A n \in 0 .. Len(x) :
          Stands(x, c, n) <=> /\ \A j \in n + 1 .. Len(x) : CombiningClass(x[j]) > CombiningClass(c)
                              /\ n > 0 => CombiningClass(x[n]) <= CombiningClass(c)
    BY DEF Stands
  <2> QED BY <2>1 DEF Behind
<1>7. \E n \in 0 .. Len(x) : Stands(x, c, n)
  BY <1>5 DEF Stands
<1>8. Stands(x, c, Behind(x, c))
  <2> HIDE DEF Stands
  <2> QED BY <1>6, <1>7
<1> QED BY <1>4, <1>8

LEMMA MarkInserted ==
  ASSUME NEW Elem, NEW x \in Seq(Elem), NEW c \in Elem, NEW p, Stands(x, c, p), CombiningClass(c) # 0
  PROVE  /\ InsertMark(x, c) \in Seq(Elem)
         /\ Len(InsertMark(x, c)) = Len(x) + 1
         /\ \A j \in 1 .. Len(x) + 1 :
              InsertMark(x, c)[j] = IF j <= p THEN x[j] ELSE IF j = p + 1 THEN c ELSE x[j - 1]
<1>0. Len(x) \in Nat /\ p \in 0 .. Len(x) /\ \A j \in 1 .. Len(x) : x[j] \in Elem
  BY LenProperties DEF Stands
<1> DEFINE a == SubSeq(x, 1, p)
           d == SubSeq(x, p + 1, Len(x))
           e == <<c>>
           n == Len(x)
<1>1. InsertMark(x, c) = a \o e \o d
  <2>1. p = Behind(x, c)
    BY OnePlace
  <2>2. (p + 1) - 1 = p
    BY <1>0
  <2> QED BY <2>1, <2>2 DEF InsertMark, InsertAt
<1>2. a \in Seq(Elem) /\ Len(a) = p /\ \A j \in 1 .. p : a[j] = x[j]
  BY <1>0, SubSeqProperties
<1>3. d \in Seq(Elem) /\ Len(d) = n - p /\ \A j \in 1 .. n - p : d[j] = x[p + j]
  <2>1. p + 1 \in 1 .. n + 1 /\ n \in p .. n /\ n - (p + 1) + 1 = n - p
    BY <1>0
  <2> DEFINE m == p + 1
  <2>2. m \in Int /\ n \in Int /\ \A i \in m .. n : x[i] \in Elem
    BY <1>0
  <2>3. d = SubSeq(x, m, n)
    OBVIOUS
  <2> HIDE DEF d, m, n
  <2>4. /\ d \in Seq(Elem) /\ Len(d) = IF m <= n THEN n - m + 1 ELSE 0
        /\ \A i \in 1 .. n - m + 1 : d[i] = x[m + i - 1]
    BY <2>2, <2>3, SubSeqProperties
  <2>5. n - m + 1 = n - p /\ \A i \in 1 .. n - p : m + i - 1 = p + i
    BY <1>0 DEF m, n
  <2>6. (IF m <= n THEN n - m + 1 ELSE 0) = n - p
    BY <1>0 DEF m, n
  <2> QED BY <2>4, <2>5, <2>6
<1>4. e \in Seq(Elem) /\ Len(e) = 1 /\ e[1] = c
  OBVIOUS
<1> HIDE DEF a, d, e
<1> DEFINE ae == a \o e
<1>5. ae \in Seq(Elem) /\ Len(ae) = p + 1 /\ (\A j \in 1 .. p : ae[j] = x[j]) /\ ae[p + 1] = c
  <2>1. /\ ae \in Seq(Elem) /\ Len(ae) = Len(a) + Len(e)
        /\ \A i \in 1 .. Len(a) + Len(e) : ae[i] = IF i <= Len(a) THEN a[i] ELSE e[i - Len(a)]
    BY <1>2, <1>4, ConcatProperties
  <2> HIDE DEF ae
  <2>2. /\ ae \in Seq(Elem) /\ Len(ae) = p + 1
        /\ \A i \in 1 .. p + 1 : ae[i] = IF i <= p THEN a[i] ELSE e[i - p]
    BY <1>2, <1>4, <2>1
  <2>3. p + 1 \in 1 .. p + 1 /\ ~ (p + 1 <= p) /\ (p + 1) - p = 1
    BY <1>0
  <2>4. ae[p + 1] = c
    BY <1>4, <2>2, <2>3
  <2>5. \A j \in 1 .. p : j \in 1 .. p + 1 /\ j <= p
    BY <1>0
  <2> QED BY <1>2, <2>2, <2>4, <2>5
<1> HIDE DEF ae
<1> DEFINE y == ae \o d
<1>6. /\ y \in Seq(Elem) /\ Len(y) = n + 1
      /\ \A j \in 1 .. n + 1 : y[j] = IF j <= p + 1 THEN ae[j] ELSE d[j - (p + 1)]
  <2>1. /\ y \in Seq(Elem) /\ Len(y) = Len(ae) + Len(d)
        /\ \A i \in 1 .. Len(ae) + Len(d) : y[i] = IF i <= Len(ae) THEN ae[i] ELSE d[i - Len(ae)]
    BY <1>3, <1>5, ConcatProperties
  <2> HIDE DEF y
  <2>2. Len(ae) = p + 1 /\ Len(ae) + Len(d) = n + 1
    BY <1>0, <1>3, <1>5
  <2> QED BY <2>1, <2>2
<1> HIDE DEF y
<1>7. ASSUME NEW j \in 1 .. n + 1
      PROVE  y[j] = IF j <= p THEN x[j] ELSE IF j = p + 1 THEN c ELSE x[j - 1]
  <2>1. CASE j <= p
    <3>1. j \in 1 .. p /\ j <= p + 1
      BY <1>0, <2>1
    <3> QED BY <1>5, <1>6, <2>1, <3>1
  <2>2. CASE j = p + 1
    BY <1>0, <1>5, <1>6, <2>2
  <2>3. CASE j > p + 1
    <3>1. j - (p + 1) \in 1 .. n - p /\ p + (j - (p + 1)) = j - 1 /\ ~ (j <= p + 1)
      BY <1>0, <2>3
    <3>2. y[j] = d[j - (p + 1)]
      BY <1>6, <3>1
    <3>3. d[j - (p + 1)] = x[j - 1]
      BY <1>3, <3>1
    <3> QED BY <1>0, <2>3, <3>2, <3>3
  <2> QED BY <1>0, <2>1, <2>2, <2>3
<1> QED BY <1>1, <1>6, <1>7 DEF ae, y

LEMMA InsertTyped ==
  ASSUME NEW Elem, NEW x \in Seq(Elem), NEW c \in Elem
  PROVE  InsertMark(x, c) \in Seq(Elem) /\ Len(InsertMark(x, c)) = Len(x) + 1
<1>1. CASE CombiningClass(c) = 0
  BY <1>1, AppendProperties DEF InsertMark
<1>2. CASE CombiningClass(c) # 0
  BY <1>2, OnePlace, MarkInserted
<1> QED BY <1>1, <1>2

\* Marks of different classes may come in either order.
LEMMA MarksCommute ==
  ASSUME NEW Elem, NEW x \in Seq(Elem), NEW a \in Elem, NEW b \in Elem,
         CombiningClass(a) # 0, CombiningClass(a) < CombiningClass(b)
  PROVE  InsertMark(InsertMark(x, a), b) = InsertMark(InsertMark(x, b), a)
<1> DEFINE n == Len(x)
           ka == CombiningClass(a)
           kb == CombiningClass(b)
           p == Behind(x, a)
           q == Behind(x, b)
           xa == InsertMark(x, a)
           xb == InsertMark(x, b)
<1>0. n \in Nat /\ ka \in Nat /\ kb \in Nat /\ ka # 0 /\ kb # 0 /\ ka < kb
  BY LenProperties, ClassTyped
<1>1. Stands(x, a, p) /\ Stands(x, b, q)
  BY OnePlace
<1>2. p \in 0 .. n /\ q \in 0 .. n
  BY <1>1 DEF Stands
<1>3. p <= q
  <2>1. SUFFICES ASSUME p > q PROVE FALSE
    BY <1>2
  <2>2. p \in q + 1 .. n /\ p > 0
    BY <1>2, <2>1
  <2>3. CombiningClass(x[p]) > kb /\ CombiningClass(x[p]) <= ka
    BY <1>1, <2>2 DEF Stands
  <2> QED BY <1>0, <2>3, ClassTyped
<1>4. /\ xa \in Seq(Elem) /\ Len(xa) = n + 1
      /\ \A j \in 1 .. n + 1 : xa[j] = IF j <= p THEN x[j] ELSE IF j = p + 1 THEN a ELSE x[j - 1]
  BY <1>0, <1>1, MarkInserted
<1>5. /\ xb \in Seq(Elem) /\ Len(xb) = n + 1
      /\ \A j \in 1 .. n + 1 : xb[j] = IF j <= q THEN x[j] ELSE IF j = q + 1 THEN b ELSE x[j - 1]
  BY <1>0, <1>1, MarkInserted
<1>6. Stands(xa, b, q + 1)
  <2>1. q + 1 \in 0 .. Len(xa)
    BY <1>0, <1>2, <1>4
  <2>2. ASSUME NEW j \in (q + 1) + 1 .. Len(xa)
        PROVE  CombiningClass(xa[j]) > kb
    <3>1. j \in 1 .. n + 1 /\ ~ (j <= p) /\ j # p + 1 /\ j - 1 \in q + 1 .. n
      BY <1>0, <1>2, <1>3, <1>4
    <3>2. xa[j] = x[j - 1]
      BY <1>4, <3>1
    <3> QED BY <1>1, <3>1, <3>2 DEF Stands
  <2>3. CombiningClass(xa[q + 1]) <= kb
    <3>1. q + 1 \in 1 .. n + 1
      BY <1>0, <1>2
    <3>2. CASE q = p
      <4>1. xa[q + 1] = a
        BY <1>2, <1>4, <3>1, <3>2
      <4> QED BY <1>0, <4>1
    <3>3. CASE q > p
      <4>1. ~ (q + 1 <= p) /\ q + 1 # p + 1 /\ (q + 1) - 1 = q /\ q > 0
        BY <1>2, <3>3
      <4>2. xa[q + 1] = x[q]
        BY <1>4, <3>1, <4>1
      <4> QED BY <1>1, <4>1, <4>2 DEF Stands
    <3> QED BY <1>2, <1>3, <3>2, <3>3
  <2> QED BY <2>1, <2>2, <2>3 DEF Stands
<1>7. Stands(xb, a, p)
  <2>1. p \in 0 .. Len(xb)
    BY <1>0, <1>2, <1>5
  <2>2. ASSUME NEW j \in p + 1 .. Len(xb)
        PROVE  CombiningClass(xb[j]) > ka
    <3>0. j \in 1 .. n + 1 /\ j \in Nat
      BY <1>0, <1>2, <1>5
    <3>1. CASE j <= q
      <4>1. xb[j] = x[j] /\ j \in p + 1 .. n
        BY <1>0, <1>2, <1>5, <3>0, <3>1
      <4> QED BY <1>1, <4>1 DEF Stands
    <3>2. CASE j = q + 1
      <4>1. xb[j] = b
        BY <1>2, <1>5, <3>0, <3>2
      <4> QED BY <1>0, <4>1
    <3>3. CASE j > q + 1
      <4>1. xb[j] = x[j - 1] /\ j - 1 \in p + 1 .. n
        BY <1>0, <1>2, <1>3, <1>5, <3>0, <3>3
      <4> QED BY <1>1, <4>1 DEF Stands
    <3> QED BY <1>2, <3>0, <3>1, <3>2, <3>3
  <2>3. ASSUME p > 0 PROVE CombiningClass(xb[p]) <= ka
    <3>1. p \in 1 .. n + 1 /\ p <= q
      BY <1>0, <1>2, <1>3, <2>3
    <3>2. xb[p] = x[p]
      BY <1>5, <3>1
    <3> QED BY <1>1, <2>3, <3>2 DEF Stands
  <2> QED BY <2>1, <2>2, <2>3 DEF Stands
<1> DEFINE y == InsertMark(xa, b)
           z == InsertMark(xb, a)
<1> HIDE DEF xa, xb, n, p, q
<1>8. /\ y \in Seq(Elem) /\ Len(y) = n + 2
      /\ \A j \in 1 .. n + 2 : y[j] = IF j <= q + 1 THEN xa[j] ELSE IF j = q + 2 THEN b ELSE xa[j - 1]
  <2>1. (n + 1) + 1 = n + 2 /\ (q + 1) + 1 = q + 2
    BY <1>0, <1>2
  <2>2. xa \in Seq(Elem) /\ Stands(xa, b, q + 1) /\ CombiningClass(b) # 0
    BY <1>0, <1>4, <1>6
  <2>3. /\ y \in Seq(Elem) /\ Len(y) = Len(xa) + 1
        /\ \A j \in 1 .. Len(xa) + 1 :
             y[j] = IF j <= q + 1 THEN xa[j] ELSE IF j = (q + 1) + 1 THEN b ELSE xa[j - 1]
    BY <2>2, MarkInserted
  <2> HIDE DEF y
  <2>4. Len(xa) + 1 = n + 2
    BY <1>4, <2>1
  <2> QED BY <2>1, <2>3, <2>4
<1>9. /\ z \in Seq(Elem) /\ Len(z) = n + 2
      /\ \A j \in 1 .. n + 2 : z[j] = IF j <= p THEN xb[j] ELSE IF j = p + 1 THEN a ELSE xb[j - 1]
  <2>1. (n + 1) + 1 = n + 2
    BY <1>0
  <2>2. xb \in Seq(Elem) /\ Stands(xb, a, p) /\ CombiningClass(a) # 0
    BY <1>0, <1>5, <1>7
  <2>3. /\ z \in Seq(Elem) /\ Len(z) = Len(xb) + 1
        /\ \A j \in 1 .. Len(xb) + 1 :
             z[j] = IF j <= p THEN xb[j] ELSE IF j = p + 1 THEN a ELSE xb[j - 1]
    BY <2>2, MarkInserted
  <2> HIDE DEF z
  <2>4. Len(xb) + 1 = n + 2
    BY <1>5, <2>1
  <2> QED BY <2>3, <2>4
<1> HIDE DEF y, z
<1>10. ASSUME NEW j \in 1 .. n + 2
       PROVE  y[j] = z[j]
  <2>0. j \in Nat /\ j > 0 /\ j <= n + 2 /\ p \in Nat /\ q \in Nat /\ p <= q /\ q <= n
    BY <1>0, <1>2, <1>3
  <2>1. CASE j <= p
    <3>1. j \in 1 .. n + 1 /\ j <= q + 1 /\ j <= q
      BY <1>0, <2>0, <2>1
    <3> QED BY <1>4, <1>5, <1>8, <1>9, <2>1, <3>1
  <2>2. CASE j = p + 1
    <3>1. j \in 1 .. n + 1 /\ j <= q + 1 /\ ~ (j <= p)
      BY <1>0, <2>0, <2>2
    <3> QED BY <1>4, <1>8, <1>9, <2>2, <3>1
  <2>3. CASE j > p + 1 /\ j <= q + 1
    <3>1. j \in 1 .. n + 1 /\ ~ (j <= p) /\ j # p + 1 /\ j - 1 <= q /\ j - 1 \in 1 .. n + 1
      BY <1>0, <2>0, <2>3
    <3>2. y[j] = x[j - 1]
      BY <1>4, <1>8, <2>3, <3>1
    <3>3. z[j] = x[j - 1]
      BY <1>5, <1>9, <3>1
    <3> QED BY <3>2, <3>3
  <2>4. CASE j = q + 2
    <3>1. ~ (j <= q + 1) /\ ~ (j <= p) /\ j # p + 1 /\ j - 1 = q + 1 /\ ~ (q + 1 <= q) /\ q + 1 \in 1 .. n + 1
      BY <1>0, <2>0, <2>4
    <3> QED BY <1>5, <1>8, <1>9, <2>4, <3>1
  <2>5. CASE j > q + 2
    <3>1. /\ ~ (j <= q + 1) /\ j # q + 2 /\ ~ (j <= p) /\ j # p + 1
          /\ j - 1 \in 1 .. n + 1 /\ ~ (j - 1 <= q) /\ j - 1 # q + 1 /\ ~ (j - 1 <= p) /\ j - 1 # p + 1
      BY <1>0, <2>0, <2>5
    <3>2. y[j] = x[(j - 1) - 1]
      BY <1>4, <1>8, <3>1
    <3>3. z[j] = x[(j - 1) - 1]
      BY <1>5, <1>9, <3>1
    <3> QED BY <3>2, <3>3
  <2> QED BY <2>0, <2>1, <2>2, <2>3, <2>4, <2>5
<1>11. y = [j \in 1 .. n + 2 |-> y[j]] /\ z = [j \in 1 .. n + 2 |-> z[j]]
  BY <1>8, <1>9, LenProperties
<1> QED BY <1>10, <1>11 DEF y, z, xa, xb

Inserts(g, s) == g = [n \in 0 .. Len(s) |-> IF n = 0 THEN <<>> ELSE InsertMark(g[n - 1], s[n])]

LEMMA InsertsExists ==
  ASSUME NEW Elem, NEW s \in Seq(Elem)
  PROVE  \E g : Inserts(g, s)
<1> DEFINE n == Len(s)
           D == Seq(Elem)
           base == <<>>
           step == [i \in 1 .. n |-> [x \in D |-> InsertMark(x, s[i])]]
<1>1. n \in Nat /\ base \in D /\ \A i \in 1 .. n : s[i] \in Elem
  BY LenProperties, EmptySeq
<1>2. step \in [1 .. n -> [D -> D]]
  BY <1>1, InsertTyped
<1>3. \A i \in 1 .. n : \A x \in D : step[i][x] = InsertMark(x, s[i])
  OBVIOUS
<1> HIDE DEF step, D, base, n
<1>4. PICK g : Stepwise(g, D, n, base, step)
  <2>1. base \in D /\ n \in Nat /\ step \in [1 .. n -> [D -> D]]
    BY <1>1, <1>2
  <2> QED BY <2>1, StepwiseFunction
<1>5. g \in [0 .. n -> D] /\ g[0] = base /\ \A i \in 1 .. n : g[i] = step[i][g[i - 1]]
  BY <1>4 DEF Stepwise
<1>6. ASSUME NEW i \in 0 .. n
      PROVE  g[i] = IF i = 0 THEN <<>> ELSE InsertMark(g[i - 1], s[i])
  <2>1. CASE i = 0
    BY <1>5, <2>1 DEF base
  <2>2. CASE i # 0
    <3>1. i \in 1 .. n /\ i - 1 \in 0 .. n
      BY <1>1, <2>2
    <3> QED BY <1>3, <1>5, <2>2, <3>1
  <2> QED BY <2>1, <2>2
<1>7. g = [i \in 0 .. n |-> g[i]]
  BY <1>5
<1>8. g = [i \in 0 .. n |-> IF i = 0 THEN <<>> ELSE InsertMark(g[i - 1], s[i])]
  BY <1>6, <1>7
<1> QED BY <1>8 DEF Inserts, n

LEMMA OrderedBy ==
  ASSUME NEW Elem, NEW s \in Seq(Elem)
  PROVE  \E g : /\ Inserts(g, s) /\ Ordered(s) = g[Len(s)]
                /\ g[0] = <<>> /\ \A i \in 1 .. Len(s) : g[i] = InsertMark(g[i - 1], s[i])
                /\ \A i \in 0 .. Len(s) : g[i] \in Seq(Elem)
<1> DEFINE g == CHOOSE g : Inserts(g, s)
<1>1. Inserts(g, s)
  BY InsertsExists
<1>2. Ordered(s) = g[Len(s)]
  BY DEF Ordered, Inserts
<1>3. Len(s) \in Nat /\ \A i \in 1 .. Len(s) : s[i] \in Elem
  BY LenProperties
<1>4. \A i \in 0 .. Len(s) : g[i] = IF i = 0 THEN <<>> ELSE InsertMark(g[i - 1], s[i])
  <2> HIDE DEF g
  <2> QED BY <1>1 DEF Inserts
<1> HIDE DEF g
<1>5. g[0] = <<>> /\ \A i \in 1 .. Len(s) : g[i] = InsertMark(g[i - 1], s[i])
  BY <1>3, <1>4
<1>6. \A i \in 0 .. Len(s) : g[i] \in Seq(Elem)
  <2> DEFINE S == {i \in Nat : i <= Len(s) => g[i] \in Seq(Elem)}
  <2>1. 0 \in S
    BY <1>5, EmptySeq
  <2>2. ASSUME NEW i \in Nat, i \in S PROVE i + 1 \in S
    <3>1. SUFFICES ASSUME i + 1 <= Len(s) PROVE g[i + 1] \in Seq(Elem)
      OBVIOUS
    <3>2. i + 1 \in 1 .. Len(s) /\ (i + 1) - 1 = i /\ g[i] \in Seq(Elem)
      BY <1>3, <2>2, <3>1
    <3>3. g[i + 1] = InsertMark(g[i], s[i + 1]) /\ s[i + 1] \in Elem
      BY <1>3, <1>5, <3>2
    <3> QED BY <3>2, <3>3, InsertTyped
  <2> HIDE DEF S
  <2>3. \A i \in Nat : i \in S
    BY <2>1, <2>2, FromZero
  <2> QED BY <1>3, <2>3 DEF S
<1> QED BY <1>1, <1>2, <1>5, <1>6

\* Exchanging two neighbours that are out of order leads to the same order.
LEMMA ExchangeKeepsOrder ==
  ASSUME NEW Elem, NEW s \in Seq(Elem), NEW t \in Seq(Elem), Len(t) = Len(s),
         NEW k \in 1 .. Len(s) - 1, OutOfOrder(s[k], s[k + 1]),
         t[k] = s[k + 1], t[k + 1] = s[k],
         \A j \in 1 .. Len(s) : j # k /\ j # k + 1 => t[j] = s[j]
  PROVE  Ordered(t) = Ordered(s)
<1>0. Len(s) \in Nat /\ k \in Nat /\ k > 0 /\ k + 1 <= Len(s) /\ \A i \in 1 .. Len(s) : s[i] \in Elem
  BY LenProperties
<1>1. PICK g : /\ Ordered(s) = g[Len(s)]
               /\ g[0] = <<>> /\ \A i \in 1 .. Len(s) : g[i] = InsertMark(g[i - 1], s[i])
               /\ \A i \in 0 .. Len(s) : g[i] \in Seq(Elem)
  BY OrderedBy
<1>2. PICK h : /\ Ordered(t) = h[Len(s)]
               /\ h[0] = <<>> /\ \A i \in 1 .. Len(s) : h[i] = InsertMark(h[i - 1], t[i])
               /\ \A i \in 0 .. Len(s) : h[i] \in Seq(Elem)
  <2>1. \E h : /\ Inserts(h, t) /\ Ordered(t) = h[Len(t)]
               /\ h[0] = <<>> /\ \A i \in 1 .. Len(t) : h[i] = InsertMark(h[i - 1], t[i])
               /\ \A i \in 0 .. Len(t) : h[i] \in Seq(Elem)
    BY OrderedBy
  <2> QED BY <2>1
<1>3. ASSUME NEW i \in 1 .. Len(s), i # k, i # k + 1, h[i - 1] = g[i - 1]
      PROVE  h[i] = g[i]
  BY <1>1, <1>2, <1>3
<1>4. h[k - 1] = g[k - 1]
  <2> DEFINE S == {i \in Nat : i < k => h[i] = g[i]}
  <2>1. 0 \in S
    BY <1>1, <1>2
  <2>2. ASSUME NEW i \in Nat, i \in S PROVE i + 1 \in S
    <3>1. SUFFICES ASSUME i + 1 < k PROVE h[i + 1] = g[i + 1]
      OBVIOUS
    <3>2. i + 1 \in 1 .. Len(s) /\ (i + 1) - 1 = i /\ h[i] = g[i] /\ i + 1 # k /\ i + 1 # k + 1
      BY <1>0, <2>2, <3>1
    <3> QED BY <1>3, <3>2
  <2> HIDE DEF S
  <2>3. \A i \in Nat : i \in S
    BY <2>1, <2>2, FromZero
  <2>4. k - 1 \in Nat /\ k - 1 < k
    BY <1>0
  <2> QED BY <2>3, <2>4 DEF S
<1>5. h[k + 1] = g[k + 1]
  <2> DEFINE x == g[k - 1]
             a == s[k + 1]
             b == s[k]
  <2>1. k \in 1 .. Len(s) /\ k + 1 \in 1 .. Len(s) /\ (k + 1) - 1 = k /\ k - 1 \in 0 .. Len(s)
    BY <1>0
  <2>2. x \in Seq(Elem) /\ a \in Elem /\ b \in Elem
    BY <1>0, <1>1, <2>1
  <2>3. g[k + 1] = InsertMark(InsertMark(x, b), a)
    BY <1>1, <2>1
  <2>4. h[k + 1] = InsertMark(InsertMark(x, a), b)
    BY <1>2, <1>4, <2>1
  <2>5. CombiningClass(a) # 0 /\ CombiningClass(a) < CombiningClass(b)
    <3>1. CombiningClass(b) > CombiningClass(a) /\ CombiningClass(a) > 0
      BY DEF OutOfOrder
    <3>2. CombiningClass(a) \in Nat /\ CombiningClass(b) \in Nat
      BY ClassTyped
    <3> HIDE DEF a, b
    <3> QED BY <3>1, <3>2
  <2> HIDE DEF x, a, b
  <2> QED BY <2>2, <2>3, <2>4, <2>5, MarksCommute
<1>6. h[Len(s)] = g[Len(s)]
  <2> DEFINE S == {i \in Nat : i <= Len(s) => h[i] = g[i]}
  <2>1. k + 1 \in S /\ k + 1 \in Nat
    BY <1>0, <1>5
  <2>2. ASSUME NEW i \in Nat, i >= k + 1, i \in S PROVE i + 1 \in S
    <3>1. SUFFICES ASSUME i + 1 <= Len(s) PROVE h[i + 1] = g[i + 1]
      OBVIOUS
    <3>2. i + 1 \in 1 .. Len(s) /\ (i + 1) - 1 = i /\ h[i] = g[i] /\ i + 1 # k /\ i + 1 # k + 1
      BY <1>0, <2>2, <3>1
    <3> QED BY <1>3, <3>2
  <2> HIDE DEF S
  <2>3. \A i \in Nat : i >= k + 1 => i \in S
    BY <2>1, <2>2, Upwards
  <2> QED BY <1>0, <2>3 DEF S
<1> QED BY <1>1, <1>2, <1>6

\* Where no two neighbours are out of order, that is the order.
LEMMA InOrder ==
  ASSUME NEW Elem, NEW s \in Seq(Elem), \A j \in 1 .. Len(s) - 1 : ~ OutOfOrder(s[j], s[j + 1])
  PROVE  Ordered(s) = s
<1>0. Len(s) \in Nat /\ (\A i \in 1 .. Len(s) : s[i] \in Elem) /\ s = [i \in 1 .. Len(s) |-> s[i]]
  BY LenProperties
<1>1. PICK g : /\ Ordered(s) = g[Len(s)]
               /\ g[0] = <<>> /\ \A i \in 1 .. Len(s) : g[i] = InsertMark(g[i - 1], s[i])
  BY OrderedBy
<1>2. ASSUME NEW n \in 0 .. Len(s)
      PROVE  Beginning(s, n) \in Seq(Elem) /\ Len(Beginning(s, n)) = n
  <2>1. n \in Nat /\ \A i \in 1 .. n : i \in 1 .. Len(s)
    BY <1>0
  <2>2. Beginning(s, n) \in [1 .. n -> Elem]
    BY <1>0, <2>1 DEF Beginning
  <2> QED BY <2>1, <2>2, SeqOfFunction
<1>3. ASSUME NEW n \in 0 .. Len(s) - 1
      PROVE  InsertMark(Beginning(s, n), s[n + 1]) = Beginning(s, n + 1)
  <2> DEFINE x == Beginning(s, n)
             c == s[n + 1]
             y == Beginning(s, n + 1)
  <2>1. n \in 0 .. Len(s) /\ n + 1 \in 0 .. Len(s) /\ n + 1 \in 1 .. Len(s) /\ n \in Nat
    BY <1>0
  <2>2. /\ x \in Seq(Elem) /\ Len(x) = n /\ c \in Elem
        /\ y \in Seq(Elem) /\ Len(y) = n + 1
        /\ (\A j \in 1 .. n : x[j] = s[j]) /\ \A j \in 1 .. n + 1 : y[j] = IF j <= n THEN x[j] ELSE c
    <3>1. \A j \in 1 .. n + 1 : y[j] = s[j] /\ (j <= n => x[j] = s[j]) /\ (~ (j <= n) => j = n + 1)
      BY <2>1 DEF Beginning
    <3>2. \A j \in 1 .. n : x[j] = s[j]
      BY DEF Beginning
    <3>3. \A j \in 1 .. n + 1 : y[j] = IF j <= n THEN x[j] ELSE c
      BY <3>1
    <3> QED BY <1>0, <1>2, <2>1, <3>2, <3>3
  <2>3. y = [j \in 1 .. n + 1 |-> y[j]]
    BY <2>2, LenProperties
  <2>4. CASE CombiningClass(c) = 0
    <3>1. InsertMark(x, c) = Append(x, c)
      BY <2>4 DEF InsertMark
    <3> DEFINE z == Append(x, c)
    <3>2. /\ z \in Seq(Elem) /\ Len(z) = n + 1
          /\ (\A j \in 1 .. n : z[j] = x[j]) /\ z[n + 1] = c
      <4> HIDE DEF x, c
      <4> QED BY <2>2, AppendProperties
    <3> HIDE DEF x, y, c, z
    <3>3. \A j \in 1 .. n + 1 : z[j] = y[j]
      <4> TAKE j \in 1 .. n + 1
      <4>1. CASE j <= n
        BY <2>1, <2>2, <3>2, <4>1
      <4>2. CASE ~ (j <= n)
        <5>1. j = n + 1
          BY <2>1, <4>2
        <5> QED BY <2>2, <3>2, <4>2, <5>1
      <4> QED BY <4>1, <4>2
    <3>4. z = [j \in 1 .. n + 1 |-> z[j]]
      BY <3>2, LenProperties
    <3> QED BY <2>3, <3>1, <3>3, <3>4 DEF x, y, c, z
  <2>5. CASE CombiningClass(c) # 0
    <3>1. Stands(x, c, n)
      <4>1. n > 0 => CombiningClass(x[n]) <= CombiningClass(c)
        <5>1. SUFFICES ASSUME n > 0 PROVE CombiningClass(x[n]) <= CombiningClass(c)
          OBVIOUS
        <5>2. n \in 1 .. n /\ n \in 1 .. Len(s) - 1
          BY <1>0, <2>1, <5>1
        <5>3. x[n] = s[n] /\ ~ OutOfOrder(s[n], s[n + 1])
          BY <2>2, <5>2
        <5>4. ~ (CombiningClass(x[n]) > CombiningClass(c) /\ CombiningClass(c) > 0)
          BY <5>3 DEF OutOfOrder
        <5>5. CombiningClass(x[n]) \in Nat /\ CombiningClass(c) \in Nat
          BY ClassTyped
        <5> HIDE DEF x, c
        <5> QED BY <2>5, <5>4, <5>5
      <4>2. n \in 0 .. Len(x) /\ \A j \in n + 1 .. Len(x) : FALSE
        BY <2>1, <2>2
      <4> HIDE DEF x, c
      <4> QED BY <4>1, <4>2 DEF Stands
    <3> DEFINE z == InsertMark(x, c)
    <3> HIDE DEF x, y, c
    <3>2. /\ z \in Seq(Elem) /\ Len(z) = n + 1
          /\ \A j \in 1 .. n + 1 : z[j] = IF j <= n THEN x[j] ELSE IF j = n + 1 THEN c ELSE x[j - 1]
      BY <2>2, <2>5, <3>1, MarkInserted
    <3> HIDE DEF z
    <3>3. \A j \in 1 .. n + 1 : z[j] = y[j]
      BY <2>1, <2>2, <3>2
    <3>4. z = [j \in 1 .. n + 1 |-> z[j]]
      BY <3>2, LenProperties
    <3> QED BY <2>3, <3>3, <3>4 DEF x, y, c, z
  <2> QED BY <2>4, <2>5
<1>4. g[Len(s)] = Beginning(s, Len(s))
  <2> DEFINE S == {i \in Nat : i <= Len(s) => g[i] = Beginning(s, i)}
  <2>1. 0 \in S
    BY <1>1 DEF Beginning
  <2>2. ASSUME NEW i \in Nat, i \in S PROVE i + 1 \in S
    <3>1. SUFFICES ASSUME i + 1 <= Len(s) PROVE g[i + 1] = Beginning(s, i + 1)
      OBVIOUS
    <3>2. i + 1 \in 1 .. Len(s) /\ (i + 1) - 1 = i /\ g[i] = Beginning(s, i) /\ i \in 0 .. Len(s) - 1
      BY <1>0, <2>2, <3>1
    <3>3. g[i + 1] = InsertMark(g[i], s[i + 1])
      BY <1>1, <3>2
    <3> QED BY <1>3, <3>2, <3>3
  <2> HIDE DEF S
  <2>3. \A i \in Nat : i \in S
    BY <2>1, <2>2, FromZero
  <2> QED BY <1>0, <2>3 DEF S
<1>5. Beginning(s, Len(s)) = s
  BY <1>0 DEF Beginning
<1> QED BY <1>1, <1>4, <1>5

-----------------------------------------------------------------------------
(* Texts: their bytes, what their characters are made of.                    *)

Bytes(cs) == [i \in DOMAIN cs |-> Utf8(cs[i])]
MadeOf(cs) == [i \in DOMAIN cs |-> Decomposed[cs[i]]]

LEMMA TextTyped ==
  ASSUME NEW cs \in Seq(Scalar)
  PROVE  /\ Len(cs) \in Nat /\ \A i \in 1 .. Len(cs) : cs[i] \in Scalar
         /\ Bytes(cs) \in Seq(Seq(CodeUnit)) /\ Len(Bytes(cs)) = Len(cs)
         /\ \A i \in 1 .. Len(cs) : Bytes(cs)[i] = Utf8(cs[i])
         /\ Utf8Text(cs) = FlattenSeq(Bytes(cs)) /\ Utf8Text(cs) \in Seq(CodeUnit)
         /\ MadeOf(cs) \in Seq(Seq(Scalar)) /\ Len(MadeOf(cs)) = Len(cs)
         /\ \A i \in 1 .. Len(cs) : MadeOf(cs)[i] = Decomposed[cs[i]]
         /\ Spelled(cs) = FlattenSeq(MadeOf(cs)) /\ Spelled(cs) \in Seq(Scalar)
<1>1. Len(cs) \in Nat /\ DOMAIN cs = 1 .. Len(cs) /\ \A i \in 1 .. Len(cs) : cs[i] \in Scalar
  BY LenProperties
<1>2. \A i \in 1 .. Len(cs) : Utf8(cs[i]) \in Seq(CodeUnit) /\ Decomposed[cs[i]] \in Seq(Scalar)
  BY <1>1, ScalarIs, Encoded, SpellingTyped
<1>3. Bytes(cs) \in Seq(Seq(CodeUnit)) /\ Len(Bytes(cs)) = Len(cs)
  <2>1. Bytes(cs) \in [1 .. Len(cs) -> Seq(CodeUnit)]
    BY <1>1, <1>2 DEF Bytes
  <2> QED BY <1>1, <2>1, SeqOfFunction
<1>4. MadeOf(cs) \in Seq(Seq(Scalar)) /\ Len(MadeOf(cs)) = Len(cs)
  <2>1. MadeOf(cs) \in [1 .. Len(cs) -> Seq(Scalar)]
    BY <1>1, <1>2 DEF MadeOf
  <2> QED BY <1>1, <2>1, SeqOfFunction
<1>5. FlattenSeq(Bytes(cs)) \in Seq(CodeUnit) /\ FlattenSeq(MadeOf(cs)) \in Seq(Scalar)
  BY <1>3, <1>4, EmptySeq, FlattenAppend
<1>6. Utf8Text(cs) = FlattenSeq(Bytes(cs)) /\ Spelled(cs) = FlattenSeq(MadeOf(cs))
  BY DEF Utf8Text, Spelled, Bytes, MadeOf
<1>7. \A i \in 1 .. Len(cs) : Bytes(cs)[i] = Utf8(cs[i]) /\ MadeOf(cs)[i] = Decomposed[cs[i]]
  BY <1>1 DEF Bytes, MadeOf
<1> QED BY <1>1, <1>3, <1>4, <1>5, <1>6, <1>7

\* The bytes of the first k characters, and what these are made of.
BytesTo(cs, k) == FlattenSeq(Beginning(Bytes(cs), k))
SpelledTo(cs, k) == FlattenSeq(Beginning(MadeOf(cs), k))

LEMMA TextGrows ==
  ASSUME NEW cs \in Seq(Scalar)
  PROVE  /\ BytesTo(cs, 0) = <<>> /\ BytesTo(cs, Len(cs)) = Utf8Text(cs)
         /\ SpelledTo(cs, 0) = <<>> /\ SpelledTo(cs, Len(cs)) = Spelled(cs)
         /\ \A k \in 0 .. Len(cs) :
              /\ BytesTo(cs, k) \in Seq(CodeUnit) /\ Len(BytesTo(cs, k)) \in Nat
              /\ Len(BytesTo(cs, k)) <= Len(Utf8Text(cs))
              /\ \A j \in 1 .. Len(BytesTo(cs, k)) : Utf8Text(cs)[j] = BytesTo(cs, k)[j]
              /\ SpelledTo(cs, k) \in Seq(Scalar) /\ Len(SpelledTo(cs, k)) \in Nat
              /\ Len(SpelledTo(cs, k)) <= Len(Spelled(cs))
         /\ \A k \in 0 .. Len(cs) - 1 :
              /\ k + 1 \in 1 .. Len(cs) /\ k + 1 \in 0 .. Len(cs) /\ k \in 0 .. Len(cs)
              /\ BytesTo(cs, k + 1) = BytesTo(cs, k) \o Utf8(cs[k + 1])
              /\ SpelledTo(cs, k + 1) = SpelledTo(cs, k) \o Decomposed[cs[k + 1]]
<1> DEFINE b == Bytes(cs)
           s == MadeOf(cs)
           n == Len(cs)
<1>1. /\ n \in Nat /\ b \in Seq(Seq(CodeUnit)) /\ Len(b) = n /\ s \in Seq(Seq(Scalar)) /\ Len(s) = n
      /\ FlattenSeq(b) = Utf8Text(cs) /\ FlattenSeq(s) = Spelled(cs)
      /\ \A i \in 1 .. n : b[i] = Utf8(cs[i]) /\ s[i] = Decomposed[cs[i]]
  BY TextTyped
<1> HIDE DEF b, s
<1>2. /\ Beginning(b, n) = b /\ FlattenSeq(Beginning(b, 0)) = <<>>
      /\ \A k \in 0 .. n : FlattenSeq(Beginning(b, k)) \in Seq(CodeUnit)
      /\ \A k \in 0 .. n - 1 : FlattenSeq(Beginning(b, k + 1)) = FlattenSeq(Beginning(b, k)) \o b[k + 1]
  BY <1>1, FlatGrows
<1>3. /\ Beginning(s, n) = s /\ FlattenSeq(Beginning(s, 0)) = <<>>
      /\ \A k \in 0 .. n : FlattenSeq(Beginning(s, k)) \in Seq(Scalar)
      /\ \A k \in 0 .. n - 1 : FlattenSeq(Beginning(s, k + 1)) = FlattenSeq(Beginning(s, k)) \o s[k + 1]
  BY <1>1, FlatGrows
<1>4. ASSUME NEW k \in 0 .. n
      PROVE  /\ Len(FlattenSeq(Beginning(b, k))) \in Nat
             /\ Len(FlattenSeq(Beginning(b, k))) <= Len(FlattenSeq(b))
             /\ \A j \in 1 .. Len(FlattenSeq(Beginning(b, k))) :
                  FlattenSeq(b)[j] = FlattenSeq(Beginning(b, k))[j]
             /\ Len(FlattenSeq(Beginning(s, k))) \in Nat
             /\ Len(FlattenSeq(Beginning(s, k))) <= Len(FlattenSeq(s))
  <2>1. Len(FlattenSeq(Beginning(b, k))) \in Nat /\ Len(FlattenSeq(Beginning(s, k))) \in Nat
    BY <1>2, <1>3, LenProperties
  <2> QED BY <1>1, <2>1, FlatBegins
<1>5. ASSUME NEW k \in 0 .. n - 1
      PROVE  k + 1 \in 1 .. n /\ k + 1 \in 0 .. n /\ k \in 0 .. n
  BY <1>1
<1> QED BY <1>1, <1>2, <1>3, <1>4, <1>5 DEF BytesTo, SpelledTo, b, s

-----------------------------------------------------------------------------
(* Reading a text.                                                           *)

LEMMA Scans ==
  ASSUME NEW n, NEW c, c # -1
  PROVE  Scanned(n, c) # Invalid /\ Scanned(n, c).length = n /\ Scanned(n, c).code = c
<1>1. Scanned(n, c).code = c /\ Scanned(n, c).length = n /\ Invalid.code = -1
  BY DEF Scanned, Invalid
<1> QED BY <1>1

\* Behind k characters the code reads the next one, or the NUL.
LEMMA ReadsOn ==
  ASSUME NEW cs \in Seq(Scalar), text = Append(Utf8Text(cs), 0),
         NEW k \in 0 .. Len(cs), readPos = Len(BytesTo(cs, k))
  PROVE  /\ k < Len(cs) =>
              /\ cs[k + 1] \in Scalar
              /\ Iterated = Scanned(Utf8Length(cs[k + 1]), cs[k + 1])
              /\ Len(BytesTo(cs, k + 1)) = readPos + Utf8Length(cs[k + 1])
         /\ k = Len(cs) => Iterated = Scanned(1, 0) /\ readPos = Len(text) - 1
<1> DEFINE t == Utf8Text(cs)
           n == Len(cs)
<1>1. /\ n \in Nat /\ (\A i \in 1 .. n : cs[i] \in Scalar)
      /\ t \in Seq(CodeUnit) /\ readPos \in Nat
  BY TextTyped, TextGrows
<1>2. 0 \in CodeUnit
  BY DEF CodeUnit
<1>3. Len(t) \in Nat
  BY <1>1, LenProperties
<1> HIDE DEF t
<1>4. Len(text) = Len(t) + 1 /\ (\A j \in 1 .. Len(t) : text[j] = t[j]) /\ text[Len(t) + 1] = 0
  BY <1>1, <1>2, AppendProperties DEF t
<1>5. ASSUME k < n
      PROVE  /\ cs[k + 1] \in Scalar
             /\ Iterated = Scanned(Utf8Length(cs[k + 1]), cs[k + 1])
             /\ Len(BytesTo(cs, k + 1)) = readPos + Utf8Length(cs[k + 1])
  <2> DEFINE c == cs[k + 1]
             u == Utf8(c)
             before == BytesTo(cs, k)
             after == BytesTo(cs, k + 1)
  <2>0. k \in 0 .. n - 1
    BY <1>1, <1>5
  <2>1. /\ k + 1 \in 1 .. n /\ after = before \o u /\ before \in Seq(CodeUnit) /\ after \in Seq(CodeUnit)
        /\ Len(after) \in Nat /\ Len(after) <= Len(t)
        /\ \A j \in 1 .. Len(after) : t[j] = after[j]
    <3>1. k + 1 \in 1 .. n /\ k + 1 \in 0 .. n /\ after = before \o u
      BY <2>0, TextGrows
    <3>2. before \in Seq(CodeUnit) /\ after \in Seq(CodeUnit)
          /\ Len(after) \in Nat /\ Len(after) <= Len(t)
          /\ \A j \in 1 .. Len(after) : t[j] = after[j]
      BY <3>1, TextGrows DEF t
    <3> QED BY <3>1, <3>2
  <2>2. c \in Scalar
    BY <1>1, <2>1
  <2>3. c \in CodePoint /\ (c < 55296 \/ c > 57343)
    BY <2>2, ScalarIs
  <2>4. u \in Seq(CodeUnit) /\ Len(u) = Utf8Length(c) /\ Len(u) \in Nat
    <3>1. u \in Seq(CodeUnit) /\ Len(u) = Utf8Length(c)
      BY <2>3, Encoded
    <3> QED BY <3>1, LenProperties
  <2> DEFINE m == Len(before)
  <2> HIDE DEF c, u, before, after
  <2>5. /\ Len(after) = m + Len(u) /\ m = readPos
        /\ \A j \in 1 .. m + Len(u) : after[j] = IF j <= m THEN before[j] ELSE u[j - m]
    <3>1. m = readPos
      BY DEF before
    <3> QED BY <2>1, <2>4, <3>1, ConcatProperties
  <2> HIDE DEF m
  <2>6. ASSUME NEW j \in 1 .. Len(u)
        PROVE  text[readPos + j] = u[j]
    <3>1. m + j \in 1 .. m + Len(u) /\ ~ (m + j <= m) /\ (m + j) - m = j
      BY <1>1, <2>4, <2>5
    <3>2. after[m + j] = u[j]
      BY <2>5, <3>1
    <3>3. m + j \in 1 .. Len(after) /\ m + j \in 1 .. Len(t)
      BY <1>3, <2>1, <2>5, <3>1
    <3>4. text[m + j] = u[j]
      BY <1>4, <2>1, <3>2, <3>3
    <3> QED BY <2>5, <3>4
  <2>7. Reads(readPos, u)
    BY <2>6 DEF Reads
  <2>8. Iterated = Scanned(Utf8Length(c), c)
    BY <1>1, <2>3, <2>7, Decodes DEF u
  <2> QED BY <2>2, <2>4, <2>5, <2>8 DEF c, after
<1>6. ASSUME k = n
      PROVE  Iterated = Scanned(1, 0) /\ readPos = Len(text) - 1
  <2>1. readPos = Len(t)
    BY <1>6, TextGrows DEF t
  <2>2. At(0) = 0
    <3>1. readPos + 1 + 0 = Len(t) + 1
      BY <1>3, <2>1
    <3> QED BY <1>4, <3>1 DEF At
  <2>3. Iterated = Scanned(1, 0)
    BY <2>2 DEF Iterated
  <2> QED BY <1>3, <1>4, <2>1, <2>3
<1> QED BY <1>5, <1>6

-----------------------------------------------------------------------------
(* The call.                                                                 *)

\* k characters have been read.
ReadSoFar(k) ==
  /\ k \in 0 .. Len(scalars)
  /\ readPos = Len(BytesTo(scalars, k)) /\ writePos = Len(SpelledTo(scalars, k))

\* The buffer holds all code points.
Filled ==
  /\ codes \in Seq(Scalar) /\ bufsize = Len(codes) /\ writePos = bufsize

NotOrdered == orderPos = 0 /\ encoded = <<>>

WellFormed ==
  /\ scalars \in Seq(Scalar) /\ text = Append(Utf8Text(scalars), 0) /\ outSize \in Nat

Counting == NotOrdered /\ bufsize = 0 /\ codes = <<>> /\ \E k : ReadSoFar(k)
Counted ==
  /\ NotOrdered /\ codes = <<>> /\ writePos = Len(Spelled(scalars)) /\ readPos = Len(text) - 1
Filling ==
  /\ NotOrdered /\ bufsize = Len(Spelled(scalars))
  /\ \E k : ReadSoFar(k) /\ codes = SpelledTo(scalars, k)
Ordering ==
  /\ Filled /\ encoded = <<>> /\ Ordered(codes) = NormalForm(scalars)
  /\ orderPos \in Nat
  /\ \A j \in 1 .. Len(codes) - 1 : j <= orderPos => ~ OutOfOrder(codes[j], codes[j + 1])
Encoding ==
  /\ Filled /\ codes = NormalForm(scalars) /\ readPos \in 0 .. Len(codes)
  /\ encoded = BytesTo(codes, readPos) /\ Len(encoded) <= 4 * readPos
Returned ==
  /\ outText = Utf8Text(NormalForm(scalars)) /\ Len(outText) < outSize
Refused ==
  \/ outSize = 0
  \/ readPos = Len(text) - 1 /\ codes = <<>>
  \/ codes # <<>> /\ Len(Utf8Text(NormalForm(scalars))) >= outSize

WholeInv ==
  /\ WellFormed
  /\ stage \in {"start", "count", "alloc", "fill", "order", "encode", "copy", "true", "false"}
  /\ stage = "start" => NfkdStart
  /\ stage = "count" => Counting
  /\ stage = "alloc" => Counted
  /\ stage = "fill" => Filling
  /\ stage = "order" => Ordering
  /\ stage \in {"encode", "copy"} => Encoding
  /\ stage = "copy" => readPos = Len(codes)
  /\ stage = "true" => Returned
  /\ stage = "false" => Refused

\* The next sequence is malformed, or the one behind the next character.
BadInv ==
  /\ scalars = Malformed /\ readPos \in Nat
  /\ stage \in {"start", "count", "false"}
  /\ \/ \E bad \in Broken : Reads(readPos, Append(bad, 0))
     \/ \E c \in Scalar, bad \in Broken :
          Reads(readPos, Utf8(c)) /\ Reads(readPos + Len(Utf8(c)), Append(bad, 0))

NfkdInv == WholeInv \/ BadInv

LEMMA NfkdStarts == NfkdInit => NfkdInv
<1> SUFFICES ASSUME NfkdInit PROVE NfkdInv
  OBVIOUS
<1>0. stage = "start" /\ NfkdStart /\ readPos = 0 /\ outSize \in Nat
  BY NfkdAssumption DEF NfkdInit, NfkdStart
<1>1. CASE scalars \in BoundedSeq(Samples, MaxScalars) /\ text = Append(Utf8Text(scalars), 0)
  <2>1. PICK m \in 0 .. MaxScalars : scalars \in [1 .. m -> Samples]
    BY <1>1 DEF BoundedSeq, SeqOf
  <2>2. m \in Nat /\ scalars \in [1 .. m -> Scalar]
    BY <2>1, NfkdAssumption, Tables
  <2>3. scalars \in Seq(Scalar)
    BY <2>2, SeqOfFunction
  <2> QED BY <1>0, <1>1, <2>3 DEF NfkdInv, WholeInv, WellFormed
<1>2. ASSUME NEW c \in Samples, NEW bad \in Broken, scalars = Malformed,
             text \in {Append(bad, 0), Utf8(c) \o Append(bad, 0)}
      PROVE  NfkdInv
  <2> DEFINE b == Append(bad, 0)
             u == Utf8(c)
  <2>1. CASE text = b
    <3>1. Reads(readPos, b)
      BY <1>0, <2>1 DEF Reads
    <3> QED BY <1>0, <1>2, <3>1 DEF NfkdInv, BadInv
  <2>2. CASE text = u \o b
    <3>1. c \in Scalar /\ c \in CodePoint
      BY Tables, ScalarIs
    <3>2. u \in Seq(Nat) /\ b \in Seq(Nat) /\ Len(u) \in Nat /\ Len(b) \in Nat
      <4>1. u \in Seq(CodeUnit)
        BY <3>1, Encoded
      <4>2. Len(u) \in Nat /\ u = [i \in 1 .. Len(u) |-> u[i]] /\ \A i \in 1 .. Len(u) : u[i] \in CodeUnit
        BY <4>1, LenProperties
      <4>3. u \in [1 .. Len(u) -> Nat]
        <5> HIDE DEF u
        <5>1. \A i \in 1 .. Len(u) : u[i] \in Nat
          <6>1. \A x \in CodeUnit : x \in Nat
            BY DEF CodeUnit
          <6> QED BY <4>2, <6>1
        <5> QED BY <4>2, <5>1
      <4>4. u \in Seq(Nat)
        <5> HIDE DEF u
        <5> QED BY <4>2, <4>3, SeqOfFunction
      <4>5. b \in Seq(Nat)
        BY BrokenTyped, AppendProperties
      <4> HIDE DEF u, b
      <4> QED BY <4>4, <4>5, LenProperties
    <3> HIDE DEF u, b
    <3>3. /\ \A i \in 1 .. Len(u) + Len(b) : text[i] = IF i <= Len(u) THEN u[i] ELSE b[i - Len(u)]
      BY <2>2, <3>2, ConcatProperties
    <3>4. Reads(readPos, u)
      <4>1. \A i \in 1 .. Len(u) : text[0 + i] = u[i]
        BY <3>2, <3>3
      <4> QED BY <1>0, <4>1 DEF Reads
    <3>5. Reads(readPos + Len(u), b)
      <4>1. \A i \in 1 .. Len(b) : text[(0 + Len(u)) + i] = b[i]
        <5> TAKE i \in 1 .. Len(b)
        <5>1. /\ (0 + Len(u)) + i \in 1 .. Len(u) + Len(b) /\ ~ ((0 + Len(u)) + i <= Len(u))
              /\ ((0 + Len(u)) + i) - Len(u) = i
          BY <3>2
        <5> QED BY <3>3, <5>1
      <4> QED BY <1>0, <4>1 DEF Reads
    <3> QED BY <1>0, <1>2, <3>1, <3>4, <3>5 DEF NfkdInv, BadInv, u, b
  <2> QED BY <1>2, <2>1, <2>2
<1> QED BY <1>1, <1>2 DEF NfkdInit

LEMMA CallKeeps == NfkdInv /\ NfkdCall => NfkdInv'
<1> SUFFICES ASSUME NfkdInv, NfkdCall PROVE NfkdInv'
  OBVIOUS
<1>1. CASE BadInv
  <2>1. BadInv'
    BY <1>1 DEF BadInv, NfkdCall, Reads
  <2> QED BY <2>1 DEF NfkdInv
<1>2. CASE WholeInv
  <2>1. NfkdStart /\ WellFormed /\ WellFormed' /\ UNCHANGED <<readPos, codes, writePos, bufsize, orderPos, encoded, outSize, scalars>>
    BY <1>2 DEF WholeInv, NfkdCall, WellFormed
  <2>2. CASE outSize = 0
    <3>1. stage' = "false" /\ Refused'
      BY <2>1, <2>2 DEF NfkdCall, Refused
    <3> QED BY <2>1, <3>1 DEF NfkdInv, WholeInv
  <2>3. CASE outSize # 0
    <3>1. stage' = "count"
      BY <2>3 DEF NfkdCall
    <3>2. ReadSoFar(0)'
      <4>1. Len(BytesTo(scalars, 0)) = 0 /\ Len(SpelledTo(scalars, 0)) = 0 /\ 0 \in 0 .. Len(scalars)
        <5>1. Len(scalars) \in Nat
          BY <2>1, LenProperties DEF WellFormed
        <5>2. BytesTo(scalars, 0) = <<>> /\ SpelledTo(scalars, 0) = <<>>
          BY <2>1, TextGrows DEF WellFormed
        <5> QED BY <5>1, <5>2, EmptySeq
      <4> QED BY <2>1, <4>1 DEF ReadSoFar, NfkdStart
    <3>3. Counting'
      BY <2>1, <3>2 DEF Counting, NotOrdered, NfkdStart
    <3> QED BY <2>1, <3>1, <3>3 DEF NfkdInv, WholeInv
  <2> QED BY <2>2, <2>3
<1> QED BY <1>1, <1>2 DEF NfkdInv

LEMMA WrittenIs ==
  ASSUME NEW cs \in Seq(Scalar), NEW room \in Int
  PROVE  /\ room <= 0 => Written(cs, Max({0, room})) = <<>>
         /\ room >= Len(cs) => Written(cs, Max({0, room})) = cs
<1>0. Len(cs) \in Nat
  BY LenProperties
<1>1. Max({0, room}) = IF room <= 0 THEN 0 ELSE room
  BY DEF Max
<1>2. \A r \in Int : Min({Len(cs), r}) = IF Len(cs) <= r THEN Len(cs) ELSE r
  <2> DEFINE l == Len(cs)
  <2> HIDE DEF l
  <2>1. ASSUME NEW r \in Int, l \in Nat PROVE Min({l, r}) = IF l <= r THEN l ELSE r
    BY <2>1 DEF Min
  <2> QED BY <1>0, <2>1 DEF l
<1>3. ASSUME room <= 0
      PROVE  Written(cs, Max({0, room})) = <<>>
  <2>1. Min({Len(cs), 0}) = 0
    BY <1>0, <1>2
  <2>2. SubSeq(cs, 1, 0) = <<>>
    BY SubSeqEmpty
  <2> QED BY <1>1, <1>3, <2>1, <2>2 DEF Written
<1>4. ASSUME room >= Len(cs)
      PROVE  Written(cs, Max({0, room})) = cs
  <2> DEFINE r == Max({0, room})
  <2>1. r \in Int /\ Len(cs) <= r
    BY <1>0, <1>1, <1>4
  <2> HIDE DEF r
  <2>2. Written(cs, r) = SubSeq(cs, 1, Len(cs))
    BY <1>2, <2>1 DEF Written
  <2>3. SubSeq(cs, 1, Len(cs)) = cs
    BY SubSeqFull
  <2> QED BY <2>2, <2>3 DEF r
<1> QED BY <1>3, <1>4

LEMMA BadKeeps == BadInv /\ DecomposeNext => BadInv'
<1> SUFFICES ASSUME BadInv, DecomposeNext PROVE BadInv'
  OBVIOUS
<1>0. scalars' = scalars /\ scalars = Malformed /\ text' = text /\ readPos \in Nat /\ stage = "count"
  BY DEF BadInv, DecomposeNext
<1>1. CASE Iterated = Invalid
  <2>1. stage' = "false" /\ readPos' = readPos
    BY <1>1 DEF DecomposeNext
  <2> QED BY <1>0, <2>1 DEF BadInv, Reads
<1>2. ASSUME NEW bad \in Broken, Reads(readPos, Append(bad, 0))
      PROVE  BadInv'
  <2>1. Iterated = Invalid
    BY <1>0, <1>2, NotDecoded
  <2> QED BY <1>1, <2>1
<1>3. ASSUME NEW c \in Scalar, NEW bad \in Broken,
             Reads(readPos, Utf8(c)), Reads(readPos + Len(Utf8(c)), Append(bad, 0))
      PROVE  BadInv'
  <2>1. c \in CodePoint /\ (c < 55296 \/ c > 57343) /\ c # 0 /\ c # -1
    <3>1. c \in CodePoint /\ (c < 55296 \/ c > 57343) /\ c \in Int /\ 0 < c
      BY ScalarIs
    <3> QED BY <3>1
  <2>2. Iterated = Scanned(Utf8Length(c), c)
    BY <1>0, <1>3, <2>1, Decodes
  <2>3. Iterated # Invalid /\ Iterated.code = c /\ Iterated.length = Utf8Length(c)
    BY <2>1, <2>2, Scans
  <2>4. stage' = stage /\ readPos' = readPos + Utf8Length(c)
    BY <2>1, <2>3 DEF DecomposeNext
  <2>5. Utf8Length(c) = Len(Utf8(c)) /\ Utf8Length(c) \in 1 .. 4
    BY <2>1, Encoded
  <2>6. readPos' \in Nat
    BY <1>0, <2>4, <2>5
  <2>7. Reads(readPos, Append(bad, 0))'
    BY <1>0, <1>3, <2>4, <2>5 DEF Reads
  <2> QED BY <1>0, <2>4, <2>6, <2>7 DEF BadInv
<1> QED BY <1>2, <1>3 DEF BadInv

LEMMA DecomposeKeeps == WholeInv /\ DecomposeNext => WholeInv'
<1> SUFFICES ASSUME WholeInv, DecomposeNext PROVE WholeInv'
  OBVIOUS
<1>0. /\ UNCHANGED <<scalars, text, outSize, bufsize, orderPos, encoded, outText>>
      /\ stage \in {"count", "fill"}
      /\ WellFormed /\ WellFormed' /\ scalars \in Seq(Scalar) /\ text = Append(Utf8Text(scalars), 0)
      /\ NotOrdered /\ NotOrdered'
  BY DEF WholeInv, DecomposeNext, WellFormed, Counting, Filling, NotOrdered
<1>1. PICK k : ReadSoFar(k) /\ (stage = "fill" => codes = SpelledTo(scalars, k))
  BY <1>0 DEF WholeInv, Counting, Filling
<1>2. /\ stage = "count" => codes = <<>> /\ bufsize = 0
      /\ stage = "fill" => bufsize = Len(Spelled(scalars))
  BY DEF WholeInv, Counting, Filling
<1>3. /\ k \in 0 .. Len(scalars) /\ readPos = Len(BytesTo(scalars, k))
      /\ writePos = Len(SpelledTo(scalars, k)) /\ Len(scalars) \in Nat
  BY <1>0, <1>1, LenProperties DEF ReadSoFar
<1>4. CASE k < Len(scalars)
  <2> DEFINE c == scalars[k + 1]
             d == Decomposed[c]
             before == SpelledTo(scalars, k)
             after == SpelledTo(scalars, k + 1)
             total == Len(Spelled(scalars))
  <2>1. /\ c \in Scalar /\ Iterated = Scanned(Utf8Length(c), c)
        /\ Len(BytesTo(scalars, k + 1)) = readPos + Utf8Length(c)
    BY <1>0, <1>3, <1>4, ReadsOn
  <2>2. c # 0 /\ c # -1
    <3>1. c \in Int /\ 0 < c
      BY <2>1, ScalarIs
    <3> QED BY <3>1
  <2>3. Iterated # Invalid /\ Iterated.code = c /\ Iterated.length = Utf8Length(c)
    BY <2>1, <2>2, Scans
  <2>4. /\ readPos' = readPos + Utf8Length(c) /\ writePos' = writePos + Len(d) /\ stage' = stage
        /\ codes' = codes \o Written(d, Max({0, bufsize - writePos}))
    BY <2>2, <2>3 DEF DecomposeNext
  <2>5. /\ k \in 0 .. Len(scalars) - 1 /\ k + 1 \in 0 .. Len(scalars)
        /\ after = before \o d
        /\ before \in Seq(Scalar) /\ Len(before) \in Nat
        /\ after \in Seq(Scalar) /\ Len(after) \in Nat /\ Len(after) <= total
    <3>1. k \in 0 .. Len(scalars) - 1
      BY <1>3, <1>4
    <3>2. k + 1 \in 0 .. Len(scalars) /\ after = before \o d
      BY <1>0, <3>1, TextGrows
    <3> QED BY <1>0, <1>3, <3>1, <3>2, TextGrows
  <2>6. d \in Seq(Scalar) /\ Len(d) \in Nat /\ total \in Nat
    <3>1. d \in Seq(Scalar) /\ Spelled(scalars) \in Seq(Scalar)
      BY <1>0, <2>1, SpellingTyped, TextTyped
    <3> HIDE DEF d
    <3> QED BY <3>1, LenProperties
  <2> HIDE DEF c, d, before, after, total
  <2>7. Len(after) = Len(before) + Len(d)
    BY <2>5, <2>6, ConcatProperties
  <2>8. writePos = Len(before) /\ writePos' = Len(after)
    BY <1>3, <2>4, <2>7 DEF before
  <2>9. ReadSoFar(k + 1)'
    <3>1. readPos' = Len(BytesTo(scalars, k + 1))
      BY <2>1, <2>4
    <3> QED BY <1>0, <2>5, <2>8, <3>1 DEF ReadSoFar, after
  <2>10. CASE stage = "count"
    <3>1. bufsize - writePos \in Int /\ bufsize - writePos <= 0
      BY <1>2, <2>5, <2>8, <2>10
    <3>2. codes' = <<>> \o <<>>
      BY <1>2, <2>4, <2>6, <2>10, <3>1, WrittenIs
    <3>3. codes' = <<>>
      BY <3>2
    <3>4. Counting'
      BY <1>0, <1>2, <2>9, <2>10, <3>3 DEF Counting
    <3> QED BY <1>0, <2>4, <2>10, <3>4 DEF WholeInv
  <2>11. CASE stage = "fill"
    <3>1. bufsize - writePos \in Int /\ bufsize - writePos >= Len(d)
      BY <1>2, <2>5, <2>6, <2>7, <2>8, <2>11 DEF total
    <3>2. codes' = before \o d
      BY <1>1, <2>4, <2>6, <2>11, <3>1, WrittenIs DEF before
    <3>3. codes' = SpelledTo(scalars, k + 1)
      BY <2>5, <3>2 DEF after
    <3>4. Filling'
      BY <1>0, <1>2, <2>9, <2>11, <3>3 DEF Filling
    <3> QED BY <1>0, <2>4, <2>11, <3>4 DEF WholeInv
  <2> QED BY <1>0, <2>10, <2>11
<1>5. CASE k = Len(scalars)
  <2>1. Iterated = Scanned(1, 0) /\ readPos = Len(text) - 1
    BY <1>0, <1>3, <1>5, ReadsOn
  <2>2. Iterated # Invalid /\ Iterated.code = 0
    BY <2>1, Scans
  <2>3. stage' = (IF stage = "count" THEN "alloc" ELSE "order") /\ UNCHANGED <<readPos, writePos, codes>>
    BY <2>2 DEF DecomposeNext
  <2>4. /\ SpelledTo(scalars, k) = Spelled(scalars) /\ Spelled(scalars) \in Seq(Scalar)
        /\ Len(Spelled(scalars)) \in Nat
    <3>1. SpelledTo(scalars, k) = Spelled(scalars) /\ Spelled(scalars) \in Seq(Scalar)
      BY <1>0, <1>5, TextGrows, TextTyped
    <3> QED BY <3>1, LenProperties
  <2>5. CASE stage = "count"
    <3>1. Counted'
      BY <1>0, <1>2, <1>3, <2>1, <2>3, <2>4, <2>5 DEF Counted
    <3> QED BY <1>0, <2>3, <2>5, <3>1 DEF WholeInv
  <2>6. CASE stage = "fill"
    <3>1. codes = Spelled(scalars) /\ bufsize = Len(codes) /\ writePos = bufsize
      BY <1>1, <1>2, <1>3, <2>4, <2>6
    <3>2. Filled'
      BY <1>0, <2>3, <2>4, <3>1 DEF Filled
    <3>3. orderPos = 0 /\ encoded = <<>>
      BY <1>0 DEF NotOrdered
    <3>4. Ordered(codes) = NormalForm(scalars)
      BY <3>1 DEF NormalForm
    <3>5. \A j \in 1 .. Len(codes) - 1 : ~ (j <= 0)
      BY <2>4, <3>1
    <3>6. Ordering'
      BY <1>0, <2>3, <3>2, <3>3, <3>4, <3>5 DEF Ordering
    <3>7. stage' = "order"
      BY <2>3, <2>6
    <3> QED BY <1>0, <3>6, <3>7 DEF WholeInv
  <2> QED BY <1>0, <2>5, <2>6
<1> QED BY <1>3, <1>4, <1>5

LEMMA AllocateKeeps == NfkdInv /\ Allocate => NfkdInv'
<1> SUFFICES ASSUME NfkdInv, Allocate PROVE NfkdInv'
  OBVIOUS
<1>0. /\ stage = "alloc" /\ WholeInv /\ Counted /\ WellFormed /\ WellFormed'
      /\ UNCHANGED <<scalars, text, outSize, codes, orderPos, encoded, outText>>
  BY DEF Allocate, NfkdInv, BadInv, WholeInv, WellFormed
<1>1. CASE stage' = "false" /\ UNCHANGED <<readPos, writePos, bufsize>>
  <2>1. Refused'
    BY <1>0, <1>1 DEF Refused, Counted
  <2> QED BY <1>0, <1>1, <2>1 DEF NfkdInv, WholeInv
<1>2. CASE stage' = "fill" /\ readPos' = 0 /\ writePos' = 0 /\ bufsize' = writePos
  <2>1. /\ BytesTo(scalars, 0) = <<>> /\ SpelledTo(scalars, 0) = <<>> /\ 0 \in 0 .. Len(scalars)
    <3>1. Len(scalars) \in Nat
      BY <1>0, LenProperties DEF WellFormed
    <3> QED BY <1>0, <3>1, TextGrows DEF WellFormed
  <2>2. ReadSoFar(0)'
    BY <1>0, <1>2, <2>1, EmptySeq DEF ReadSoFar
  <2>3. Filling'
    BY <1>0, <1>2, <2>1, <2>2 DEF Filling, Counted, NotOrdered
  <2> QED BY <1>0, <1>2, <2>3 DEF NfkdInv, WholeInv
<1> QED BY <1>1, <1>2 DEF Allocate

LEMMA ReorderKeeps == NfkdInv /\ Reorder => NfkdInv'
<1> SUFFICES ASSUME NfkdInv, Reorder PROVE NfkdInv'
  OBVIOUS
<1> DEFINE n == Len(codes)
           p == orderPos
<1>0. /\ stage = "order" /\ WholeInv /\ Ordering /\ Filled /\ WellFormed /\ WellFormed'
      /\ UNCHANGED <<scalars, text, outSize, writePos, bufsize, encoded, outText>>
  BY DEF Reorder, NfkdInv, BadInv, WholeInv, WellFormed, Ordering
<1>1. /\ n \in Nat /\ p \in Nat /\ bufsize = n /\ writePos = n /\ codes \in Seq(Scalar)
      /\ encoded = <<>> /\ Ordered(codes) = NormalForm(scalars)
      /\ \A j \in 1 .. n - 1 : j <= p => ~ OutOfOrder(codes[j], codes[j + 1])
  BY <1>0, LenProperties DEF Filled, Ordering
<1>2. ASSUME p < n - 1, OutOfOrder(codes[p + 1], codes[p + 2])
      PROVE  NfkdInv'
  <2> DEFINE k == p + 1
             t == [codes EXCEPT ![orderPos + 1] = codes[orderPos + 2], ![orderPos + 2] = codes[orderPos + 1]]
  <2>1. codes' = t /\ orderPos' = StepBack(p) /\ stage' = stage
    BY <1>0, <1>1, <1>2 DEF Reorder
  <2>2. k \in 1 .. n - 1 /\ k + 1 = p + 2 /\ k \in 1 .. n /\ p + 2 \in 1 .. n
    BY <1>1, <1>2
  <2>3. (\A j \in 1 .. n : codes[j] \in Scalar) /\ codes \in [1 .. n -> Scalar]
    BY <1>1, LenProperties
  <2>4. /\ t \in [1 .. n -> Scalar] /\ t[p + 1] = codes[p + 2] /\ t[p + 2] = codes[p + 1]
        /\ \A j \in 1 .. n : j # p + 1 /\ j # p + 2 => t[j] = codes[j]
    <3> DEFINE D == 1 .. n
    <3>1. p + 1 \in D /\ p + 2 \in D /\ p + 1 # p + 2
      BY <1>1, <2>2
    <3>2. codes \in [D -> Scalar] /\ \A j \in D : codes[j] \in Scalar
      BY <2>3
    <3> HIDE DEF D
    <3>3. /\ t \in [D -> Scalar] /\ t[p + 1] = codes[p + 2] /\ t[p + 2] = codes[p + 1]
          /\ \A j \in D : j # p + 1 /\ j # p + 2 => t[j] = codes[j]
      BY <3>1, <3>2
    <3> QED BY <3>3 DEF D
  <2> HIDE DEF t
  <2>5. t \in Seq(Scalar) /\ Len(t) = n
    BY <1>1, <2>4, SeqOfFunction
  <2>6. Ordered(t) = Ordered(codes)
    <3>1. OutOfOrder(codes[k], codes[k + 1]) /\ t[k] = codes[k + 1] /\ t[k + 1] = codes[k]
          /\ \A j \in 1 .. n : j # k /\ j # k + 1 => t[j] = codes[j]
      BY <1>2, <2>2, <2>4
    <3> HIDE DEF k, n
    <3> QED BY <1>1, <2>2, <2>5, <3>1, ExchangeKeepsOrder DEF n
  <2>7. orderPos' = (IF p > 0 THEN p - 1 ELSE 1) /\ orderPos' \in Nat
    BY <1>1, <2>1 DEF StepBack
  <2>8. ASSUME NEW j \in 1 .. n - 1, j <= orderPos'
        PROVE  ~ OutOfOrder(t[j], t[j + 1])
    <3>1. CASE p > 0
      <4>1. j <= p - 1 /\ j \in 1 .. n /\ j + 1 \in 1 .. n /\ j # p + 1 /\ j # p + 2
            /\ j + 1 # p + 1 /\ j + 1 # p + 2 /\ j <= p
        BY <1>1, <2>7, <2>8, <3>1
      <4> QED BY <1>1, <2>4, <4>1
    <3>2. CASE ~ (p > 0)
      <4>1. j = p + 1 /\ j + 1 = p + 2
        BY <1>1, <2>7, <2>8, <3>2
      <4>2. CombiningClass(codes[p + 1]) > CombiningClass(codes[p + 2])
        BY <1>2 DEF OutOfOrder
      <4>3. ~ (CombiningClass(codes[p + 2]) > CombiningClass(codes[p + 1]))
        BY <4>2, ClassTyped
      <4> QED BY <2>4, <4>1, <4>3 DEF OutOfOrder
    <3> QED BY <3>1, <3>2
  <2>9. Filled'
    BY <1>0, <1>1, <2>1, <2>5 DEF Filled
  <2>10. Ordering'
    BY <1>0, <1>1, <2>1, <2>5, <2>6, <2>7, <2>8, <2>9 DEF Ordering
  <2> QED BY <1>0, <2>1, <2>10 DEF NfkdInv, WholeInv
<1>3. ASSUME p < n - 1, ~ OutOfOrder(codes[p + 1], codes[p + 2])
      PROVE  NfkdInv'
  <2>1. codes' = codes /\ orderPos' = p + 1 /\ stage' = stage
    BY <1>0, <1>1, <1>3 DEF Reorder
  <2>2. ASSUME NEW j \in 1 .. n - 1, j <= p + 1
        PROVE  ~ OutOfOrder(codes[j], codes[j + 1])
    <3>1. j <= p \/ (j = p + 1 /\ j + 1 = p + 2)
      BY <1>1, <2>2
    <3> QED BY <1>1, <1>3, <3>1
  <2>3. Filled'
    BY <1>0, <1>1, <2>1 DEF Filled
  <2>4. Ordering'
    BY <1>0, <1>1, <2>1, <2>2, <2>3 DEF Ordering
  <2> QED BY <1>0, <2>1, <2>4 DEF NfkdInv, WholeInv
<1>4. ASSUME ~ (p < n - 1)
      PROVE  NfkdInv'
  <2>1. stage' = "encode" /\ readPos' = 0 /\ codes' = codes
    BY <1>0, <1>1, <1>4 DEF Reorder
  <2>2. \A j \in 1 .. n - 1 : ~ OutOfOrder(codes[j], codes[j + 1])
    BY <1>1, <1>4
  <2>3. codes = NormalForm(scalars)
    BY <1>1, <2>2, InOrder
  <2>4. BytesTo(codes, 0) = <<>>
    BY <1>1, TextGrows
  <2>5. Len(encoded) <= 4 * 0
    BY <1>1, EmptySeq
  <2>6. Encoding'
    BY <1>0, <1>1, <2>1, <2>3, <2>4, <2>5 DEF Encoding, Filled
  <2> QED BY <1>0, <2>1, <2>6 DEF NfkdInv, WholeInv
<1> QED BY <1>2, <1>3, <1>4

LEMMA ReencodeKeeps == NfkdInv /\ Reencode => NfkdInv'
<1> SUFFICES ASSUME NfkdInv, Reencode PROVE NfkdInv'
  OBVIOUS
<1>0. /\ stage = "encode" /\ WholeInv /\ Encoding /\ Filled /\ WellFormed /\ WellFormed'
      /\ UNCHANGED <<scalars, text, outSize, writePos, bufsize, codes, orderPos, outText>>
  BY DEF Reencode, NfkdInv, BadInv, WholeInv, WellFormed, Encoding
<1> DEFINE n == Len(codes)
           r == readPos
<1>1. /\ n \in Nat /\ r \in Nat /\ r <= n /\ writePos = n /\ codes \in Seq(Scalar)
      /\ codes = NormalForm(scalars) /\ encoded = BytesTo(codes, r) /\ Len(encoded) <= 4 * r
  <2>1. n \in Nat
    BY <1>0, LenProperties DEF Filled
  <2> QED BY <1>0, <2>1 DEF Encoding, Filled
<1>2. CASE r < n
  <2>1. /\ encoded' = encoded \o EncodeChar(codes[r + 1]) /\ readPos' = r + 1 /\ stage' = stage
    BY <1>0, <1>1, <1>2 DEF Reencode
  <2>2. r \in 0 .. n - 1 /\ r + 1 \in 1 .. n /\ r + 1 \in 0 .. n
    BY <1>1, <1>2
  <2> DEFINE c == codes[r + 1]
             u == Utf8(c)
  <2>3. c \in CodePoint
    BY <1>1, <2>2, LenProperties, ScalarIs
  <2>4. EncodeChar(c) = u /\ u \in Seq(CodeUnit) /\ Len(u) \in 1 .. 4
    <3> HIDE DEF c
    <3>1. EncodeChar(c) = Utf8(c) /\ Utf8(c) \in Seq(CodeUnit) /\ Len(Utf8(c)) = Utf8Length(c)
          /\ Utf8Length(c) \in 1 .. 4
      BY <2>3, Encoded
    <3> QED BY <3>1
  <2>5. BytesTo(codes, r + 1) = encoded \o u /\ encoded \in Seq(CodeUnit) /\ Len(encoded) \in Nat
    BY <1>1, <2>2, TextGrows
  <2> HIDE DEF c, u
  <2>6. encoded' = BytesTo(codes, r + 1)
    BY <2>1, <2>4, <2>5 DEF c
  <2>7. Len(encoded') = Len(encoded) + Len(u)
    BY <2>4, <2>5, <2>6, ConcatProperties
  <2>8. Len(encoded') <= 4 * (r + 1)
    <3> DEFINE a == Len(encoded)
               b == Len(u)
               e == Len(encoded')
    <3>1. a \in Nat /\ b <= 4 /\ b \in Nat /\ e = a + b /\ a <= 4 * r /\ r \in Nat
      <4>1. a \in Nat
        BY <2>5
      <4>2. b \in 1 .. 4
        BY <2>4
      <4>3. e = a + b
        BY <2>7
      <4>4. r \in Nat
        BY <1>1
      <4>5. a <= 4 * r
        BY <1>1
      <4> HIDE DEF a, b, e
      <4> QED BY <4>1, <4>2, <4>3, <4>4, <4>5
    <3> HIDE DEF a, b, e, r
    <3>2. e <= 4 * (r + 1)
      BY <3>1
    <3> QED BY <3>2 DEF e
  <2>9. Encoding'
    BY <1>0, <1>1, <2>1, <2>2, <2>6, <2>8 DEF Encoding, Filled
  <2> QED BY <1>0, <2>1, <2>9 DEF NfkdInv, WholeInv
<1>3. CASE ~ (r < n)
  <2>1. stage' = "copy" /\ UNCHANGED <<encoded, readPos>>
    BY <1>0, <1>1, <1>3 DEF Reencode
  <2>2. readPos = n
    BY <1>1, <1>3
  <2>3. Encoding'
    BY <1>0, <2>1 DEF Encoding, Filled
  <2> QED BY <1>0, <2>1, <2>2, <2>3 DEF NfkdInv, WholeInv
<1> QED BY <1>2, <1>3

LEMMA CopyKeeps == NfkdInv /\ CopyOut => NfkdInv'
<1> SUFFICES ASSUME NfkdInv, CopyOut PROVE NfkdInv'
  OBVIOUS
<1>0. /\ stage = "copy" /\ WholeInv /\ Encoding /\ WellFormed /\ WellFormed'
      /\ UNCHANGED <<scalars, text, outSize, readPos, codes, encoded>>
  BY DEF CopyOut, NfkdInv, BadInv, WholeInv, WellFormed
<1>1. /\ codes \in Seq(Scalar) /\ codes = NormalForm(scalars) /\ encoded = BytesTo(codes, Len(codes))
      /\ outSize \in Nat
  BY <1>0 DEF Encoding, Filled, WholeInv, WellFormed
<1>2. encoded = Utf8Text(NormalForm(scalars)) /\ Len(encoded) \in Nat
  <2>1. encoded = Utf8Text(codes) /\ Utf8Text(codes) \in Seq(CodeUnit)
    BY <1>1, TextGrows, TextTyped
  <2> QED BY <1>1, <2>1, LenProperties
<1>3. CASE Len(encoded) >= outSize
  <2>1. stage' = "false"
    BY <1>0, <1>3 DEF CopyOut, TooLong
  <2>2. codes = <<>> => outSize = 0
    <3>1. SUFFICES ASSUME codes = <<>> PROVE outSize = 0
      OBVIOUS
    <3>2. Len(codes) = 0
      BY <3>1, EmptySeq
    <3>3. encoded = <<>>
      BY <1>1, <3>2, TextGrows
    <3> QED BY <1>1, <1>3, <3>3, EmptySeq
  <2>3. Refused'
    BY <1>0, <1>2, <1>3, <2>2 DEF Refused
  <2> QED BY <1>0, <2>1, <2>3 DEF NfkdInv, WholeInv
<1>4. CASE ~ (Len(encoded) >= outSize)
  <2>1. stage' = "true" /\ outText' = encoded
    BY <1>0, <1>4 DEF CopyOut, TooLong
  <2>2. Returned'
    BY <1>0, <1>1, <1>2, <1>4, <2>1 DEF Returned
  <2> QED BY <1>0, <2>1, <2>2 DEF NfkdInv, WholeInv
<1> QED BY <1>3, <1>4

LEMMA NfkdInductive == NfkdInv /\ [NfkdNext]_nfkdVars => NfkdInv'
<1> SUFFICES ASSUME NfkdInv, [NfkdNext]_nfkdVars PROVE NfkdInv'
  OBVIOUS
<1>1. CASE NfkdCall
  BY <1>1, CallKeeps
<1>2. CASE DecomposeNext
  BY <1>2, BadKeeps, DecomposeKeeps DEF NfkdInv
<1>3. CASE Allocate
  BY <1>3, AllocateKeeps
<1>4. CASE Reorder
  BY <1>4, ReorderKeeps
<1>5. CASE Reencode
  BY <1>5, ReencodeKeeps
<1>6. CASE CopyOut
  BY <1>6, CopyKeeps
<1>7. CASE UNCHANGED nfkdVars
  <2>1. UNCHANGED <<scalars, text, outSize, stage, readPos, writePos, bufsize, codes, orderPos, encoded, outText>>
    BY <1>7 DEF nfkdVars
  <2>2. BadInv => BadInv'
    BY <2>1 DEF BadInv, Reads
  <2>3. WholeInv => WholeInv'
    BY <2>1 DEF WholeInv, WellFormed, NfkdStart, Counting, Counted, Filling, Ordering, Encoding,
                Returned, Refused, NotOrdered, ReadSoFar, Filled
  <2> QED BY <2>2, <2>3 DEF NfkdInv
<1> QED BY <1>1, <1>2, <1>3, <1>4, <1>5, <1>6, <1>7 DEF NfkdNext

LEMMA NfkdMeant == NfkdInv => NfkdSound
<1> SUFFICES ASSUME NfkdInv PROVE NfkdSound
  OBVIOUS
<1>1. CASE BadInv
  BY <1>1 DEF BadInv, NfkdSound, NfkdWhole, BufferHolds
<1>2. CASE WholeInv
  <2>1. scalars # Malformed /\ outSize \in Nat
    <3>1. SUFFICES ASSUME scalars = Malformed PROVE FALSE
      BY <1>2 DEF WholeInv, WellFormed
    <3>2. scalars \in Seq(Scalar) /\ Len(scalars) = 1 /\ scalars[1] = -1
      BY <1>2, <3>1 DEF WholeInv, WellFormed, Malformed
    <3>3. -1 \in Scalar
      BY <3>2, LenProperties
    <3> QED BY <3>3, ScalarIs
  <2>2. stage = "true" => outText = Utf8Text(NormalForm(scalars)) /\ Len(outText) + 1 <= outSize
    <3>1. SUFFICES ASSUME stage = "true" PROVE outText = Utf8Text(NormalForm(scalars)) /\ Len(outText) + 1 <= outSize
      OBVIOUS
    <3>2. outText = Utf8Text(NormalForm(scalars)) /\ Len(outText) < outSize
      BY <1>2, <3>1 DEF WholeInv, Returned
    <3> QED BY <2>1, <3>2
  <2>3. stage = "false" /\ outSize > 0 =>
          /\ readPos < Len(text) - 1 => codes # <<>>
          /\ codes # <<>> => Len(Utf8Text(NormalForm(scalars))) >= outSize
    <3>1. SUFFICES ASSUME stage = "false", outSize > 0
                   PROVE  /\ readPos < Len(text) - 1 => codes # <<>>
                          /\ codes # <<>> => Len(Utf8Text(NormalForm(scalars))) >= outSize
      OBVIOUS
    <3>2. Refused /\ outSize # 0
      BY <1>2, <2>1, <3>1 DEF WholeInv
    <3>3. Len(text) \in Nat
      <4>1. Utf8Text(scalars) \in Seq(CodeUnit) /\ 0 \in CodeUnit /\ text = Append(Utf8Text(scalars), 0)
        BY <1>2, TextTyped DEF WholeInv, WellFormed, CodeUnit
      <4> QED BY <4>1, AppendProperties, LenProperties
    <3> QED BY <3>2, <3>3 DEF Refused
  <2>4. BufferHolds
    <3>1. stage \in {"order", "encode", "copy"} => writePos = bufsize /\ Len(codes) = bufsize
      BY <1>2 DEF WholeInv, Ordering, Encoding, Filled
    <3>2. ASSUME stage \in {"encode", "copy"}
          PROVE  Len(encoded) <= 4 * readPos /\ Len(encoded) < 4 * bufsize + 1
      <4>1. /\ codes \in Seq(Scalar) /\ bufsize = Len(codes) /\ readPos \in 0 .. Len(codes)
            /\ encoded = BytesTo(codes, readPos) /\ Len(encoded) <= 4 * readPos
        BY <1>2, <3>2 DEF WholeInv, Encoding, Filled
      <4>2. Len(encoded) \in Nat /\ Len(codes) \in Nat
        BY <4>1, TextGrows, LenProperties
      <4> QED BY <4>1, <4>2
    <3> QED BY <3>1, <3>2 DEF BufferHolds
  <2> QED BY <2>1, <2>2, <2>3, <2>4 DEF NfkdSound, NfkdWhole
<1> QED BY <1>1, <1>2 DEF NfkdInv

\* wc_nfkd returns the normal form of the text, whatever the tables are, or
\* refuses a text that is malformed or for which there is no memory or no room;
\* and its buffer, measured by the first pass, holds what the second one writes.
THEOREM NormalFormOrRefusal == NfkdSpec => []NfkdSound
<1>1. NfkdInit => NfkdInv
  BY NfkdStarts
<1>2. NfkdInv /\ [NfkdNext]_nfkdVars => NfkdInv'
  BY NfkdInductive
<1>3. NfkdInv => NfkdSound
  BY NfkdMeant
<1> QED BY <1>1, <1>2, <1>3, PTL DEF NfkdSpec
=============================================================================
