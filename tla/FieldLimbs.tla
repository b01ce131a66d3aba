----------------------------- MODULE FieldLimbs -----------------------------
(***************************************************************************)
(* lib/ed25519/fe.c.  A field element is a vector of signed limbs whose    *)
(* widths alternate (ten of 26 and 25 bits; here Limbs of EvenBits and     *)
(* OddBits), and what leaves the top comes back at the bottom times Fold   *)
(* (19).  Sums are not carried, so each register also knows how many       *)
(* reduced elements were added up in it: the "1.1*2^25", "1.1*2^26" and    *)
(* "1.65*2^26" of the comments are one, two and three of them.             *)
(***************************************************************************)
EXTENDS Numerals

CONSTANTS
  Limbs,        \* limbs of an element (10)
  EvenBits,     \* width of limbs 0, 2, ... (26)
  OddBits,      \* width of limbs 1, 3, ... (25)
  FoldBy,       \* 2^255 is this modulo the prime (19)
  ByteWidth,    \* bits of a byte (8)
  Coefficient,  \* the constant of fe_mul121666
  EvenBound,    \* bound on limbs 0, 2, ... of a reduced element (1.1*2^25)
  OddBound,     \* bound on limbs 1, 3, ... of a reduced element (1.1*2^24)
  Reg,          \* variables of type fe
  FieldInputs,  \* byte strings that are read, as numbers
  MaxFieldOps   \* bound on the operations of a behaviour

ASSUME FieldAssumption ==
  /\ Limbs \in Nat /\ Limbs >= 4 /\ Limbs % 2 = 0
  /\ EvenBits \in Nat \ {0, 1} /\ OddBits = EvenBits - 1
  /\ FoldBy \in Nat \ {0} /\ ByteWidth \in Nat \ {0} /\ ByteWidth <= OddBits
  /\ EvenBound \in Nat /\ OddBound \in Nat
  /\ Coefficient \in Nat /\ FieldInputs \subseteq Nat /\ MaxFieldOps \in Nat

VARIABLES
  reg,    \* the limbs of each register
  terms,  \* how many reduced elements each register sums up
  ones,   \* and how many times the constant 1 besides
  feOp,   \* the operation that wrote last
  feOps   \* operations so far

fieldVars == <<reg, terms, ones, feOp, feOps>>

Limb == 0 .. Limbs - 1
Width(i) == IF i % 2 = 0 THEN EvenBits ELSE OddBits
Offset(i) == (i \div 2) * (EvenBits + OddBits) + (i % 2) * EvenBits
Place == [i \in 0 .. Limbs |-> Power(2, Offset(i))]
FieldPrime == Place[Limbs] - FoldBy

ASSUME PrimeAssumption == FoldBy < Place[Limbs]

\* The element a limb vector stands for.
Value(h) ==
  SumTo(Limbs, [i \in Limb |-> (h[i] * (Place[i] % FieldPrime)) % FieldPrime]) % FieldPrime

-----------------------------------------------------------------------------
\* Mutant: the top limb's carry is dropped.
AboveDropped(h, i, c) == IF i = Limbs - 1 THEN h ELSE [h EXCEPT ![i + 1] = @ + c]

Above(h, i, c) ==
  IF i = Limbs - 1 THEN [h EXCEPT ![0] = @ + FoldBy * c]
  ELSE [h EXCEPT ![i + 1] = @ + c]

\* carry = (h[i] + 2^(w-1)) >> w: rounded, so that limbs stay small both ways.
RoundedCarry(h, i) ==
  LET c == (h[i] + Power(2, Width(i) - 1)) \div Power(2, Width(i))
  IN  [Above(h, i, c) EXCEPT ![i] = h[i] - c * Power(2, Width(i))]

Carries(h, order) ==
  LET C[n \in 0 .. Len(order)] == IF n = 0 THEN h ELSE RoundedCarry(C[n - 1], order[n])
  IN  C[Len(order)]

\* The order after a product: two chains half a vector apart, then the top
\* limb into limb 0 and limb 0 once more.
Half == Limbs \div 2 - 1
TwoChains == [n \in 1 .. 2 * (Half + 1) |->
                IF n % 2 = 1 THEN n \div 2 ELSE n \div 2 - 1 + Half]

ProductCarries == TwoChains \o <<Limbs - 1, 0>>

\* The order where one pass is enough: odd limbs, the top one first, then even.
OnePass ==
  <<Limbs - 1>> \o [n \in 1 .. Half |-> 2 * n - 1]
                \o [n \in 1 .. Half + 1 |-> 2 * (n - 1)]

-----------------------------------------------------------------------------
FeConst(x) == [i \in Limb |-> IF i = 0 THEN x ELSE 0]
Fe0 == FeConst(0)
Fe1 == FeConst(1)
FeAdd(f, g) == [i \in Limb |-> f[i] + g[i]]
FeSub(f, g) == [i \in Limb |-> f[i] - g[i]]
FeNeg(f) == [i \in Limb |-> -f[i]]
FeCopy(f) == f

\* Limbs of odd index are half a bit narrow: where two meet, the product
\* counts twice; past the top it counts FoldBy times.
Weight(i, j) ==
  (IF i % 2 = 1 /\ j % 2 = 1 THEN 2 ELSE 1) * (IF i + j >= Limbs THEN FoldBy ELSE 1)

Products(f, g) ==
  [k \in Limb |->
     LET other(i) == (k - i) % Limbs
     IN  SumTo(Limbs, [i \in Limb |-> Weight(i, other(i)) * f[i] * g[other(i)]])]

FeMul(f, g) == Carries(Products(f, g), ProductCarries)

\* fe_sq and fe_sq2 write each mixed product once and double it.
Counts(i, j) == IF i < j THEN 2 ELSE IF i = j THEN 1 ELSE 0
Squares(f) ==
  [k \in Limb |->
     LET other(i) == (k - i) % Limbs
     IN  SumTo(Limbs, [i \in Limb |->
                         Counts(i, other(i)) * Weight(i, other(i)) * f[i] * f[other(i)]])]

FeSq(f) == Carries(Squares(f), ProductCarries)

FeSq2(f) == Carries([i \in Limb |-> 2 * Squares(f)[i]], ProductCarries)
FeMul121666(f) == Carries([i \in Limb |-> Coefficient * f[i]], OnePass)

\* b is 0 or 1; Masked is x & -b.
Masked(x, b) == IF b = 1 THEN x ELSE 0
FeCmov(f, g, b) == [i \in Limb |-> f[i] + Masked(g[i] - f[i], b)]

\* Byte strings: a load begins at the first byte that is wholly the limb's own
\* and ends where the next begins; the top bit is masked away.
NextByte(bit) == ((bit + ByteWidth - 1) \div ByteWidth) * ByteWidth
LoadFrom(i) == IF i = Limbs THEN Offset(i) ELSE NextByte(Offset(i))
Loaded(s, i) ==
  ((s \div Power(2, LoadFrom(i))) % Power(2, LoadFrom(i + 1) - LoadFrom(i)))
    * Power(2, LoadFrom(i) - Offset(i))
FeFromBytes(s) == Carries([i \in Limb |-> Loaded(s, i)], OnePass)

\* q = floor(h / prime), through the chain of carries; then one pass without
\* rounding, whose last carry, 2^255 q, is dropped.
Quotient(h) ==
  LET Q[n \in 0 .. Limbs] ==
        IF n = 0 THEN (FoldBy * h[Limbs - 1] + Power(2, OddBits - 1)) \div Power(2, OddBits)
        ELSE (h[n - 1] + Q[n - 1]) \div Power(2, Width(n - 1))
  IN  Q[Limbs]

FlooredCarry(h, i) ==
  LET c == h[i] \div Power(2, Width(i))
  IN  [h EXCEPT ![i] = h[i] - c * Power(2, Width(i)),
                ![(i + 1) % Limbs] = IF i = Limbs - 1 THEN @ ELSE @ + c]

FeToBytes(h) ==
  LET T[n \in 0 .. Limbs] ==
        IF n = 0 THEN [h EXCEPT ![0] = @ + FoldBy * Quotient(h)]
        ELSE FlooredCarry(T[n - 1], n - 1)
  IN  SumTo(Limbs, [i \in Limb |-> T[Limbs][i] * Place[i]])

FeIsNegative(f) == FeToBytes(f) % 2
FeIsNonzero(f) == FeToBytes(f) # 0

-----------------------------------------------------------------------------
FieldInit ==
  /\ \E s \in [Reg -> FieldInputs] : reg = [r \in Reg |-> FeFromBytes(s[r])]
  /\ terms = [r \in Reg |-> 1] /\ ones = [r \in Reg |-> 0]
  /\ feOp = "loaded" /\ feOps = 0

FieldIdle ==
  /\ reg = [r \in Reg |-> Fe0] /\ terms = [r \in Reg |-> 0] /\ ones = [r \in Reg |-> 0]
  /\ feOp = "loaded" /\ feOps = MaxFieldOps

Write(op, h, limbs, n, o) ==
  /\ feOps < MaxFieldOps
  /\ reg' = [reg EXCEPT ![h] = limbs]
  /\ terms' = [terms EXCEPT ![h] = n] /\ ones' = [ones EXCEPT ![h] = o]
  /\ feOp' = op /\ feOps' = feOps + 1

\* The preconditions ge.c keeps: what is added stays within three reduced
\* elements, and 1 is in it twice at most, as in ge_madd's Z + Z where Z = 1.
MostOnes == 2
SumOfTerms(f, g) == terms[f] + terms[g]
SumOfOnes(f, g) == ones[f] + ones[g]
MayAddUp(f, g) == SumOfTerms(f, g) <= 3 /\ SumOfOnes(f, g) <= MostOnes

Add(h, f, g) ==
  MayAddUp(f, g) /\ Write("add", h, FeAdd(reg[f], reg[g]), SumOfTerms(f, g), SumOfOnes(f, g))
Sub(h, f, g) ==
  MayAddUp(f, g) /\ Write("sub", h, FeSub(reg[f], reg[g]), SumOfTerms(f, g), SumOfOnes(f, g))
Mul(h, f, g) == Write("mul", h, FeMul(reg[f], reg[g]), 1, 0)
Square(h, f) == Write("sq", h, FeSq(reg[f]), 1, 0)
DoubleSquare(h, f) == Write("sq2", h, FeSq2(reg[f]), 1, 0)
MulConstant(h, f) == terms[f] <= 2 /\ Write("mul121666", h, FeMul121666(reg[f]), 1, 0)
Negate(h, f) == Write("neg", h, FeNeg(reg[f]), terms[f], ones[f])
Copy(h, f) == Write("copy", h, FeCopy(reg[f]), terms[f], ones[f])
SetConstant(h) == Write("0", h, Fe0, 0, 0) \/ Write("1", h, Fe1, 0, 1)
Move(f, g, b) == Write("cmov", f, FeCmov(reg[f], reg[g], b),
                       IF b = 1 THEN terms[g] ELSE terms[f], IF b = 1 THEN ones[g] ELSE ones[f])

Swapped(f, g, b) ==
  [reg EXCEPT ![f] = FeCmov(reg[f], reg[g], b), ![g] = FeCmov(reg[g], reg[f], b)]

ConditionalSwap(f, g, b) ==
  /\ feOps < MaxFieldOps
  /\ reg' = Swapped(f, g, b)
  /\ terms' = IF b = 1 THEN [terms EXCEPT ![f] = terms[g], ![g] = terms[f]] ELSE terms
  /\ ones' = IF b = 1 THEN [ones EXCEPT ![f] = ones[g], ![g] = ones[f]] ELSE ones
  /\ feOp' = "cswap" /\ feOps' = feOps + 1

FieldNext ==
  \E h, f, g \in Reg, b \in {0, 1} :
    \/ Add(h, f, g) \/ Sub(h, f, g) \/ Mul(h, f, g)
    \/ Square(h, f) \/ DoubleSquare(h, f) \/ MulConstant(h, f)
    \/ Negate(h, f) \/ Copy(h, f) \/ SetConstant(h)
    \/ Move(f, g, b) \/ ConditionalSwap(f, g, b)

FieldSpec == FieldInit /\ [][FieldNext]_fieldVars

-----------------------------------------------------------------------------
\* The bounds the comments of fe.c give before and after each function: a limb
\* is as large as the reduced elements summed up in its register, never more,
\* or the 32-bit sums and 64-bit products would leave their types.
Bound(i) == IF i % 2 = 0 THEN EvenBound ELSE OddBound

LimbsBounded ==
  \A r \in Reg, i \in Limb :
    LET most == Bound(i) * terms[r] + ones[r]
    IN  reg[r][i] \in -most .. most

\* fe_tobytes, behind every comparison and every key: whatever limbs stand for
\* an element, within its precondition of two terms, the bytes are those of
\* the one representative below the prime, and reading them back gives the
\* element again.
CanonicalBytes ==
  \A r \in Reg :
    terms[r] <= 2 =>
      /\ FeToBytes(reg[r]) = Value(reg[r])
      /\ FeIsNegative(reg[r]) = Value(reg[r]) % 2
      /\ FeIsNonzero(reg[r]) <=> Value(reg[r]) # 0
      /\ Value(FeFromBytes(FeToBytes(reg[r]))) = Value(reg[r])

\* The limbs implement arithmetic modulo the prime, the name of each operation
\* and of its operands included.
Elements == INSTANCE FieldElements WITH
  elem <- [r \in Reg |-> Value(reg[r])], operation <- feOp

ImplementsField == Elements!ElementSpec
=============================================================================
