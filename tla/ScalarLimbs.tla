----------------------------- MODULE ScalarLimbs -----------------------------
(***************************************************************************)
(* lib/ed25519/sc.c: arithmetic modulo the order of the base point,        *)
(* 2^252 + delta, on vectors of limbs of 21 bits (24 of them for what is   *)
(* reduced, 12 for a scalar).  A limb from the upper half folds into the   *)
(* limbs half a vector below, times the digits of -delta: 666643, 470296,  *)
(* 654183, -997805, 136657, -683901.  One step is one pass over the vector.*)
(***************************************************************************)
EXTENDS Numerals

CONSTANTS
  LimbsPerScalar,   \* limbs of a scalar (12)
  LimbBits,       \* width of a limb (21)
  Delta,          \* -delta in digits of LimbBits, little end first
  ScalarBits,     \* bits of an operand of sc_muladd (256)
  DigestBits,     \* bits of the argument of sc_reduce (512)
  Multiples,      \* sc_reduce is given these multiples of the order, and those
                  \* next to them
  Factors         \* operands given to sc_muladd

ASSUME ScalarAssumption ==
  /\ LimbsPerScalar \in Nat /\ LimbsPerScalar % 2 = 0 /\ LimbsPerScalar >= 4
  /\ LimbBits \in Nat \ {0}
  /\ Delta \in Seq(Int) /\ Len(Delta) <= LimbsPerScalar \div 2
  /\ ScalarBits \in Nat /\ DigestBits \in Nat
  /\ Factors \subseteq 0 .. Power(2, ScalarBits) - 1

VARIABLES
  scCall,  \* "sc_reduce", "sc_muladd", or "none" when neither is called
  exact,   \* what the call is to reduce: s, or a * b + c
  slimb,   \* the limbs s0 .. s23
  pass     \* the next pass

scalarVars == <<scCall, exact, slimb, pass>>

M == LimbsPerScalar
Quarter == M \div 2
ScalarPlace == [i \in 0 .. 2 * M |-> Power(2, LimbBits * i)]
FoldDigit(k) == IF k + 1 \in DOMAIN Delta THEN Delta[k + 1] ELSE 0
ScalarOrder ==
  ScalarPlace[M] - SumTo(M, [k \in 0 .. M - 1 |-> FoldDigit(k) * ScalarPlace[k]])

ASSUME OrderAssumption == ScalarOrder > 0

\* The number a vector stands for.
NumberOf(v) == SumTo(2 * M + 1, [i \in 0 .. 2 * M |-> v[i] * ScalarPlace[i]])

\* The loads: LimbBits each, the last limb takes all that is left.
Load(x, n) ==
  [i \in 0 .. n - 1 |->
     LET rest == x \div ScalarPlace[i]
     IN  IF i = n - 1 THEN rest ELSE rest % ScalarPlace[1]]

\* Everything is computed in one vector; its last entry is never set.
Padded(v) == [i \in 0 .. 2 * M |-> IF i \in DOMAIN v THEN v[i] ELSE 0]

ProductPlus(a, b, c) ==
  [k \in 0 .. 2 * M - 2 |->
     (IF k < M THEN c[k] ELSE 0)
       + SumTo(M, [i \in 0 .. M - 1 |-> IF k - i \in 0 .. M - 1 THEN a[i] * b[k - i] ELSE 0])]

-----------------------------------------------------------------------------

\* s11 += s23 * 666643; s12 += s23 * 470296; ... s23 = 0.
Fold(v, i) ==
  [j \in DOMAIN v |-> IF j = i THEN 0 ELSE v[j] + v[i] * FoldDigit(j - (i - M))]

CarryBy(v, i, half) ==
  LET c == (v[i] + half) \div ScalarPlace[1]
  IN  [v EXCEPT ![i] = @ - c * ScalarPlace[1], ![i + 1] = @ + c]
Rounded(v, i) == CarryBy(v, i, Power(2, LimbBits - 1))
Floored(v, i) == CarryBy(v, i, 0)

UpFrom(a, b, step) == [n \in 1 .. (b - a) \div step + 1 |-> a + (n - 1) * step]
DownTo(a, b) == [n \in 1 .. a - b + 1 |-> a - n + 1]

\* Each pass: what is done, and to which limbs in which order.
PassesToFloor ==
  << <<"round", UpFrom(0, 2 * M - 2, 2) \o UpFrom(1, 2 * M - 3, 2)>>,
     <<"fold", DownTo(2 * M - 1, M + Quarter)>>,
     <<"round", UpFrom(Quarter, M + Quarter - 2, 2)
                  \o UpFrom(Quarter + 1, M + Quarter - 3, 2)>>,
     <<"fold", DownTo(M + Quarter - 1, M)>>,
     <<"round", UpFrom(0, M - 2, 2) \o UpFrom(1, M - 1, 2)>>,
     <<"fold", <<M>>>>,
     <<"floor", UpFrom(0, M - 1, 1)>> >>

\* Mutant: without the second folding of s12.
PassesShort == PassesToFloor

Passes == PassesToFloor \o << <<"fold", <<M>>>>, <<"floor", UpFrom(0, M - 2, 1)>> >>

AtLimb(what, v, i) ==
  CASE what = "round" -> Rounded(v, i)
    [] what = "floor" -> Floored(v, i)
    [] what = "fold"  -> Fold(v, i)

OnePassOver(v, p) ==
  LET V[n \in 0 .. Len(p[2])] == IF n = 0 THEN v ELSE AtLimb(p[1], V[n - 1], p[2][n])
  IN  V[Len(p[2])]

-----------------------------------------------------------------------------
ReduceArguments ==
  {x \in {k * ScalarOrder + e : k \in Multiples, e \in -1 .. 1}
           \cup {Power(2, DigestBits) - 1, ScalarPlace[M]} :
     x \in 0 .. Power(2, DigestBits) - 1}

\* sc_reduce has nothing to carry before its first folding.
ScReduce ==
  /\ scCall = "sc_reduce"
  /\ exact \in ReduceArguments
  /\ slimb = Padded(Load(exact, 2 * M)) /\ pass = 2

ScMuladd ==
  /\ scCall = "sc_muladd"
  /\ \E a, b, c \in Factors :
       /\ exact = a * b + c
       /\ slimb = Padded(ProductPlus(Load(a, M), Load(b, M), Load(c, M)))
  /\ pass = 1

ScalarInit == ScReduce \/ ScMuladd
ScalarIdle == scCall = "none" /\ exact = 0 /\ slimb = Padded(<<>>) /\ pass = Len(Passes) + 1

ScalarNext ==
  /\ pass <= Len(Passes)
  /\ slimb' = OnePassOver(slimb, Passes[pass])
  /\ pass' = pass + 1
  /\ UNCHANGED <<scCall, exact>>

ScalarSpec == ScalarInit /\ [][ScalarNext]_scalarVars

-----------------------------------------------------------------------------
\* No pass changes the scalar: whatever has been carried or folded, the vector
\* stands for the argument modulo the order ("s mod l", "(ab+c) mod l").
ScalarPreserved == NumberOf(slimb) % ScalarOrder = exact % ScalarOrder

\* At the end the stores, which cut each limb into bytes without looking at its
\* sign or its width, write the one representative below the order: signatures
\* and keys are compared byte by byte.  Only the last limb may be one too wide.
ScalarReduced ==
  pass > Len(Passes) =>
    /\ NumberOf(slimb) = exact % ScalarOrder
    /\ \A i \in 0 .. M - 2 : slimb[i] \in 0 .. ScalarPlace[1] - 1
    /\ slimb[M - 1] \in 0 .. ScalarPlace[1]
    /\ \A i \in M .. 2 * M : slimb[i] = 0

\* sc.c: the scalar is the same before and after each pass, and reduced behind
\* the last one.
ScalarSound == ScalarPreserved /\ ScalarReduced
=============================================================================
