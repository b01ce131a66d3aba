----------------------------- MODULE FieldPowers -----------------------------
(***************************************************************************)
(* fe_invert and fe_pow22523 of lib/ed25519/fe.c, at their real size: the  *)
(* chains of squarings and products that raise z to 2^255 - 21 and to      *)
(* 2^252 - 3.  A register is the exponent of z it holds; one step is one   *)
(* call of fe_sq or fe_mul.                                                *)
(***************************************************************************)
EXTENDS Numerals

CONSTANTS
  DigitBits,  \* exponents are written in digits of this many bits
  Digits      \* digits of an exponent

ASSUME PowerAssumption ==
  /\ DigitBits \in Nat /\ DigitBits >= 5  \* 21 is one digit
  /\ Digits \in Nat /\ DigitBits * Digits > 255

VARIABLES
  chain,     \* "fe_invert", "fe_pow22523", or "none" when neither is called
  line,      \* statement being executed
  squared,   \* calls of fe_sq made by it
  exponent   \* the exponent in z, t0 .. t3 and out, little end first

powerVars == <<chain, line, squared, exponent>>

Radix == Power(2, DigitBits)
Number(n) == [i \in 1 .. Digits |-> IF i = 1 THEN n ELSE 0]

Sum2(a, b) ==
  LET c[i \in 0 .. Digits] ==
        IF i = 0 THEN 0 ELSE (a[i] + b[i] + c[i - 1]) \div Radix
  IN  [i \in 1 .. Digits |-> (a[i] + b[i] + c[i - 1]) % Radix]

PowerOfTwo(k) ==
  [i \in 1 .. Digits |-> IF i = k \div DigitBits + 1 THEN Power(2, k % DigitBits) ELSE 0]

\* fe_sq(to, from) and n - 1 more squarings of to; fe_mul(to, a, b).
Sq(to, from, n) == [to |-> to, factors |-> <<from, from>>, calls |-> n]
Times(to, a, b) == [to |-> to, factors |-> <<a, b>>, calls |-> 1]

FeInvert == <<
  Sq("t0", "z", 1),    Sq("t1", "t0", 2),
  Times("t1", "z", "t1"),  Times("t0", "t0", "t1"),
  Sq("t2", "t0", 1),   Times("t1", "t1", "t2"),
  Sq("t2", "t1", 5),   Times("t1", "t2", "t1"),
  Sq("t2", "t1", 10),  Times("t2", "t2", "t1"),
  Sq("t3", "t2", 20),  Times("t2", "t3", "t2"),
  Sq("t2", "t2", 10),  Times("t1", "t2", "t1"),
  Sq("t2", "t1", 50),  Times("t2", "t2", "t1"),
  Sq("t3", "t2", 100), Times("t2", "t3", "t2"),
  Sq("t2", "t2", 50),  Times("t1", "t2", "t1"),
  Sq("t1", "t1", 5),   Times("out", "t1", "t0") >>

\* ge.c passes one variable for z and for out here.
FePow22523 == <<
  Sq("t0", "z", 1),    Sq("t1", "t0", 2),
  Times("t1", "z", "t1"),  Times("t0", "t0", "t1"),
  Sq("t0", "t0", 1),   Times("t0", "t1", "t0"),
  Sq("t1", "t0", 5),   Times("t0", "t1", "t0"),
  Sq("t1", "t0", 10),  Times("t1", "t1", "t0"),
  Sq("t2", "t1", 20),  Times("t1", "t2", "t1"),
  Sq("t1", "t1", 10),  Times("t0", "t1", "t0"),
  Sq("t1", "t0", 50),  Times("t1", "t1", "t0"),
  Sq("t2", "t1", 100), Times("t1", "t2", "t1"),
  Sq("t1", "t1", 50),  Times("t0", "t1", "t0"),
  Sq("t0", "t0", 2),   Times("z", "t0", "z") >>

Statements ==
  CASE chain = "fe_invert" -> FeInvert
    [] chain = "fe_pow22523" -> FePow22523
    [] OTHER -> <<>>

PowerStart(chains) ==
  /\ chain \in chains /\ line = 1 /\ squared = 0
  /\ exponent = [t \in {"z", "t0", "t1", "t2", "t3", "out"} |->
                   Number(IF t = "z" THEN 1 ELSE 0)]

PowerInit == PowerStart({"fe_invert", "fe_pow22523"})
PowerIdle == PowerStart({"none"})

\* Mutant: the loop is started at zero.
LoopEndsLate(s) == squared = s.calls

\* The first call reads the statement's operands, the ones of the loop behind
\* it square the register it wrote.
LoopEnds(s) == squared + 1 = s.calls

PowerNext ==
  /\ line <= Len(Statements)
  /\ LET s == Statements[line]
         read == IF squared = 0 THEN s.factors ELSE <<s.to, s.to>>
     IN  /\ exponent' = [exponent EXCEPT
                           ![s.to] = Sum2(exponent[read[1]], exponent[read[2]])]
         /\ IF LoopEnds(s) THEN line' = line + 1 /\ squared' = 0
            ELSE squared' = squared + 1 /\ UNCHANGED line
  /\ UNCHANGED chain

PowerSpec == PowerInit /\ [][PowerNext]_powerVars

\* What the chains are for, after some 250 calls over four temporaries: the
\* inverse is z^(p-2), p = 2^255 - 19, and square roots start from
\* z^((p-5)/8) = z^(2^252-3).  A temporary overwritten while it is still
\* needed, or a loop one call short, gives another power.
PowersExact ==
  line > Len(Statements) =>
    CASE chain = "fe_invert" -> Sum2(exponent["out"], Number(21)) = PowerOfTwo(255)
      [] chain = "fe_pow22523" -> Sum2(exponent["z"], Number(3)) = PowerOfTwo(252)
      [] OTHER -> TRUE
=============================================================================
