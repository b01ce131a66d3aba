------------------------------ MODULE Numerals ------------------------------
(***************************************************************************)
(* Numbers written as digits, for the modules that convert between bytes,  *)
(* dice, word indices, characters and limbs.                               *)
(***************************************************************************)
EXTENDS Integers, Sequences

\* b to the power e, as a function over the exponents.
Power(b, e) ==
  LET P[i \in 0 .. e] == IF i = 0 THEN 1 ELSE P[i - 1] * b
  IN  P[e]

\* The number a sequence of digits stands for, most significant digit first.
NumberIn(base, digits) ==
  LET N[i \in 0 .. Len(digits)] == IF i = 0 THEN 0 ELSE N[i - 1] * base + digits[i]
  IN  N[Len(digits)]

\* The sum of f[0] .. f[n - 1].
SumTo(n, f) ==
  LET S[i \in 0 .. n] == IF i = 0 THEN 0 ELSE S[i - 1] + f[i - 1]
  IN  S[n]
=============================================================================
