---------------------------- MODULE Sha512Rounds ----------------------------
(***************************************************************************)
(* The hash computation of FIPS 180-4, 6.4.2, for a word of WordBits bits: *)
(* eight working variables that all move at every round.                   *)
(***************************************************************************)
EXTENDS Integers, Sequences

CONSTANTS
  WordBits,    \* bits of a word (64)
  ConstantOf(_)  \* the constant of a round

VARIABLES
  working,  \* the working variables a .. h
  previous, \* the hash value the block is added to
  schedule, \* the words of the message schedule
  done      \* rounds done; -1 before the block, 81 once its digest is added

\* A word is the set of the positions of its ones.
Word == SUBSET (0 .. WordBits - 1)
Xor(x, y) == (x \ y) \cup (y \ x)
Not(x) == (0 .. WordBits - 1) \ x
RotR(x, n) == {(b - n) % WordBits : b \in x}
ShR(x, n) == {b - n : b \in {c \in x : c >= n}}

Value(x) ==
  LET upTo[b \in 0 .. WordBits] ==
        IF b = 0 THEN 0 ELSE upTo[b - 1] + (IF b - 1 \in x THEN 2 ^ (b - 1) ELSE 0)
  IN  upTo[WordBits]
WordOf(n) == {b \in 0 .. WordBits - 1 : (n \div 2 ^ b) % 2 = 1}
Add(x, y) == WordOf((Value(x) + Value(y)) % 2 ^ WordBits)

BigSigma0(x) == Xor(RotR(x, 28), Xor(RotR(x, 34), RotR(x, 39)))
BigSigma1(x) == Xor(RotR(x, 14), Xor(RotR(x, 18), RotR(x, 41)))
SmallSigma0(x) == Xor(RotR(x, 1), Xor(RotR(x, 8), ShR(x, 7)))
SmallSigma1(x) == Xor(RotR(x, 19), Xor(RotR(x, 61), ShR(x, 6)))
Choose3(x, y, z) == Xor(x \cap y, Not(x) \cap z)
Majority(x, y, z) == Xor(x \cap y, Xor(x \cap z, y \cap z))

Begin ==
  /\ done = -1
  /\ done' = 0
  /\ working' = previous
  /\ \A t \in 17 .. 80 :
       schedule'[t] = Add(Add(SmallSigma1(schedule'[t - 2]), schedule'[t - 7]),
                          Add(SmallSigma0(schedule'[t - 15]), schedule'[t - 16]))
  /\ UNCHANGED previous

Round ==
  /\ done \in 0 .. 79
  /\ LET a == working[1] b == working[2] c == working[3] d == working[4]
         e == working[5] f == working[6] g == working[7] h == working[8]
         T1 == Add(Add(Add(h, BigSigma1(e)), Add(Choose3(e, f, g), ConstantOf(done + 1))),
                   schedule[done + 1])
         T2 == Add(BigSigma0(a), Majority(a, b, c))
     IN  working' = <<Add(T1, T2), a, b, c, Add(d, T1), e, f, g>>
  /\ done' = done + 1
  /\ UNCHANGED <<previous, schedule>>

Digest ==
  /\ done = 80
  /\ done' = 81
  /\ previous' = [i \in 1 .. 8 |-> Add(previous[i], working[i])]
  /\ UNCHANGED <<working, schedule>>

RoundsNext == Begin \/ Round \/ Digest
RoundsSpec == done \in {-1, 81} /\ [][RoundsNext]_<<working, previous, schedule, done>>
=============================================================================
