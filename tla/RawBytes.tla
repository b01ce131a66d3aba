------------------------------ MODULE RawBytes ------------------------------
(***************************************************************************)
(* wc_raw_extract of lib/wallet_core/wallet_core.cpp, byte by byte: dice   *)
(* become a number in base Base, little end first, in a fixed array.  One  *)
(* step is one iteration of a loop or the verdict at the end.  Rolls       *)
(* outside 1..6 are skipped by the code; acceptRoll lets none in.          *)
(***************************************************************************)
EXTENDS DiceExtract, Numerals

CONSTANTS
  Base,     \* values of a byte (256)
  AccSize   \* bytes of acc (33)

\* 2^256 < 6^100 < 6*2^256, as the comment in wc_raw_extract has it.
ASSUME RawAssumption ==
  /\ Base \in Nat \ {0} /\ AccSize \in Nat \ {0}
  /\ Faces <= Base /\ RawRanges < Base
  /\ RawRangeSize = Power(Base, AccSize - 1)
  /\ RawRanges * RawRangeSize < Power(Faces, NeedEntries)
  /\ Power(Faces, NeedEntries) < (RawRanges + 1) * RawRangeSize

VARIABLES
  rolls,     \* the argument
  used,      \* digits taken in
  acc,       \* acc[0 .. accBytes-1]; the rest of the array is 0
  done,      \* bytes of acc the current digit has gone through
  carry,
  returned,  \* "idle", "running", "insufficient", "rejected" or "extracted"
  result     \* out[32], most significant byte first

rawVars == <<rolls, used, acc, done, carry, returned, result>>

Zeros == [i \in 1 .. AccSize - 1 |-> 0]

RawInit ==
  /\ rolls \in Transcripts
  /\ used = 0 /\ acc = <<0>> /\ done = 1 /\ carry = 0
  /\ returned = "running" /\ result = Zeros

\* No call has been made.
RawIdle ==
  /\ rolls = <<>>
  /\ used = 0 /\ acc = <<0>> /\ done = 1 /\ carry = 0
  /\ returned = "idle" /\ result = Zeros

DigitDone == returned = "running" /\ done = Len(acc) /\ carry = 0
MoreDigits == used < Len(rolls) /\ used < NeedEntries

NextDigit ==
  /\ DigitDone /\ MoreDigits
  /\ carry' = rolls[used + 1] - 1
  /\ done' = 0
  /\ used' = used + 1
  /\ UNCHANGED <<rolls, acc, returned, result>>

LowByte(t) == t % Base

MultiplyByte ==
  /\ returned = "running" /\ done < Len(acc)
  /\ LET t == acc[done + 1] * Faces + carry
     IN  /\ acc' = [acc EXCEPT ![done + 1] = LowByte(t)]
         /\ carry' = t \div Base
  /\ done' = done + 1
  /\ UNCHANGED <<rolls, used, returned, result>>

\* Mutant of Overflows: the array grows after every digit.
OverflowsAlways == used > 0 /\ Len(acc) <= used

Overflows == carry # 0

GrowAcc ==
  /\ returned = "running" /\ done = Len(acc) /\ Overflows
  /\ acc' = Append(acc, LowByte(carry))
  /\ carry' = 0
  /\ done' = done + 1
  /\ UNCHANGED <<rolls, used, returned, result>>

\* Mutant of Rejected: a comparison that lets the first value beyond in.
RejectedLate == Len(acc) >= AccSize /\ acc[AccSize] > RawRanges

Rejected == Len(acc) >= AccSize /\ acc[AccSize] >= RawRanges

Verdict ==
  IF used < NeedEntries THEN "insufficient"
  ELSE IF Rejected THEN "rejected" ELSE "extracted"

AccByte(i) == IF i <= Len(acc) THEN acc[i] ELSE 0

Return ==
  /\ DigitDone /\ ~MoreDigits
  /\ returned' = Verdict
  /\ result' = IF Verdict = "extracted"
              THEN [i \in 1 .. AccSize - 1 |-> AccByte(AccSize - i)]
              ELSE result
  /\ UNCHANGED <<rolls, used, acc, done, carry>>

RawNext == NextDigit \/ MultiplyByte \/ GrowAcc \/ Return

\* Nothing waits inside the function.
RawSpec == RawInit /\ [][RawNext]_rawVars /\ WF_rawVars(RawNext)

-----------------------------------------------------------------------------
\* Types of the function's locals; every element of acc fits a byte.
RawTypeOK ==
  /\ rolls \in Transcripts
  /\ used \in 0 .. NeedEntries
  /\ acc \in Seq(0 .. Base - 1) /\ done \in 0 .. Len(acc)
  /\ carry \in 0 .. Faces
  /\ returned \in {"idle", "running", "insufficient", "rejected", "extracted"}
  /\ result \in [1 .. AccSize - 1 -> 0 .. Base - 1]

\* acc[accBytes++] is never written past the array: "6^100 < 2^259".
AccFits == Len(acc) <= AccSize

Horner(s) ==
  LET N[i \in 0 .. Len(s)] == IF i = 0 THEN 0 ELSE N[i - 1] * Base + s[i]
  IN  N[Len(s)]

\* The caller's view: the number in out[] and the verdict are those of the
\* exact conversion the comment describes (five full ranges, X mod 2^256), the
\* call returns, and out[] is not touched before.
Contract == INSTANCE RawCall WITH verdict <- returned, number <- Horner(result)

ImplementsRawCall == Contract!CallSpec
=============================================================================
