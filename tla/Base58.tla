------------------------------- MODULE Base58 -------------------------------
(***************************************************************************)
(* wc_base58_encode of lib/wallet_core/wallet_core.cpp: a number of bytes  *)
(* is divided by the base in place until nothing is left, its digits come  *)
(* out lowest first into a fixed array and are turned round behind a one   *)
(* for every leading zero byte.                                            *)
(***************************************************************************)
EXTENDS Numerals, SequencesExt

CONSTANTS
  ByteBase,    \* 256
  DigitBase,   \* 58
  DataLens,    \* lengths the callers pass (32)
  MaxLen,      \* the longest the function admits (40)
  TmpSize,     \* characters of tmp (50)
  OutCaps,     \* capacities callers pass
  KeyLen,      \* the length of a public key (32)
  AddressCap   \* the size of an address (45)

ASSUME Base58Assumption ==
  /\ ByteBase \in Nat /\ DigitBase \in 2 .. ByteBase
  /\ DataLens \subseteq Nat /\ MaxLen \in Nat /\ TmpSize \in Nat /\ OutCaps \subseteq Nat
  \* 256^32 <= 58^50, and 256^32 <= 58^44 with one place left for the NUL.
  /\ \A n \in DataLens : n <= MaxLen => Power(ByteBase, n) <= Power(DigitBase, TmpSize)
  /\ KeyLen \in 1 .. MaxLen /\ AddressCap \in Nat \ {0, 1}
  /\ Power(ByteBase, KeyLen) <= Power(DigitBase, AddressCap - 1)

VARIABLES
  input,    \* the data
  outCap,
  dividend, \* buf
  start,    \* first byte of buf that is not yet zero
  tmp,      \* the digits, lowest first
  out,      \* the characters in front of the NUL, as digits
  encoding  \* "check", "divide", "done", "refused"

base58Vars == <<input, outCap, dividend, start, tmp, out, encoding>>

Base58Init ==
  /\ \E n \in DataLens : input \in [1 .. n -> 0 .. ByteBase - 1]
  /\ outCap \in OutCaps
  /\ dividend = <<>> /\ start = 0 /\ tmp = <<>> /\ out = <<>> /\ encoding = "check"

Base58Idle ==
  /\ input = <<>> /\ outCap = 0
  /\ dividend = <<>> /\ start = 0 /\ tmp = <<>> /\ out = <<>> /\ encoding = "refused"

-----------------------------------------------------------------------------
CheckLength ==
  /\ encoding = "check"
  /\ IF Len(input) = 0 \/ Len(input) > MaxLen \/ outCap < 2
     THEN encoding' = "refused" /\ UNCHANGED <<dividend, start>>
     ELSE encoding' = "divide" /\ dividend' = input /\ start' = 0
  /\ UNCHANGED <<input, outCap, tmp, out>>

\* The remainders while the bytes from first on are divided: acc = rem * 256 + buf[i].
Remainders(first) ==
  LET rem[i \in first .. Len(dividend)] ==
        IF i = first THEN 0 ELSE (rem[i - 1] * ByteBase + dividend[i]) % DigitBase
  IN  rem
Quotients(first) ==
  [i \in DOMAIN dividend |->
     IF i > first THEN (Remainders(first)[i - 1] * ByteBase + dividend[i]) \div DigitBase
     ELSE dividend[i]]

SkipZeros(bytes, first) ==
  CHOOSE n \in first .. Len(bytes) :
    /\ \A i \in first + 1 .. n : bytes[i] = 0
    /\ n < Len(bytes) => bytes[n + 1] # 0

\* Mutant: a digit is written for every pass.
AnyDigit(quotients, rem) == TRUE
\* allzero: a pass over nothing but zeros writes no digit.
SomeDigit(quotients, rem) == rem # 0 \/ \E i \in DOMAIN quotients : i > start /\ quotients[i] # 0

DividePass ==
  /\ encoding = "divide" /\ start < Len(input)
  /\ LET quotients == Quotients(start)
         rem == Remainders(start)[Len(input)]
     IN  /\ dividend' = quotients
         /\ tmp' = IF SomeDigit(quotients, rem) THEN Append(tmp, rem) ELSE tmp
         /\ start' = SkipZeros(quotients, start)
  /\ UNCHANGED <<input, outCap, out, encoding>>

LeadingZeros == SkipZeros(input, 0)

NoRoomForOut == LeadingZeros + Len(tmp) + 1 > outCap

WriteOut ==
  /\ encoding = "divide" /\ start = Len(input)
  /\ IF NoRoomForOut
     THEN encoding' = "refused" /\ UNCHANGED out
     ELSE encoding' = "done" /\ out' = [z \in 1 .. LeadingZeros |-> 0] \o Reverse(tmp)
  /\ UNCHANGED <<input, outCap, dividend, start, tmp>>

Base58Next == CheckLength \/ DividePass \/ WriteOut

Base58Spec == Base58Init /\ [][Base58Next]_base58Vars

-----------------------------------------------------------------------------
\* The text is the one the format allows for these bytes: a one for each leading
\* zero byte, then the number without a leading zero, every digit in range.
Base58Exact ==
  encoding = "done" =>
    LET zeros == LeadingZeros
        digits == SubSeq(out, zeros + 1, Len(out))
    IN  /\ \A i \in DOMAIN out : out[i] \in 0 .. DigitBase - 1
        /\ \A i \in 1 .. zeros : out[i] = 0
        /\ NumberIn(DigitBase, digits) = NumberIn(ByteBase, input)
        /\ digits # <<>> => digits[1] # 0

\* For what the callers pass the digits fit tmp, whose size does not follow from
\* the length the function admits; out never gets more than its capacity, and a
\* refused call leaves no part of a text. A public key is never refused:
\* wc_solana_address does not look at the result.
Base58Fits ==
  /\ Len(tmp) <= TmpSize
  /\ encoding = "done" => Len(out) + 1 <= outCap
  /\ encoding = "refused" =>
       out = <<>> /\ ~ (Len(input) = KeyLen /\ outCap = AddressCap)

\* What the address page shows is the public key, whole.
Base58Sound == Base58Exact /\ Base58Fits
=============================================================================
