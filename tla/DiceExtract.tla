---------------------------- MODULE DiceExtract ----------------------------
(***************************************************************************)
(* Dice transcripts and what the three entropy modes extract from them     *)
(* (lib/wallet_core/wallet_core.cpp and computeStats of src/main.cpp).     *)
(*                                                                         *)
(* A transcript is the used prefix of the rolls[] buffer.  The numbers the *)
(* firmware fixes are constants, so that TLC can check a small instance    *)
(* and the theorems cover the real one.                                    *)
(***************************************************************************)
EXTENDS Integers, Sequences, FiniteSets

CONSTANTS
  Faces,         \* faces of a die (6)
  MaxRolls,      \* MAX_ROLLS, the size of rolls[] (1024)
  NeedBits,      \* Von Neumann bits a wallet needs (256)
  NeedEntries,   \* entries the raw and hybrid modes need (100)
  RawRangeSize,  \* how many values raw entropy has (2^256)
  RawRanges      \* full ranges of RawRangeSize below Faces^NeedEntries (5)

ASSUME DiceAssumption ==
  /\ {Faces, MaxRolls, NeedBits, NeedEntries, RawRangeSize, RawRanges} \subseteq Nat \ {0}
  /\ NeedEntries <= MaxRolls

Face == 1 .. Faces
Transcripts == UNION {[1 .. n -> Face] : n \in 0 .. MaxRolls}

-----------------------------------------------------------------------------
(* Von Neumann: rolls 2i-1 and 2i form pair i; an equal pair is dropped.    *)

RollPair(r, i) == <<r[2 * i - 1], r[2 * i]>>
Unequal(p) == p[1] # p[2]

\* Mutant of VnBits: ties are counted too.
VnBitsWithTies(r) == Len(r) \div 2

\* What computeStats stores in vnBits.
VnBits(r) == Cardinality({i \in 1 .. Len(r) \div 2 : Unequal(RollPair(r, i))})

\* wc_vn_extract, pair by pair: an unequal pair gives a 1 if it descends, until
\* the output is full.  The length of the result is the function's return value.
VnExtract(r) ==
  LET out[i \in 0 .. Len(r) \div 2] ==
        IF i = 0 THEN <<>>
        ELSE LET bits == out[i - 1]
                 pair == RollPair(r, i)
             IN  IF Len(bits) < NeedBits /\ Unequal(pair)
                 THEN Append(bits, IF pair[1] > pair[2] THEN 1 ELSE 0)
                 ELSE bits
  IN  out[Len(r) \div 2]

-----------------------------------------------------------------------------
(* Raw mode: the first NeedEntries rolls are the digits of X in base Faces. *)

RawValue(r) ==
  LET used == IF Len(r) < NeedEntries THEN Len(r) ELSE NeedEntries
      X[n \in 0 .. used] == IF n = 0 THEN 0 ELSE X[n - 1] * Faces + (r[n] - 1)
  IN  X[used]

\* wc_raw_extract returns WC_RAW_REJECTED: X lies beyond the full ranges.
RawRejected(r) == RawValue(r) >= RawRanges * RawRangeSize

RawExtract(r) == RawValue(r) % RawRangeSize
=============================================================================
