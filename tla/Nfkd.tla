-------------------------------- MODULE Nfkd --------------------------------
(***************************************************************************)
(* wc_nfkd of lib/wallet_core/wallet_core.cpp with what it uses of         *)
(* lib/utf8proc/utf8proc.c (options NULLTERM, STABLE, DECOMPOSE, COMPAT):  *)
(* the text is decoded and decomposed twice, first only to learn how many  *)
(* code points it makes, then into the buffer; the marks are put into      *)
(* canonical order; the buffer is encoded in place.  Code points and bytes *)
(* have their real values; the tables of utf8proc_data.inc are parameters. *)
(***************************************************************************)
EXTENDS Integers, SequencesExt

CONSTANTS
  MaxScalars,     \* code points of a text
  OutCapacities,  \* out_cap
  Samples,        \* code points of texts
  Decomposition,  \* what each character that decomposes is made of
  Classes         \* combining classes of the marks

LastCodePoint == 1114111
CodePoint == 0 .. LastCodePoint
\* Without NUL, which ends a text, and the surrogates.
IsScalar(c) == c \in CodePoint /\ c > 0 /\ (c < 55296 \/ c > 57343)

ASSUME NfkdAssumption ==
  /\ MaxScalars \in Nat /\ OutCapacities \subseteq Nat
  /\ \A c \in Samples : IsScalar(c)
  /\ Classes \in [DOMAIN Classes -> Nat \ {0}]

\* What a character is made of is never made of that character again.
ASSUME TableAssumption ==
  /\ \A c \in DOMAIN Decomposition :
       /\ IsScalar(c) /\ Decomposition[c] \in Seq(Int)
       /\ \A i \in DOMAIN Decomposition[c] : IsScalar(Decomposition[c][i])
  /\ \A S \in (SUBSET DOMAIN Decomposition) \ {{}} :
       \E c \in S : \A i \in DOMAIN Decomposition[c] : Decomposition[c][i] \notin S

VARIABLES
  scalars,   \* the code points of the text, or Malformed
  text,      \* its bytes and the NUL
  outSize,   \* out_cap
  stage,     \* "start", "count", "alloc", "fill", "order", "encode", "copy", "true", "false"
  readPos,   \* rpos of the stage
  writePos,  \* wpos of the stage
  bufsize,
  codes,     \* the buffer as code points
  orderPos,  \* pos of the reordering
  encoded,   \* the bytes written over the buffer
  outText    \* out, the NUL apart

nfkdVars == <<scalars, text, outSize, stage, readPos, writePos, bufsize, codes, orderPos,
              encoded, outText>>

-----------------------------------------------------------------------------
\* A mark has a combining class, everything else has none.
CombiningClass(c) == IF c \in DOMAIN Classes THEN Classes[c] ELSE 0

Malformed == <<-1>>
\* Lone continuation, truncated, overlong and surrogate sequences, bytes that
\* never occur, and a code point beyond the last one.
Broken ==
  {<<128>>, <<194>>, <<192, 128>>, <<193, 191>>, <<224, 159, 191>>, <<225, 184>>, <<237, 160, 128>>,
   <<240, 143, 191, 191>>, <<240, 157, 133>>, <<244, 144, 128, 128>>, <<245, 128, 128, 128>>, <<255>>}

\* UTF-8 as Unicode defines it: a lead byte that tells the length, six bits in
\* every other byte.
Utf8Length(c) == IF c < 128 THEN 1 ELSE IF c < 2048 THEN 2 ELSE IF c < 65536 THEN 3 ELSE 4
Utf8(c) ==
  LET n == Utf8Length(c)
      lead == <<0, 192, 224, 240>>[n]
      bits(i) == c \div <<1, 64, 4096, 262144>>[n - i + 1]
  IN  [i \in 1 .. n |-> IF i = 1 THEN lead + bits(i) ELSE 128 + (bits(i) % 64)]
Utf8Text(cs) == FlattenSeq([i \in DOMAIN cs |-> Utf8(cs[i])])

NfkdStart ==
  /\ readPos = 0 /\ writePos = 0 /\ bufsize = 0 /\ codes = <<>> /\ orderPos = 0
  /\ encoded = <<>> /\ outText = <<>>
NfkdInit ==
  /\ \/ /\ scalars \in BoundedSeq(Samples, MaxScalars)
        /\ text = Append(Utf8Text(scalars), 0)
     \/ /\ scalars = Malformed
        /\ \E c \in Samples, bad \in Broken : text \in {Append(bad, 0), Utf8(c) \o Append(bad, 0)}
  /\ outSize \in OutCapacities
  /\ stage = "start"
  /\ NfkdStart

NfkdIdle == scalars = Malformed /\ text = <<>> /\ outSize = 0 /\ stage = "false" /\ NfkdStart

-----------------------------------------------------------------------------
(* utf8proc_iterate *)

At(i) == text[readPos + 1 + i]
Six(i) == At(i) % 64
IsContinuation(ch) == ch \div 64 = 2
Invalid == [length |-> 0, code |-> -1]
Scanned(n, c) == [length |-> n, code |-> c]

Surrogate(uc, next) == uc = 237 /\ next > 159

\* Two, three and four bytes; a byte behind the NUL is never looked at, since the
\* NUL is no continuation.
Two(uc) ==
  IF ~ IsContinuation(At(1)) THEN Invalid ELSE Scanned(2, (uc % 32) * 64 + Six(1))
Three(uc) ==
  IF ~ IsContinuation(At(1)) \/ ~ IsContinuation(At(2)) \/ Surrogate(uc, At(1)) THEN Invalid
  ELSE LET c == (uc % 16) * 4096 + Six(1) * 64 + Six(2)
       IN  IF c < 2048 THEN Invalid ELSE Scanned(3, c)
Four(uc) ==
  IF \/ ~ IsContinuation(At(1)) \/ ~ IsContinuation(At(2)) \/ ~ IsContinuation(At(3))
     \/ uc = 240 /\ At(1) < 144
     \/ uc = 244 /\ At(1) > 143
  THEN Invalid
  ELSE Scanned(4, (uc % 8) * 262144 + Six(1) * 4096 + Six(2) * 64 + Six(3))

Iterated ==
  LET uc == At(0) IN
  IF uc < 128 THEN Scanned(1, uc)
  ELSE IF uc \notin 194 .. 244 THEN Invalid
  ELSE IF uc < 224 THEN Two(uc)
  ELSE IF uc < 240 THEN Three(uc)
  ELSE Four(uc)

-----------------------------------------------------------------------------
(* utf8proc_decompose_char and seqindex_write_char_decomposed *)

SBASE == 44032
SCOUNT == 11172
LBASE == 4352
VBASE == 4449
TBASE == 4519
NCOUNT == 588
TCOUNT == 28

Jamo(s) ==
  <<LBASE + (s \div NCOUNT), VBASE + ((s % NCOUNT) \div TCOUNT)>>
    \o (IF s % TCOUNT = 0 THEN <<>> ELSE <<TBASE + (s % TCOUNT)>>)

\* A decomposition is decomposed again.
Decomposed ==
  LET full[c \in CodePoint] ==
        IF c - SBASE \in 0 .. SCOUNT - 1 THEN Jamo(c - SBASE)
        ELSE IF c \in DOMAIN Decomposition
             THEN FlattenSeq([i \in DOMAIN Decomposition[c] |-> full[Decomposition[c][i]]])
             ELSE <<c>>
  IN  full

\* What of it is written when there is room for some code points only.
Written(cs, room) == SubSeq(cs, 1, Min({Len(cs), room}))

-----------------------------------------------------------------------------
\* wc_nfkd and the first call of utf8proc_decompose_custom.
NfkdCall ==
  /\ stage = "start"
  /\ stage' = IF outSize = 0 THEN "false" ELSE "count"
  /\ UNCHANGED <<scalars, text, outSize, readPos, writePos, bufsize, codes, orderPos, encoded, outText>>

\* One turn of its loop: decode a code point, write its decomposition into what
\* room there is, count all of it.
DecomposeNext ==
  /\ stage \in {"count", "fill"}
  /\ IF Iterated = Invalid
     THEN stage' = "false" /\ UNCHANGED <<readPos, writePos, codes>>
     ELSE IF Iterated.code = 0
     THEN /\ stage' = IF stage = "count" THEN "alloc" ELSE "order"
          /\ UNCHANGED <<readPos, writePos, codes>>
     ELSE LET cs == Decomposed[Iterated.code] IN
          /\ readPos' = readPos + Iterated.length
          /\ codes' = codes \o Written(cs, Max({0, bufsize - writePos}))
          /\ writePos' = writePos + Len(cs)
          /\ UNCHANGED stage
  /\ UNCHANGED <<scalars, text, outSize, bufsize, orderPos, encoded, outText>>

\* malloc may fail; the second call then starts over with a buffer.
Allocate ==
  /\ stage = "alloc"
  /\ \/ stage' = "false" /\ UNCHANGED <<readPos, writePos, bufsize>>
     \/ stage' = "fill" /\ readPos' = 0 /\ writePos' = 0 /\ bufsize' = writePos
  /\ UNCHANGED <<scalars, text, outSize, codes, orderPos, encoded, outText>>

\* Mutant: marks of one class change places.
OutOfOrderOrEqual(c, d) == CombiningClass(c) >= CombiningClass(d) /\ CombiningClass(d) > 0
OutOfOrder(c, d) == CombiningClass(c) > CombiningClass(d) /\ CombiningClass(d) > 0

\* Mutant: no step back after an exchange.
StepOn(p) == p + 1
StepBack(p) == IF p > 0 THEN p - 1 ELSE p + 1

\* One turn of the reordering loop, while (pos < wpos - 1).
Reorder ==
  /\ stage = "order"
  /\ IF bufsize >= writePos /\ orderPos < writePos - 1
     THEN LET uc1 == codes[orderPos + 1] uc2 == codes[orderPos + 2] IN
          /\ IF OutOfOrder(uc1, uc2)
             THEN /\ codes' = [codes EXCEPT ![orderPos + 1] = uc2, ![orderPos + 2] = uc1]
                  /\ orderPos' = StepBack(orderPos)
             ELSE orderPos' = orderPos + 1 /\ UNCHANGED codes
          /\ UNCHANGED <<stage, readPos>>
     ELSE stage' = "encode" /\ readPos' = 0 /\ UNCHANGED <<codes, orderPos>>
  /\ UNCHANGED <<scalars, text, outSize, writePos, bufsize, encoded, outText>>

\* utf8proc_encode_char.
EncodeChar(c) ==
  IF c < 128 THEN <<c>>
  ELSE IF c < 2048 THEN <<192 + (c \div 64), 128 + (c % 64)>>
  ELSE IF c < 65536 THEN <<224 + (c \div 4096), 128 + ((c \div 64) % 64), 128 + (c % 64)>>
  ELSE <<240 + (c \div 262144), 128 + ((c \div 4096) % 64), 128 + ((c \div 64) % 64), 128 + (c % 64)>>

\* utf8proc_reencode: the bytes go over the code points that have been read.
Reencode ==
  /\ stage = "encode"
  /\ IF readPos < writePos
     THEN /\ encoded' = encoded \o EncodeChar(codes[readPos + 1])
          /\ readPos' = readPos + 1 /\ UNCHANGED stage
     ELSE stage' = "copy" /\ UNCHANGED <<encoded, readPos>>
  /\ UNCHANGED <<scalars, text, outSize, writePos, bufsize, codes, orderPos, outText>>

TooLong(n) == n >= outSize

\* wc_nfkd copies all of it or nothing, wipes and frees.
CopyOut ==
  /\ stage = "copy"
  /\ IF TooLong(Len(encoded))
     THEN stage' = "false" /\ UNCHANGED outText
     ELSE stage' = "true" /\ outText' = encoded
  /\ UNCHANGED <<scalars, text, outSize, readPos, writePos, bufsize, codes, orderPos, encoded>>

NfkdNext == NfkdCall \/ DecomposeNext \/ Allocate \/ Reorder \/ Reencode \/ CopyOut

\* A call is one piece of sequential code.
NfkdFairness == WF_nfkdVars(NfkdNext)
NfkdSpec == NfkdInit /\ [][NfkdNext]_nfkdVars /\ NfkdFairness

-----------------------------------------------------------------------------
\* Unicode 3.11: a mark goes behind the last mark of its run whose class is not
\* above its own.
Behind(cs, c) ==
  CHOOSE n \in 0 .. Len(cs) :
    /\ \A j \in n + 1 .. Len(cs) : CombiningClass(cs[j]) > CombiningClass(c)
    /\ n > 0 => CombiningClass(cs[n]) <= CombiningClass(c)
InsertMark(cs, c) ==
  IF CombiningClass(c) = 0 THEN Append(cs, c) ELSE InsertAt(cs, Behind(cs, c) + 1, c)

Ordered(cs) ==
  LET sorted[n \in 0 .. Len(cs)] == IF n = 0 THEN <<>> ELSE InsertMark(sorted[n - 1], cs[n])
  IN  sorted[Len(cs)]

Spelled(cs) == FlattenSeq([i \in DOMAIN cs |-> Decomposed[cs[i]]])
NormalForm(cs) == Ordered(Spelled(cs))

\* wallet_core.h: "Returns false if input is invalid UTF-8 or the normalized
\* output does not fit out_cap (including NUL) - never truncates".  The marks of
\* one class keep their order, marks of different classes that came from
\* different characters are sorted together; and text that is well-formed is
\* refused only when there is no memory or no room.
NfkdWhole ==
  /\ stage = "true" =>
       /\ scalars # Malformed
       /\ outText = Utf8Text(NormalForm(scalars))
       /\ Len(outText) + 1 <= outSize
  /\ stage = "false" /\ scalars # Malformed /\ outSize > 0 =>
       /\ readPos < Len(text) - 1 => codes # <<>>
       /\ codes # <<>> => Len(Utf8Text(NormalForm(scalars))) >= outSize

\* The second pass makes exactly the code points the first one counted, so the
\* buffer of that size is full and is ordered; in it the bytes never reach a
\* code point that is still to be read, nor the end of the allocation.
BufferHolds ==
  /\ stage \in {"order", "encode", "copy"} => writePos = bufsize /\ Len(codes) = bufsize
  /\ stage \in {"encode", "copy"} => Len(encoded) <= 4 * readPos /\ Len(encoded) < 4 * bufsize + 1

\* The reordering steps back at every exchange and still ends, whatever marks
\* stand next to each other.
NfkdReturns == <>(stage \in {"true", "false"})

\* The normal form, in buffers that hold it, or a refusal.
NfkdSound == NfkdWhole /\ BufferHolds
=============================================================================
