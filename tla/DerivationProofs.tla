----------------------------- MODULE DerivationProofs -----------------------------
(***************************************************************************)
(* Proofs for Sha512Stream, for every size of block and length field, and  *)
(* messages of every length cut into calls of any size; for                *)
(* Sha512Compress, for words of every width and blocks of any content; and *)
(* for KeyDerivation, for every number of rounds, every length of          *)
(* mnemonic, passphrase and seed: no function leaves key material behind,  *)
(* and the address is the one the standards derive.                        *)
(***************************************************************************)
EXTENDS Sha512Stream, Sha512Compress, KeyDerivation, InductionLemmas

-----------------------------------------------------------------------------
(* Sequences put behind each other.                                          *)

\* h is the m places of f and behind them the n places of g.
Glued(h, f, m, g, n, Elem) ==
  /\ m \in Nat /\ f \in [1 .. m -> Elem]
  /\ n \in Nat /\ g \in [1 .. n -> Elem]
  /\ h \in [1 .. m + n -> Elem]
  /\ \A i \in 1 .. m : h[i] = f[i]
  /\ \A i \in 1 .. n : h[m + i] = g[i]

LEMMA Glue ==
  ASSUME NEW Elem, NEW m, NEW n, NEW f, NEW g, NEW h, Glued(h, f, m, g, n, Elem)
  PROVE  f \o g = h
<1> USE DEF Glued
<1>1. /\ f \in Seq(Elem) /\ Len(f) = m
      /\ g \in Seq(Elem) /\ Len(g) = n
  BY SeqOfFunction
<1>2. h \in Seq(Elem) /\ Len(h) = m + n
  <2>1. m + n \in Nat
    OBVIOUS
  <2> QED BY <2>1, SeqOfFunction
<1>3. /\ f \o g \in Seq(Elem) /\ Len(f \o g) = m + n
      /\ \A i \in 1 .. m + n : (f \o g)[i] = IF i <= m THEN f[i] ELSE g[i - m]
  BY <1>1, ConcatProperties
<1>4. ASSUME NEW i \in 1 .. m + n
      PROVE  (f \o g)[i] = h[i]
  <2>1. CASE i <= m
    <3>1. i \in 1 .. m
      BY <2>1
    <3> QED BY <1>3, <2>1, <3>1
  <2>2. CASE ~(i <= m)
    <3>1. i - m \in 1 .. n /\ m + (i - m) = i
      BY <2>2
    <3>2. h[m + (i - m)] = g[i - m]
      BY <3>1
    <3> QED BY <1>3, <2>2, <3>1, <3>2
  <2> QED BY <2>1, <2>2
<1> QED BY <1>2, <1>3, <1>4, SeqEqual

\* The first places of an array.
LEMMA FirstPlaces ==
  ASSUME NEW Elem, NEW n \in Nat, NEW c \in [1 .. n -> Elem], NEW k \in 0 .. n
  PROVE  /\ SubSeq(c, 1, k) \in [1 .. k -> Elem]
         /\ \A i \in 1 .. k : SubSeq(c, 1, k)[i] = c[i]
<1>1. \A i \in 1 .. k : c[i] \in Elem
  OBVIOUS
<1>2. /\ SubSeq(c, 1, k) \in Seq(Elem)
      /\ Len(SubSeq(c, 1, k)) = IF 1 <= k THEN k - 1 + 1 ELSE 0
      /\ \A i \in 1 .. k - 1 + 1 : SubSeq(c, 1, k)[i] = c[1 + i - 1]
  BY <1>1, SubSeqProperties
<1>3. Len(SubSeq(c, 1, k)) = k
  BY <1>2
<1>4. SubSeq(c, 1, k) \in [1 .. k -> Elem]
  BY <1>2, <1>3, LenProperties
<1>5. ASSUME NEW i \in 1 .. k
      PROVE  SubSeq(c, 1, k)[i] = c[i]
  <2>1. i \in 1 .. k - 1 + 1 /\ 1 + i - 1 = i
    OBVIOUS
  <2> QED BY <1>2, <2>1
<1> QED BY <1>4, <1>5

LEMMA AllOfIt ==
  ASSUME NEW Elem, NEW n \in Nat, NEW c \in [1 .. n -> Elem]
  PROVE  SubSeq(c, 1, n) = c
<1>1. c \in Seq(Elem) /\ Len(c) = n
  BY SeqOfFunction
<1> QED BY <1>1, SubSeqFull

-----------------------------------------------------------------------------
(* The bytes.                                                                *)

Source == [from : {"message", "pad", "length", "stack"}, hash : Nat, value : Nat]

Block == [1 .. BlockBytes -> Source]

\* The first n bytes of the message, and n zeros.
Taken(n) == [i \in 1 .. n |-> MessageByte(i)]
Zeros(n) == [i \in 1 .. n |-> ZeroByte]
LengthField(n) == [i \in 1 .. BlockBytes - LengthLow |-> LengthByte(n)]

\* What has been compressed, and what waits in buf.
Compressed == FlattenSeq(blocks)
Waiting == SubSeq(chunk, 1, curlen)

StreamTypes ==
  /\ chunk \in Block /\ blocks \in Seq(Block)
  /\ curlen \in 0 .. BlockBytes
  /\ bitLength \in Nat /\ absorbed \in Nat /\ inlen \in Nat /\ hashing \in Nat

OpenInv ==
  streamState = "open" =>
    /\ Compressed \o Waiting = Taken(absorbed)
    /\ bitLength = 8 * BlockBytes * Len(blocks)
    /\ absorbed = BlockBytes * Len(blocks) + curlen
    /\ curlen < BlockBytes

\* After the mark, and after the zeros of a block that had no room for the length.
PaddingInv ==
  streamState = "padding" =>
    \E zeros \in 0 .. BlockBytes :
      /\ Compressed \o Waiting = (Taken(absorbed) \o <<Mark>>) \o Zeros(zeros)
      /\ bitLength = 8 * absorbed
      /\ absorbed + 1 + zeros = BlockBytes * Len(blocks) + curlen
      /\ curlen = 0 => zeros < BlockBytes - LengthAt
      /\ curlen # 0 => zeros = 0

StreamInv ==
  /\ StreamTypes
  /\ streamState # "open" => inlen = 0
  /\ OpenInv /\ PaddingInv /\ CompressesPadded

LEMMA Sizes ==
  /\ BlockBytes \in Nat /\ LengthAt \in Nat /\ LengthLow \in Nat
  /\ 0 < LengthAt /\ LengthAt <= LengthLow /\ LengthLow < BlockBytes /\ MaxMessage \in Nat
BY StreamAssumption

LEMMA BytesTyped ==
  ASSUME hashing \in Nat
  PROVE  /\ \A n \in Nat : MessageByte(n) \in Source /\ LengthByte(n) \in Source
         /\ ZeroByte \in Source /\ Mark \in Source /\ Stale \in Source
BY DEF MessageByte, LengthByte, ZeroByte, Mark, Stale, Source

LEMMA PartsTyped ==
  ASSUME hashing \in Nat
  PROVE  /\ \A n \in Nat : Taken(n) \in [1 .. n -> Source] /\ Zeros(n) \in [1 .. n -> Source]
         /\ <<Mark>> \in [1 .. 1 -> Source]
<1>1. ASSUME NEW n \in Nat
      PROVE  Taken(n) \in [1 .. n -> Source] /\ Zeros(n) \in [1 .. n -> Source]
  <2>1. \A i \in 1 .. n : MessageByte(i) \in Source /\ ZeroByte \in Source
    BY BytesTyped
  <2> QED BY <2>1 DEF Taken, Zeros
<1>2. <<Mark>> \in [1 .. 1 -> Source]
  <2>1. Mark \in Source
    BY BytesTyped
  <2> HIDE DEF Mark, Source
  <2> QED BY <2>1
<1> QED BY <1>1, <1>2

LEMMA TakenMore ==
  ASSUME hashing \in Nat, absorbed \in Nat, NEW n \in Nat
  PROVE  /\ Incoming(n) \in [1 .. n -> Source]
         /\ Taken(absorbed) \o Incoming(n) = Taken(absorbed + n)
<1>1. \A i \in 1 .. n : MessageByte(absorbed + i) \in Source
  BY BytesTyped
<1>2. Incoming(n) \in [1 .. n -> Source]
  BY <1>1 DEF Incoming
<1>3. absorbed + n \in Nat
  OBVIOUS
<1>4. Taken(absorbed) \in [1 .. absorbed -> Source] /\ Taken(absorbed + n) \in [1 .. absorbed + n -> Source]
  BY <1>3, PartsTyped
<1>5. \A i \in 1 .. absorbed : Taken(absorbed + n)[i] = Taken(absorbed)[i]
  BY DEF Taken
<1>6. \A i \in 1 .. n : Taken(absorbed + n)[absorbed + i] = Incoming(n)[i]
  BY DEF Taken, Incoming
<1> DEFINE f == Taken(absorbed)
           g == Incoming(n)
           h == Taken(absorbed + n)
<1>7. /\ f \in [1 .. absorbed -> Source] /\ g \in [1 .. n -> Source]
      /\ h \in [1 .. absorbed + n -> Source]
      /\ \A i \in 1 .. absorbed : h[i] = f[i]
      /\ \A i \in 1 .. n : h[absorbed + i] = g[i]
  BY <1>2, <1>4, <1>5, <1>6
<1> HIDE DEF f, g, h
<1>8. f \o g = h
  <2>1. Glued(h, f, absorbed, g, n, Source)
    BY <1>7 DEF Glued
  <2> QED BY <2>1, Glue
<1> QED BY <1>2, <1>8 DEF f, g, h

LEMMA WaitingTyped ==
  ASSUME StreamTypes
  PROVE  /\ Waiting \in [1 .. curlen -> Source]
         /\ \A i \in 1 .. curlen : Waiting[i] = chunk[i]
BY Sizes, FirstPlaces DEF StreamTypes, Waiting, Block

\* A buffer that holds what waited and n more bytes behind it.
LEMMA Behind ==
  ASSUME StreamTypes, NEW n \in Nat, curlen + n <= BlockBytes,
         NEW more \in [1 .. n -> Source], NEW c \in Block,
         \A i \in 1 .. curlen : c[i] = chunk[i],
         \A i \in 1 .. n : c[curlen + i] = more[i]
  PROVE  SubSeq(c, 1, curlen + n) = Waiting \o more
<1>1. curlen \in Nat /\ curlen + n \in 0 .. BlockBytes /\ BlockBytes \in Nat
  BY Sizes DEF StreamTypes
<1>2. /\ SubSeq(c, 1, curlen + n) \in [1 .. curlen + n -> Source]
      /\ \A i \in 1 .. curlen + n : SubSeq(c, 1, curlen + n)[i] = c[i]
  BY <1>1, FirstPlaces DEF Block
<1> DEFINE h == SubSeq(c, 1, curlen + n)
           f == Waiting
<1>3. f \in [1 .. curlen -> Source] /\ \A i \in 1 .. curlen : f[i] = chunk[i]
  BY WaitingTyped
<1>4. \A i \in 1 .. curlen : h[i] = f[i]
  BY <1>1, <1>2, <1>3
<1>5. \A i \in 1 .. n : h[curlen + i] = more[i]
  BY <1>1, <1>2
<1>6. h \in [1 .. curlen + n -> Source]
  BY <1>2
<1> HIDE DEF h, f
<1>7. f \o more = h
  <2>1. Glued(h, f, curlen, more, n, Source)
    BY <1>1, <1>3, <1>4, <1>5, <1>6 DEF Glued
  <2> QED BY <2>1, Glue
<1> QED BY <1>7 DEF h, f

LEMMA FilledBehind ==
  ASSUME StreamTypes, NEW n \in Nat, curlen + n <= BlockBytes
  PROVE  /\ Filled(n) \in Block
         /\ SubSeq(Filled(n), 1, curlen + n) = Waiting \o Incoming(n)
<1>1. /\ BlockBytes \in Nat /\ curlen \in Nat
      /\ chunk \in [1 .. BlockBytes -> Source] /\ Incoming(n) \in [1 .. n -> Source]
  <2>1. hashing \in Nat /\ absorbed \in Nat
    BY DEF StreamTypes
  <2>2. Incoming(n) \in [1 .. n -> Source]
    BY <2>1, TakenMore
  <2> QED BY <2>2, Sizes DEF StreamTypes, Block
<1>2. Filled(n) \in [1 .. BlockBytes -> Source]
  <2>1. \A i \in curlen + 1 .. curlen + n : i - curlen \in 1 .. n
    BY <1>1
  <2>2. \A i \in curlen + 1 .. curlen + n : Incoming(n)[i - curlen] \in Source
    BY <1>1, <2>1
  <2> QED BY <1>1, <2>2 DEF Filled
<1>3. \A i \in 1 .. curlen : Filled(n)[i] = chunk[i]
  BY <1>1 DEF Filled, StreamTypes
<1>4. \A i \in 1 .. n : Filled(n)[curlen + i] = Incoming(n)[i]
  <2> SUFFICES ASSUME NEW i \in 1 .. n PROVE Filled(n)[curlen + i] = Incoming(n)[i]
    OBVIOUS
  <2>1. curlen + i \in 1 .. BlockBytes /\ curlen + i \in curlen + 1 .. curlen + n
        /\ (curlen + i) - curlen = i
    BY <1>1
  <2> HIDE DEF Incoming
  <2> QED BY <2>1 DEF Filled
<1>5. Filled(n) \in Block
  BY <1>2 DEF Block
<1> QED BY <1>1, <1>3, <1>4, <1>5, Behind

LEMMA CompressedMore ==
  ASSUME blocks \in Seq(Block), NEW b \in Block
  PROVE  /\ Compressed \in Seq(Source)
         /\ b \in Seq(Source)
         /\ FlattenSeq(Append(blocks, b)) = Compressed \o b
<1>1. Block \subseteq Seq(Source)
  BY Sizes, SeqOfFunction DEF Block
<1>2. blocks \in Seq(Seq(Source)) /\ b \in Seq(Source)
  BY <1>1, SeqMonotonic
<1> QED BY <1>2, FlattenAppend DEF Compressed

LEMMA EmptyPieces ==
  /\ \A c : SubSeq(c, 1, 0) = <<>>
  /\ FlattenSeq(<<>>) = <<>> /\ Zeros(0) = <<>> /\ Taken(0) = <<>> /\ (Taken(0))' = <<>>
  /\ \A s \in Seq(Source) : s \o <<>> = s /\ <<>> \o s = s
<1>1. \A c : SubSeq(c, 1, 0) = <<>>
  BY SubSeqEmpty
<1>2. FlattenSeq(<<>>) = <<>>
  BY EmptySeq DEF FlattenSeq
<1>3. ASSUME NEW e
      PROVE  [i \in 1 .. 0 |-> e] = <<>>
  OBVIOUS
<1>4. Zeros(0) = <<>>
  BY DEF Zeros
<1>5. Taken(0) = <<>> /\ (Taken(0))' = <<>>
  BY DEF Taken
<1> QED BY <1>1, <1>2, <1>4, <1>5, ConcatEmptySeq

LEMMA Regroup ==
  \A s, t, u \in Seq(Source) : (s \o t) \o u = s \o (t \o u)
BY ConcatAssociative

LEMMA SeqsTyped ==
  ASSUME StreamTypes
  PROVE  /\ Compressed \in Seq(Source) /\ Waiting \in Seq(Source)
         /\ \A n \in Nat : Taken(n) \in Seq(Source) /\ Zeros(n) \in Seq(Source)
         /\ \A n \in Nat : Incoming(n) \in Seq(Source)
         /\ <<Mark>> \in Seq(Source)
<1>1. hashing \in Nat /\ absorbed \in Nat /\ curlen \in Nat /\ blocks \in Seq(Block)
  BY Sizes DEF StreamTypes
<1>2. Compressed \in Seq(Source)
  <2>1. Block \subseteq Seq(Source)
    BY Sizes, SeqOfFunction DEF Block
  <2>2. blocks \in Seq(Seq(Source)) /\ <<>> \in Seq(Source)
    BY <1>1, <2>1, SeqMonotonic, EmptySeq
  <2> QED BY <2>2, FlattenAppend DEF Compressed
<1>3. Waiting \in Seq(Source)
  BY <1>1, WaitingTyped, SeqOfFunction
<1>4. \A n \in Nat : Taken(n) \in Seq(Source) /\ Zeros(n) \in Seq(Source)
  BY <1>1, PartsTyped, SeqOfFunction
<1>5. \A n \in Nat : Incoming(n) \in Seq(Source)
  BY <1>1, TakenMore, SeqOfFunction
<1>6. <<Mark>> \in Seq(Source)
  BY <1>1, PartsTyped, SeqOfFunction
<1> QED BY <1>2, <1>3, <1>4, <1>5, <1>6

LEMMA SameMessage ==
  hashing' = hashing => \A n : Taken(n)' = Taken(n)
BY DEF Taken, MessageByte

LEMMA NextMultiple ==
  ASSUME NEW b \in Nat, NEW q \in Nat
  PROVE  b * (q + 1) = b * q + b /\ 8 * b * (q + 1) = 8 * b * q + 8 * b
OBVIOUS

LEMMA StreamStarts == StreamInit => StreamInv
<1> SUFFICES ASSUME StreamInit PROVE StreamInv
  OBVIOUS
<1>1. /\ chunk = [i \in 1 .. BlockBytes |-> Stale]
      /\ curlen = 0 /\ bitLength = 0 /\ absorbed = 0 /\ inlen = 0 /\ blocks = <<>>
      /\ hashing = 0 /\ streamState = "idle"
  BY DEF StreamInit, StreamAt
<1>2. chunk \in Block
  <2>1. Stale \in Source
    BY <1>1, BytesTyped
  <2> HIDE DEF Stale
  <2> QED BY <1>1, <2>1 DEF Block
<1>3. StreamTypes
  BY <1>1, <1>2, Sizes, EmptySeq DEF StreamTypes
<1> QED BY <1>1, <1>3 DEF StreamInv, OpenInv, PaddingInv, CompressesPadded

LEMMA InitKeeps == StreamInv /\ ShaInit => StreamInv'
<1> SUFFICES ASSUME StreamInv, ShaInit PROVE StreamInv'
  OBVIOUS
<1>1. /\ streamState' = "open" /\ hashing' = hashing + 1 /\ inlen' = inlen
      /\ curlen' = 0 /\ bitLength' = 0 /\ absorbed' = 0 /\ blocks' = <<>> /\ chunk' = chunk
  BY DEF ShaInit
<1>2. StreamTypes'
  BY <1>1, Sizes, EmptySeq DEF StreamInv, StreamTypes
<1>3. (Compressed)' = <<>> /\ (Waiting)' = <<>> /\ Taken(absorbed)' = <<>>
  BY <1>1, EmptyPieces DEF Compressed, Waiting, Taken
<1>4. OpenInv'
  <2>1. (Compressed \o Waiting)' = Taken(absorbed)'
    BY <1>3, EmptyPieces, EmptySeq
  <2>2. (bitLength = 8 * BlockBytes * Len(blocks))' /\ (absorbed = BlockBytes * Len(blocks) + curlen)'
        /\ (curlen < BlockBytes)'
    BY <1>1, Sizes
  <2> QED BY <2>1, <2>2 DEF OpenInv
<1> QED BY <1>1, <1>2, <1>4 DEF StreamInv, PaddingInv, CompressesPadded

LEMMA UpdateKeeps ==
  ASSUME NEW n \in 0 .. MaxMessage, StreamInv, ShaUpdate(n)
  PROVE  StreamInv'
<1>1. /\ streamState = "open" /\ inlen' = n
      /\ UNCHANGED <<chunk, curlen, bitLength, absorbed, blocks, hashing, streamState>>
  BY DEF ShaUpdate
<1>2. n \in Nat
  BY Sizes
<1>3. (Compressed)' = Compressed /\ (Waiting)' = Waiting /\ Taken(absorbed)' = Taken(absorbed)
  BY <1>1, SameMessage DEF Compressed, Waiting
<1> QED BY <1>1, <1>2, <1>3 DEF StreamInv, StreamTypes, OpenInv, PaddingInv, CompressesPadded

LEMMA WholeKeeps == StreamInv /\ WholeBlock => StreamInv'
<1> SUFFICES ASSUME StreamInv, WholeBlock PROVE StreamInv'
  OBVIOUS
<1>1. /\ curlen = 0 /\ inlen >= BlockBytes
      /\ blocks' = Append(blocks, Incoming(BlockBytes))
      /\ bitLength' = bitLength + 8 * BlockBytes
      /\ absorbed' = absorbed + BlockBytes /\ inlen' = inlen - BlockBytes
      /\ UNCHANGED <<chunk, curlen, hashing, streamState>>
  BY DEF WholeBlock
<1>2. StreamTypes
  BY DEF StreamInv
<1>3. /\ BlockBytes \in Nat /\ BlockBytes > 0 /\ bitLength \in Nat /\ absorbed \in Nat
      /\ inlen \in Nat /\ hashing \in Nat /\ blocks \in Seq(Block) /\ chunk \in Block
      /\ Len(blocks) \in Nat
  BY <1>2, Sizes, LenProperties DEF StreamTypes
<1>4. streamState = "open"
  BY <1>1, <1>3 DEF StreamInv
<1>5. /\ Compressed \o Waiting = Taken(absorbed) /\ bitLength = 8 * BlockBytes * Len(blocks)
      /\ absorbed = BlockBytes * Len(blocks) + curlen /\ curlen < BlockBytes
  BY <1>4 DEF StreamInv, OpenInv
<1>6. Incoming(BlockBytes) \in Block
  BY <1>3, TakenMore DEF Block
<1>7. StreamTypes'
  <2>1. blocks' \in Seq(Block)
    BY <1>1, <1>3, <1>6, AppendProperties
  <2>2. inlen - BlockBytes \in Nat /\ absorbed + BlockBytes \in Nat /\ bitLength + 8 * BlockBytes \in Nat
    BY <1>1, <1>3
  <2> QED BY <1>1, <1>2, <2>1, <2>2 DEF StreamTypes
<1>8. (Compressed \o Waiting)' = Taken(absorbed)'
  <2>1. Waiting = <<>> /\ (Waiting)' = <<>>
    BY <1>1, EmptyPieces DEF Waiting
  <2>2. (Compressed)' = Compressed \o Incoming(BlockBytes)
    BY <1>1, <1>3, <1>6, CompressedMore DEF Compressed
  <2>3. Compressed = Taken(absorbed)
    BY <1>2, <1>5, <2>1, EmptyPieces, SeqsTyped
  <2>4. Taken(absorbed) \o Incoming(BlockBytes) = Taken(absorbed + BlockBytes)
    BY <1>3, TakenMore
  <2>5. Taken(absorbed)' = Taken(absorbed + BlockBytes)
    BY <1>1, SameMessage DEF Taken, MessageByte
  <2>6. (Compressed)' = Taken(absorbed)'
    BY <2>2, <2>3, <2>4, <2>5
  <2>7. Taken(absorbed + BlockBytes) \in Seq(Source)
    BY <1>2, <1>3, SeqsTyped
  <2> QED BY <2>1, <2>5, <2>6, <2>7, EmptyPieces
<1>9. (Len(blocks))' = Len(blocks) + 1
  BY <1>1, <1>3, <1>6, AppendProperties
<1>10. OpenInv'
  <2>1. /\ bitLength + 8 * BlockBytes = 8 * BlockBytes * (Len(blocks) + 1)
        /\ absorbed + BlockBytes = BlockBytes * (Len(blocks) + 1) + curlen
    BY <1>1, <1>3, <1>5, NextMultiple
  <2> QED BY <1>1, <1>5, <1>8, <1>9, <2>1 DEF OpenInv
<1> QED BY <1>1, <1>4, <1>7, <1>10 DEF StreamInv, PaddingInv, CompressesPadded

LEMMA PartKeeps == StreamInv /\ PartBlock => StreamInv'
<1> SUFFICES ASSUME StreamInv, PartBlock PROVE StreamInv'
  OBVIOUS
<1> DEFINE n == Min({inlen, BlockBytes - curlen})
<1>1. /\ inlen > 0 /\ chunk' = Filled(n) /\ absorbed' = absorbed + n /\ inlen' = inlen - n
      /\ IF curlen + n = BlockBytes
         THEN blocks' = Append(blocks, Filled(n)) /\ curlen' = 0 /\ bitLength' = bitLength + 8 * BlockBytes
         ELSE curlen' = curlen + n /\ UNCHANGED <<blocks, bitLength>>
      /\ hashing' = hashing /\ streamState' = streamState
  BY DEF PartBlock
<1>2. StreamTypes
  BY DEF StreamInv
<1>3. /\ BlockBytes \in Nat /\ BlockBytes > 0 /\ bitLength \in Nat /\ absorbed \in Nat
      /\ curlen \in Nat /\ curlen <= BlockBytes
      /\ inlen \in Nat /\ hashing \in Nat /\ blocks \in Seq(Block) /\ chunk \in Block
      /\ Len(blocks) \in Nat
  BY <1>2, Sizes, LenProperties DEF StreamTypes
<1>4. streamState = "open"
  BY <1>1, <1>3 DEF StreamInv
<1>5. /\ Compressed \o Waiting = Taken(absorbed) /\ bitLength = 8 * BlockBytes * Len(blocks)
      /\ absorbed = BlockBytes * Len(blocks) + curlen /\ curlen < BlockBytes
  BY <1>4 DEF StreamInv, OpenInv
<1>6. n \in Nat /\ n <= inlen /\ curlen + n <= BlockBytes
  <2> DEFINE both == {inlen, BlockBytes - curlen}
  <2>1. \E x \in both : \A y \in both : x <= y
    <3>1. inlen <= BlockBytes - curlen \/ BlockBytes - curlen <= inlen
      BY <1>3
    <3>2. inlen <= inlen /\ BlockBytes - curlen <= BlockBytes - curlen
      BY <1>3
    <3> QED BY <3>1, <3>2
  <2>2. n \in both /\ \A y \in both : n <= y
    BY <2>1 DEF Min
  <2> HIDE DEF n
  <2>3. (n = inlen \/ n = BlockBytes - curlen) /\ n <= inlen /\ n <= BlockBytes - curlen
    BY <2>2
  <2> QED BY <1>3, <2>3
<1> HIDE DEF n
<1>7. /\ Filled(n) \in Block
      /\ SubSeq(Filled(n), 1, curlen + n) = Waiting \o Incoming(n)
  BY <1>2, <1>6, FilledBehind
<1>8. /\ Compressed \in Seq(Source) /\ Waiting \in Seq(Source) /\ Incoming(n) \in Seq(Source)
      /\ absorbed + n \in Nat /\ Taken(absorbed + n) \in Seq(Source)
  <2>1. absorbed + n \in Nat
    BY <1>3, <1>6
  <2> QED BY <1>2, <1>6, <2>1, SeqsTyped
<1>9. Compressed \o (Waiting \o Incoming(n)) = Taken(absorbed + n)
  <2>1. (Compressed \o Waiting) \o Incoming(n) = Compressed \o (Waiting \o Incoming(n))
    BY <1>8, Regroup
  <2>2. Taken(absorbed) \o Incoming(n) = Taken(absorbed + n)
    BY <1>3, <1>6, TakenMore
  <2> QED BY <1>5, <2>1, <2>2
<1>10. Taken(absorbed)' = Taken(absorbed + n)
  BY <1>1 DEF Taken, MessageByte
<1>11. inlen - n \in Nat
  BY <1>3, <1>6
<1>12. CASE curlen + n = BlockBytes
  <2>1. blocks' = Append(blocks, Filled(n)) /\ curlen' = 0 /\ bitLength' = bitLength + 8 * BlockBytes
    BY <1>1, <1>12
  <2>2. blocks' \in Seq(Block) /\ (Len(blocks))' = Len(blocks) + 1
    BY <1>3, <1>7, <2>1, AppendProperties
  <2>3. StreamTypes'
    BY <1>1, <1>2, <1>3, <1>7, <1>8, <1>11, <2>1, <2>2 DEF StreamTypes
  <2>4. Filled(n) = Waiting \o Incoming(n)
    BY <1>3, <1>7, <1>12, AllOfIt DEF Block
  <2>5. (Compressed)' = Taken(absorbed + n)
    BY <1>3, <1>7, <1>9, <2>1, <2>4, CompressedMore DEF Compressed
  <2>6. (Waiting)' = <<>>
    BY <2>1, EmptyPieces DEF Waiting
  <2>7. (Compressed \o Waiting)' = Taken(absorbed)'
    BY <1>8, <1>10, <2>5, <2>6, EmptyPieces
  <2>8. /\ bitLength + 8 * BlockBytes = 8 * BlockBytes * (Len(blocks) + 1)
        /\ absorbed + n = BlockBytes * (Len(blocks) + 1) + 0
    BY <1>3, <1>5, <1>6, <1>12, NextMultiple
  <2>9. OpenInv'
    BY <1>1, <1>3, <2>1, <2>2, <2>7, <2>8 DEF OpenInv
  <2> QED BY <1>1, <1>4, <2>3, <2>9 DEF StreamInv, PaddingInv, CompressesPadded
<1>13. CASE curlen + n # BlockBytes
  <2>1. curlen' = curlen + n /\ blocks' = blocks /\ bitLength' = bitLength
    BY <1>1, <1>13
  <2>2. curlen + n \in 0 .. BlockBytes /\ curlen + n < BlockBytes
    BY <1>3, <1>6, <1>13
  <2>3. StreamTypes'
    BY <1>1, <1>2, <1>3, <1>7, <1>8, <1>11, <2>1, <2>2 DEF StreamTypes
  <2>4. (Compressed)' = Compressed /\ (Waiting)' = Waiting \o Incoming(n)
    BY <1>1, <1>7, <2>1 DEF Compressed, Waiting
  <2>5. (Compressed \o Waiting)' = Taken(absorbed)'
    BY <1>9, <1>10, <2>4
  <2>6. absorbed + n = BlockBytes * Len(blocks) + (curlen + n)
    <3>1. BlockBytes * Len(blocks) \in Nat
      BY <1>3
    <3> QED BY <1>3, <1>5, <1>6, <3>1
  <2>7. OpenInv'
    BY <1>1, <1>5, <2>1, <2>2, <2>5, <2>6 DEF OpenInv
  <2> QED BY <1>1, <1>4, <2>3, <2>7 DEF StreamInv, PaddingInv, CompressesPadded
<1> QED BY <1>12, <1>13

LEMMA MarkKeeps == StreamInv /\ AppendMark => StreamInv'
<1> SUFFICES ASSUME StreamInv, AppendMark PROVE StreamInv'
  OBVIOUS
<1>1. /\ streamState = "open" /\ inlen = 0 /\ streamState' = "padding"
      /\ bitLength' = bitLength + 8 * curlen
      /\ chunk' = [chunk EXCEPT ![curlen + 1] = Mark] /\ curlen' = curlen + 1
      /\ UNCHANGED <<absorbed, inlen, blocks, hashing>>
  BY DEF AppendMark
<1>2. StreamTypes
  BY DEF StreamInv
<1>3. /\ BlockBytes \in Nat /\ bitLength \in Nat /\ absorbed \in Nat /\ curlen \in Nat
      /\ hashing \in Nat /\ blocks \in Seq(Block) /\ chunk \in Block /\ Len(blocks) \in Nat
  BY <1>2, Sizes, LenProperties DEF StreamTypes
<1>4. /\ Compressed \o Waiting = Taken(absorbed) /\ bitLength = 8 * BlockBytes * Len(blocks)
      /\ absorbed = BlockBytes * Len(blocks) + curlen /\ curlen < BlockBytes
  BY <1>1 DEF StreamInv, OpenInv
<1>5. Mark \in Source /\ <<Mark>> \in [1 .. 1 -> Source]
  BY <1>3, BytesTyped, PartsTyped
<1>6. /\ chunk' \in Block
      /\ \A i \in 1 .. curlen : chunk'[i] = chunk[i]
      /\ chunk'[curlen + 1] = Mark
  <2> HIDE DEF Mark, Source
  <2>1. curlen + 1 \in 1 .. BlockBytes
    BY <1>3, <1>4
  <2>2. \A i \in 1 .. curlen : i # curlen + 1 /\ i \in 1 .. BlockBytes
    BY <1>3, <1>4
  <2> QED BY <1>1, <1>3, <1>5, <2>1, <2>2 DEF Block
<1>7. (Waiting)' = Waiting \o <<Mark>>
  <2> DEFINE c == chunk'
             more == <<Mark>>
  <2>1. \A i \in 1 .. 1 : c[curlen + i] = more[i]
    BY <1>6
  <2>2. 1 \in Nat /\ curlen + 1 <= BlockBytes /\ more \in [1 .. 1 -> Source] /\ c \in Block
        /\ \A i \in 1 .. curlen : c[i] = chunk[i]
    BY <1>3, <1>4, <1>5, <1>6
  <2> HIDE DEF c, more
  <2>3. SubSeq(c, 1, curlen + 1) = Waiting \o more
    BY <1>2, <2>1, <2>2, Behind
  <2> QED BY <1>1, <2>3 DEF Waiting, c, more
<1>8. Compressed \in Seq(Source) /\ Waiting \in Seq(Source) /\ <<Mark>> \in Seq(Source)
  BY <1>2, SeqsTyped
<1>9. (Compressed \o Waiting)' = ((Taken(absorbed) \o <<Mark>>) \o Zeros(0))'
  <2>1. (Compressed)' = Compressed /\ Taken(absorbed)' = Taken(absorbed) /\ (Zeros(0))' = <<>>
    BY <1>1, SameMessage, EmptyPieces DEF Compressed, Zeros, ZeroByte
  <2>2. Compressed \o (Waiting \o <<Mark>>) = Taken(absorbed) \o <<Mark>>
    <3> DEFINE s == Compressed
               t == Waiting
               u == <<Mark>>
    <3>1. s \in Seq(Source) /\ t \in Seq(Source) /\ u \in Seq(Source)
      BY <1>8
    <3>2. s \o t = Taken(absorbed)
      BY <1>4
    <3> HIDE DEF s, t, u
    <3>3. (s \o t) \o u = s \o (t \o u)
      BY <3>1, Regroup
    <3>4. s \o (t \o u) = Taken(absorbed) \o u
      BY <3>2, <3>3
    <3> QED BY <3>4 DEF s, t, u
  <2>3. Taken(absorbed) \o <<Mark>> \in Seq(Source)
    BY <1>2, <1>3, <1>8, SeqsTyped, ConcatProperties
  <2>4. (Taken(absorbed) \o <<Mark>>) \o <<>> = Taken(absorbed) \o <<Mark>>
    BY <2>3, EmptyPieces
  <2>5. (<<Mark>>)' = <<Mark>>
    BY DEF Mark
  <2> QED BY <1>7, <2>1, <2>2, <2>4, <2>5
<1>10. /\ bitLength + 8 * curlen = 8 * absorbed
       /\ absorbed + 1 + 0 = BlockBytes * Len(blocks) + (curlen + 1)
  <2>1. BlockBytes * Len(blocks) \in Nat /\ 8 * BlockBytes * Len(blocks) = 8 * (BlockBytes * Len(blocks))
    BY <1>3
  <2> QED BY <1>3, <1>4, <2>1
<1>11. StreamTypes'
  BY <1>1, <1>2, <1>3, <1>4, <1>6 DEF StreamTypes
<1>12. PaddingInv'
  <2>1. 0 \in 0 .. BlockBytes /\ curlen + 1 # 0
    BY <1>3
  <2> QED BY <1>1, <1>9, <1>10, <2>1 DEF PaddingInv
<1> QED BY <1>1, <1>11, <1>12 DEF StreamInv, OpenInv, CompressesPadded

LEMMA ZeroedBehind ==
  ASSUME StreamTypes, NEW last \in Nat, curlen <= last, last <= BlockBytes
  PROVE  /\ ZeroedTo(last) \in Block
         /\ SubSeq(ZeroedTo(last), 1, last) = Waiting \o Zeros(last - curlen)
<1> DEFINE n == last - curlen
           c == ZeroedTo(last)
           more == Zeros(n)
<1>1. /\ BlockBytes \in Nat /\ curlen \in Nat /\ hashing \in Nat
      /\ n \in Nat /\ curlen + n = last /\ curlen + n <= BlockBytes
      /\ chunk \in [1 .. BlockBytes -> Source]
  BY Sizes DEF StreamTypes, Block
<1>2. more \in [1 .. n -> Source] /\ ZeroByte \in Source
  <2> HIDE DEF n
  <2> QED BY <1>1, PartsTyped, BytesTyped
<1>3. c \in Block
  <2> HIDE DEF ZeroByte, Source
  <2> QED BY <1>1, <1>2 DEF ZeroedTo, Block
<1>4. \A i \in 1 .. curlen : c[i] = chunk[i]
  BY <1>1 DEF ZeroedTo
<1>5. \A i \in 1 .. n : c[curlen + i] = more[i]
  <2> SUFFICES ASSUME NEW i \in 1 .. n PROVE c[curlen + i] = more[i]
    OBVIOUS
  <2>1. curlen + i \in 1 .. BlockBytes /\ curlen + i \in curlen + 1 .. last
    BY <1>1
  <2>2. more[i] = ZeroByte
    BY DEF Zeros
  <2> QED BY <2>1, <2>2 DEF ZeroedTo
<1> HIDE DEF n, c, more
<1>6. SubSeq(c, 1, curlen + n) = Waiting \o more
  BY <1>1, <1>2, <1>3, <1>4, <1>5, Behind
<1> QED BY <1>1, <1>3, <1>6 DEF n, c, more

LEMMA ZerosMore ==
  ASSUME hashing \in Nat, NEW m \in Nat, NEW n \in Nat
  PROVE  Zeros(m) \o Zeros(n) = Zeros(m + n)
<1> DEFINE f == Zeros(m)
           g == Zeros(n)
           h == Zeros(m + n)
<1>1. m + n \in Nat
  OBVIOUS
<1>2. f \in [1 .. m -> Source] /\ g \in [1 .. n -> Source] /\ h \in [1 .. m + n -> Source]
  BY <1>1, PartsTyped
<1>3. /\ \A i \in 1 .. m : h[i] = f[i]
      /\ \A i \in 1 .. n : h[m + i] = g[i]
  BY DEF Zeros
<1> HIDE DEF f, g, h
<1>4. Glued(h, f, m, g, n, Source)
  BY <1>2, <1>3 DEF Glued
<1>5. f \o g = h
  BY <1>4, Glue
<1> QED BY <1>5 DEF f, g, h

LEMMA LengthBehind ==
  ASSUME hashing \in Nat, bitLength \in Nat, NEW c \in Block
  PROVE  /\ WithLength(c) \in Block
         /\ LengthField(bitLength) \in Seq(Source)
         /\ WithLength(c) = SubSeq(c, 1, LengthLow) \o LengthField(bitLength)
<1> DEFINE m == LengthLow
           n == BlockBytes - LengthLow
           f == SubSeq(c, 1, m)
           g == LengthField(bitLength)
           h == WithLength(c)
<1>1. m \in Nat /\ n \in Nat /\ m + n = BlockBytes /\ m \in 0 .. BlockBytes /\ BlockBytes \in Nat
  BY Sizes
<1>2. LengthByte(bitLength) \in Source
  BY BytesTyped
<1>3. c \in [1 .. BlockBytes -> Source]
  BY DEF Block
<1>4. f \in [1 .. m -> Source] /\ \A i \in 1 .. m : f[i] = c[i]
  <2> HIDE DEF m
  <2> QED BY <1>1, <1>3, FirstPlaces
<1>5. g \in [1 .. n -> Source] /\ \A i \in 1 .. n : g[i] = LengthByte(bitLength)
  <2> HIDE DEF Source, LengthByte
  <2> QED BY <1>2 DEF LengthField
<1>6. h \in [1 .. BlockBytes -> Source]
  <2> HIDE DEF Source, LengthByte
  <2> QED BY <1>2, <1>3 DEF WithLength
<1>7. \A i \in 1 .. m : h[i] = f[i]
  <2>1. \A i \in 1 .. m : i \in 1 .. BlockBytes /\ ~(i > LengthLow)
    BY <1>1
  <2>2. \A i \in 1 .. m : h[i] = c[i]
    BY <2>1 DEF WithLength
  <2> HIDE DEF f, h
  <2> QED BY <1>4, <2>2
<1>8. \A i \in 1 .. n : h[m + i] = g[i]
  <2>1. \A i \in 1 .. n : m + i \in 1 .. BlockBytes /\ m + i > LengthLow
    BY <1>1
  <2>2. \A i \in 1 .. n : h[m + i] = LengthByte(bitLength)
    BY <2>1 DEF WithLength
  <2> HIDE DEF g, h
  <2> QED BY <1>5, <2>2
<1> HIDE DEF m, n, f, g, h
<1>9. Glued(h, f, m, g, n, Source)
  BY <1>1, <1>4, <1>5, <1>6, <1>7, <1>8 DEF Glued
<1>10. f \o g = h
  BY <1>9, Glue
<1>11. g \in Seq(Source)
  BY <1>1, <1>5, SeqOfFunction
<1>12. h \in Block
  BY <1>6 DEF Block
<1> QED BY <1>10, <1>11, <1>12 DEF m, f, g, h

LEMMA OverflowKeeps == StreamInv /\ PadOverflow => StreamInv'
<1> SUFFICES ASSUME StreamInv, PadOverflow PROVE StreamInv'
  OBVIOUS
<1>1. /\ streamState = "padding" /\ curlen > LengthAt
      /\ chunk' = ZeroedTo(BlockBytes) /\ blocks' = Append(blocks, ZeroedTo(BlockBytes)) /\ curlen' = 0
      /\ UNCHANGED <<bitLength, absorbed, inlen, hashing, streamState>>
  BY DEF PadOverflow, NoRoom
<1>2. StreamTypes
  BY DEF StreamInv
<1>3. /\ BlockBytes \in Nat /\ LengthAt \in Nat /\ 0 < LengthAt
      /\ absorbed \in Nat /\ curlen \in Nat /\ curlen <= BlockBytes
      /\ hashing \in Nat /\ blocks \in Seq(Block) /\ Len(blocks) \in Nat
  BY <1>2, Sizes, LenProperties DEF StreamTypes
<1>4. /\ Compressed \o Waiting = (Taken(absorbed) \o <<Mark>>) \o Zeros(0)
      /\ bitLength = 8 * absorbed /\ absorbed + 1 + 0 = BlockBytes * Len(blocks) + curlen
  <2>1. PICK zeros \in 0 .. BlockBytes :
          /\ Compressed \o Waiting = (Taken(absorbed) \o <<Mark>>) \o Zeros(zeros)
          /\ bitLength = 8 * absorbed
          /\ absorbed + 1 + zeros = BlockBytes * Len(blocks) + curlen
          /\ curlen # 0 => zeros = 0
    BY <1>1 DEF StreamInv, PaddingInv
  <2>2. curlen # 0
    BY <1>1, <1>3
  <2> QED BY <2>1, <2>2
<1>5. PICK rest \in Nat : rest = BlockBytes - curlen
  BY <1>3
<1>room. rest \in 0 .. BlockBytes /\ rest < BlockBytes - LengthAt
  BY <1>1, <1>3, <1>5
<1>6. ZeroedTo(BlockBytes) \in Block /\ ZeroedTo(BlockBytes) = Waiting \o Zeros(rest)
  <2>1. /\ ZeroedTo(BlockBytes) \in Block
        /\ SubSeq(ZeroedTo(BlockBytes), 1, BlockBytes) = Waiting \o Zeros(rest)
    <3>1. curlen <= BlockBytes /\ BlockBytes <= BlockBytes /\ BlockBytes \in Nat
      BY <1>3
    <3> QED BY <1>2, <1>5, <3>1, ZeroedBehind
  <2> QED BY <1>3, <2>1, AllOfIt DEF Block
<1>7. blocks' \in Seq(Block) /\ (Len(blocks))' = Len(blocks) + 1
  BY <1>1, <1>3, <1>6, AppendProperties
<1>8. StreamTypes'
  <2>1. 0 \in 0 .. BlockBytes
    BY <1>3
  <2> QED BY <1>1, <1>2, <1>6, <1>7, <2>1 DEF StreamTypes
<1>9. /\ Compressed \in Seq(Source) /\ Waiting \in Seq(Source) /\ Zeros(rest) \in Seq(Source)
      /\ Zeros(0) \in Seq(Source) /\ Taken(absorbed) \o <<Mark>> \in Seq(Source)
  <2>1. Taken(absorbed) \in Seq(Source) /\ <<Mark>> \in Seq(Source)
    BY <1>2, <1>3, SeqsTyped
  <2>2. Taken(absorbed) \o <<Mark>> \in Seq(Source)
    BY <2>1, ConcatProperties
  <2> QED BY <1>2, <1>5, <2>2, SeqsTyped
<1>10. (Compressed)' = (Taken(absorbed) \o <<Mark>>) \o Zeros(rest)
  <2>1. (Compressed)' = Compressed \o ZeroedTo(BlockBytes)
    BY <1>1, <1>3, <1>6, CompressedMore DEF Compressed
  <2>2. Compressed \o (Waiting \o Zeros(rest)) = (Compressed \o Waiting) \o Zeros(rest)
    <3> DEFINE s == Compressed
               t == Waiting
               u == Zeros(rest)
    <3>1. s \in Seq(Source) /\ t \in Seq(Source) /\ u \in Seq(Source)
      BY <1>9
    <3> HIDE DEF s, t, u
    <3>2. (s \o t) \o u = s \o (t \o u)
      BY <3>1, Regroup
    <3> QED BY <3>2 DEF s, t, u
  <2>3. (Taken(absorbed) \o <<Mark>>) \o Zeros(0) = Taken(absorbed) \o <<Mark>>
    BY <1>9, EmptyPieces
  <2> QED BY <1>4, <1>6, <2>1, <2>2, <2>3
<1>11. (Compressed \o Waiting)' = ((Taken(absorbed) \o <<Mark>>) \o Zeros(rest))'
  <2>1. (Waiting)' = <<>>
    BY <1>1, EmptyPieces DEF Waiting
  <2>2. (Compressed)' \in Seq(Source)
    BY <1>9, <1>10, ConcatProperties
  <2>3. (Compressed \o Waiting)' = (Compressed)'
    BY <2>1, <2>2, EmptyPieces
  <2>4. Taken(absorbed)' = Taken(absorbed)
    BY <1>1, SameMessage
  <2>5. (Zeros(rest))' = Zeros(rest) /\ (<<Mark>>)' = <<Mark>>
    BY DEF Zeros, ZeroByte, Mark
  <2> QED BY <1>10, <2>3, <2>4, <2>5
<1>12. absorbed + 1 + rest = BlockBytes * (Len(blocks) + 1) + 0
  <2>1. BlockBytes * Len(blocks) \in Nat
    BY <1>3
  <2>2. BlockBytes * (Len(blocks) + 1) = BlockBytes * Len(blocks) + BlockBytes
    BY <1>3, NextMultiple
  <2> DEFINE product == BlockBytes * Len(blocks)
  <2>3. product \in Nat /\ absorbed + 1 + 0 = product + curlen
        /\ BlockBytes * (Len(blocks) + 1) = product + BlockBytes
    BY <1>4, <2>1, <2>2
  <2> HIDE DEF product
  <2> QED BY <1>3, <1>5, <2>3
<1>13. PaddingInv'
  <2>1. /\ (Compressed \o Waiting = (Taken(absorbed) \o <<Mark>>) \o Zeros(rest))'
        /\ (bitLength = 8 * absorbed)'
        /\ (absorbed + 1 + rest = BlockBytes * Len(blocks) + curlen)'
        /\ (curlen = 0 => rest < BlockBytes - LengthAt)'
        /\ (curlen # 0 => rest = 0)'
    BY <1>1, <1>4, <1>room, <1>7, <1>11, <1>12
  <2> QED BY <1>room, <2>1 DEF PaddingInv
<1> QED BY <1>1, <1>8, <1>13 DEF StreamInv, OpenInv, CompressesPadded

\* How many zeros FIPS 180-4 wants, at either place sha512_final pads from.
LEMMA ZerosWanted ==
  ASSUME NEW size \in Nat, NEW full \in Nat, NEW used \in Nat, NEW zeros \in Nat,
         size + 1 + zeros = BlockBytes * full + used, used <= LengthAt,
         used = 0 => zeros < BlockBytes - LengthAt,
         used # 0 => zeros = 0
  PROVE  ((LengthAt - size - 1) % BlockBytes) + (LengthLow - LengthAt) = zeros + (LengthLow - used)
<1> DEFINE r == LengthAt - used + zeros
           product == BlockBytes * full
<1>1. r \in 0 .. BlockBytes - 1
  <2>1. CASE used = 0
    BY <2>1, Sizes
  <2>2. CASE used # 0
    BY <2>2, Sizes
  <2> QED BY <2>1, <2>2
<1>2. LengthAt - size - 1 = r - product
  <2>1. product \in Nat /\ size + 1 + zeros = product + used
    BY Sizes
  <2> HIDE DEF product
  <2> QED BY <2>1, Sizes
<1>3. (r - BlockBytes * full) % BlockBytes = r
  <2>1. BlockBytes \in Nat \ {0}
    BY Sizes
  <2> DEFINE q == -full
  <2>2. q \in Int /\ r - BlockBytes * full = BlockBytes * q + r
    BY <1>1, Sizes
  <2> HIDE DEF q, r
  <2> QED BY <1>1, <2>1, <2>2, RestOfMultiple
<1>4. (LengthAt - size - 1) % BlockBytes = r
  BY <1>2, <1>3
<1> QED BY <1>4, Sizes

LEMMA FinishKeeps == StreamInv /\ FinishHash => StreamInv'
<1> SUFFICES ASSUME StreamInv, FinishHash PROVE StreamInv'
  OBVIOUS
<1> DEFINE last == ZeroedTo(LengthLow)
<1>1. /\ streamState = "padding" /\ ~(curlen > LengthAt)
      /\ chunk' = WithLength(last) /\ blocks' = Append(blocks, WithLength(last))
      /\ curlen' = LengthLow /\ streamState' = "idle"
      /\ UNCHANGED <<bitLength, absorbed, inlen, hashing>>
  BY DEF FinishHash, NoRoom
<1>2. StreamTypes
  BY DEF StreamInv
<1>3. /\ BlockBytes \in Nat /\ LengthAt \in Nat /\ LengthLow \in Nat
      /\ LengthAt <= LengthLow /\ LengthLow < BlockBytes
      /\ absorbed \in Nat /\ curlen \in Nat /\ bitLength \in Nat
      /\ hashing \in Nat /\ blocks \in Seq(Block) /\ Len(blocks) \in Nat
  BY <1>2, Sizes, LenProperties DEF StreamTypes
<1>4. curlen <= LengthAt /\ curlen <= LengthLow /\ LengthLow <= BlockBytes
      /\ LengthLow \in 0 .. BlockBytes
  BY <1>1, <1>3
<1>5. PICK zeros \in 0 .. BlockBytes :
        /\ Compressed \o Waiting = (Taken(absorbed) \o <<Mark>>) \o Zeros(zeros)
        /\ bitLength = 8 * absorbed
        /\ absorbed + 1 + zeros = BlockBytes * Len(blocks) + curlen
        /\ curlen = 0 => zeros < BlockBytes - LengthAt
        /\ curlen # 0 => zeros = 0
  BY <1>1 DEF StreamInv, PaddingInv
<1>6. zeros \in Nat
  BY <1>3
<1>7. PICK more \in Nat : more = LengthLow - curlen
  BY <1>3, <1>4
<1>8. last \in Block /\ SubSeq(last, 1, LengthLow) = Waiting \o Zeros(more)
  BY <1>2, <1>3, <1>4, <1>7, ZeroedBehind
<1> HIDE DEF last
<1>9. /\ WithLength(last) \in Block /\ LengthField(bitLength) \in Seq(Source)
      /\ WithLength(last) = (Waiting \o Zeros(more)) \o LengthField(bitLength)
  BY <1>3, <1>8, LengthBehind
<1>10. StreamTypes'
  <2>1. blocks' \in Seq(Block)
    BY <1>1, <1>3, <1>9, AppendProperties
  <2> QED BY <1>1, <1>2, <1>4, <1>9, <2>1 DEF StreamTypes
<1> DEFINE head == Taken(absorbed) \o <<Mark>>
           field == LengthField(bitLength)
<1>11. /\ Compressed \in Seq(Source) /\ Waiting \in Seq(Source) /\ Zeros(more) \in Seq(Source)
       /\ Zeros(zeros) \in Seq(Source) /\ head \in Seq(Source) /\ field \in Seq(Source)
       /\ Waiting \o Zeros(more) \in Seq(Source)
  <2>1. Taken(absorbed) \in Seq(Source) /\ <<Mark>> \in Seq(Source)
    BY <1>2, <1>3, SeqsTyped
  <2>2. head \in Seq(Source)
    BY <2>1, ConcatProperties
  <2>3. Waiting \in Seq(Source) /\ Zeros(more) \in Seq(Source)
    BY <1>2, SeqsTyped
  <2>4. Waiting \o Zeros(more) \in Seq(Source)
    BY <2>3, ConcatProperties
  <2> QED BY <1>2, <1>6, <1>9, <2>2, <2>3, <2>4, SeqsTyped
<1>12. FlattenSeq(blocks') = (head \o Zeros(zeros + more)) \o field
  <2>1. FlattenSeq(blocks') = Compressed \o WithLength(last)
    BY <1>1, <1>3, <1>9, CompressedMore
  <2> HIDE DEF head, field
  <2>2. Compressed \o ((Waiting \o Zeros(more)) \o field)
        = (Compressed \o (Waiting \o Zeros(more))) \o field
    <3>1. Compressed \in Seq(Source) /\ Waiting \o Zeros(more) \in Seq(Source) /\ field \in Seq(Source)
      BY <1>11
    <3> QED BY <3>1, Regroup
  <2>3. Compressed \o (Waiting \o Zeros(more)) = (Compressed \o Waiting) \o Zeros(more)
    <3>1. Compressed \in Seq(Source) /\ Waiting \in Seq(Source) /\ Zeros(more) \in Seq(Source)
      BY <1>11
    <3> QED BY <3>1, Regroup
  <2>4. (head \o Zeros(zeros)) \o Zeros(more) = head \o (Zeros(zeros) \o Zeros(more))
    <3>1. head \in Seq(Source) /\ Zeros(zeros) \in Seq(Source) /\ Zeros(more) \in Seq(Source)
      BY <1>11
    <3> QED BY <3>1, Regroup
  <2>5. Zeros(zeros) \o Zeros(more) = Zeros(zeros + more)
    BY <1>3, <1>6, ZerosMore
  <2>6. Compressed \o Waiting = head \o Zeros(zeros)
    BY <1>5 DEF head
  <2>7. WithLength(last) = (Waiting \o Zeros(more)) \o field
    BY <1>9 DEF field
  <2> QED BY <2>1, <2>2, <2>3, <2>4, <2>5, <2>6, <2>7
<1>13. ((LengthAt - absorbed - 1) % BlockBytes) + (LengthLow - LengthAt) = zeros + more
  <2> DEFINE full == Len(blocks)
  <2>1. /\ absorbed \in Nat /\ full \in Nat /\ curlen \in Nat /\ zeros \in Nat
        /\ absorbed + 1 + zeros = BlockBytes * full + curlen /\ curlen <= LengthAt
        /\ curlen = 0 => zeros < BlockBytes - LengthAt
        /\ curlen # 0 => zeros = 0
    BY <1>3, <1>4, <1>5, <1>6
  <2> HIDE DEF full
  <2>2. ((LengthAt - absorbed - 1) % BlockBytes) + (LengthLow - LengthAt) = zeros + (LengthLow - curlen)
    BY <2>1, ZerosWanted
  <2> QED BY <1>7, <2>2
<1>14. Padded(absorbed) = (head \o Zeros(zeros + more)) \o field
  <2>1. Padded(absorbed) = (head \o Zeros(((LengthAt - absorbed - 1) % BlockBytes) + (LengthLow - LengthAt)))
                           \o LengthField(8 * absorbed)
    BY DEF Padded, Taken, Zeros, LengthField
  <2> QED BY <1>5, <1>13, <2>1
<1>15. Padded(absorbed)' = Padded(absorbed)
  BY <1>1 DEF Padded, MessageByte, Mark, ZeroByte, LengthByte
<1>16. CompressesPadded'
  BY <1>12, <1>14, <1>15 DEF CompressesPadded
<1> QED BY <1>1, <1>10, <1>16 DEF StreamInv, OpenInv, PaddingInv

LEMMA StreamStep == StreamInv /\ [StreamNext]_streamVars => StreamInv'
<1> SUFFICES ASSUME StreamInv, [StreamNext]_streamVars PROVE StreamInv'
  OBVIOUS
<1>1. CASE UNCHANGED streamVars
  <2>1. UNCHANGED <<chunk, curlen, bitLength, absorbed, inlen, blocks, hashing, streamState>>
    BY <1>1 DEF streamVars
  <2>2. /\ (Compressed)' = Compressed /\ (Waiting)' = Waiting
        /\ \A n : Taken(n)' = Taken(n) /\ (Zeros(n))' = Zeros(n)
        /\ (<<Mark>>)' = <<Mark>> /\ Padded(absorbed)' = Padded(absorbed)
    BY <2>1, SameMessage DEF Compressed, Waiting, Zeros, ZeroByte, Mark, Padded, MessageByte, LengthByte
  <2>3. StreamTypes' /\ OpenInv' /\ CompressesPadded'
    BY <2>1, <2>2 DEF StreamInv, StreamTypes, OpenInv, CompressesPadded
  <2>4. PaddingInv'
    BY <2>1, <2>2 DEF StreamInv, PaddingInv
  <2> QED BY <2>1, <2>3, <2>4 DEF StreamInv
<1> QED BY <1>1, InitKeeps, UpdateKeeps, WholeKeeps, PartKeeps, MarkKeeps, OverflowKeeps, FinishKeeps
     DEF StreamNext

\* However a message is cut into calls, and whatever buf held before, the blocks
\* that are compressed are the message as FIPS 180-4 pads it, and in between no
\* byte is lost or doubled: for every size of block, length field and message.
THEOREM MessageIsPadded == StreamSpec => []StreamSound
<1>1. StreamInv => StreamSound
  <2> SUFFICES ASSUME StreamInv PROVE StreamSound
    OBVIOUS
  <2>1. NothingLost
    BY DEF StreamInv, OpenInv, NothingLost, Compressed, Waiting, Taken
  <2> QED BY <2>1 DEF StreamInv, StreamSound
<1> QED BY <1>1, StreamStarts, StreamStep, PTL DEF StreamSpec

-----------------------------------------------------------------------------
(* Words of the code and words of the standard.                              *)

CWord == SUBSET (0 .. CompressBits - 1)

LEMMA SumIsWord ==
  ASSUME NEW x, NEW y
  PROVE  Plus(x, y) \in CWord
BY DEF Plus, Fips!Add, Fips!WordOf, CWord

LEMMA NumberIsWord ==
  ASSUME NEW n
  PROVE  Fips!WordOf(n) \in CWord
BY DEF Fips!WordOf, CWord

\* Masking the distance of a rotation changes nothing.
LEMMA MaskedRotation ==
  ASSUME NEW x \in CWord, NEW n \in Nat
  PROVE  ROR(x, n) = Fips!RotR(x, n)
<1>1. ASSUME NEW b \in x
      PROVE  (b - (n % CompressBits)) % CompressBits = (b - n) % CompressBits
  <2> DEFINE p == CompressBits
             q == n \div p
             a == b - n
  <2>1. p \in Nat \ {0} /\ q \in Int /\ a \in Int /\ b \in Int
    BY CompressAssumption DEF CWord
  <2>2. n = p * q + (n % p)
    BY <2>1
  <2>3. p * q \in Int /\ n % p \in Int
    BY <2>1
  <2>4. b - (n % p) = a + p * q
    <3> HIDE DEF p, q
    <3> QED BY <2>1, <2>2, <2>3
  <2> HIDE DEF q, a, p
  <2>5. (a + p * q) % p = a % p
    BY <2>1, RestOfSum
  <2>6. (b - (n % p)) % p = (b - n) % p
    BY <2>4, <2>5 DEF a
  <2> QED BY <2>6 DEF p
<1> QED BY <1>1 DEF ROR, Fips!RotR

LEMMA XorGroups ==
  ASSUME NEW x, NEW y, NEW z
  PROVE  CXor(CXor(x, y), z) = Fips!Xor(x, Fips!Xor(y, z))
BY DEF CXor, Fips!Xor

\* The functions of the code are those of the standard.
LEMMA SameFunctions ==
  ASSUME NEW x \in CWord
  PROVE  /\ Sigma0(x) = Fips!BigSigma0(x)
         /\ Sigma1(x) = Fips!BigSigma1(x)
         /\ Gamma0(x) = Fips!SmallSigma0(x)
         /\ Gamma1(x) = Fips!SmallSigma1(x)
<1>1. \A n \in Nat : ROR(x, n) = Fips!RotR(x, n)
  BY MaskedRotation
<1>2. Sigma0(x) = Fips!BigSigma0(x)
  BY <1>1, XorGroups DEF Sigma0, Fips!BigSigma0
<1>3. Sigma1(x) = Fips!BigSigma1(x)
  BY <1>1, XorGroups DEF Sigma1, Fips!BigSigma1
<1>4. Gamma0(x) = Fips!SmallSigma0(x)
  BY <1>1, XorGroups DEF Gamma0, SHR, Fips!SmallSigma0
<1>5. Gamma1(x) = Fips!SmallSigma1(x)
  BY <1>1, XorGroups DEF Gamma1, SHR, Fips!SmallSigma1
<1> QED BY <1>2, <1>3, <1>4, <1>5

LEMMA CheaperChoice ==
  ASSUME NEW x, NEW y, NEW z \in CWord
  PROVE  Ch(x, y, z) = Fips!Choose3(x, y, z)
BY DEF Ch, CXor, Fips!Choose3, Fips!Xor, Fips!Not, CWord

LEMMA CheaperMajority ==
  ASSUME NEW x, NEW y, NEW z
  PROVE  Maj(x, y, z) = Fips!Majority(x, y, z)
BY DEF Maj, Fips!Majority, Fips!Xor

-----------------------------------------------------------------------------
(* The schedule.                                                             *)

Extended(w, t) == Plus(Plus(Gamma1(w[t - 2]), w[t - 7]), Plus(Gamma0(w[t - 15]), w[t - 16]))

\* The first k words of a schedule that starts with the words of the block.
Schedule(w, k) ==
  /\ w \in Seq(CWord) /\ Len(w) = k
  /\ \A t \in 17 .. k : w[t] = Extended(w, t)

LEMMA OneWordMore ==
  ASSUME NEW k \in Nat, k >= 16, NEW w, Schedule(w, k)
  PROVE  Schedule(Append(w, Extended(w, k + 1)), k + 1)
<1> DEFINE x == Extended(w, k + 1)
           v == Append(w, x)
<1>1. x \in CWord
  BY SumIsWord DEF Extended
<1> HIDE DEF x
<1>2. w \in Seq(CWord) /\ Len(w) = k /\ \A t \in 17 .. k : w[t] = Extended(w, t)
  BY DEF Schedule
<1>3. /\ v \in Seq(CWord) /\ Len(v) = k + 1 /\ v[k + 1] = x
      /\ \A i \in 1 .. k : v[i] = w[i]
  BY <1>1, <1>2, AppendProperties
<1> HIDE DEF v
<1>4. ASSUME NEW t \in 17 .. k + 1
      PROVE  Extended(v, t) = Extended(w, t)
  <2>1. t - 2 \in 1 .. k /\ t - 7 \in 1 .. k /\ t - 15 \in 1 .. k /\ t - 16 \in 1 .. k
    OBVIOUS
  <2>2. /\ v[t - 2] = w[t - 2] /\ v[t - 7] = w[t - 7]
        /\ v[t - 15] = w[t - 15] /\ v[t - 16] = w[t - 16]
    BY <1>3, <2>1
  <2> QED BY <2>2 DEF Extended
<1>5. ASSUME NEW t \in 17 .. k + 1
      PROVE  v[t] = Extended(v, t)
  <2>1. CASE t = k + 1
    BY <1>3, <1>4, <2>1 DEF x
  <2>2. CASE t # k + 1
    <3>1. t \in 17 .. k /\ t \in 1 .. k
      BY <2>2
    <3> QED BY <1>2, <1>3, <1>4, <3>1
  <2> QED BY <2>1, <2>2
<1>6. Schedule(v, k + 1)
  BY <1>3, <1>5 DEF Schedule
<1> QED BY <1>6 DEF v, x

LEMMA ExpandedIsSchedule ==
  ASSUME NEW first \in [1 .. 16 -> CWord]
  PROVE  Schedule(Expanded(first), 80)
<1> DEFINE D == Seq(CWord)
           Step(w, n) == Append(w, Extended(w, n + 16))
           Fills(f) == f = [n \in 0 .. 64 |-> IF n = 0 THEN first ELSE Step(f[n - 1], n)]
           upTo == CHOOSE f : Fills(f)
           base == first
           last == 64
           step == [n \in 1 .. last |-> [w \in D |-> Step(w, n)]]
<1>1. Expanded(first) = upTo[64]
  BY DEF Expanded, Extended
<1>2. base \in D /\ Len(base) = 16
  BY SeqOfFunction
<1>3. \A w \in D, n \in 1 .. last : Step(w, n) \in D
  <2> SUFFICES ASSUME NEW w \in D, NEW n \in 1 .. last PROVE Step(w, n) \in D
    OBVIOUS
  <2>1. Extended(w, n + 16) \in CWord
    BY SumIsWord, SMTT(30) DEF Extended
  <2> QED BY <2>1, AppendProperties
<1>4. \E f : Fills(f)
  <2>1. step \in [1 .. last -> [D -> D]]
    <3> HIDE DEF Step
    <3> QED BY <1>3
  <2>2. last \in Nat
    OBVIOUS
  <2>3. PICK f : Stepwise(f, D, last, base, step)
    <3> HIDE DEF step, last, base, D
    <3> QED BY <1>2, <2>1, <2>2, StepwiseFunction
  <2>4. \A n \in 1 .. 64 : f[n] = Step(f[n - 1], n)
    <3> SUFFICES ASSUME NEW n \in 1 .. 64 PROVE f[n] = Step(f[n - 1], n)
      OBVIOUS
    <3>1. f[n - 1] \in D
      <4> HIDE DEF D, step, base
      <4>1. f \in [0 .. 64 -> D] /\ n - 1 \in 0 .. 64
        BY <2>3 DEF Stepwise, last
      <4> QED BY <4>1
    <3> HIDE DEF Step
    <3> QED BY <2>3, <3>1 DEF Stepwise
  <2>5. f \in [0 .. 64 -> D] /\ f[0] = first
    BY <2>3 DEF Stepwise
  <2>6. Fills(f)
    <3> HIDE DEF Step
    <3> QED BY <2>4, <2>5
  <2> QED BY <2>6
<1>5. Fills(upTo)
  <2> HIDE DEF Fills
  <2> QED BY <1>4
<1> HIDE DEF upTo
<1>6. upTo[0] = first /\ \A n \in 1 .. 64 : upTo[n] = Step(upTo[n - 1], n)
  <2> HIDE DEF Step
  <2> QED BY <1>5
<1> HIDE DEF Fills
<1> DEFINE Good == {n \in Nat : n <= 64 => Schedule(upTo[n], 16 + n)}
<1>7. 0 \in Good
  <2>1. Schedule(first, 16)
    <3> HIDE DEF step, upTo
    <3> QED BY <1>2 DEF Schedule
  <2>2. 16 + 0 = 16
    OBVIOUS
  <2>3. Schedule(upTo[0], 16 + 0)
    <3> HIDE DEF Step
    <3> QED BY <1>6, <2>1, <2>2
  <2> QED BY <2>3
<1>8. ASSUME NEW n \in Nat, n \in Good
      PROVE  n + 1 \in Good
  <2> SUFFICES ASSUME n + 1 <= 64
               PROVE  Schedule(upTo[n + 1], 16 + (n + 1))
    OBVIOUS
  <2>1. Schedule(upTo[n], 16 + n)
    BY <1>8
  <2>2. n + 1 \in 1 .. 64 /\ (n + 1) - 1 = n /\ (n + 1) + 16 = (16 + n) + 1 /\ 16 + n \in Nat /\ 16 + n >= 16
    BY <1>8, SMTT(30)
  <2>3. upTo[n + 1] = Append(upTo[n], Extended(upTo[n], (16 + n) + 1))
    BY <1>6, <2>2
  <2>4. Schedule(upTo[n + 1], (16 + n) + 1)
    BY <2>1, <2>2, <2>3, OneWordMore
  <2> QED BY <2>2, <2>4
<1>9. 64 \in Good
  <2> HIDE DEF Good
  <2>1. \A n \in Nat : n >= 0 /\ n \in Good => n + 1 \in Good
    BY <1>8
  <2> QED BY <1>7, <2>1, Upwards
<1> QED BY <1>1, <1>9

-----------------------------------------------------------------------------
(* The places.                                                               *)

LEMMA Places ==
  ASSUME NEW t \in 0 .. 79
  PROVE  /\ \A i \in 1 .. 8 : /\ Argument(t, i) \in 1 .. 8
                              /\ Argument(t, i) = 1 + ((i - 1 - t) % 8)
         /\ \A i, j \in 1 .. 8 : i # j => Argument(t, i) # Argument(t, j)
         /\ 1 + ((1 - 1 - (t + 1)) % 8) = Argument(t, 8)
         /\ \A i \in 2 .. 8 : 1 + ((i - 1 - (t + 1)) % 8) = Argument(t, i - 1)
BY DEF Argument

-----------------------------------------------------------------------------
(* The compression.                                                          *)

\* The words the code computes with have CompressBits bits.
CompressInv ==
  /\ S \in [1 .. 8 -> CWord]
  /\ hashState \in [1 .. 8 -> CWord]
  /\ rounds \in -1 .. 81

LEMMA CompressStart == CompressInit => CompressInv
<1> SUFFICES ASSUME CompressInit PROVE CompressInv
  OBVIOUS
<1>1. {} \in CWord
  BY DEF CWord
<1>2. hashState \in [1 .. 8 -> CWord]
  BY NumberIsWord DEF CompressInit
<1>3. S \in [1 .. 8 -> CWord] /\ rounds = -1
  BY <1>1 DEF CompressInit, CompressIdleAt
<1> QED BY <1>2, <1>3 DEF CompressInv

LEMMA CompressStep == CompressInv /\ [CompressNext]_compressVars => CompressInv'
<1> SUFFICES ASSUME CompressInv, [CompressNext]_compressVars PROVE CompressInv'
  OBVIOUS
<1>1. ASSUME NEW first \in SampleBlocks, LoadBlock(first) PROVE CompressInv'
  BY <1>1 DEF LoadBlock, CompressInv
<1>2. CASE CompressRound
  <2>1. \A t0, x : Plus(t0, x) \in CWord
    BY SumIsWord
  <2>2. Rnd(rounds) \in [1 .. 8 -> CWord]
    BY <2>1 DEF Rnd, CompressInv
  <2> QED BY <1>2, <2>2 DEF CompressRound, CompressInv
<1>3. CASE AddState
  BY <1>3, SumIsWord DEF AddState, CompressInv
<1>4. CASE UNCHANGED compressVars
  BY <1>4 DEF compressVars, CompressInv
<1> QED BY <1>1, <1>2, <1>3, <1>4 DEF CompressNext

\* Where the standard's working variables are.
Working == [i \in 1 .. 8 |-> S[1 + ((i - 1 - Turn) % 8)]]

LEMMA LoadIsBegin ==
  ASSUME CompressInv, NEW first \in SampleBlocks, LoadBlock(first)
  PROVE  Fips!Begin
<1>1. first \in [1 .. 16 -> CWord]
  BY NumberIsWord DEF SampleBlocks
<1>2. /\ rounds = -1 /\ S' = hashState /\ W' = Expanded(first) /\ rounds' = 0
      /\ hashState' = hashState
  BY DEF LoadBlock
<1>3. hashState \in [1 .. 8 -> CWord]
  BY DEF CompressInv
<1>4. Turn' = 0
  BY <1>2 DEF Turn
<1>5. Working' = hashState
  <2>1. \A i \in 1 .. 8 : 1 + ((i - 1 - 0) % 8) = i
    OBVIOUS
  <2> QED BY <1>2, <1>3, <1>4, <2>1 DEF Working
<1>6. ASSUME NEW t \in 17 .. 80
      PROVE  W'[t] = Fips!Add(Fips!Add(Fips!SmallSigma1(W'[t - 2]), W'[t - 7]),
                              Fips!Add(Fips!SmallSigma0(W'[t - 15]), W'[t - 16]))
  <2>1. Schedule(W', 80)
    BY <1>1, <1>2, ExpandedIsSchedule
  <2>2. W'[t] = Extended(W', t)
    BY <2>1 DEF Schedule
  <2>3. W'[t - 2] \in CWord /\ W'[t - 15] \in CWord
    <3>1. t - 2 \in 1 .. 80 /\ t - 15 \in 1 .. 80
      OBVIOUS
    <3>2. \A i \in 1 .. 80 : W'[i] \in CWord
      <4>1. W' \in Seq(CWord) /\ Len(W') = 80
        BY <2>1 DEF Schedule
      <4> QED BY <4>1, ElementOfSeq, ZenonT(60)
    <3> QED BY <3>1, <3>2
  <2>4. /\ Gamma1(W'[t - 2]) = Fips!SmallSigma1(W'[t - 2])
        /\ Gamma0(W'[t - 15]) = Fips!SmallSigma0(W'[t - 15])
    BY <2>3, SameFunctions, SMTT(30)
  <2> QED BY <2>2, <2>4 DEF Extended, Plus
<1> QED BY <1>2, <1>5, <1>6 DEF Fips!Begin, Working

LEMMA RndIsRound ==
  ASSUME CompressInv, CompressRound
  PROVE  Fips!Round
<1> DEFINE t == rounds
           At(i) == S[Argument(t, i)]
           T1 == Fips!Add(Fips!Add(Fips!Add(At(8), Fips!BigSigma1(At(5))),
                          Fips!Add(Fips!Choose3(At(5), At(6), At(7)), KWord(t + 1))), W[t + 1])
           T2 == Fips!Add(Fips!BigSigma0(At(1)), Fips!Majority(At(1), At(2), At(3)))
<1>1. /\ rounds \in 0 .. 79 /\ S' = Rnd(rounds) /\ rounds' = rounds + 1
      /\ hashState' = hashState /\ W' = W
  BY DEF CompressRound
<1>2. Turn = rounds /\ Turn' = rounds + 1
  BY <1>1 DEF Turn
<1>3. /\ \A i \in 1 .. 8 : /\ Argument(t, i) \in 1 .. 8
                           /\ Argument(t, i) = 1 + ((i - 1 - t) % 8)
      /\ \A i, j \in 1 .. 8 : i # j => Argument(t, i) # Argument(t, j)
      /\ 1 + ((1 - 1 - (t + 1)) % 8) = Argument(t, 8)
      /\ \A i \in 2 .. 8 : 1 + ((i - 1 - (t + 1)) % 8) = Argument(t, i - 1)
  BY <1>1, Places
<1>4. S \in [1 .. 8 -> CWord]
  BY DEF CompressInv
<1>5. \A i \in 1 .. 8 : At(i) \in CWord
  BY <1>3, <1>4
<1>6. /\ T1 = Plus(Plus(Plus(At(8), Sigma1(At(5))), Plus(Ch(At(5), At(6), At(7)), KWord(t + 1))), W[t + 1])
      /\ T2 = Plus(Sigma0(At(1)), Maj(At(1), At(2), At(3)))
  <2>1. Sigma1(At(5)) = Fips!BigSigma1(At(5)) /\ Sigma0(At(1)) = Fips!BigSigma0(At(1))
    BY <1>5, SameFunctions
  <2>2. Ch(At(5), At(6), At(7)) = Fips!Choose3(At(5), At(6), At(7))
    BY <1>5, CheaperChoice
  <2>3. Maj(At(1), At(2), At(3)) = Fips!Majority(At(1), At(2), At(3))
    BY CheaperMajority
  <2> QED BY <2>1, <2>2, <2>3 DEF Plus
<1>7. S' = [S EXCEPT ![Argument(t, 4)] = Plus(@, T1), ![Argument(t, 8)] = Plus(T1, T2)]
  BY <1>1, <1>6 DEF Rnd
<1> HIDE DEF T1, T2
<1>8. /\ S'[Argument(t, 8)] = Plus(T1, T2)
      /\ S'[Argument(t, 4)] = Plus(At(4), T1)
      /\ \A i \in {1, 2, 3, 5, 6, 7} : S'[Argument(t, i)] = At(i)
  BY <1>3, <1>4, <1>7
<1>9. \A i \in 1 .. 8 : Working[i] = At(i)
  BY <1>2, <1>3 DEF Working
<1>10. Working' = [i \in 1 .. 8 |-> S'[1 + ((i - 1 - (t + 1)) % 8)]]
  BY <1>2 DEF Working
<1>11. Working' = <<Plus(T1, T2), At(1), At(2), At(3), Plus(At(4), T1), At(5), At(6), At(7)>>
  <2>1. /\ Working'[1] = Plus(T1, T2) /\ Working'[2] = At(1) /\ Working'[3] = At(2)
        /\ Working'[4] = At(3) /\ Working'[5] = Plus(At(4), T1)
        /\ Working'[6] = At(5) /\ Working'[7] = At(6) /\ Working'[8] = At(7)
    BY <1>3, <1>8, <1>10
  <2> QED BY <1>10, <2>1
<1>12. Working' = <<Fips!Add(T1, T2), Working[1], Working[2], Working[3],
                    Fips!Add(Working[4], T1), Working[5], Working[6], Working[7]>>
  BY <1>9, <1>11 DEF Plus
<1>13. T1 = Fips!Add(Fips!Add(Fips!Add(Working[8], Fips!BigSigma1(Working[5])),
                     Fips!Add(Fips!Choose3(Working[5], Working[6], Working[7]), KWord(rounds + 1))),
                     W[rounds + 1])
  BY <1>9 DEF T1
<1>14. T2 = Fips!Add(Fips!BigSigma0(Working[1]), Fips!Majority(Working[1], Working[2], Working[3]))
  BY <1>9 DEF T2
<1> QED BY <1>1, <1>12, <1>13, <1>14 DEF Fips!Round, Working

LEMMA AddIsDigest ==
  ASSUME CompressInv, AddState
  PROVE  Fips!Digest
<1>1. /\ rounds = 80 /\ rounds' = 81 /\ S' = S /\ W' = W
      /\ hashState' = [i \in 1 .. 8 |-> Plus(hashState[i], S[i])]
  BY DEF AddState
<1>2. Turn = 80 /\ Turn' = 0
  BY <1>1 DEF Turn
<1>3. \A i \in 1 .. 8 : 1 + ((i - 1 - 80) % 8) = i /\ 1 + ((i - 1 - 0) % 8) = i
  OBVIOUS
<1>4. Working' = Working /\ \A i \in 1 .. 8 : Working[i] = S[i]
  BY <1>1, <1>2, <1>3 DEF Working
<1>5. hashState' = [i \in 1 .. 8 |-> Fips!Add(hashState[i], Working[i])]
  BY <1>1, <1>4 DEF Plus
<1> QED BY <1>1, <1>4, <1>5 DEF Fips!Digest, Working

\* sha512_compress does what FIPS 180-4 asks for: writing two words in place
\* under turning names is the round that moves all eight variables.
THEOREM InPlaceRounds == CompressSpec => ImplementsFips
<1>1. CompressInit => rounds \in {-1, 81}
  BY DEF CompressInit, CompressIdleAt
<1>2. CompressInv /\ [CompressNext]_compressVars
        => [Fips!RoundsNext]_<<Working, hashState, W, rounds>>
  <2> SUFFICES ASSUME CompressInv, [CompressNext]_compressVars
               PROVE  [Fips!RoundsNext]_<<Working, hashState, W, rounds>>
    OBVIOUS
  <2>1. ASSUME NEW first \in SampleBlocks, LoadBlock(first) PROVE Fips!RoundsNext
    BY <2>1, LoadIsBegin DEF Fips!RoundsNext
  <2>2. CASE CompressRound
    BY <2>2, RndIsRound DEF Fips!RoundsNext
  <2>3. CASE AddState
    BY <2>3, AddIsDigest DEF Fips!RoundsNext
  <2>4. CASE UNCHANGED compressVars
    BY <2>4 DEF compressVars, Working, Turn
  <2> QED BY <2>1, <2>2, <2>3, <2>4 DEF CompressNext
<1> QED BY <1>1, <1>2, CompressStart, CompressStep, PTL
        DEF CompressSpec, ImplementsFips, Fips!RoundsSpec, Working

-----------------------------------------------------------------------------
(* The derivation of the key.                                                *)

Clean(c) == mem[c] \in {Zero, Garbage}

HmacAt == {"hmac", "hmac key", "hmac hashed", "hmac pads", "hmac inner", "hmac outer", "hmac wipe"}

\* The statements of hmac_sha512, and those of wc_solana_address after the path.
HmacStep ==
  \/ HmacCheck \/ HashLongKey \/ CopyLongKey \/ HmacKey
  \/ HmacPads \/ HmacInner \/ HmacOuter \/ HmacWipe

AddressStep == KeypairMade \/ KeypairWipe \/ AddressEncoded \/ AddressWipe

\* Inside hmac_sha512, to return to one of these statements.
For(rets) == at \in HmacAt /\ hmac.ret \in rets

SeedRets == {"seed first", "seed xor"}
SlipRets == {"master end", "child end"}

\* The caller's buffer that a call of hmac_sha512 writes to.
CallInv ==
  /\ at \in HmacAt => hmac.ret \in SeedRets \cup SlipRets
  /\ For(SeedRets) => hmac.out = "U"
  /\ For(SlipRets) => hmac.out = "I"

\* Between which statements each buffer may hold more than zeros.
CleanInv ==
  /\ mem = [c \in Cell |-> mem[c]]
  /\ at # "hmac hashed" => Clean("hkey")
  /\ at \notin {"hmac pads", "hmac inner", "hmac outer", "hmac wipe"} => Clean("k")
  /\ at \notin {"hmac inner", "hmac outer", "hmac wipe"} =>
       Clean("ipad") /\ Clean("opad") /\ Clean("inner") /\ Clean("h")
  /\ ~For(SeedRets) /\ at \notin {"seed first", "seed loop", "seed xor"} =>
       Clean("salt") /\ Clean("U") /\ Clean("T")
  /\ ~For(SlipRets) /\ at \notin SlipRets => Clean("I")
  /\ ~For({"child end"}) /\ at # "child end" => Clean("data")
  /\ ~For({"child end"}) /\ at \notin {"child", "child end", "child copy"} => Clean("cc")
  /\ at # "child copy" \/ task.inPlace => Clean("nkL") /\ Clean("ncc")
  /\ at \notin {"keypair wipe", "base58", "address wipe"} => Clean("pub")
  /\ at # "keypair wipe" => Clean("priv_tmp")
  /\ at = "seed" => Clean("kL")
  /\ at = "end" /\ task.what = "address" => Clean("kL") /\ Clean("seed")

WipeInv == CallInv /\ CleanInv

LEMMA WipeInit == DerivationInit => WipeInv
<1> SUFFICES ASSUME DerivationInit
             PROVE  WipeInv
  OBVIOUS
<1>1. at \in {"seed", "master"}
  BY DEF DerivationInit
<1>2. /\ mem = [c \in Cell |-> mem[c]]
      /\ \A c \in Cell : c \notin {"mnemonic", "ed25519 seed", "seed"} => Clean(c)
  BY DEF DerivationInit, Fresh, Clean
<1>3. {"hkey", "k", "ipad", "opad", "inner", "h", "salt", "U", "T", "I", "data", "kL", "cc", "nkL",
       "ncc", "pub", "priv_tmp"} \subseteq Cell
  BY DEF Cell
<1> QED BY <1>1, <1>2, <1>3 DEF WipeInv, CallInv, CleanInv, HmacAt, For, SlipRets

LEMMA HmacKeeps == WipeInv /\ HmacStep => WipeInv'
<1> SUFFICES ASSUME WipeInv, HmacStep
             PROVE  WipeInv'
  OBVIOUS
<1> USE DEF HmacAt, For, SeedRets, SlipRets, Clean
<1>1. at \in HmacAt /\ hmac' = hmac /\ task' = task /\ (at' \in HmacAt \/ at' = hmac.ret)
  BY DEF HmacStep, HmacCheck, HashLongKey, CopyLongKey, HmacKey, HmacPads, HmacInner, HmacOuter,
         HmacWipe
<1>2. CallInv'
  BY <1>1 DEF WipeInv, CallInv
<1>3. hmac.out \in {"U", "I"} /\ hmac.out \in Cell
  BY <1>1 DEF WipeInv, CallInv, Cell
<1>4. CASE HmacCheck
  <2>1. mem' \in {[mem EXCEPT ![hmac.out] = Zero], mem}
    BY <1>4 DEF HmacCheck, OutUntouched
  <2> QED BY <1>1, <1>2, <1>3, <1>4, <2>1 DEF WipeInv, CallInv, CleanInv, HmacCheck, Cell
<1>5. CASE HashLongKey
  <2>1. /\ at = "hmac key" /\ at' = "hmac hashed"
        /\ mem' = [c \in Cell |-> mem'[c]]
        /\ \A c \in Cell \ {"hkey"} : mem'[c] = mem[c]
    BY <1>5 DEF WipeInv, CleanInv, HashLongKey, Cell
  <2> QED BY <1>1, <1>2, <2>1 DEF WipeInv, CallInv, CleanInv, Cell
<1>6. CASE CopyLongKey
  <2>1. /\ at = "hmac hashed" /\ at' = "hmac pads"
        /\ mem' = [c \in Cell |-> mem'[c]]
        /\ \A c \in Cell \ {"hkey", "k"} : mem'[c] = mem[c]
        /\ mem'["hkey"] = Zero
    BY <1>6 DEF Wiped, WipeInv, CleanInv, CopyLongKey, Cell
  <2> QED BY <1>1, <1>2, <2>1 DEF WipeInv, CallInv, CleanInv, Cell
<1>7. CASE HmacKey
  <2>1. /\ at = "hmac key" /\ at' = "hmac pads"
        /\ mem' = [c \in Cell |-> mem'[c]]
        /\ \A c \in Cell \ {"k"} : mem'[c] = mem[c]
    BY <1>7 DEF WipeInv, CleanInv, HmacKey, Cell
  <2> QED BY <1>1, <1>2, <2>1 DEF WipeInv, CallInv, CleanInv, Cell
<1>8. CASE HmacPads
  <2>1. /\ at = "hmac pads" /\ at' = "hmac inner"
        /\ mem' = [c \in Cell |-> mem'[c]]
        /\ \A c \in Cell \ {"ipad", "opad"} : mem'[c] = mem[c]
    BY <1>8 DEF WipeInv, CleanInv, HmacPads, Cell
  <2> QED BY <1>1, <1>2, <2>1 DEF WipeInv, CallInv, CleanInv, Cell
<1>9. CASE HmacInner
  <2>1. /\ at = "hmac inner" /\ at' = "hmac outer"
        /\ mem' = [c \in Cell |-> mem'[c]]
        /\ \A c \in Cell \ {"inner", "h"} : mem'[c] = mem[c]
    BY <1>9 DEF WipeInv, CleanInv, HmacInner, Cell
  <2> QED BY <1>1, <1>2, <2>1, ZenonT(60) DEF WipeInv, CallInv, CleanInv, Cell
<1>10. CASE HmacOuter
  <2>1. /\ at = "hmac outer" /\ at' = "hmac wipe"
        /\ mem' = [c \in Cell |-> mem'[c]]
        /\ \A c \in Cell \ {"inner", hmac.out} : mem'[c] = mem[c]
    BY <1>3, <1>10 DEF WipeInv, CleanInv, HmacOuter
  <2>2. \A c \in Cell \ {"inner", "U", "I"} : mem'[c] = mem[c]
    BY <1>3, <2>1
  <2>3. For(SeedRets) => mem'["I"] = mem["I"]
    BY <1>1, <2>1 DEF WipeInv, CallInv, Cell
  <2>4. For(SlipRets) => mem'["U"] = mem["U"]
    BY <1>1, <2>1 DEF WipeInv, CallInv, Cell
  <2>5. hmac.ret \in SeedRets \cup SlipRets
    BY <1>1 DEF WipeInv, CallInv
  <2>6. ASSUME hmac.ret \notin SeedRets PROVE Clean("salt")' /\ Clean("U")' /\ Clean("T")'
    <3>1. Clean("salt") /\ Clean("U") /\ Clean("T")
      BY <2>1, <2>6 DEF WipeInv, CleanInv
    <3>2. mem'["U"] = mem["U"]
      BY <1>1, <2>4, <2>5, <2>6
    <3> QED BY <2>2, <3>1, <3>2 DEF Cell
  <2>7. ASSUME hmac.ret \notin SlipRets PROVE Clean("I")'
    <3>1. Clean("I")
      BY <2>1, <2>7 DEF WipeInv, CleanInv
    <3> QED BY <1>1, <2>3, <2>5, <2>7, <3>1
  <2>8. ASSUME hmac.ret # "child end" PROVE Clean("data")' /\ Clean("cc")'
    <3>1. Clean("data") /\ Clean("cc")
      BY <2>1, <2>8 DEF WipeInv, CleanInv
    <3> QED BY <2>2, <3>1 DEF Cell
  <2>9. \A c \in {"hkey", "nkL", "ncc", "pub", "priv_tmp"} : Clean(c)'
    <3>1. \A c \in {"hkey", "nkL", "ncc", "pub", "priv_tmp"} : Clean(c)
      BY <2>1 DEF WipeInv, CleanInv
    <3> QED BY <2>2, <3>1 DEF Cell
  <2> QED BY <1>1, <1>2, <2>1, <2>6, <2>7, <2>8, <2>9 DEF WipeInv, CleanInv
<1>11. CASE HmacWipe
  <2>1. /\ at = "hmac wipe" /\ at' = hmac.ret
        /\ mem' = [c \in Cell |-> mem'[c]]
        /\ \A c \in Cell \ {"k", "ipad", "opad", "inner", "h"} : mem'[c] = mem[c]
        /\ \A c \in {"k", "ipad", "opad", "inner", "h"} : mem'[c] = Zero
    BY <1>11 DEF Wiped, Workspace, HmacWipe, Cell
  <2>2. hmac.ret \in SeedRets \cup SlipRets
    BY <1>1 DEF WipeInv, CallInv
  <2>3. CASE hmac.ret \in SeedRets
    <3>1. \A c \in {"hkey", "I", "data", "cc", "nkL", "ncc", "pub", "priv_tmp"} : Clean(c)
      BY <2>1, <2>3 DEF WipeInv, CleanInv
    <3>2. \A c \in {"hkey", "I", "data", "cc", "nkL", "ncc", "pub", "priv_tmp", "k", "ipad", "opad",
                    "inner", "h"} : Clean(c)'
      BY <2>1, <3>1 DEF Cell
    <3> QED BY <1>1, <1>2, <2>1, <2>3, <3>2 DEF WipeInv, CleanInv
  <2>4. CASE hmac.ret = "master end"
    <3>1. \A c \in {"hkey", "salt", "U", "T", "data", "cc", "pub", "priv_tmp"} : Clean(c)
      BY <2>1, <2>4 DEF WipeInv, CleanInv
    <3>2. at' = "master end" /\ Clean("nkL") /\ Clean("ncc")
      BY <2>1, <2>4 DEF WipeInv, CleanInv
    <3>3. \A c \in {"hkey", "salt", "U", "T", "data", "cc", "pub", "priv_tmp", "nkL", "ncc", "k",
                    "ipad", "opad", "inner", "h"} : Clean(c)'
      BY <2>1, <3>1, <3>2 DEF Cell
    <3> QED BY <1>1, <1>2, <2>1, <3>2, <3>3 DEF WipeInv, CleanInv
  <2>5. CASE hmac.ret = "child end"
    <3>1. \A c \in {"hkey", "salt", "U", "T", "nkL", "ncc", "pub", "priv_tmp"} : Clean(c)
      BY <2>1, <2>5 DEF WipeInv, CleanInv
    <3>2. \A c \in {"hkey", "salt", "U", "T", "nkL", "ncc", "pub", "priv_tmp", "k", "ipad", "opad",
                    "inner", "h"} : Clean(c)'
      BY <2>1, <3>1 DEF Cell
    <3> QED BY <1>1, <1>2, <2>1, <2>5, <3>2 DEF WipeInv, CleanInv
  <2> QED BY <2>2, <2>3, <2>4, <2>5
<1> QED BY <1>4, <1>5, <1>6, <1>7, <1>8, <1>9, <1>10, <1>11 DEF HmacStep

LEMMA SeedKeeps ==
  WipeInv /\ (SeedStart \/ SeedFirst \/ SeedLoop \/ SeedXor \/ SeedEnd) => WipeInv'
<1> SUFFICES ASSUME WipeInv, SeedStart \/ SeedFirst \/ SeedLoop \/ SeedXor \/ SeedEnd
             PROVE  WipeInv'
  OBVIOUS
<1> USE DEF HmacAt, For, SeedRets, SlipRets, Clean
<1>1. CASE SeedStart
  <2>1. CASE at' = "end"
    <3>1. /\ mem' = [c \in Cell |-> mem'[c]]
          /\ \A c \in Cell \ {"seed"} : mem'[c] = mem[c]
          /\ mem'["seed"] = Zero
          /\ at = "seed" /\ task' = task /\ hmac' = hmac
      BY <1>1, <2>1 DEF Wiped, SeedStart, Calls, Cell
    <3> QED BY <2>1, <3>1 DEF WipeInv, CallInv, CleanInv, Cell
  <2>2. CASE at' # "end"
    <3>1. /\ mem' = [Wiped(mem, {"seed"}) EXCEPT !["salt"] = Named("salt")]
          /\ Calls(Call("mnemonic", task.mlen, "salt", 8 + task.plen + 4, "U", "seed first"))
      BY <1>1, <2>2 DEF SeedStart
    <3>2. /\ mem' = [c \in Cell |-> mem'[c]]
          /\ \A c \in Cell \ {"seed", "salt"} : mem'[c] = mem[c]
      BY <3>1 DEF Wiped, Cell
    <3>3. /\ at = "seed" /\ at' = "hmac" /\ hmac'.out = "U" /\ hmac'.ret = "seed first"
          /\ task' = task
      BY <1>1, <3>1 DEF SeedStart, Calls, Call
    <3> QED BY <3>2, <3>3 DEF WipeInv, CallInv, CleanInv, Cell
  <2> QED BY <2>1, <2>2
<1>2. CASE SeedFirst \/ SeedXor
  <2>1. /\ mem' = [c \in Cell |-> mem'[c]]
        /\ \A c \in Cell \ {"T"} : mem'[c] = mem[c]
        /\ at \in SeedRets /\ at' = "seed loop" /\ hmac' = hmac /\ task' = task
    BY <1>2 DEF SeedFirst, SeedXor, WipeInv, CleanInv, Cell
  <2> QED BY <2>1 DEF WipeInv, CallInv, CleanInv, Cell
<1>3. CASE SeedLoop
  <2>1. /\ at = "seed loop" /\ at' = "hmac"
        /\ hmac'.out = "U" /\ hmac'.ret = "seed xor" /\ task' = task
    BY <1>3 DEF SeedLoop, Calls, Call
  <2>2. mem' = [c \in Cell |-> mem'[c]] /\ \A c \in Cell : mem'[c] = mem[c]
    BY <1>3 DEF SeedLoop, WipeInv, CleanInv
  <2> QED BY <2>1, <2>2 DEF WipeInv, CallInv, CleanInv, Cell
<1>4. CASE SeedEnd
  <2>1. /\ at = "seed loop" /\ at' = "seeded" /\ hmac' = hmac /\ task' = task
        /\ mem' = [c \in Cell |-> mem'[c]]
        /\ \A c \in Cell \ {"seed", "salt", "U", "T"} : mem'[c] = mem[c]
        /\ \A c \in {"salt", "U", "T"} : mem'[c] = Zero
    BY <1>4 DEF Wiped, SeedEnd, WipeInv, CleanInv, Cell
  <2> QED BY <2>1 DEF WipeInv, CallInv, CleanInv, Cell
<1> QED BY <1>1, <1>2, <1>3, <1>4

LEMMA SlipKeeps ==
  WipeInv /\ (MasterStart \/ MasterEnd \/ ChildStart \/ ChildEnd \/ ChildCopy) => WipeInv'
<1> SUFFICES ASSUME WipeInv, MasterStart \/ MasterEnd \/ ChildStart \/ ChildEnd \/ ChildCopy
             PROVE  WipeInv'
  OBVIOUS
<1> USE DEF HmacAt, For, SeedRets, SlipRets, Clean
<1>1. CASE MasterStart
  <2>1. /\ at \in {"seeded", "master"}
        /\ mem' = [c \in Cell |-> mem'[c]]
        /\ \A c \in Cell \ {"kL", "cc"} : mem'[c] = mem[c]
        /\ mem'["cc"] = Zero
    BY <1>1 DEF Wiped, MasterStart, Cell
  <2>2. \/ Calls(Call("ed25519 seed", 12, "seed", SeedLen, "I", "master end"))
        \/ at' = "end" /\ hmac' = hmac /\ task' = task /\ task.what # "address"
    <3>1. SeedLen \notin 1 .. 128 => task.what # "address"
      <4>1. 64 \in 1 .. 128
        OBVIOUS
      <4> QED BY <4>1 DEF SeedLen
    <3> QED BY <1>1, <3>1 DEF MasterStart
  <2>3. \/ at' = "hmac" /\ hmac'.out = "I" /\ hmac'.ret = "master end" /\ task' = task
        \/ at' = "end" /\ hmac' = hmac /\ task' = task /\ task.what # "address"
    <3>1. CASE Calls(Call("ed25519 seed", 12, "seed", SeedLen, "I", "master end"))
      BY <3>1 DEF Calls, Call
    <3> QED BY <2>2, <3>1
  <2> QED BY <2>1, <2>3 DEF WipeInv, CallInv, CleanInv, Cell
<1>2. CASE MasterEnd
  <2>1. /\ at = "master end" /\ at' = "child" /\ hmac' = hmac /\ task' = task
        /\ mem' = [c \in Cell |-> mem'[c]]
        /\ \A c \in Cell \ {"kL", "cc", "I"} : mem'[c] = mem[c]
        /\ mem'["I"] = Zero
    BY <1>2 DEF Wiped, MasterEnd, WipeInv, CleanInv, Cell
  <2> QED BY <2>1 DEF WipeInv, CallInv, CleanInv, Cell
<1>3. CASE ChildStart
  <2>1. /\ at = "child" /\ at' = "hmac" /\ hmac'.out = "I" /\ hmac'.ret = "child end"
        /\ task' = task
        /\ mem' = [c \in Cell |-> mem'[c]]
        /\ \A c \in Cell \ {"data"} : mem'[c] = mem[c]
    BY <1>3 DEF ChildStart, Calls, Call, WipeInv, CleanInv, Cell
  <2> QED BY <2>1 DEF WipeInv, CallInv, CleanInv, Cell
<1>4. CASE ChildEnd
  <2>1. /\ at = "child end" /\ at' = "child copy" /\ hmac' = hmac /\ task' = task
        /\ mem' = [c \in Cell |-> mem'[c]]
        /\ \A c \in Cell \ {"kL", "cc", "nkL", "ncc", "data", "I"} : mem'[c] = mem[c]
        /\ mem'["data"] = Zero /\ mem'["I"] = Zero
        /\ task.inPlace => mem'["nkL"] = mem["nkL"] /\ mem'["ncc"] = mem["ncc"]
    BY <1>4 DEF Wiped, ChildEnd, OutKey, OutChain, WipeInv, CleanInv, Cell
  <2> QED BY <2>1 DEF WipeInv, CallInv, CleanInv, Cell
<1>5. CASE ChildCopy
  <2>1. /\ at = "child copy" /\ at' = "child" /\ hmac' = hmac /\ task' = task
        /\ mem' = [c \in Cell |-> mem'[c]]
        /\ \A c \in Cell \ {"kL", "cc", "nkL", "ncc"} : mem'[c] = mem[c]
        /\ ~task.inPlace => mem'["nkL"] = Zero /\ mem'["ncc"] = Zero
        /\ task.inPlace => mem'["nkL"] = mem["nkL"] /\ mem'["ncc"] = mem["ncc"]
    BY <1>5 DEF Wiped, ChildCopy, WipeInv, CleanInv, Cell
  <2> QED BY <2>1, ZenonT(60) DEF WipeInv, CallInv, CleanInv, Cell
<1> QED BY <1>1, <1>2, <1>3, <1>4, <1>5

LEMMA AddressKeeps == WipeInv /\ (PathEnd \/ AddressStep) => WipeInv'
<1> SUFFICES ASSUME WipeInv, PathEnd \/ AddressStep
             PROVE  WipeInv'
  OBVIOUS
<1> USE DEF HmacAt, For, SeedRets, SlipRets, Clean
<1>1. CASE PathEnd
  <2>1. /\ at = "child" /\ at' = (IF task.what = "address" THEN "public key" ELSE "end")
        /\ hmac' = hmac /\ task' = task
        /\ mem' = [c \in Cell |-> mem'[c]]
        /\ \A c \in Cell \ {"cc"} : mem'[c] = mem[c]
        /\ mem'["cc"] = Zero
    BY <1>1 DEF PathEnd, Wiped, Cell
  <2> QED BY <2>1 DEF WipeInv, CallInv, CleanInv, Cell
<1>2. CASE KeypairMade
  <2>1. /\ at = "public key" /\ at' = "keypair wipe" /\ hmac' = hmac /\ task' = task
        /\ mem' = [c \in Cell |-> mem'[c]]
        /\ \A c \in Cell \ {"pub", "priv_tmp"} : mem'[c] = mem[c]
    BY <1>2 DEF KeypairMade, WipeInv, CleanInv, Cell
  <2> QED BY <2>1 DEF WipeInv, CallInv, CleanInv, Cell
<1>3. CASE KeypairWipe
  <2>1. /\ at = "keypair wipe" /\ at' = "base58" /\ hmac' = hmac /\ task' = task
        /\ mem' = [c \in Cell |-> mem'[c]]
        /\ \A c \in Cell \ {"priv_tmp"} : mem'[c] = mem[c]
        /\ mem'["priv_tmp"] = Zero
    BY <1>3 DEF KeypairWipe, Wiped, Cell
  <2> QED BY <2>1 DEF WipeInv, CallInv, CleanInv, Cell
<1>4. CASE AddressEncoded
  <2>1. /\ at = "base58" /\ at' = "address wipe" /\ hmac' = hmac /\ task' = task
        /\ mem' = [c \in Cell |-> mem'[c]]
        /\ \A c \in Cell \ {"address"} : mem'[c] = mem[c]
    BY <1>4 DEF AddressEncoded, WipeInv, CleanInv, Cell
  <2> QED BY <2>1 DEF WipeInv, CallInv, CleanInv, Cell
<1>5. CASE AddressWipe
  <2>1. /\ at = "address wipe" /\ at' = "end" /\ hmac' = hmac /\ task' = task
        /\ mem' = [c \in Cell |-> mem'[c]]
        /\ \A c \in Cell \ {"kL", "pub", "seed"} : mem'[c] = mem[c]
        /\ \A c \in {"kL", "pub", "seed"} : mem'[c] = Zero
    BY <1>5 DEF AddressWipe, Wiped, Cell
  <2> QED BY <2>1 DEF WipeInv, CallInv, CleanInv, Cell
<1> QED BY <1>1, <1>2, <1>3, <1>4, <1>5 DEF AddressStep

LEMMA WipeStep == WipeInv /\ [DerivationNext]_derivationVars => WipeInv'
<1> SUFFICES ASSUME WipeInv, [DerivationNext]_derivationVars
             PROVE  WipeInv'
  OBVIOUS
<1>1. CASE UNCHANGED derivationVars
  <2>1. /\ at' = at /\ hmac' = hmac /\ task' = task
        /\ mem' = [c \in Cell |-> mem'[c]]
        /\ \A c \in Cell : mem'[c] = mem[c]
    BY <1>1 DEF derivationVars, WipeInv, CleanInv
  <2> QED BY <2>1 DEF WipeInv, CallInv, CleanInv, Cell, HmacAt, For, SeedRets, SlipRets, Clean
<1> QED BY <1>1, HmacKeeps, SeedKeeps, SlipKeeps, AddressKeeps
        DEF DerivationNext, HmacStep, AddressStep

\* When any of the functions of wallet_core.cpp from the words to the address
\* returns, by whichever exit and with buffers aliased or not, none of the buffers
\* it declared holds key material: those of hmac_sha512 with its padded keys, the
\* U and T of PBKDF2, the chain codes, the private half of the keypair, and after
\* the address the private key and the seed.
THEOREM NothingOnTheStack == DerivationSpec => []TemporariesWiped
<1>1. WipeInv => TemporariesWiped
  BY DEF WipeInv, CleanInv, TemporariesWiped, HmacAt, For, SeedRets, SlipRets, Clean
<1> QED BY <1>1, WipeInit, WipeStep, PTL DEF DerivationSpec

-----------------------------------------------------------------------------
(* What is computed.                                                         *)

\* The terms keep apart what was computed differently.
LEMMA HashKeepsApart ==
  \A key, long, x, y : /\ Rfc2104(key, long, x) = Rfc2104(key, long, y) => x = y
                       /\ Rfc2104(key, long, x) # Named("salt")
BY DEF Rfc2104, Sha512, Joined, PadOf, Named

PRF(text) == Rfc2104(Named("mnemonic"), task.mlen > 128, text)

\* U_1 to U_c of RFC 8018, for the mnemonic and passphrase of the task.
Iterates[n \in 1 .. Rounds] == PRF(IF n = 1 THEN Named("salt") ELSE Iterates[n - 1])

LEMMA IteratesStep ==
  /\ Iterates[1] = PRF(Named("salt"))
  /\ \A n \in 1 .. Rounds - 1 : Iterates[n + 1] = PRF(Iterates[n])
<1> DEFINE Table(U, m) == U = [n \in 1 .. m |-> PRF(IF n = 1 THEN Named("salt") ELSE U[n - 1])]
           Reached == {m \in Nat : \E U : Table(U, m)}
<1>1. Rounds \in Nat /\ Rounds >= 1
  BY DerivationAssumption
<1>2. 0 \in Reached
  <2> DEFINE U == [n \in 1 .. 0 |-> Named("salt")]
  <2>1. Table(U, 0)
    OBVIOUS
  <2> HIDE DEF U, Table
  <2> QED BY <2>1
<1>3. ASSUME NEW m \in Nat, m \in Reached
      PROVE  m + 1 \in Reached
  <2>1. PICK U : Table(U, m)
    BY <1>3
  <2> DEFINE last == PRF(IF m + 1 = 1 THEN Named("salt") ELSE U[m])
             V == [n \in 1 .. m + 1 |-> IF n = m + 1 THEN last ELSE U[n]]
  <2>2. \A n \in 1 .. m : U[n] = PRF(IF n = 1 THEN Named("salt") ELSE U[n - 1])
    BY <2>1
  <2>3. ASSUME NEW n \in 1 .. m + 1
        PROVE  V[n] = PRF(IF n = 1 THEN Named("salt") ELSE V[n - 1])
    <3>1. CASE n = m + 1
      <4>1. n # 1 => V[n - 1] = U[m]
        BY <3>1
      <4>2. V[n] = last
        BY <3>1
      <4> QED BY <3>1, <4>1, <4>2
    <3>2. CASE n # m + 1
      <4>1. n \in 1 .. m /\ V[n] = U[n] /\ (n # 1 => V[n - 1] = U[n - 1])
        BY <3>2
      <4> HIDE DEF V
      <4> QED BY <2>2, <4>1
    <3> QED BY <3>1, <3>2
  <2>4. V = [n \in 1 .. m + 1 |-> V[n]]
    OBVIOUS
  <2> HIDE DEF V
  <2>5. Table(V, m + 1)
    BY <2>3, <2>4
  <2> HIDE DEF Table
  <2> QED BY <2>5
<1>4. \E U : Table(U, Rounds)
  <2> HIDE DEF Reached
  <2>1. \A n \in Nat : n \in Reached
    BY <1>2, <1>3, FromZero
  <2>2. Rounds \in Reached
    BY <1>1, <2>1
  <2> QED BY <2>2 DEF Reached
<1>5. Table(Iterates, Rounds)
  <2>1. Iterates = CHOOSE U : Table(U, Rounds)
    BY DEF Iterates
  <2> HIDE DEF Table
  <2> QED BY <1>4, <2>1
<1>6. \A n \in 1 .. Rounds : Iterates[n] = PRF(IF n = 1 THEN Named("salt") ELSE Iterates[n - 1])
  BY <1>5
<1>7. ASSUME NEW n \in 1 .. Rounds - 1
      PROVE  Iterates[n + 1] = PRF(Iterates[n])
  <2>1. n + 1 \in 1 .. Rounds /\ n + 1 # 1 /\ (n + 1) - 1 = n
    BY <1>1
  <2> QED BY <1>6, <2>1
<1>8. 1 \in 1 .. Rounds
  BY <1>1
<1> QED BY <1>6, <1>7, <1>8

\* No two of them are the same, so that none cancels another.
LEMMA IteratesDiffer ==
  \A n \in 1 .. Rounds : \A m \in 1 .. n - 1 : Iterates[m] # Iterates[n]
<1> DEFINE Reached == {m \in Nat : \A n \in 1 .. Rounds : m < n => Iterates[m] # Iterates[n]}
<1>1. Rounds \in Nat
  BY DerivationAssumption
<1>2. /\ Iterates[1] = PRF(Named("salt"))
      /\ \A n \in 1 .. Rounds - 1 : Iterates[n + 1] = PRF(Iterates[n])
  BY IteratesStep
<1>3. \A x, y : (PRF(x) = PRF(y) => x = y) /\ PRF(x) # Named("salt")
  BY HashKeepsApart DEF PRF
<1>4. 1 \in Reached
  <2> SUFFICES ASSUME NEW n \in 1 .. Rounds, 1 < n
               PROVE  Iterates[1] # Iterates[n]
    OBVIOUS
  <2>1. n - 1 \in 1 .. Rounds - 1 /\ (n - 1) + 1 = n
    BY <1>1
  <2>2. Iterates[n] = PRF(Iterates[n - 1])
    BY <1>2, <2>1
  <2>3. \E x : Iterates[n - 1] = PRF(x)
    <3>1. CASE n - 1 = 1
      BY <1>2, <3>1
    <3>2. CASE n - 1 # 1
      <4>1. n - 2 \in 1 .. Rounds - 1 /\ (n - 2) + 1 = n - 1
        BY <1>1, <2>1, <3>2
      <4>2. Iterates[n - 1] = PRF(Iterates[n - 2])
        BY <1>2, <4>1
      <4> QED BY <4>2
    <3> QED BY <3>1, <3>2
  <2> QED BY <1>2, <1>3, <2>2, <2>3
<1>5. ASSUME NEW m \in Nat, m >= 1, m \in Reached
      PROVE  m + 1 \in Reached
  <2> SUFFICES ASSUME NEW n \in 1 .. Rounds, m + 1 < n
               PROVE  Iterates[m + 1] # Iterates[n]
    OBVIOUS
  <2>1. m \in 1 .. Rounds - 1 /\ n - 1 \in 1 .. Rounds - 1 /\ n - 1 \in 1 .. Rounds
        /\ (n - 1) + 1 = n /\ m < n - 1
    BY <1>1, <1>5
  <2>2. Iterates[m + 1] = PRF(Iterates[m]) /\ Iterates[n] = PRF(Iterates[n - 1])
    BY <1>2, <2>1
  <2>3. Iterates[m] # Iterates[n - 1]
    BY <1>5, <2>1
  <2> QED BY <1>3, <2>2, <2>3
<1>6. \A m \in Nat : m >= 1 => m \in Reached
  <2> HIDE DEF Reached
  <2> QED BY <1>4, <1>5, Upwards
<1> SUFFICES ASSUME NEW n \in 1 .. Rounds, NEW m \in 1 .. n - 1
             PROVE  Iterates[m] # Iterates[n]
  OBVIOUS
<1>7. m \in Nat /\ m >= 1 /\ m < n
  BY <1>1
<1> QED BY <1>6, <1>7

UpTo(n) == {Iterates[i] : i \in 1 .. n}

LEMMA SeedOfIterates ==
  task.what = "address" => TheSeed = XorOf(UpTo(Rounds))
<1> SUFFICES ASSUME task.what = "address" PROVE TheSeed = XorOf(UpTo(Rounds))
  OBVIOUS
<1>1. TheSeed = Rfc8018(Named("mnemonic"), task.mlen > 128, Named("salt"))
  BY DEF TheSeed
<1>2. Rfc8018(Named("mnemonic"), task.mlen > 128, Named("salt")) = XorOf(UpTo(Rounds))
  BY DEF Rfc8018, UpTo, Iterates, PRF
<1> QED BY <1>1, <1>2

\* Exclusive or with the next iterate adds it.
LEMMA XorNext ==
  ASSUME NEW n \in 1 .. Rounds - 1
  PROVE  LET terms == UpTo(n)
             u == Iterates[n + 1]
         IN  (terms \ {u}) \cup ({u} \ terms) = UpTo(n + 1)
<1> DEFINE terms == UpTo(n)
           u == Iterates[n + 1]
<1>1. Rounds \in Nat /\ n \in Nat /\ n + 1 \in 1 .. Rounds
  BY DerivationAssumption
<1>2. \A i \in 1 .. n : Iterates[i] # u
  <2>1. \A i \in 1 .. n : i \in 1 .. (n + 1) - 1
    BY <1>1
  <2> QED BY <1>1, <2>1, IteratesDiffer
<1>3. u \notin terms
  BY <1>2 DEF UpTo
<1>4. \A x : x \in UpTo(n + 1) <=> x \in terms \/ x = u
  <2>1. \A i : i \in 1 .. n + 1 <=> i \in 1 .. n \/ i = n + 1
    BY <1>1
  <2> QED BY <2>1 DEF UpTo
<1> HIDE DEF terms, u
<1>5. (terms \ {u}) \cup ({u} \ terms) = UpTo(n + 1)
  BY <1>3, <1>4
<1> QED BY <1>5 DEF terms, u

\* Key and chain code after n steps.
KeyAt(n) == Slip10(TheSeed)[n]

ChildOf(pair, index) == Rfc2104(pair[2], FALSE, ChildInput(pair[1], <<TRUE, index>>))

LEMMA SlipSteps ==
  /\ KeyAt(0) = <<Left(Rfc2104(Named("ed25519 seed"), FALSE, TheSeed)),
                  Right(Rfc2104(Named("ed25519 seed"), FALSE, TheSeed))>>
  /\ \A n \in 0 .. 3 : KeyAt(n + 1) = <<Left(ChildOf(KeyAt(n), Path[n + 1])),
                                        Right(ChildOf(KeyAt(n), Path[n + 1]))>>
<1> DEFINE first == <<Left(Rfc2104(Named("ed25519 seed"), FALSE, TheSeed)),
                      Right(Rfc2104(Named("ed25519 seed"), FALSE, TheSeed))>>
           Next1(pair, n) == <<Left(ChildOf(pair, Path[n])), Right(ChildOf(pair, Path[n]))>>
           Table(F) == F = [n \in 0 .. 4 |-> IF n = 0 THEN first ELSE Next1(F[n - 1], n)]
<1>1. Len(Path) = 4
  BY DEF Path
<1>2. Slip10(TheSeed) = CHOOSE F : Table(F)
  BY <1>1 DEF Slip10, ChildOf
<1>3. \E F : Table(F)
  <2> DEFINE k1 == Next1(first, 1)
             k2 == Next1(k1, 2)
             k3 == Next1(k2, 3)
             k4 == Next1(k3, 4)
             F == [n \in 0 .. 4 |-> IF n = 0 THEN first ELSE IF n = 1 THEN k1
                                    ELSE IF n = 2 THEN k2 ELSE IF n = 3 THEN k3 ELSE k4]
  <2> HIDE DEF Next1, first, k1, k2, k3, k4
  <2>1. F[0] = first /\ F[1] = k1 /\ F[2] = k2 /\ F[3] = k3 /\ F[4] = k4
    OBVIOUS
  <2>2. \A n \in 1 .. 4 : F[n] = Next1(F[n - 1], n)
    <3> SUFFICES ASSUME NEW n \in 1 .. 4 PROVE F[n] = Next1(F[n - 1], n)
      OBVIOUS
    <3>1. n = 1 \/ n = 2 \/ n = 3 \/ n = 4
      OBVIOUS
    <3> HIDE DEF F
    <3>2. CASE n = 1
      BY <2>1, <3>2 DEF k1
    <3>3. CASE n = 2
      BY <2>1, <3>3 DEF k2
    <3>4. CASE n = 3
      BY <2>1, <3>4 DEF k3
    <3>5. CASE n = 4
      BY <2>1, <3>5 DEF k4
    <3> QED BY <3>1, <3>2, <3>3, <3>4, <3>5
  <2>3. F = [n \in 0 .. 4 |-> F[n]]
    OBVIOUS
  <2> HIDE DEF F, k1, k2, k3, k4
  <2>4. Table(F)
    BY <2>1, <2>2, <2>3
  <2> HIDE DEF Table
  <2> QED BY <2>4
<1>4. Table(Slip10(TheSeed))
  <2> HIDE DEF Table
  <2> QED BY <1>2, <1>3
<1> HIDE DEF Next1, first
<1>5. KeyAt(0) = first /\ \A n \in 1 .. 4 : KeyAt(n) = Next1(KeyAt(n - 1), n)
  BY <1>4 DEF KeyAt
<1>6. ASSUME NEW n \in 0 .. 3
      PROVE  KeyAt(n + 1) = Next1(KeyAt(n), n + 1)
  <2>1. n + 1 \in 1 .. 4 /\ (n + 1) - 1 = n
    OBVIOUS
  <2> QED BY <1>5, <2>1
<1> QED BY <1>5, <1>6 DEF Next1, first

-----------------------------------------------------------------------------
(* What is where.                                                            *)

\* What the call of hmac_sha512 that returns to here is to compute.
Due(ret) ==
  CASE ret = "seed first" -> Iterates[1]
    [] ret = "seed xor"   -> Iterates[turn + 1]
    [] ret = "master end" -> Rfc2104(Named("ed25519 seed"), FALSE, TheSeed)
    [] ret = "child end"  -> ChildOf(KeyAt(turn), Path[turn + 1])

\* HMAC once the key fits the block.
Keyed(k, text) == Sha512(Joined(PadOf(k, "opad"), Sha512(Joined(PadOf(k, "ipad"), text))))

\* How far each statement of hmac_sha512 has brought it.
HmacInv ==
  /\ at \in HmacAt =>
       /\ hmac.key \in {"mnemonic", "ed25519 seed", "cc"}
       /\ hmac.data \in {"salt", "U", "seed", "data"}
       /\ hmac.datalen \in 0 .. MNEMONIC_MAX_LEN
  /\ at \in {"hmac", "hmac key"} =>
       Rfc2104(mem[hmac.key], LongKey, mem[hmac.data]) = Due(hmac.ret)
  /\ at = "hmac hashed" => Keyed(mem["hkey"], mem[hmac.data]) = Due(hmac.ret)
  /\ at = "hmac pads" => Keyed(mem["k"], mem[hmac.data]) = Due(hmac.ret)
  /\ at = "hmac inner" =>
       Sha512(Joined(mem["opad"], Sha512(Joined(mem["ipad"], mem[hmac.data])))) = Due(hmac.ret)
  /\ at = "hmac outer" => Sha512(Joined(mem["opad"], mem["h"])) = Due(hmac.ret)
  /\ at = "hmac wipe" => mem[hmac.out] = Due(hmac.ret)
  /\ at \in SeedRets => mem["U"] = Due(at)
  /\ at \in SlipRets => mem["I"] = Due(at)

\* Where the caller is, if need be after hmac_sha512 has returned.
Caller == IF at \in HmacAt THEN hmac.ret ELSE at

\* The statements of wc_solana_address after the path.
AddressAt == {"public key", "keypair wipe", "base58", "address wipe"}

PairIn(key, chain) == <<mem[key], mem[chain]>>

SeedInv ==
  /\ Caller \in {"seed", "seed first", "seed loop", "seed xor", "seeded"} =>
       task.what = "address" /\ mem["address"] = Garbage
  /\ Caller \in {"seed", "seed first", "seeded"} => turn = 0
  /\ Caller = "seed xor" => turn \in 1 .. Rounds - 1
  /\ Caller = "seed loop" => turn \in 1 .. Rounds /\ mem["U"] = Iterates[turn]
  /\ Caller \in {"seed loop", "seed xor"} => mem["T"] = XorOf(UpTo(turn))

SlipInv ==
  /\ Caller = "master" => task.what = "children"
  /\ Caller \in {"seeded", "master"} => mem["seed"] = TheSeed
  /\ Caller \in {"master", "master end"} => turn = 0
  /\ Caller = "child" => turn \in 0 .. 4 /\ PairIn("kL", "cc") = KeyAt(turn)
  /\ Caller \in {"child end", "child copy"} => turn \in 0 .. 3
  /\ Caller = "child copy" => PairIn(OutKey, OutChain) = KeyAt(turn + 1)
  /\ Caller \in AddressAt => task.what = "address" /\ answer
  /\ Caller = "public key" => mem["kL"] = KeyAt(4)[1]
  /\ Caller \in {"keypair wipe", "base58"} => mem["pub"] = PublicKey(KeyAt(4)[1])
  /\ Caller = "address wipe" => mem["address"] = Base58Of(PublicKey(KeyAt(4)[1]))
  /\ Caller \in {"seeded", "child", "child end", "child copy"} => answer
  /\ Caller = "master end" /\ task.what = "address" => answer

EndInv ==
  at = "end" =>
    /\ answer => IF task.what = "address" THEN mem["address"] = Base58Of(PublicKey(KeyAt(4)[1]))
                 ELSE mem["kL"] = KeyAt(4)[1]
    /\ task.what = "address" /\ ~answer => mem["seed"] = Zero /\ mem["address"] = Garbage

InputInv ==
  /\ task \in Tasks
  /\ mem["mnemonic"] = Named("mnemonic") /\ mem["ed25519 seed"] = Named("ed25519 seed")

DerivedInv == WipeInv /\ HmacInv /\ SeedInv /\ SlipInv /\ EndInv /\ InputInv

\* What is to be computed is up to the task alone.
LEMMA SameTargets ==
  task' = task =>
    /\ (Iterates)' = Iterates
    /\ (TheSeed)' = TheSeed
    /\ \A n : UpTo(n)' = UpTo(n)
    /\ \A n : KeyAt(n)' = KeyAt(n)
<1> SUFFICES ASSUME task' = task
             PROVE  /\ (Iterates)' = Iterates
                    /\ (TheSeed)' = TheSeed
                    /\ \A n : UpTo(n)' = UpTo(n)
                    /\ \A n : KeyAt(n)' = KeyAt(n)
  OBVIOUS
<1>1. (Iterates)' = Iterates
  BY DEF Iterates, PRF
<1>2. (TheSeed)' = TheSeed
  BY DEF TheSeed
<1>3. \A n : UpTo(n)' = UpTo(n)
  BY <1>1 DEF UpTo
<1>4. \A n : KeyAt(n)' = KeyAt(n)
  BY <1>2 DEF KeyAt
<1> QED BY <1>1, <1>2, <1>3, <1>4

LEMMA SameDue ==
  task' = task /\ turn' = turn => \A ret : Due(ret)' = Due(ret)
BY SameTargets DEF Due

\* Elsewhere than in its own buffers and the output hmac_sha512 changes nothing.
Scratch == {"hkey", "k", "ipad", "opad", "inner", "h", "U", "I"}

LEMMA HmacFrame ==
  WipeInv /\ HmacStep =>
    /\ Caller \in SeedRets \cup SlipRets /\ Caller' = Caller /\ at' # "end"
    /\ UNCHANGED <<hmac, turn, task, answer>>
    /\ \A c \in Cell \ Scratch : mem'[c] = mem[c]
<1> SUFFICES ASSUME WipeInv, HmacStep
             PROVE  /\ Caller \in SeedRets \cup SlipRets /\ Caller' = Caller /\ at' # "end"
                    /\ UNCHANGED <<hmac, turn, task, answer>>
                    /\ \A c \in Cell \ Scratch : mem'[c] = mem[c]
  OBVIOUS
<1>1. /\ at \in HmacAt /\ (at' \in HmacAt \/ at' = hmac.ret)
      /\ UNCHANGED <<hmac, turn, task, answer>>
  BY DEF HmacStep, HmacCheck, HashLongKey, CopyLongKey, HmacKey, HmacPads, HmacInner, HmacOuter,
         HmacWipe, HmacAt
<1>2. hmac.ret \in SeedRets \cup SlipRets /\ hmac.out \in {"U", "I"}
  BY <1>1 DEF WipeInv, CallInv, For
<1>3. Caller \in SeedRets \cup SlipRets /\ Caller' = Caller /\ at' # "end"
  BY <1>1, <1>2 DEF Caller, SeedRets, SlipRets, HmacAt
<1>4. \A c \in Cell \ Scratch : mem'[c] = mem[c]
  <2>1. CASE HmacCheck \/ HmacInner \/ HmacOuter
    BY <1>2, <2>1 DEF WipeInv, CleanInv, HmacCheck, OutUntouched, HmacInner, HmacOuter, Scratch
  <2>2. CASE HashLongKey \/ HmacKey \/ HmacPads
    BY <2>2 DEF WipeInv, CleanInv, HashLongKey, HmacKey, HmacPads, Scratch
  <2>3. CASE CopyLongKey
    BY <2>3 DEF WipeInv, CleanInv, CopyLongKey, Wiped, Scratch
  <2>4. CASE HmacWipe
    BY <2>4 DEF HmacWipe, Wiped, Workspace, Scratch
  <2> QED BY <2>1, <2>2, <2>3, <2>4 DEF HmacStep
<1> QED BY <1>1, <1>3, <1>4

LEMMA HmacComputes == WipeInv /\ HmacInv /\ HmacStep => HmacInv'
<1> SUFFICES ASSUME WipeInv, HmacInv, HmacStep
             PROVE  HmacInv'
  OBVIOUS
<1>1. /\ hmac' = hmac /\ \A ret : Due(ret)' = Due(ret)
      /\ \A c \in Cell \ Scratch : mem'[c] = mem[c]
  BY HmacFrame, SameDue
<1>2. /\ at \in HmacAt
      /\ hmac.key \in {"mnemonic", "ed25519 seed", "cc"}
      /\ hmac.data \in {"salt", "U", "seed", "data"}
      /\ hmac.datalen \in 0 .. MNEMONIC_MAX_LEN
      /\ hmac.ret \in SeedRets \/ hmac.ret \in SlipRets
      /\ hmac.ret \in SeedRets => hmac.out = "U"
      /\ hmac.ret \in SlipRets => hmac.out = "I"
  BY DEF HmacStep, HmacCheck, HashLongKey, CopyLongKey, HmacKey, HmacPads, HmacInner, HmacOuter,
         HmacWipe, HmacAt, HmacInv, WipeInv, CallInv, For
<1>3. (LongKey)' = LongKey
  BY <1>1 DEF LongKey
<1>4. mem = [c \in Cell |-> mem[c]]
  BY DEF WipeInv, CleanInv
<1>5. CASE HmacCheck
  <2>1. ~(hmac.datalen > MNEMONIC_MAX_LEN)
    <3> DEFINE n == hmac.datalen
    <3>1. n \in 0 .. 240
      BY <1>2 DEF MNEMONIC_MAX_LEN
    <3> HIDE DEF n
    <3>2. ~(n > 240)
      BY <3>1
    <3> QED BY <3>2 DEF n, MNEMONIC_MAX_LEN
  <2>2. at = "hmac" /\ at' = "hmac key" /\ mem' = mem
    BY <1>5, <2>1 DEF HmacCheck, OutUntouched
  <2>3. Rfc2104(mem[hmac.key], LongKey, mem[hmac.data]) = Due(hmac.ret)
    BY <2>2 DEF HmacInv
  <2>4. (Rfc2104(mem[hmac.key], LongKey, mem[hmac.data]) = Due(hmac.ret))'
    BY <1>1, <1>3, <2>2, <2>3
  <2> QED BY <1>1, <1>2, <2>2, <2>4 DEF HmacInv, HmacAt, SeedRets, SlipRets
<1>6. CASE HashLongKey
  <2>1. /\ at = "hmac key" /\ at' = "hmac hashed" /\ LongKey
        /\ mem'["hkey"] = Sha512(mem[hmac.key]) /\ mem'[hmac.data] = mem[hmac.data]
    BY <1>2, <1>4, <1>6 DEF HashLongKey, Cell
  <2>2. Keyed(Sha512(mem[hmac.key]), mem[hmac.data]) = Due(hmac.ret)
    BY <2>1 DEF HmacInv, Rfc2104, Keyed
  <2>3. (Keyed(mem["hkey"], mem[hmac.data]) = Due(hmac.ret))'
    BY <1>1, <2>1, <2>2 DEF Keyed, Sha512, Joined, PadOf
  <2> QED BY <1>1, <1>2, <2>1, <2>3 DEF HmacInv, HmacAt, SeedRets, SlipRets
<1>7. CASE CopyLongKey
  <2>1. /\ at = "hmac hashed" /\ at' = "hmac pads"
        /\ mem'["k"] = mem["hkey"] /\ mem'[hmac.data] = mem[hmac.data]
    BY <1>2, <1>4, <1>7 DEF CopyLongKey, Wiped, Cell
  <2>2. Keyed(mem["hkey"], mem[hmac.data]) = Due(hmac.ret)
    BY <2>1 DEF HmacInv
  <2>3. (Keyed(mem["k"], mem[hmac.data]) = Due(hmac.ret))'
    BY <1>1, <2>1, <2>2 DEF Keyed, Sha512, Joined, PadOf
  <2> QED BY <1>1, <1>2, <2>1, <2>3 DEF HmacInv, HmacAt, SeedRets, SlipRets
<1>8. CASE HmacKey
  <2>1. /\ at = "hmac key" /\ at' = "hmac pads" /\ ~LongKey
        /\ mem'["k"] = mem[hmac.key] /\ mem'[hmac.data] = mem[hmac.data]
    BY <1>2, <1>4, <1>8 DEF HmacKey, Cell
  <2>2. Keyed(mem[hmac.key], mem[hmac.data]) = Due(hmac.ret)
    BY <2>1 DEF HmacInv, Rfc2104, Keyed
  <2>3. (Keyed(mem["k"], mem[hmac.data]) = Due(hmac.ret))'
    BY <1>1, <2>1, <2>2 DEF Keyed, Sha512, Joined, PadOf
  <2> QED BY <1>1, <1>2, <2>1, <2>3 DEF HmacInv, HmacAt, SeedRets, SlipRets
<1>9. CASE HmacPads
  <2>1. /\ at = "hmac pads" /\ at' = "hmac inner"
        /\ mem'["ipad"] = PadOf(mem["k"], "ipad") /\ mem'["opad"] = PadOf(mem["k"], "opad")
        /\ mem'[hmac.data] = mem[hmac.data]
    BY <1>2, <1>4, <1>9 DEF HmacPads, Cell
  <2>2. Keyed(mem["k"], mem[hmac.data]) = Due(hmac.ret)
    BY <2>1 DEF HmacInv
  <2>3. (Sha512(Joined(mem["opad"], Sha512(Joined(mem["ipad"], mem[hmac.data])))) = Due(hmac.ret))'
    BY <1>1, <2>1, <2>2 DEF Keyed, Sha512, Joined
  <2> QED BY <1>1, <1>2, <2>1, <2>3 DEF HmacInv, HmacAt, SeedRets, SlipRets
<1>10. CASE HmacInner
  <2>1. /\ at = "hmac inner" /\ at' = "hmac outer"
        /\ mem'["h"] = Sha512(Joined(mem["ipad"], mem[hmac.data])) /\ mem'["opad"] = mem["opad"]
    BY <1>4, <1>10 DEF HmacInner, Cell
  <2>2. Sha512(Joined(mem["opad"], Sha512(Joined(mem["ipad"], mem[hmac.data])))) = Due(hmac.ret)
    BY <2>1 DEF HmacInv
  <2>3. (Sha512(Joined(mem["opad"], mem["h"])) = Due(hmac.ret))'
    BY <1>1, <2>1, <2>2 DEF Sha512, Joined
  <2> QED BY <1>1, <1>2, <2>1, <2>3 DEF HmacInv, HmacAt, SeedRets, SlipRets
<1>11. CASE HmacOuter
  <2>1. /\ at = "hmac outer" /\ at' = "hmac wipe"
        /\ mem'[hmac.out] = Sha512(Joined(mem["opad"], mem["h"]))
    BY <1>2, <1>4, <1>11 DEF HmacOuter, Cell
  <2>2. mem'[hmac.out] = Due(hmac.ret)
    BY <2>1 DEF HmacInv
  <2> QED BY <1>1, <1>2, <2>1, <2>2 DEF HmacInv, HmacAt, SeedRets, SlipRets
<1>12. CASE HmacWipe
  <2>1. at = "hmac wipe" /\ at' = hmac.ret /\ mem'["U"] = mem["U"] /\ mem'["I"] = mem["I"]
    BY <1>12 DEF HmacWipe, Wiped, Workspace, Cell
  <2>2. mem[hmac.out] = Due(hmac.ret)
    BY <2>1 DEF HmacInv
  <2> QED BY <1>1, <1>2, <2>1, <2>2 DEF HmacInv, HmacAt, SeedRets, SlipRets
<1> QED BY <1>5, <1>6, <1>7, <1>8, <1>9, <1>10, <1>11, <1>12 DEF HmacStep

LEMMA HmacDerives == DerivedInv /\ HmacStep => DerivedInv'
<1> SUFFICES ASSUME DerivedInv, HmacStep
             PROVE  DerivedInv'
  OBVIOUS
<1>1. /\ Caller \in SeedRets \cup SlipRets /\ Caller' = Caller /\ at' # "end"
      /\ UNCHANGED <<hmac, turn, task, answer>>
      /\ \A c \in Cell \ Scratch : mem'[c] = mem[c]
  BY HmacFrame DEF DerivedInv
<1>2. WipeInv' /\ HmacInv'
  BY HmacKeeps, HmacComputes DEF DerivedInv
<1>3. UpTo(turn)' = UpTo(turn)
  BY <1>1, SameTargets
<1>4. SeedInv'
  BY <1>1, <1>3 DEF DerivedInv, SeedInv, SeedRets, SlipRets, Scratch, Cell
<1>5. SlipInv'
  BY <1>1 DEF DerivedInv, SlipInv, AddressAt, SeedRets, SlipRets
<1>6. EndInv' /\ InputInv'
  BY <1>1 DEF DerivedInv, EndInv, InputInv, Scratch, Cell
<1> QED BY <1>2, <1>4, <1>5, <1>6 DEF DerivedInv

LEMMA TaskShape ==
  task \in Tasks =>
    \/ task.what = "address" /\ task.mlen \in 0 .. 240 /\ task.plen \in 0 .. 64
    \/ task.what = "children"
<1> SUFFICES ASSUME task \in Tasks
             PROVE  \/ task.what = "address" /\ task.mlen \in 0 .. 240 /\ task.plen \in 0 .. 64
                    \/ task.what = "children"
  OBVIOUS
<1>1. MnemonicLengths \subseteq 0 .. 240 /\ PassLengths \subseteq 0 .. 64
  BY DerivationAssumption
<1>2. CASE task \in [what : {"address"}, mlen : MnemonicLengths, plen : PassLengths,
                    seedLen : {0}, inPlace : {FALSE}]
  <2>1. task.what = "address" /\ task.mlen \in MnemonicLengths /\ task.plen \in PassLengths
    BY <1>2
  <2>3. task.mlen \in 0 .. 240 /\ task.plen \in 0 .. 64
    <3> DEFINE upper == 0 .. 240  lower == 0 .. 64
    <3>1. MnemonicLengths \subseteq upper /\ PassLengths \subseteq lower
      BY <1>1
    <3> HIDE DEF upper, lower
    <3>2. task.mlen \in upper /\ task.plen \in lower
      BY <2>1, <3>1
    <3> QED BY <3>2 DEF upper, lower
  <2> QED BY <2>1, <2>3
<1>3. CASE task \in [what : {"children"}, mlen : {0}, plen : {0}, seedLen : SeedLengths,
                    inPlace : BOOLEAN]
  BY <1>3
<1> QED BY <1>2, <1>3 DEF Tasks

LEMMA DerivedInit == DerivationInit => DerivedInv
<1> SUFFICES ASSUME DerivationInit
             PROVE  DerivedInv
  OBVIOUS
<1>1. task \in Tasks /\ turn = 0 /\ answer = FALSE /\ hmac = NoCall
  BY DEF DerivationInit
<1>2. \/ at = "seed" /\ task.what = "address"
      \/ at = "master" /\ task.what = "children"
  BY <1>1, TaskShape DEF DerivationInit
<1>3. /\ mem["mnemonic"] = Named("mnemonic") /\ mem["ed25519 seed"] = Named("ed25519 seed")
      /\ mem["address"] = Garbage /\ (task.what = "children" => mem["seed"] = Named("seed"))
  BY DEF DerivationInit, Fresh, Cell
<1>4. Caller = at
  BY <1>2 DEF Caller, HmacAt
<1>5. HmacInv
  BY <1>2 DEF HmacInv, HmacAt, SeedRets, SlipRets
<1>6. SeedInv
  BY <1>1, <1>2, <1>3, <1>4 DEF SeedInv
<1>7. SlipInv
  BY <1>1, <1>2, <1>3, <1>4 DEF SlipInv, AddressAt, TheSeed
<1> QED BY <1>1, <1>2, <1>3, <1>5, <1>6, <1>7, WipeInit DEF DerivedInv, EndInv, InputInv

LEMMA SeedDerives ==
  DerivedInv /\ (SeedStart \/ SeedFirst \/ SeedLoop \/ SeedXor \/ SeedEnd) => DerivedInv'
<1> SUFFICES ASSUME DerivedInv, SeedStart \/ SeedFirst \/ SeedLoop \/ SeedXor \/ SeedEnd
             PROVE  DerivedInv'
  OBVIOUS
<1>1. /\ WipeInv' /\ task' = task /\ task \in Tasks
      /\ mem["mnemonic"] = Named("mnemonic") /\ mem["ed25519 seed"] = Named("ed25519 seed")
      /\ mem = [c \in Cell |-> mem[c]]
  BY SeedKeeps DEF DerivedInv, InputInv, WipeInv, CleanInv, SeedStart, SeedFirst, SeedLoop,
     SeedXor, SeedEnd, Calls
<1>2. /\ (Iterates)' = Iterates /\ (TheSeed)' = TheSeed
      /\ \A n : UpTo(n)' = UpTo(n)
  BY <1>1, SameTargets
<1>3. Rounds \in Nat /\ Rounds >= 1
  BY DerivationAssumption
<1>4. at \in {"seed", "seed first", "seed loop", "seed xor"} /\ Caller = at
  BY DEF SeedStart, SeedFirst, SeedLoop, SeedXor, SeedEnd, Caller, HmacAt
<1>5. task.what = "address" /\ mem["address"] = Garbage
  BY <1>4 DEF DerivedInv, SeedInv
<1>6. task.mlen \in 0 .. 240 /\ task.plen \in 0 .. 64
  BY <1>1, <1>5, TaskShape
<1>7. CASE SeedStart /\ (task.mlen = MNEMONIC_MAX_LEN \/ task.plen = PASSPHRASE_MAX_LEN)
  <2>1. /\ at' = "end" /\ answer' = FALSE /\ turn' = turn
        /\ mem'["seed"] = Zero /\ mem'["address"] = Garbage
        /\ mem'["mnemonic"] = mem["mnemonic"] /\ mem'["ed25519 seed"] = mem["ed25519 seed"]
    BY <1>5, <1>7 DEF SeedStart, Wiped, Cell
  <2>2. Caller' = "end"
    BY <2>1 DEF Caller, HmacAt
  <2>3. HmacInv' /\ SeedInv' /\ SlipInv'
    BY <1>1, <2>1, <2>2 DEF HmacInv, SeedInv, SlipInv, AddressAt, HmacAt, SeedRets, SlipRets
  <2> QED BY <1>1, <2>1, <2>3 DEF DerivedInv, EndInv, InputInv
<1>8. CASE SeedStart /\ ~(task.mlen = MNEMONIC_MAX_LEN \/ task.plen = PASSPHRASE_MAX_LEN)
  <2>1. /\ mem' = [Wiped(mem, {"seed"}) EXCEPT !["salt"] = Named("salt")]
        /\ Calls(Call("mnemonic", task.mlen, "salt", 8 + task.plen + 4, "U", "seed first"))
    BY <1>8 DEF SeedStart
  <2>2. /\ mem'["mnemonic"] = mem["mnemonic"] /\ mem'["ed25519 seed"] = mem["ed25519 seed"]
        /\ mem'["address"] = Garbage /\ mem'["salt"] = Named("salt")
    BY <1>5, <2>1 DEF Wiped, Cell
  <2>3. /\ hmac'.key = "mnemonic" /\ hmac'.keylen = task.mlen /\ hmac'.data = "salt"
        /\ hmac'.datalen = 8 + task.plen + 4 /\ hmac'.ret = "seed first"
        /\ at' = "hmac" /\ turn' = turn /\ Caller' = "seed first"
    <3>1. /\ hmac' = Call("mnemonic", task.mlen, "salt", 8 + task.plen + 4, "U", "seed first")
          /\ at' = "hmac" /\ UNCHANGED <<turn, task, answer>>
      BY <2>1 DEF Calls
    <3> QED BY <3>1 DEF Call, Caller, HmacAt
  <2>4. hmac'.datalen \in 0 .. 240
    <3>1. 8 + task.plen + 4 \in 0 .. 240
      BY <1>6
    <3> QED BY <2>3, <3>1
  <2>5. (LongKey)' = (task.mlen > 128)
    BY <2>3 DEF LongKey, HashBlock
  <2>6. Rfc2104(Named("mnemonic"), task.mlen > 128, Named("salt")) = Iterates[1]
    BY IteratesStep DEF PRF
  <2>7. (Rfc2104(mem[hmac.key], LongKey, mem[hmac.data]) = Due(hmac.ret))'
    BY <1>1, <1>2, <2>2, <2>3, <2>5, <2>6 DEF Due
  <2>8. HmacInv'
    BY <2>3, <2>4, <2>7 DEF HmacInv, HmacAt, SeedRets, SlipRets, MNEMONIC_MAX_LEN
  <2>9. turn' = 0
    BY <1>8, <2>3 DEF SeedStart, DerivedInv, SeedInv, Caller, HmacAt
  <2>10. SeedInv' /\ SlipInv'
    BY <1>1, <1>5, <2>2, <2>3, <2>9 DEF SeedInv, SlipInv, AddressAt
  <2> QED BY <1>1, <2>2, <2>3, <2>8, <2>10 DEF DerivedInv, EndInv, InputInv
<1>9. CASE SeedFirst
  <2>1. /\ at = "seed first" /\ at' = "seed loop" /\ turn' = 1
        /\ mem'["T"] = XorOf({mem["U"]}) /\ \A c \in Cell \ {"T"} : mem'[c] = mem[c]
    BY <1>1, <1>9 DEF SeedFirst, Cell
  <2>2. mem["U"] = Iterates[1]
    BY <2>1 DEF DerivedInv, HmacInv, SeedRets, Due
  <2>3. {Iterates[1]} = UpTo(1)
    BY DEF UpTo
  <2>4. Caller' = "seed loop"
    BY <2>1 DEF Caller, HmacAt
  <2>5. SeedInv'
    <3>1. turn' \in 1 .. Rounds
      <4>1. turn' = 1
        BY <2>1
      <4> QED BY <1>3, <4>1
    <3>2. (mem["U"] = Iterates[turn])' /\ (mem["T"] = XorOf(UpTo(turn)))'
      BY <1>2, <2>1, <2>2, <2>3 DEF XorOf, Cell
    <3> QED BY <1>1, <1>5, <2>1, <2>4, <3>1, <3>2 DEF SeedInv, Cell
  <2>6. HmacInv' /\ SlipInv'
    BY <2>1, <2>4 DEF HmacInv, SlipInv, AddressAt, HmacAt, SeedRets, SlipRets
  <2> QED BY <1>1, <2>1, <2>5, <2>6 DEF DerivedInv, EndInv, InputInv, Cell
<1>10. CASE SeedLoop
  <2>1. /\ at = "seed loop" /\ turn < Rounds /\ mem' = mem
        /\ Calls(Call("mnemonic", task.mlen, "U", 64, "U", "seed xor"))
    BY <1>10 DEF SeedLoop
  <2>2. /\ hmac'.key = "mnemonic" /\ hmac'.keylen = task.mlen /\ hmac'.data = "U"
        /\ hmac'.datalen = 64 /\ hmac'.ret = "seed xor"
        /\ at' = "hmac" /\ turn' = turn /\ Caller' = "seed xor"
    <3>1. /\ hmac' = Call("mnemonic", task.mlen, "U", 64, "U", "seed xor")
          /\ at' = "hmac" /\ UNCHANGED <<turn, task, answer>>
      BY <2>1 DEF Calls
    <3> QED BY <3>1 DEF Call, Caller, HmacAt
  <2>3. /\ turn \in 1 .. Rounds /\ mem["U"] = Iterates[turn]
        /\ mem["T"] = XorOf(UpTo(turn))
    BY <1>4, <2>1 DEF DerivedInv, SeedInv
  <2>4. turn \in 1 .. Rounds - 1
    <3>1. turn \in 1 .. Rounds /\ turn < Rounds
      BY <2>1, <2>3
    <3> QED BY <1>3, <3>1
  <2>5. (LongKey)' = (task.mlen > 128)
    BY <2>2 DEF LongKey, HashBlock
  <2>6. Rfc2104(Named("mnemonic"), task.mlen > 128, mem["U"]) = Iterates[turn + 1]
    BY <2>3, <2>4, IteratesStep DEF PRF
  <2>7. (Rfc2104(mem[hmac.key], LongKey, mem[hmac.data]) = Due(hmac.ret))'
    BY <1>1, <1>2, <2>1, <2>2, <2>5, <2>6 DEF Due
  <2>8. HmacInv'
    <3>1. hmac'.datalen = 64
      BY <2>2
    <3>2. 64 \in 0 .. 240
      OBVIOUS
    <3>3. hmac'.datalen \in 0 .. 240
      BY <3>1, <3>2
    <3> QED BY <2>2, <2>7, <3>3 DEF HmacInv, HmacAt, SeedRets, SlipRets, MNEMONIC_MAX_LEN
  <2>9. SeedInv' /\ SlipInv'
    BY <1>1, <1>2, <1>5, <2>1, <2>2, <2>3, <2>4 DEF SeedInv, SlipInv, AddressAt, XorOf
  <2> QED BY <1>1, <2>1, <2>2, <2>8, <2>9 DEF DerivedInv, EndInv, InputInv
<1>11. CASE SeedXor
  <2> DEFINE terms == mem["T"][2]
             u == mem["U"]
             sum == (terms \ {u}) \cup ({u} \ terms)
  <2>1. /\ at = "seed xor" /\ at' = "seed loop" /\ turn' = turn + 1
        /\ mem'["T"] = XorOf(sum) /\ \A c \in Cell \ {"T"} : mem'[c] = mem[c]
    BY <1>1, <1>11 DEF SeedXor, Cell
  <2>2. turn \in 1 .. Rounds - 1 /\ mem["T"] = XorOf(UpTo(turn))
    BY <1>4, <2>1 DEF DerivedInv, SeedInv
  <2>3. u = Iterates[turn + 1]
    BY <2>1 DEF DerivedInv, HmacInv, SeedRets, Due
  <2>4. terms = UpTo(turn)
    BY <2>2 DEF XorOf
  <2>5. sum = UpTo(turn + 1)
    <3> HIDE DEF terms, u
    <3> QED BY <2>2, <2>3, <2>4, XorNext
  <2> HIDE DEF terms, u, sum
  <2>6. Caller' = "seed loop"
    BY <2>1 DEF Caller, HmacAt
  <2>7. SeedInv'
    <3>1. turn' \in 1 .. Rounds
      <4>1. turn' = turn + 1 /\ turn \in 1 .. Rounds - 1
        BY <2>1, <2>2
      <4> QED BY <1>3, <4>1
    <3>2. (mem["U"] = Iterates[turn])' /\ (mem["T"] = XorOf(UpTo(turn)))'
      BY <1>2, <2>1, <2>3, <2>5 DEF XorOf, Cell, u
    <3> QED BY <1>1, <1>5, <2>1, <2>6, <3>1, <3>2 DEF SeedInv, Cell
  <2>8. HmacInv' /\ SlipInv'
    BY <2>1, <2>6 DEF HmacInv, SlipInv, AddressAt, HmacAt, SeedRets, SlipRets
  <2> QED BY <1>1, <2>1, <2>7, <2>8 DEF DerivedInv, EndInv, InputInv, Cell
<1>12. CASE SeedEnd
  <2>1. /\ at = "seed loop" /\ turn = Rounds /\ at' = "seeded" /\ turn' = 0 /\ answer' = TRUE
        /\ mem'["seed"] = mem["T"] /\ \A c \in Cell \ {"seed", "salt", "U", "T"} : mem'[c] = mem[c]
    BY <1>1, <1>12 DEF SeedEnd, Wiped, Cell
  <2>2. mem["T"] = TheSeed
    BY <1>4, <1>5, <2>1, SeedOfIterates DEF DerivedInv, SeedInv
  <2>3. Caller' = "seeded"
    BY <2>1 DEF Caller, HmacAt
  <2>4. SeedInv' /\ SlipInv'
    BY <1>1, <1>2, <1>5, <2>1, <2>2, <2>3 DEF SeedInv, SlipInv, AddressAt, Cell
  <2>5. HmacInv'
    BY <2>1 DEF HmacInv, HmacAt, SeedRets, SlipRets
  <2> QED BY <1>1, <2>1, <2>4, <2>5 DEF DerivedInv, EndInv, InputInv, Cell
<1> QED BY <1>7, <1>8, <1>9, <1>10, <1>11, <1>12

LEMMA SlipDerives ==
  DerivedInv /\ (MasterStart \/ MasterEnd \/ ChildStart \/ ChildEnd \/ ChildCopy) => DerivedInv'
<1> SUFFICES ASSUME DerivedInv, MasterStart \/ MasterEnd \/ ChildStart \/ ChildEnd \/ ChildCopy
             PROVE  DerivedInv'
  OBVIOUS
<1>1. /\ WipeInv' /\ task' = task /\ task \in Tasks
      /\ mem["mnemonic"] = Named("mnemonic") /\ mem["ed25519 seed"] = Named("ed25519 seed")
      /\ mem = [c \in Cell |-> mem[c]]
  BY SlipKeeps DEF DerivedInv, InputInv, WipeInv, CleanInv, MasterStart, MasterEnd, ChildStart,
     ChildEnd, ChildCopy, Calls
<1>2. (TheSeed)' = TheSeed /\ \A n : KeyAt(n)' = KeyAt(n)
  BY <1>1, SameTargets
<1>3. at \in {"seeded", "master", "master end", "child", "child end", "child copy"} /\ Caller = at
  BY DEF MasterStart, MasterEnd, ChildStart, ChildEnd, ChildCopy, Caller, HmacAt
<1>4. Len(Path) = 4
  BY DEF Path
<1>5. CASE MasterStart
  <2>1. /\ at \in {"seeded", "master"} /\ mem["seed"] = TheSeed /\ turn = 0
        /\ at = "seeded" => task.what = "address" /\ answer
        /\ at = "master" => task.what = "children"
    BY <1>3, <1>5 DEF MasterStart, DerivedInv, SeedInv, SlipInv, AddressAt
  <2>2. \A c \in Cell \ {"kL", "cc"} : mem'[c] = mem[c]
    BY <1>5 DEF MasterStart, Wiped
  <2>3. CASE SeedLen \in 1 .. 128
    <3>1. Calls(Call("ed25519 seed", 12, "seed", SeedLen, "I", "master end"))
      BY <1>5, <2>3 DEF MasterStart
    <3>2. /\ hmac' = Call("ed25519 seed", 12, "seed", SeedLen, "I", "master end")
          /\ at' = "hmac" /\ UNCHANGED <<turn, task, answer>>
      BY <3>1 DEF Calls
    <3>3. /\ hmac'.key = "ed25519 seed" /\ hmac'.keylen = 12 /\ hmac'.data = "seed"
          /\ hmac'.datalen = SeedLen /\ hmac'.ret = "master end" /\ Caller' = "master end"
      BY <3>2 DEF Call, Caller, HmacAt
    <3>4. (LongKey)' = FALSE
      <4>1. (12 > 128) = FALSE
        OBVIOUS
      <4>2. (LongKey)' = (12 > 128)
        BY <3>3 DEF LongKey, HashBlock
      <4> QED BY <4>1, <4>2
    <3>5. (Rfc2104(mem[hmac.key], LongKey, mem[hmac.data]) = Due(hmac.ret))'
      <4>1. mem'["ed25519 seed"] = Named("ed25519 seed") /\ mem'["seed"] = TheSeed
        BY <1>1, <2>1, <2>2 DEF Cell
      <4>2. Due("master end")' = Rfc2104(Named("ed25519 seed"), FALSE, TheSeed)
        BY <1>2 DEF Due
      <4> QED BY <3>3, <3>4, <4>1, <4>2
    <3>6. HmacInv'
      <4>1. SeedLen \in 0 .. 240
        BY <2>3
      <4> QED BY <3>2, <3>3, <3>5, <4>1 DEF HmacInv, HmacAt, SeedRets, SlipRets, MNEMONIC_MAX_LEN
    <3>7. SeedInv' /\ SlipInv'
      BY <2>1, <3>2, <3>3 DEF SeedInv, SlipInv, AddressAt
    <3> QED BY <1>1, <2>2, <3>2, <3>6, <3>7 DEF DerivedInv, EndInv, InputInv, Cell
  <2>4. CASE SeedLen \notin 1 .. 128
    <3>1. at' = "end" /\ answer' = FALSE /\ Caller' = "end"
      BY <1>5, <2>4 DEF MasterStart, Caller, HmacAt
    <3>2. task.what # "address"
      <4>1. 64 \in 1 .. 128
        OBVIOUS
      <4>2. task.what = "children"
        BY <1>1, <2>4, <4>1, TaskShape DEF SeedLen
      <4> QED BY <4>2
    <3>3. HmacInv' /\ SeedInv' /\ SlipInv'
      BY <3>1 DEF HmacInv, SeedInv, SlipInv, AddressAt, HmacAt, SeedRets, SlipRets
    <3> QED BY <1>1, <2>2, <3>1, <3>2, <3>3 DEF DerivedInv, EndInv, InputInv, Cell
  <2> QED BY <2>3, <2>4
<1>6. CASE MasterEnd
  <2>1. /\ at = "master end" /\ at' = "child" /\ answer' = TRUE /\ turn' = turn
        /\ mem'["kL"] = Left(mem["I"]) /\ mem'["cc"] = Right(mem["I"])
        /\ \A c \in Cell \ {"kL", "cc", "I"} : mem'[c] = mem[c]
    BY <1>1, <1>6 DEF MasterEnd, Wiped, Cell
  <2>2. mem["I"] = Rfc2104(Named("ed25519 seed"), FALSE, TheSeed)
    BY <2>1 DEF DerivedInv, HmacInv, SlipRets, Due
  <2>3. turn = 0 /\ Caller' = "child"
    BY <1>3, <2>1 DEF DerivedInv, SlipInv, AddressAt, Caller, HmacAt
  <2>4. (PairIn("kL", "cc") = KeyAt(turn))'
    BY <1>2, <2>1, <2>2, <2>3, SlipSteps DEF PairIn
  <2>5. HmacInv' /\ SeedInv' /\ SlipInv'
    <3>1. turn' \in 0 .. 4
      <4>1. turn' = 0
        BY <2>1, <2>3
      <4> QED BY <4>1
    <3> QED BY <2>1, <2>3, <2>4, <3>1 DEF HmacInv, SeedInv, SlipInv, AddressAt, HmacAt, SeedRets, SlipRets
  <2> QED BY <1>1, <2>1, <2>5 DEF DerivedInv, EndInv, InputInv, Cell
<1>7. CASE ChildStart
  <2>1. /\ at = "child" /\ turn < 4
        /\ mem' = [mem EXCEPT !["data"] = ChildInput(mem["kL"], Hardened(Path[turn + 1]))]
        /\ Calls(Call("cc", 32, "data", 37, "I", "child end"))
    BY <1>4, <1>7 DEF ChildStart
  <2>2. /\ mem'["data"] = ChildInput(mem["kL"], <<TRUE, Path[turn + 1]>>)
        /\ \A c \in Cell \ {"data"} : mem'[c] = mem[c]
    BY <1>1, <2>1 DEF Hardened, Cell
  <2>3. /\ hmac' = Call("cc", 32, "data", 37, "I", "child end")
        /\ at' = "hmac" /\ UNCHANGED <<turn, task, answer>>
    BY <2>1 DEF Calls
  <2>4. /\ hmac'.key = "cc" /\ hmac'.keylen = 32 /\ hmac'.data = "data"
        /\ hmac'.datalen = 37 /\ hmac'.ret = "child end" /\ Caller' = "child end"
    BY <2>3 DEF Call, Caller, HmacAt
  <2>5. (LongKey)' = FALSE
    <3>1. (32 > 128) = FALSE
      OBVIOUS
    <3>2. (LongKey)' = (32 > 128)
      BY <2>4 DEF LongKey, HashBlock
    <3> QED BY <3>1, <3>2
  <2>6. turn \in 0 .. 4 /\ PairIn("kL", "cc") = KeyAt(turn) /\ answer
    BY <1>3, <2>1 DEF DerivedInv, SlipInv, AddressAt
  <2>7. Rfc2104(mem["cc"], FALSE, mem'["data"]) = ChildOf(KeyAt(turn), Path[turn + 1])
    <3>1. KeyAt(turn)[1] = mem["kL"] /\ KeyAt(turn)[2] = mem["cc"]
      BY <2>6 DEF PairIn
    <3> QED BY <2>2, <3>1 DEF ChildOf
  <2>8. (Rfc2104(mem[hmac.key], LongKey, mem[hmac.data]) = Due(hmac.ret))'
    BY <1>2, <2>2, <2>3, <2>4, <2>5, <2>7 DEF Due, ChildOf, Cell
  <2>9. HmacInv'
    <3>1. 37 \in 0 .. 240
      OBVIOUS
    <3> QED BY <2>3, <2>4, <2>8, <3>1 DEF HmacInv, HmacAt, SeedRets, SlipRets, MNEMONIC_MAX_LEN
  <2>10. SeedInv' /\ SlipInv'
    <3>1. turn \in 0 .. 4 /\ turn < 4
      BY <2>1, <2>6
    <3>2. turn \in 0 .. 3
      BY <3>1
    <3> QED BY <2>3, <2>4, <2>6, <3>2 DEF SeedInv, SlipInv, AddressAt
  <2> QED BY <1>1, <2>2, <2>3, <2>9, <2>10 DEF DerivedInv, EndInv, InputInv, Cell
<1>8. CASE ChildEnd
  <2>1. /\ at = "child end" /\ at' = "child copy" /\ UNCHANGED <<turn, answer>>
        /\ mem'[OutKey] = Left(mem["I"]) /\ mem'[OutChain] = Right(mem["I"])
        /\ \A c \in Cell \ {"kL", "cc", "nkL", "ncc", "data", "I"} : mem'[c] = mem[c]
    BY <1>1, <1>8 DEF ChildEnd, Wiped, OutKey, OutChain, Cell
  <2>2. mem["I"] = ChildOf(KeyAt(turn), Path[turn + 1])
    BY <2>1 DEF DerivedInv, HmacInv, SlipRets, Due
  <2>3. turn \in 0 .. 3 /\ Caller' = "child copy" /\ answer
    BY <1>3, <2>1 DEF DerivedInv, SlipInv, AddressAt, Caller, HmacAt
  <2>4. /\ mem'[OutKey'] = Left(ChildOf(KeyAt(turn), Path[turn + 1]))
        /\ mem'[OutChain'] = Right(ChildOf(KeyAt(turn), Path[turn + 1]))
    BY <1>1, <2>1, <2>2 DEF OutKey, OutChain
  <2>5. (PairIn(OutKey, OutChain) = KeyAt(turn + 1))'
    BY <1>2, <2>1, <2>3, <2>4, SlipSteps DEF PairIn
  <2>6. HmacInv' /\ SeedInv' /\ SlipInv'
    BY <2>1, <2>3, <2>5 DEF HmacInv, SeedInv, SlipInv, AddressAt, HmacAt, SeedRets, SlipRets
  <2> QED BY <1>1, <2>1, <2>6 DEF DerivedInv, EndInv, InputInv, Cell
<1>9. CASE ChildCopy
  <2>1. /\ at = "child copy" /\ at' = "child" /\ turn' = turn + 1 /\ answer' = answer
        /\ mem'["kL"] = mem[OutKey] /\ mem'["cc"] = mem[OutChain]
        /\ \A c \in Cell \ {"kL", "cc", "nkL", "ncc"} : mem'[c] = mem[c]
    BY <1>1, <1>9 DEF ChildCopy, Wiped, OutKey, OutChain, Cell
  <2>2. /\ turn \in 0 .. 3 /\ PairIn(OutKey, OutChain) = KeyAt(turn + 1) /\ answer
        /\ Caller' = "child"
    BY <1>3, <2>1 DEF DerivedInv, SlipInv, AddressAt, Caller, HmacAt
  <2>3. (PairIn("kL", "cc") = KeyAt(turn))'
    BY <1>2, <2>1, <2>2 DEF PairIn
  <2>4. turn' \in 0 .. 4
    <3>1. turn' = turn + 1 /\ turn \in 0 .. 3
      BY <2>1, <2>2
    <3> QED BY <3>1
  <2>5. HmacInv' /\ SeedInv' /\ SlipInv'
    BY <2>1, <2>2, <2>3, <2>4 DEF HmacInv, SeedInv, SlipInv, AddressAt, HmacAt, SeedRets, SlipRets
  <2> QED BY <1>1, <2>1, <2>5 DEF DerivedInv, EndInv, InputInv, Cell
<1> QED BY <1>5, <1>6, <1>7, <1>8, <1>9

LEMMA DerivedStep == DerivedInv /\ [DerivationNext]_derivationVars => DerivedInv'
<1> SUFFICES ASSUME DerivedInv, [DerivationNext]_derivationVars
             PROVE  DerivedInv'
  OBVIOUS
<1>1. WipeInv'
  BY WipeStep DEF DerivedInv
<1>2. Len(Path) = 4
  BY DEF Path
<1>3. mem = [c \in Cell |-> mem[c]] /\ InputInv
  BY DEF DerivedInv, WipeInv, CleanInv
<1>4. CASE PathEnd
  <2>1. /\ at = "child" /\ turn = 4 /\ UNCHANGED <<turn, task, answer>>
        /\ at' = IF task.what = "address" THEN "public key" ELSE "end"
        /\ \A c \in Cell \ {"cc"} : mem'[c] = mem[c]
    BY <1>2, <1>4 DEF PathEnd, Wiped
  <2>2. mem["kL"] = KeyAt(4)[1] /\ answer
    <3>1. Caller = "child"
      BY <2>1 DEF Caller, HmacAt
    <3>2. PairIn("kL", "cc") = KeyAt(4) /\ answer
      BY <2>1, <3>1 DEF DerivedInv, SlipInv, AddressAt
    <3> QED BY <3>2 DEF PairIn
  <2>3. KeyAt(4)' = KeyAt(4)
    BY <2>1, SameTargets
  <2>4. mem'["kL"] = (KeyAt(4)')[1]
    BY <2>1, <2>2, <2>3 DEF Cell
  <2>5. CASE task.what = "address"
    <3>1. at' = "public key" /\ Caller' = "public key"
      BY <2>1, <2>5 DEF Caller, HmacAt
    <3> QED BY <1>1, <1>3, <2>1, <2>2, <2>4, <2>5, <3>1 DEF DerivedInv, HmacInv, SeedInv, SlipInv, AddressAt,
            EndInv, InputInv, Cell, HmacAt, SeedRets, SlipRets
  <2>6. CASE task.what # "address"
    <3>1. at' = "end" /\ Caller' = "end"
      BY <2>1, <2>6 DEF Caller, HmacAt
    <3> QED BY <1>1, <1>3, <2>1, <2>2, <2>4, <2>6, <3>1 DEF DerivedInv, HmacInv, SeedInv, SlipInv, AddressAt,
            EndInv, InputInv, Cell, HmacAt, SeedRets, SlipRets
  <2> QED BY <2>5, <2>6
<1>5. CASE AddressStep
  <2>1. AddressStep /\ UNCHANGED <<hmac, turn, task, answer>> /\ at \in AddressAt /\ Caller = at
    BY <1>5 DEF AddressStep, KeypairMade, KeypairWipe, AddressEncoded, AddressWipe, AddressAt,
       Caller, HmacAt
  <2>2. at' \in {"keypair wipe", "base58", "address wipe", "end"} /\ Caller' = at'
    BY <1>5 DEF AddressStep, KeypairMade, KeypairWipe, AddressEncoded, AddressWipe, Caller, HmacAt
  <2>3. task.what = "address" /\ answer
    BY <2>1 DEF DerivedInv, SlipInv
  <2>4. KeyAt(4)' = KeyAt(4)
    BY <2>1, SameTargets
  <2> DEFINE public == PublicKey(KeyAt(4)[1])
  <2>5. public' = public
    BY <2>4 DEF PublicKey
  <2>6. \A c \in {"mnemonic", "ed25519 seed"} : mem'[c] = mem[c]
    BY <1>3, <1>5 DEF AddressStep, KeypairMade, KeypairWipe, AddressEncoded, AddressWipe, Wiped, Cell
  <2>7. /\ at' \in {"keypair wipe", "base58"} => mem'["pub"] = public
        /\ at' \in {"address wipe", "end"} => mem'["address"] = Base58Of(public)
    <3>1. CASE KeypairMade
      <4>1. at = "public key" /\ at' = "keypair wipe" /\ mem'["pub"] = PublicKey(mem["kL"])
        BY <1>3, <3>1 DEF KeypairMade, Cell
      <4> QED BY <2>1, <4>1 DEF DerivedInv, SlipInv
    <3>2. CASE KeypairWipe
      <4>1. at = "keypair wipe" /\ at' = "base58" /\ mem'["pub"] = mem["pub"]
        BY <3>2 DEF KeypairWipe, Wiped, Cell
      <4> QED BY <2>1, <4>1 DEF DerivedInv, SlipInv
    <3>3. CASE AddressEncoded
      <4>1. at = "base58" /\ at' = "address wipe" /\ mem'["address"] = Base58Of(mem["pub"])
        BY <1>3, <3>3 DEF AddressEncoded, Cell
      <4> QED BY <2>1, <4>1 DEF DerivedInv, SlipInv
    <3>4. CASE AddressWipe
      <4>1. at = "address wipe" /\ at' = "end" /\ mem'["address"] = mem["address"]
        BY <3>4 DEF AddressWipe, Wiped, Cell
      <4> QED BY <2>1, <4>1 DEF DerivedInv, SlipInv
    <3> QED BY <1>5, <3>1, <3>2, <3>3, <3>4 DEF AddressStep
  <2> HIDE DEF public
  <2>8. HmacInv' /\ SeedInv'
    BY <2>2 DEF HmacInv, SeedInv, HmacAt, SeedRets, SlipRets
  <2>9. SlipInv'
    <3>1. /\ at' \in {"keypair wipe", "base58"} => mem'["pub"] = PublicKey(KeyAt(4)[1])'
          /\ at' \in {"address wipe", "end"} => mem'["address"] = Base58Of(PublicKey(KeyAt(4)[1]))'
      BY <2>5, <2>7 DEF public, Base58Of
    <3> QED BY <2>1, <2>2, <2>3, <3>1 DEF SlipInv, AddressAt
  <2>10. EndInv'
    <3>1. at' = "end" => mem'["address"] = Base58Of(PublicKey(KeyAt(4)[1]))'
      BY <2>5, <2>7 DEF public, Base58Of
    <3> QED BY <2>1, <2>3, <3>1 DEF EndInv
  <2> QED BY <1>1, <1>3, <2>1, <2>6, <2>8, <2>9, <2>10 DEF DerivedInv, InputInv
<1>6. CASE UNCHANGED derivationVars
  <2>1. UNCHANGED <<mem, at, hmac, turn, task, answer>>
    BY <1>6 DEF derivationVars
  <2>2. /\ (Iterates)' = Iterates /\ (TheSeed)' = TheSeed
        /\ \A n : UpTo(n)' = UpTo(n)
        /\ \A n : KeyAt(n)' = KeyAt(n)
        /\ \A ret : Due(ret)' = Due(ret)
    BY <2>1, SameTargets, SameDue
  <2>3. HmacInv'
    BY <2>1, <2>2 DEF DerivedInv, HmacInv, LongKey, Rfc2104, Keyed, Sha512, Joined, PadOf
  <2>4. (Caller)' = Caller
    BY <2>1 DEF Caller
  <2>5. SeedInv'
    BY <2>1, <2>2, <2>4 DEF DerivedInv, SeedInv, XorOf
  <2>6. SlipInv'
    BY <2>1, <2>2, <2>4 DEF DerivedInv, SlipInv, AddressAt, PairIn, OutKey, OutChain
  <2>7. EndInv' /\ InputInv'
    BY <2>1, <2>2 DEF DerivedInv, EndInv, InputInv, Base58Of, PublicKey
  <2> QED BY <1>1, <2>3, <2>5, <2>6, <2>7 DEF DerivedInv
<1> QED BY <1>4, <1>5, <1>6, HmacDerives, SeedDerives, SlipDerives
        DEF DerivationNext, HmacStep, AddressStep

\* One buffer each for U, T and I, results that nobody looks at and children
\* written over their parents: what comes out is the function of RFC 8018 and
\* the path of SLIP-0010, whatever the number of iterations.
THEOREM AddressFromWords == DerivationSpec => []AddressIsDerived
<1>1. DerivedInv => SeedIsPbkdf2
  BY DEF DerivedInv, SlipInv, AddressAt, EndInv, SeedIsPbkdf2, Caller, HmacAt
<1>2. DerivedInv => KeyIsDerived
  <2>1. Len(Path) = 4
    BY DEF Path
  <2> QED BY <2>1 DEF DerivedInv, SlipInv, AddressAt, EndInv, KeyIsDerived, KeyAt, PairIn, Caller, HmacAt
<1>3. DerivedInv => AddressIsDerived
  BY <1>1, <1>2 DEF AddressIsDerived
<1> QED BY <1>3, DerivedInit, DerivedStep, PTL DEF DerivationSpec
=============================================================================
