---------------------------- MODULE Sha512Stream ----------------------------
(***************************************************************************)
(* sha512_init, _update and _final of lib/ed25519/sha512.c: a message is   *)
(* handed over in pieces of any size, cut into blocks through buf and      *)
(* padded.  A byte is the record of where it comes from, so what a block   *)
(* is made of can be told; what sha512_compress makes of it is Sha512Compress. *)
(* A context is used again without clearing buf, as ed25519_sign does.     *)
(***************************************************************************)
EXTENDS Integers, SequencesExt

CONSTANTS
  BlockBytes,   \* bytes of a block (128)
  LengthAt,     \* bytes in front of the length field (112)
  LengthLow,    \* ... and of its low half (120)
  MaxMessage,   \* bound on the bytes of a message
  MaxHashes     \* bound on the messages of a behaviour

ASSUME StreamAssumption ==
  /\ BlockBytes \in Nat /\ LengthAt \in Nat /\ LengthLow \in Nat
  /\ 0 < LengthAt /\ LengthAt <= LengthLow /\ LengthLow < BlockBytes
  /\ MaxMessage \in Nat /\ MaxHashes \in Nat

VARIABLES
  chunk,     \* buf[128]
  curlen,
  bitLength, \* length
  absorbed,  \* bytes taken of the current message
  inlen,     \* bytes of the current sha512_update call still to be taken
  blocks,    \* blocks handed to sha512_compress
  hashing,   \* number of the message
  streamState  \* "idle", "open" after sha512_init, "padding" in sha512_final

streamVars == <<chunk, curlen, bitLength, absorbed, inlen, blocks, hashing, streamState>>

MessageByte(n) == [from |-> "message", hash |-> hashing, value |-> n]
ZeroByte == [from |-> "pad", hash |-> 0, value |-> 0]
Mark == [from |-> "pad", hash |-> 0, value |-> 128]
LengthByte(bits) == [from |-> "length", hash |-> 0, value |-> bits]
Stale == [from |-> "stack", hash |-> 0, value |-> 0]

\* The bytes the next piece starts with.
Incoming(n) == [i \in 1 .. n |-> MessageByte(absorbed + i)]

StreamAt(state) ==
  /\ chunk = [i \in 1 .. BlockBytes |-> Stale]
  /\ curlen = 0 /\ bitLength = 0 /\ absorbed = 0 /\ inlen = 0 /\ blocks = <<>>
  /\ hashing = 0 /\ streamState = state

StreamInit == StreamAt("idle")
StreamIdle == StreamAt("unused")

-----------------------------------------------------------------------------
\* sha512_init leaves buf as it is.
ShaInit ==
  /\ streamState \in {"idle", "open"} /\ inlen = 0 /\ hashing < MaxHashes
  /\ streamState' = "open" /\ hashing' = hashing + 1
  /\ curlen' = 0 /\ bitLength' = 0 /\ absorbed' = 0 /\ blocks' = <<>>
  /\ UNCHANGED <<chunk, inlen>>

\* sha512_update is called with n bytes; the steps below are its loop.
ShaUpdate(n) ==
  /\ streamState = "open" /\ inlen = 0
  /\ absorbed + n <= MaxMessage
  /\ inlen' = n
  /\ UNCHANGED <<chunk, curlen, bitLength, absorbed, blocks, hashing, streamState>>

\* A whole block is compressed where it lies.
WholeBlock ==
  /\ curlen = 0 /\ inlen >= BlockBytes
  /\ blocks' = Append(blocks, Incoming(BlockBytes))
  /\ bitLength' = bitLength + 8 * BlockBytes
  /\ absorbed' = absorbed + BlockBytes /\ inlen' = inlen - BlockBytes
  /\ UNCHANGED <<chunk, curlen, hashing, streamState>>

\* Mutant: the bytes are copied to the front of buf.
FilledFromFront(n) == [i \in 1 .. BlockBytes |-> IF i <= n THEN Incoming(n)[i] ELSE chunk[i]]
Filled(n) ==
  [i \in 1 .. BlockBytes |-> IF i \in curlen + 1 .. curlen + n THEN Incoming(n)[i - curlen] ELSE chunk[i]]

\* Anything else goes through buf, which is compressed when it is full.
PartBlock ==
  /\ inlen > 0 /\ ~ (curlen = 0 /\ inlen >= BlockBytes)
  /\ LET n == Min({inlen, BlockBytes - curlen}) IN
       /\ chunk' = Filled(n)
       /\ absorbed' = absorbed + n /\ inlen' = inlen - n
       /\ IF curlen + n = BlockBytes
          THEN blocks' = Append(blocks, Filled(n)) /\ curlen' = 0 /\ bitLength' = bitLength + 8 * BlockBytes
          ELSE curlen' = curlen + n /\ UNCHANGED <<blocks, bitLength>>
  /\ UNCHANGED <<hashing, streamState>>

-----------------------------------------------------------------------------
\* sha512_final appends the mark.
AppendMark ==
  /\ streamState = "open" /\ inlen = 0
  /\ curlen < BlockBytes
  /\ streamState' = "padding"
  /\ bitLength' = bitLength + 8 * curlen
  /\ chunk' = [chunk EXCEPT ![curlen + 1] = Mark]
  /\ curlen' = curlen + 1
  /\ UNCHANGED <<absorbed, inlen, blocks, hashing>>

NoRoom == curlen > LengthAt

ZeroedTo(last) == [i \in 1 .. BlockBytes |-> IF i \in curlen + 1 .. last THEN ZeroByte ELSE chunk[i]]

\* No room for the length: the block is filled with zeros and compressed.
PadOverflow ==
  /\ streamState = "padding" /\ NoRoom
  /\ chunk' = ZeroedTo(BlockBytes)
  /\ blocks' = Append(blocks, ZeroedTo(BlockBytes))
  /\ curlen' = 0
  /\ UNCHANGED <<bitLength, absorbed, inlen, hashing, streamState>>

\* STORE64H fills the low half of the length field.
WithLength(buf) ==
  [i \in 1 .. BlockBytes |-> IF i > LengthLow THEN LengthByte(bitLength) ELSE buf[i]]

FinishHash ==
  /\ streamState = "padding" /\ ~ NoRoom
  /\ chunk' = WithLength(ZeroedTo(LengthLow))
  /\ blocks' = Append(blocks, WithLength(ZeroedTo(LengthLow)))
  /\ curlen' = LengthLow /\ streamState' = "idle"
  /\ UNCHANGED <<bitLength, absorbed, inlen, hashing>>

StreamNext ==
  \/ ShaInit
  \/ \E n \in 0 .. MaxMessage : ShaUpdate(n)
  \/ WholeBlock \/ PartBlock
  \/ AppendMark \/ PadOverflow \/ FinishHash

StreamSpec == StreamInit /\ [][StreamNext]_streamVars

-----------------------------------------------------------------------------
\* The message, the mark, as few zeros as make the length end a block, and the
\* length in bits: FIPS 180-4, 5.1.2.
Padded(size) ==
  LET zeros == ((LengthAt - size - 1) % BlockBytes) + (LengthLow - LengthAt)
      length == [i \in 1 .. BlockBytes - LengthLow |-> LengthByte(8 * size)]
  IN  [i \in 1 .. size |-> MessageByte(i)] \o <<Mark>> \o [i \in 1 .. zeros |-> ZeroByte] \o length

\* However a message was cut into calls, and whatever earlier messages and the
\* stack left in buf, what is compressed is the padded message, once, in order,
\* with no byte of anything else.
CompressesPadded ==
  streamState = "idle" /\ hashing > 0 => FlattenSeq(blocks) = Padded(absorbed)

\* Between calls no byte is lost, doubled or out of place: the blocks and the
\* used part of buf are the bytes taken, and length counts the blocks only.
NothingLost ==
  streamState = "open" =>
    /\ FlattenSeq(blocks) \o SubSeq(chunk, 1, curlen) = [i \in 1 .. absorbed |-> MessageByte(i)]
    /\ bitLength = 8 * BlockBytes * Len(blocks)
    /\ curlen < BlockBytes

\* A hash depends on the message only, not on how it came.
StreamSound == CompressesPadded /\ NothingLost
=============================================================================
