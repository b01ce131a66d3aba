------------------------------ MODULE Mnemonic ------------------------------
(***************************************************************************)
(* wc_mnemonic_from_entropy of lib/wallet_core/wallet_core.cpp and         *)
(* parseMnemonicWords of src/main.cpp: entropy and checksum are cut into   *)
(* word indices, the words are written one behind the other into a buffer  *)
(* that may hold a longer phrase, and the buffer is cut up again into the  *)
(* offsets the word pages and the quiz read.  The word list is any list    *)
(* without spaces; letter n of word w is the pair <<w, n>>.                *)
(***************************************************************************)
EXTENDS Numerals

CONSTANTS
  EntropyBytes,  \* bytes of the entropy (32)
  IndexBits,     \* bits of a word index (11)
  ShortestWord,  \* letters of the shortest word (3)
  LongestWord,   \* ... and of the longest (8)
  ByteValues,    \* values the bytes are taken from
  MaxPhrases     \* phrases written one after the other

\* The words of a phrase (24): the checksum is one byte, 8 bits for 32 bytes.
Words == (8 * (EntropyBytes + 1)) \div IndexBits
\* WC_MNEMONIC_MAX_LEN in small: every phrase and the NUL fit (240 for 24 * 8 + 23 + 1).
PhraseCap == Words * (LongestWord + 1)

ASSUME MnemonicAssumption ==
  /\ EntropyBytes \in Nat /\ IndexBits \in Nat \ {0}
  /\ (8 * (EntropyBytes + 1)) % IndexBits = 0
  /\ ShortestWord \in 1 .. LongestWord /\ LongestWord \in Nat
  /\ ByteValues \subseteq 0 .. 255

VARIABLES
  bits,      \* bits[33], the entropy and the first byte of its SHA-256
  written,   \* words written so far
  buffer,    \* mnemonic[240]
  cursor,    \* next place in the buffer
  wordOff,   \* wordOff[24] and wordLen[24] of main.cpp, words counted from 0
  wordLen,
  word,      \* w of parseMnemonicWords
  reading,   \* i of parseMnemonicWords, or the place behind the last character
  phrase     \* number of the phrase

mnemonicVars == <<bits, written, buffer, cursor, wordOff, wordLen, word, reading, phrase>>

Space == <<-1, 0>>
Nul == <<-2, 0>>
Letter(w, n) == <<w, n>>
Spelling(w) ==
  [n \in 1 .. ShortestWord + (w % (LongestWord + 1 - ShortestWord)) |-> Letter(w, n)]

\* SHA-256 is external: its first byte is any function of the entropy, and any
\* byte is tried with every entropy.
Entropies == [1 .. EntropyBytes -> ByteValues]

MnemonicInit ==
  /\ \E e \in Entropies, cs \in ByteValues : bits = Append(e, cs)
  /\ written = 0 /\ buffer = [i \in 0 .. PhraseCap - 1 |-> Nul] /\ cursor = 0
  /\ wordOff = [w \in 0 .. Words - 1 |-> 0] /\ wordLen = [w \in 0 .. Words - 1 |-> 0]
  /\ word = 0 /\ reading = 0 /\ phrase = 1

MnemonicIdle ==
  /\ bits = [i \in 1 .. EntropyBytes + 1 |-> 0] /\ written = 0
  /\ buffer = [i \in 0 .. PhraseCap - 1 |-> Nul] /\ cursor = 0
  /\ wordOff = [w \in 0 .. Words - 1 |-> 0] /\ wordLen = [w \in 0 .. Words - 1 |-> 0]
  /\ word = 0 /\ reading = 0 /\ phrase = MaxPhrases + 1

-----------------------------------------------------------------------------
\* (bits[bo >> 3] >> (7 - (bo & 7))) & 1
BitAt(bo) == (bits[1 + (bo \div 8)] \div Power(2, 7 - (bo % 8))) % 2

\* idx = (idx << 1) | bit, over the bits of word w.
IndexOf(w) ==
  NumberIn(2, [b \in 1 .. IndexBits |-> BitAt(IndexBits * w + b - 1)])

WithChars(chars) ==
  [i \in DOMAIN buffer |-> IF i \in cursor .. cursor + Len(chars) - 1 THEN chars[i - cursor + 1] ELSE buffer[i]]

Separator(w) == IF w # Words - 1 THEN Space ELSE Nul

\* One turn of the loop over the words; the NUL goes behind the last one.
WriteWord ==
  /\ phrase <= MaxPhrases /\ written < Words
  /\ LET chars == Append(Spelling(IndexOf(written)), Separator(written)) IN
       /\ buffer' = WithChars(chars)
       /\ cursor' = cursor + Len(chars)
  /\ written' = written + 1
  /\ UNCHANGED <<bits, wordOff, wordLen, word, reading, phrase>>

\* Mutant: the next word is taken to start at its space.
NextStartAtSpace == reading
NextStart == reading + 1

\* wordOff[0] is 0 for every phrase; a space ends a word and starts another.
ParseChar ==
  /\ phrase <= MaxPhrases /\ written = Words /\ cursor # 0
  /\ buffer[reading] # Nul
  /\ IF buffer[reading] = Space
     THEN /\ wordLen' = [wordLen EXCEPT ![word] = reading - wordOff[word]]
          /\ word' = word + 1
          /\ wordOff' = IF word + 1 < Words THEN [wordOff EXCEPT ![word + 1] = NextStart] ELSE wordOff
     ELSE UNCHANGED <<wordOff, wordLen, word>>
  /\ reading' = reading + 1
  /\ UNCHANGED <<bits, written, buffer, cursor, phrase>>

\* The last word ends with the phrase.
ParseEnd ==
  /\ phrase <= MaxPhrases /\ written = Words /\ cursor # 0
  /\ buffer[reading] = Nul
  /\ wordLen' = [wordLen EXCEPT ![word] = reading - wordOff[word]]
  /\ cursor' = 0
  /\ UNCHANGED <<bits, written, buffer, wordOff, word, reading, phrase>>

\* The next build: a new wallet over the same buffer and the same offsets.
NextPhrase ==
  /\ phrase < MaxPhrases /\ written = Words /\ cursor = 0
  /\ \E e \in Entropies, cs \in ByteValues : bits' = Append(e, cs)
  /\ written' = 0 /\ word' = 0 /\ reading' = 0 /\ phrase' = phrase + 1
  /\ UNCHANGED <<buffer, cursor, wordOff, wordLen>>

MnemonicNext == WriteWord \/ ParseChar \/ ParseEnd \/ NextPhrase

MnemonicSpec == MnemonicInit /\ [][MnemonicNext]_mnemonicVars

-----------------------------------------------------------------------------
Parsed == phrase <= MaxPhrases /\ written = Words /\ cursor = 0

\* What the pages and the quiz cut out of the buffer for word w.
Shown(w) == [n \in 1 .. wordLen[w] |-> buffer[wordOff[w] + n - 1]]

\* Whatever an earlier phrase left in the buffer and in the offsets, the words
\* that are shown stand for the entropy and its checksum, all of their bits and
\* in order, so the phrase on paper restores exactly this wallet.
WordsAreTheEntropy ==
  Parsed =>
    LET indexOfShown(w) == Shown(w)[1][1] IN
    /\ \A w \in 0 .. Words - 1 : wordLen[w] >= ShortestWord /\ Shown(w) = Spelling(indexOfShown(w))
    /\ NumberIn(Power(2, IndexBits), [w \in 1 .. Words |-> indexOfShown(w - 1)]) = NumberIn(256, bits)

\* A phrase and its NUL fit the buffer, and the parser neither leaves it nor
\* finds more words than the offsets have places for.
PhraseFits ==
  /\ cursor <= PhraseCap
  /\ reading < PhraseCap
  /\ word < Words

\* What the user writes down is the wallet, at any place in the buffer.
PhraseSound == WordsAreTheEntropy /\ PhraseFits
=============================================================================
