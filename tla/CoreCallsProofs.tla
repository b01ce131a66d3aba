--------------------------- MODULE CoreCallsProofs ---------------------------
(***************************************************************************)
(* Proofs about the three looping functions of wallet_core.cpp, each for   *)
(* every size of its arrays: the backup check's positions, the keyboard    *)
(* edges, the bytes of a raw extraction, and what loop() calls of them.    *)
(***************************************************************************)
EXTENDS CoreCalls, InductionLemmas, SequenceTheorems

USE DEF vars

-----------------------------------------------------------------------------
(* The positions of the backup check, whatever the hash.                     *)

LEMMA ConstantsTyped ==
  HashLen \in Nat /\ WordCount \in Nat /\ WordCount > 0 /\ QuizWords \in Nat
  /\ QuizWords <= WordCount
BY QuizAssumption

\* Reducing a byte gives a position.
LEMMA BytePosition ==
  ASSUME NEW b \in Byte
  PROVE  b % WordCount \in Position
<1>1. b \in Nat
  BY QuizAssumption
<1> QED BY <1>1, ConstantsTyped DEF Position

\* One iteration keeps the positions distinct and in range, and has taken its
\* candidate afterwards.
LEMMA TakeOne ==
  ASSUME pos \in Seq(Position), Distinct, MoreWanted, NEW p \in Position, Take(p)
  PROVE  /\ pos' \in Seq(Position) /\ Len(pos') <= QuizWords
         /\ Distinct'
         /\ \E j \in 1 .. Len(pos') : pos'[j] = p
         /\ \A q : Taken(q) => \E j \in 1 .. Len(pos') : pos'[j] = q
<1>1. CASE Taken(p)
  BY <1>1, ConstantsTyped DEF Take, Taken, Distinct, MoreWanted
<1>2. CASE ~Taken(p)
  <2>1. pos' = Append(pos, p)
    BY <1>2 DEF Take
  <2>2. /\ pos' \in Seq(Position) /\ Len(pos') = Len(pos) + 1 /\ Len(pos) \in Nat
        /\ \A j \in 1 .. Len(pos) : pos'[j] = pos[j]
        /\ pos'[Len(pos) + 1] = p
    BY <2>1
  <2>3. Len(pos') <= QuizWords
    BY <2>2, ConstantsTyped DEF MoreWanted
  <2>4. Distinct'
    <3> SUFFICES ASSUME NEW s \in 1 .. Len(pos'), NEW t \in 1 .. Len(pos'), s # t
                 PROVE  pos'[s] # pos'[t]
      BY DEF Distinct
    <3> QED BY <1>2, <2>2 DEF Taken, Distinct
  <2> QED BY <2>2, <2>3, <2>4 DEF Taken
<1> QED BY <1>1, <1>2

\* The second loop has taken every position it has passed.
PassedTaken == \A u \in 0 .. v - 1 : Taken(u)

IInv == TypeOK /\ Distinct /\ PassedTaken

LEMMA IInvInit == Init => IInv
BY ConstantsTyped DEF Init, IInv, TypeOK, Distinct, PassedTaken

LEMMA IInvStep == IInv /\ [Next]_vars => IInv'
<1> SUFFICES ASSUME IInv, [Next]_vars
             PROVE  IInv'
  OBVIOUS
<1>1. CASE FromHash
  <2>1. hash[candidate] % WordCount \in Position
    BY <1>1, BytePosition, ConstantsTyped DEF FromHash, IInv, TypeOK
  <2>2. /\ pos' \in Seq(Position) /\ Len(pos') <= QuizWords /\ Distinct'
        /\ \A q : Taken(q) => \E j \in 1 .. Len(pos') : pos'[j] = q
    BY <1>1, <2>1, TakeOne DEF FromHash, IInv, TypeOK
  <2>3. candidate' \in 0 .. HashLen /\ UNCHANGED <<hash, v>>
    BY <1>1, ConstantsTyped DEF FromHash, Advance, IInv, TypeOK
  <2>4. PassedTaken'
    BY <2>2, <2>3 DEF IInv, PassedTaken, Taken
  <2> QED BY <2>2, <2>3, <2>4 DEF IInv, TypeOK
<1>2. CASE Fallback
  <2>1. v \in Position
    BY <1>2, ConstantsTyped DEF Fallback, FallbackEnd, Position, IInv, TypeOK
  <2>2. /\ pos' \in Seq(Position) /\ Len(pos') <= QuizWords /\ Distinct'
        /\ \E j \in 1 .. Len(pos') : pos'[j] = v
        /\ \A q : Taken(q) => \E j \in 1 .. Len(pos') : pos'[j] = q
    BY <1>2, <2>1, TakeOne DEF Fallback, IInv, TypeOK
  <2>3. v' = v + 1 /\ v' \in 0 .. WordCount /\ UNCHANGED <<hash, candidate>>
    BY <1>2, ConstantsTyped DEF Fallback, FallbackEnd, IInv, TypeOK
  <2>4. ASSUME NEW u \in 0 .. v' - 1
        PROVE  \E j \in 1 .. Len(pos') : pos'[j] = u
    <3>1. u = v \/ u \in 0 .. v - 1
      BY <2>1, <2>3, <2>4 DEF Position
    <3> QED BY <2>2, <3>1 DEF IInv, PassedTaken
  <2>5. PassedTaken'
    BY <2>4 DEF PassedTaken, Taken
  <2> QED BY <2>2, <2>3, <2>5 DEF IInv, TypeOK
<1>3. CASE UNCHANGED vars
  BY <1>3 DEF IInv, TypeOK, Distinct, PassedTaken, Taken
<1> QED BY <1>1, <1>2, <1>3 DEF Next

\* Fewer positions than wanted cannot hold all that the second loop passed.
LEMMA FallbackFills ==
  ASSUME IInv, v = WordCount
  PROVE  Len(pos) >= QuizWords
<1> SUFFICES ASSUME Len(pos) < QuizWords
             PROVE  FALSE
  BY ConstantsTyped DEF IInv, TypeOK
<1> DEFINE f == [u \in Position |-> CHOOSE j \in 1 .. Len(pos) : pos[j] = u]
<1>1. \A u \in Position : f[u] \in 1 .. Len(pos) /\ pos[f[u]] = u
  BY DEF IInv, PassedTaken, Taken, Position
<1>2. IsFiniteSet(Position) /\ Cardinality(Position) = WordCount
  <2>1. 0 \in Int /\ WordCount - 1 \in Int /\ ~(0 > WordCount - 1)
    BY ConstantsTyped
  <2>2. IsFiniteSet(0 .. WordCount - 1) /\ Cardinality(0 .. WordCount - 1) = WordCount - 1 - 0 + 1
    BY <2>1, FS_Interval
  <2> QED BY <2>2, ConstantsTyped DEF Position
<1>3. IsFiniteSet(1 .. Len(pos)) /\ Cardinality(1 .. Len(pos)) = Len(pos)
  <2>1. Len(pos) \in Nat
    BY DEF IInv, TypeOK
  <2>2. CASE Len(pos) = 0
    <3>1. 1 .. Len(pos) = {}
      BY <2>2
    <3> QED BY <2>2, <3>1, FS_EmptySet
  <2>3. CASE Len(pos) > 0
    <3>1. 1 \in Int /\ Len(pos) \in Int /\ ~(1 > Len(pos))
      BY <2>1, <2>3
    <3>2. IsFiniteSet(1 .. Len(pos)) /\ Cardinality(1 .. Len(pos)) = Len(pos) - 1 + 1
      BY <3>1, FS_Interval
    <3> QED BY <2>1, <3>2
  <2> QED BY <2>1, <2>2, <2>3
<1>4. Cardinality(1 .. Len(pos)) < Cardinality(Position)
  BY <1>2, <1>3, ConstantsTyped DEF IInv, TypeOK
<1>5. f \in [Position -> 1 .. Len(pos)]
  BY <1>1
<1> HIDE DEF f
<1>6. \E x, y \in Position : x # y /\ f[x] = f[y]
  BY <1>2, <1>3, <1>4, <1>5, FS_PigeonHole
<1> QED BY <1>1, <1>6

\* When the function returns, all entries of pos are filled.
LEMMA FilledOnReturn == IInv => FourPositions
<1> SUFFICES ASSUME IInv, Returned
             PROVE  Len(pos) = QuizWords
  BY DEF FourPositions
<1>1. Len(pos) <= QuizWords /\ Len(pos) \in Nat /\ v \in 0 .. WordCount
  BY DEF IInv, TypeOK
<1>2. CASE MoreWanted
  <2>1. v = WordCount
    BY <1>1, <1>2, ConstantsTyped DEF Returned, FallbackEnd
  <2> QED BY <1>1, <2>1, FallbackFills, ConstantsTyped
<1>3. CASE ~MoreWanted
  BY <1>1, <1>3, ConstantsTyped DEF MoreWanted
<1> QED BY <1>2, <1>3

-----------------------------------------------------------------------------
(* The order of the challenge, said of any list s of N values and any        *)
(* sequence p taken from it.                                                 *)

Earliest(s, N, p) ==
  \A t \in 1 .. Len(p) :
    \E i \in 1 .. N :
      /\ s[i] = p[t]
      /\ \A j \in 1 .. i - 1 : s[j] # p[t] /\ \E k \in 1 .. t - 1 : p[k] = s[j]
      /\ \A k \in 1 .. t - 1 : \E j \in 1 .. i - 1 : s[j] = p[k]

\* p holds what the first n values of s are.
HoldsFirst(s, n, p) ==
  /\ \A j \in 1 .. n : \E k \in 1 .. Len(p) : p[k] = s[j]
  /\ \A k \in 1 .. Len(p) : \E j \in 1 .. n : s[j] = p[k]

\* A value not seen before goes to the end.
LEMMA AppendNext ==
  ASSUME NEW s, NEW N \in Nat, NEW n \in Nat, n + 1 <= N,
         NEW p \in Seq(Position), NEW x \in Position, x = s[n + 1],
         HoldsFirst(s, n, p), Earliest(s, N, p),
         \A k \in 1 .. Len(p) : p[k] # x
  PROVE  HoldsFirst(s, n + 1, Append(p, x)) /\ Earliest(s, N, Append(p, x))
<1> DEFINE q == Append(p, x)
<1>1. /\ Len(p) \in Nat /\ Len(q) = Len(p) + 1
      /\ q[Len(p) + 1] = x
      /\ \A k \in 1 .. Len(p) : q[k] = p[k]
  OBVIOUS
<1> HIDE DEF q
<1>2. ASSUME NEW j \in 1 .. n + 1
      PROVE  \E k \in 1 .. Len(q) : q[k] = s[j]
  <2>1. CASE j = n + 1
    <3>1. Len(q) \in 1 .. Len(q) /\ q[Len(q)] = s[j]
      BY <1>1, <2>1
    <3> QED BY <3>1
  <2>2. CASE j # n + 1
    <3>1. j \in 1 .. n
      BY <2>2
    <3>2. PICK k \in 1 .. Len(p) : p[k] = s[j]
      BY <3>1 DEF HoldsFirst
    <3>3. k \in 1 .. Len(q) /\ q[k] = s[j]
      BY <1>1, <3>2
    <3> QED BY <3>3
  <2> QED BY <2>1, <2>2
<1>3. ASSUME NEW k \in 1 .. Len(q)
      PROVE  \E j \in 1 .. n + 1 : s[j] = q[k]
  <2>1. CASE k = Len(p) + 1
    <3>1. n + 1 \in 1 .. n + 1 /\ s[n + 1] = q[k]
      BY <1>1, <2>1
    <3> QED BY <3>1
  <2>2. CASE k # Len(p) + 1
    <3>1. k \in 1 .. Len(p)
      BY <1>1, <2>2
    <3>2. PICK j \in 1 .. n : s[j] = p[k]
      BY <3>1 DEF HoldsFirst
    <3>3. j \in 1 .. n + 1 /\ s[j] = q[k]
      BY <1>1, <3>1, <3>2
    <3> QED BY <3>3
  <2> QED BY <2>1, <2>2
<1>4. ASSUME NEW t \in 1 .. Len(q)
      PROVE  \E i \in 1 .. N :
               /\ s[i] = q[t]
               /\ \A j \in 1 .. i - 1 : s[j] # q[t] /\ \E k \in 1 .. t - 1 : q[k] = s[j]
               /\ \A k \in 1 .. t - 1 : \E j \in 1 .. i - 1 : s[j] = q[k]
  <2>1. CASE t # Len(p) + 1
    <3>1. t \in 1 .. Len(p)
      BY <1>1, <2>1
    <3>2. PICK i \in 1 .. N :
            /\ s[i] = p[t]
            /\ \A j \in 1 .. i - 1 : s[j] # p[t] /\ \E k \in 1 .. t - 1 : p[k] = s[j]
            /\ \A k \in 1 .. t - 1 : \E j \in 1 .. i - 1 : s[j] = p[k]
      BY <3>1 DEF Earliest
    <3>3. q[t] = p[t] /\ \A k \in 1 .. t - 1 : q[k] = p[k]
      BY <1>1, <3>1
    <3>4. ASSUME NEW j \in 1 .. i - 1
          PROVE  s[j] # q[t] /\ \E k \in 1 .. t - 1 : q[k] = s[j]
      <4>1. PICK k \in 1 .. t - 1 : p[k] = s[j]
        BY <3>2
      <4> QED BY <3>2, <3>3, <4>1
    <3>5. ASSUME NEW k \in 1 .. t - 1
          PROVE  \E j \in 1 .. i - 1 : s[j] = q[k]
      BY <3>2, <3>3
    <3> WITNESS i \in 1 .. N
    <3> QED BY <3>2, <3>3, <3>4, <3>5
  <2>2. CASE t = Len(p) + 1
    <3>1. n + 1 \in 1 .. N /\ (n + 1) - 1 = n /\ t - 1 = Len(p)
      BY <1>1, <2>2
    <3>2. s[n + 1] = q[t]
      BY <1>1, <2>2
    <3>3. ASSUME NEW j \in 1 .. n
          PROVE  s[j] # q[t] /\ \E k \in 1 .. Len(p) : q[k] = s[j]
      <4>1. PICK k \in 1 .. Len(p) : p[k] = s[j]
        BY DEF HoldsFirst
      <4> QED BY <1>1, <2>2, <4>1
    <3>4. ASSUME NEW k \in 1 .. Len(p)
          PROVE  \E j \in 1 .. n : s[j] = q[k]
      BY <1>1 DEF HoldsFirst
    <3>5. /\ \A j \in 1 .. (n + 1) - 1 : s[j] # q[t] /\ \E k \in 1 .. t - 1 : q[k] = s[j]
          /\ \A k \in 1 .. t - 1 : \E j \in 1 .. (n + 1) - 1 : s[j] = q[k]
      <4>1. \A j \in 1 .. n : s[j] # q[t] /\ \E k \in 1 .. Len(p) : q[k] = s[j]
        BY <3>3
      <4>2. \A k \in 1 .. Len(p) : \E j \in 1 .. n : s[j] = q[k]
        BY <3>4
      <4> QED BY <3>1, <4>1, <4>2, Zenon
    <3> WITNESS n + 1 \in 1 .. N
    <3> QED BY <3>2, <3>5
  <2> QED BY <2>1, <2>2
<1>5. HoldsFirst(s, n + 1, q)
  BY <1>2, <1>3 DEF HoldsFirst
<1>6. Earliest(s, N, q)
  BY <1>4 DEF Earliest
<1> QED BY <1>5, <1>6 DEF q

\* A value seen before changes nothing.
LEMMA SkipNext ==
  ASSUME NEW s, NEW n \in Nat, NEW p \in Seq(Position),
         HoldsFirst(s, n, p), NEW k \in 1 .. Len(p), p[k] = s[n + 1]
  PROVE  HoldsFirst(s, n + 1, p)
<1>1. ASSUME NEW j \in 1 .. n + 1
      PROVE  \E h \in 1 .. Len(p) : p[h] = s[j]
  <2>1. CASE j = n + 1
    BY <2>1
  <2>2. CASE j # n + 1
    <3>1. j \in 1 .. n
      BY <2>2
    <3> QED BY <3>1 DEF HoldsFirst
  <2> QED BY <2>1, <2>2
<1>2. ASSUME NEW h \in 1 .. Len(p)
      PROVE  \E j \in 1 .. n + 1 : s[j] = p[h]
  <2>1. PICK j \in 1 .. n : s[j] = p[h]
    BY DEF HoldsFirst
  <2>2. j \in 1 .. n + 1
    BY <2>1
  <2> QED BY <2>1, <2>2
<1> QED BY <1>1, <1>2 DEF HoldsFirst

\* The values the loops have looked at so far.
Looked == candidate + v

StreamLen == HashLen + WordCount

\* What was taken is what was looked at, in its order; the second loop starts
\* only when the hash is used up.
OrderInv ==
  /\ HoldsFirst(Stream, Looked, pos)
  /\ Earliest(Stream, StreamLen, pos)
  /\ v > 0 => candidate = HashLen

\* Looking at the next value keeps the order.
LEMMA TakeNext ==
  ASSUME pos \in Seq(Position), OrderInv, StreamLen \in Nat,
         Looked \in Nat, Looked + 1 <= StreamLen, Stream' = Stream,
         NEW x \in Position, x = Stream[Looked + 1], Take(x)
  PROVE  HoldsFirst(Stream', Looked + 1, pos') /\ Earliest(Stream', StreamLen, pos')
<1>1. HoldsFirst(Stream, Looked, pos) /\ Earliest(Stream, StreamLen, pos)
  BY DEF OrderInv
<1>2. CASE Taken(x)
  <2>1. PICK k \in 1 .. Len(pos) : pos[k] = Stream[Looked + 1]
    BY <1>2 DEF Taken
  <2>2. HoldsFirst(Stream, Looked + 1, pos)
    BY <1>1, <2>1, SkipNext
  <2> QED BY <1>1, <1>2, <2>2 DEF Take
<1>3. CASE ~Taken(x)
  <2>1. \A k \in 1 .. Len(pos) : pos[k] # x
    BY <1>3 DEF Taken
  <2>2. /\ HoldsFirst(Stream, Looked + 1, Append(pos, x))
        /\ Earliest(Stream, StreamLen, Append(pos, x))
    BY <1>1, <2>1, AppendNext
  <2> QED BY <1>3, <2>2 DEF Take
<1> QED BY <1>2, <1>3

LEMMA OrderInvStep == IInv /\ OrderInv /\ [Next]_vars => OrderInv'
<1> SUFFICES ASSUME IInv, OrderInv, [Next]_vars
             PROVE  OrderInv'
  OBVIOUS
<1>1. pos \in Seq(Position) /\ candidate \in 0 .. HashLen /\ v \in 0 .. WordCount
  BY DEF IInv, TypeOK
<1>2. StreamLen \in Nat /\ StreamLen' = StreamLen
  BY ConstantsTyped DEF StreamLen
<1>3. CASE FromHash
  <2>1. v = 0 /\ candidate < HashLen /\ candidate' = candidate + 1 /\ UNCHANGED <<hash, v>>
    BY <1>1, <1>3, ConstantsTyped DEF FromHash, Advance, OrderInv
  <2>2. Looked \in Nat /\ Looked = candidate /\ Looked + 1 <= StreamLen /\ Looked' = Looked + 1
    BY <1>1, <2>1, ConstantsTyped DEF Looked, StreamLen
  <2>3. Stream[Looked + 1] = hash[candidate] % WordCount
    BY <1>1, <2>1, <2>2, ConstantsTyped DEF Stream, StreamLen
  <2>4. hash[candidate] % WordCount \in Position
    BY <1>1, <2>1, BytePosition, ConstantsTyped DEF IInv, TypeOK
  <2>5. Stream' = Stream
    BY <2>1 DEF Stream
  <2>6. Take(hash[candidate] % WordCount)
    BY <1>3 DEF FromHash
  <2>7. HoldsFirst(Stream', Looked + 1, pos') /\ Earliest(Stream', StreamLen, pos')
    BY <1>1, <1>2, <2>2, <2>3, <2>4, <2>5, <2>6, TakeNext
  <2> QED BY <1>2, <2>1, <2>2, <2>7 DEF OrderInv
<1>4. CASE Fallback
  <2>1. candidate = HashLen /\ v < WordCount /\ v' = v + 1 /\ UNCHANGED <<hash, candidate>>
    BY <1>1, <1>4, ConstantsTyped DEF Fallback, FallbackBegins, FallbackEnd
  <2>2. /\ Looked \in Nat /\ Looked = HashLen + v /\ Looked + 1 <= StreamLen
        /\ Looked' = Looked + 1
    BY <1>1, <2>1, ConstantsTyped DEF Looked, StreamLen
  <2>3. Stream[Looked + 1] = v /\ v \in Position
    BY <1>1, <2>1, <2>2, ConstantsTyped DEF Stream, StreamLen, Position
  <2>4. Stream' = Stream
    BY <2>1 DEF Stream
  <2>5. Take(v)
    BY <1>4 DEF Fallback
  <2>6. HoldsFirst(Stream', Looked + 1, pos') /\ Earliest(Stream', StreamLen, pos')
    BY <1>1, <1>2, <2>2, <2>3, <2>4, <2>5, TakeNext
  <2> QED BY <1>2, <2>1, <2>2, <2>6 DEF OrderInv
<1>5. CASE UNCHANGED vars
  <2>1. Stream' = Stream
    BY <1>5 DEF Stream
  <2>2. Looked' = Looked
    BY <1>5 DEF Looked
  <2> QED BY <1>2, <1>5, <2>1, <2>2 DEF OrderInv
<1> QED BY <1>3, <1>4, <1>5 DEF Next

-----------------------------------------------------------------------------
(* The keyboard: each letter of the word is a press, and each press a letter.*)

Chars == Keys \cup {k - 32 : k \in Keys}

\* A key's character, with shift or without, gives the key back.
LEMMA CharOfKey ==
  ASSUME shift \in BOOLEAN, NEW k \in Keys
  PROVE  Char(k) \in Chars /\ ToLower(Char(k)) = k
<1>1. k \in 97 .. 122
  BY KeyboardAssumption
<1> QED BY <1>1 DEF Char, Chars, ToLower, Upper

LEMMA LettersLower ==
  ASSUME NEW c \in Chars
  PROVE  ToLower(c) \in Keys
<1>1. CASE c \in Keys
  <2>1. c \in 97 .. 122
    BY <1>1, KeyboardAssumption
  <2> QED BY <1>1, <2>1 DEF ToLower, Upper
<1>2. ASSUME NEW k \in Keys, c = k - 32
      PROVE  ToLower(c) \in Keys
  <2>1. k \in 97 .. 122
    BY KeyboardAssumption
  <2> QED BY <1>2, <2>1 DEF ToLower, Upper
<1> QED BY <1>1, <1>2 DEF Chars

LEMMA CharsFinite == \A S : S \subseteq Chars => IsFiniteSet(S) /\ Cardinality(S) \in Nat
<1>1. Chars \subseteq 65 .. 122
  <2>1. \A k \in Keys : k \in 97 .. 122
    BY KeyboardAssumption
  <2>2. \A k \in Keys : k \in 65 .. 122 /\ k - 32 \in 65 .. 122
    BY <2>1
  <2> QED BY <2>2 DEF Chars
<1>2. IsFiniteSet(65 .. 122)
  <2>1. 65 \in Int /\ 122 \in Int
    OBVIOUS
  <2> QED BY <2>1, FS_Interval
<1>3. ASSUME NEW S, S \subseteq Chars
      PROVE  IsFiniteSet(S) /\ Cardinality(S) \in Nat
  <2>1. IsFiniteSet(S)
    BY <1>1, <1>2, <1>3, FS_Subset
  <2> QED BY <2>1, FS_CardinalityType
<1> QED BY <1>3

LEMMA KeysFinite == \A S : S \subseteq Keys => IsFiniteSet(S) /\ Cardinality(S) \in Nat
<1>1. \A S : S \subseteq Keys => S \subseteq Chars
  BY DEF Chars
<1> QED BY <1>1, CharsFinite

\* While no more keys are down than a poll takes in, it takes in all of them.
LEMMA ScanComplete ==
  ASSUME down \subseteq Keys, Cardinality(down) <= WordCap
  PROVE  Scanned = down /\ TakenIn = Word
<1>1. ASSUME NEW k \in down
      PROVE  Cardinality({j \in down : j <= k}) <= WordCap
  <2> DEFINE before == {j \in down : j <= k}
  <2>1. before \subseteq down
    OBVIOUS
  <2>2. IsFiniteSet(down) /\ Cardinality(down) \in Nat /\ Cardinality(before) \in Nat
    BY <2>1, KeysFinite
  <2>3. Cardinality(before) <= Cardinality(down)
    BY <2>1, <2>2, FS_Subset
  <2> HIDE DEF before
  <2>4. Cardinality(before) <= WordCap
    BY <2>2, <2>3, KeyboardAssumption
  <2> QED BY <2>4 DEF before
<1> QED BY <1>1 DEF Scanned, TakenIn, Word

LEMMA TakenInTyped ==
  ASSUME KeysTypeOK
  PROVE  /\ Word \subseteq Chars /\ TakenIn \subseteq Word
         /\ \A c \in TakenIn : \E k \in down : c = Char(k)
         /\ \A k \in down : k \in Keys /\ Char(k) \in Word
<1>1. down \subseteq Keys /\ shift \in BOOLEAN
  BY DEF KeysTypeOK
<1> QED BY <1>1, CharOfKey DEF TakenIn, Word, Scanned

\* Which presses a poll has answered shows in the characters the poll before
\* saw, as long as no key was left out and shift stood still.
NotCrowded ==
  ~crowded => Cardinality(down) <= WordCap /\ mask = seen

Accounted ==
  ~crowded /\ ~reshifted =>
    \A k \in down : k \in unspent <=> Char(k) \notin seen

KeysInv == KeysTypeOK /\ NotCrowded /\ Accounted

LEMMA KeysInvInit == KeysInit => KeysInv
<1> SUFFICES ASSUME KeysInit PROVE KeysInv
  OBVIOUS
<1>1. KeysTypeOK
  <2>1. buf \in Seq(Keys) /\ Len(buf) <= BufCap
    BY EmptySeq, KeyboardAssumption DEF KeysInit
  <2> QED BY <2>1 DEF KeysInit, KeysTypeOK
<1>2. Cardinality(down) <= WordCap
  BY FS_EmptySet, KeyboardAssumption DEF KeysInit
<1> QED BY <1>1, <1>2 DEF KeysInit, KeysInv, NotCrowded, Accounted

LEMMA KeyDownKeeps == \A k \in Keys : KeysInv /\ KeyDown(k) => KeysInv'
<1> SUFFICES ASSUME KeysInv, NEW k \in Keys, KeyDown(k) PROVE KeysInv'
  OBVIOUS
<1> USE DEF KeysInv
<1>1. KeysTypeOK'
  <2>1. (crowded \/ Cardinality(down') > WordCap) \in BOOLEAN
    OBVIOUS
  <2> QED BY DEF KeysTypeOK, KeyDown, edges
<1>2. NotCrowded'
  <2>1. Cardinality(down') \in Nat /\ WordCap \in Nat
    BY <1>1, KeysFinite, KeyboardAssumption DEF KeysTypeOK
  <2>2. crowded' = (crowded \/ Cardinality(down') > WordCap) /\ UNCHANGED <<mask, seen>>
    BY DEF KeyDown, edges
  <2>3. ~crowded' => ~crowded /\ ~(Cardinality(down') > WordCap)
    BY <2>2
  <2> QED BY <2>1, <2>2, <2>3 DEF NotCrowded
<1>3. Accounted'
  BY DEF Accounted, KeyDown, Char, edges, KeysTypeOK
<1> QED BY <1>1, <1>2, <1>3

LEMMA KeyUpKeeps == \A k \in Keys : KeysInv /\ KeyUp(k) => KeysInv'
<1> SUFFICES ASSUME KeysInv, NEW k \in Keys, KeyUp(k) PROVE KeysInv'
  OBVIOUS
<1> USE DEF KeysInv
<1>1. KeysTypeOK'
  BY DEF KeysTypeOK, KeyUp, edges
<1>2. NotCrowded'
  <2>1. down' \subseteq down /\ down \subseteq Keys /\ down' \subseteq Keys
    BY DEF KeyUp, KeysTypeOK
  <2>2. Cardinality(down') <= Cardinality(down)
    BY <2>1, KeysFinite, FS_Subset
  <2>3. Cardinality(down') \in Nat /\ Cardinality(down) \in Nat /\ WordCap \in Nat
    BY <2>1, KeysFinite, KeyboardAssumption
  <2> QED BY <2>2, <2>3 DEF NotCrowded, KeyUp, edges
<1>3. Accounted'
  BY DEF Accounted, KeyUp, Char, edges, KeysTypeOK
<1> QED BY <1>1, <1>2, <1>3

LEMMA ShiftKeeps == KeysInv /\ (Shift \/ EnterOrDel) => KeysInv'
<1> SUFFICES ASSUME KeysInv, Shift \/ EnterOrDel PROVE KeysInv'
  OBVIOUS
<1> USE DEF KeysInv
<1>1. CASE Shift
  <2>1. (~shift) \in BOOLEAN /\ (reshifted \/ down # {}) \in BOOLEAN
    OBVIOUS
  <2>2. KeysTypeOK'
    BY <1>1, <2>1 DEF KeysTypeOK, Shift, edges
  <2>3. NotCrowded'
    BY <1>1 DEF NotCrowded, Shift, edges
  <2>4. Accounted'
    BY <1>1 DEF Accounted, Shift, edges
  <2> QED BY <2>2, <2>3, <2>4
<1>2. CASE EnterOrDel
  <2>1. KeysTypeOK'
    BY <1>2 DEF KeysTypeOK, EnterOrDel, edges
  <2>2. NotCrowded'
    BY <1>2 DEF NotCrowded, EnterOrDel, edges
  <2>3. Accounted'
    BY <1>2 DEF Accounted, EnterOrDel, edges, Char
  <2> QED BY <2>1, <2>2, <2>3
<1> QED BY <1>1, <1>2

\* Every poll that finds a key leaves all presses it saw answered.
LEMMA PollKeeps ==
  ASSUME KeysInv, Poll, buf' \in Seq(Keys), Len(buf') <= BufCap, open' \in BOOLEAN
  PROVE  KeysInv'
<1> USE DEF KeysInv
<1>0. UNCHANGED <<down, shift, enterDown, delDown, crowded, reshifted>>
  BY DEF Poll, keyboard
<1>1. KeysTypeOK'
  <2>1. mask' \subseteq Chars /\ seen' \subseteq Chars
    BY TakenInTyped DEF Poll, KeyEdges, SavedMask
  <2>2. prevEnter' = enterDown /\ prevDel' = delDown /\ unspent' \subseteq down
    BY DEF Poll, KeyEdges, KeysTypeOK
  <2> QED BY <1>0, <2>1, <2>2 DEF KeysTypeOK, Chars
<1>2. NotCrowded'
  BY <1>0, ScanComplete DEF NotCrowded, KeysTypeOK, Poll, KeyEdges, SavedMask
<1>3. Accounted'
  <2> SUFFICES ASSUME ~crowded, ~reshifted, NEW k \in down
               PROVE  k \notin unspent' /\ Char(k) \in seen'
    BY <1>0 DEF Accounted, Char
  <2>1. k \in Keys /\ shift \in BOOLEAN /\ TakenIn = Word
    BY ScanComplete DEF NotCrowded, KeysTypeOK
  <2>2. Char(k) \in TakenIn /\ ToLower(Char(k)) = k
    BY <2>1, CharOfKey DEF Word
  <2> QED BY <2>1, <2>2 DEF Poll, Answered
<1> QED BY <1>1, <1>2, <1>3

LEMMA FrontShorter ==
  ASSUME NEW s \in Seq(Keys), s # <<>>
  PROVE  Front(s) \in Seq(Keys) /\ Len(Front(s)) = Len(s) - 1
<1>1. Len(s) \in Nat \ {0} /\ 1 \in Int /\ Len(s) - 1 \in Int
  BY EmptySeq
<1>2. \A i \in 1 .. Len(s) - 1 : s[i] \in Keys
  BY <1>1
<1> DEFINE n == Len(s) - 1
           f == SubSeq(s, 1, n)
<1>3. f \in Seq(Keys) /\ Len(f) = IF 1 <= n THEN n - 1 + 1 ELSE 0
  BY <1>1, <1>2, SubSeqProperties
<1>4. n \in Nat
  BY <1>1
<1> HIDE DEF n, f
<1>5. Len(f) = n
  BY <1>3, <1>4
<1> QED BY <1>3, <1>5 DEF Front, f, n

\* What a poll does to the word.
LEMMA PollWrites ==
  ASSUME KeysInv, PollEnter \/ PollDel \/ PollLetter \/ PollOther
  PROVE  Poll /\ buf' \in Seq(Keys) /\ Len(buf') <= BufCap /\ open' \in BOOLEAN
<1>1. /\ buf \in Seq(Keys) /\ Len(buf) <= BufCap /\ Len(buf) \in Nat /\ BufCap \in Nat
      /\ open \in BOOLEAN
  BY KeyboardAssumption DEF KeysInv, KeysTypeOK
<1>2. CASE PollEnter
  BY <1>1, <1>2 DEF PollEnter
<1>3. CASE PollDel
  <2>1. (buf # <<>>) \in BOOLEAN
    OBVIOUS
  <2>2. CASE buf = <<>>
    BY <1>1, <1>3, <2>1, <2>2 DEF PollDel
  <2>3. CASE buf # <<>>
    <3>1. Front(buf) \in Seq(Keys) /\ Len(Front(buf)) = Len(buf) - 1
      BY <1>1, <2>3, FrontShorter
    <3> QED BY <1>1, <1>3, <2>1, <2>3, <3>1 DEF PollDel
  <2> QED BY <2>2, <2>3
<1>4. CASE PollLetter
  <2>1. PICK c \in Added : buf' = IF RoomInBuf THEN Append(buf, ToLower(c)) ELSE buf
    BY <1>4 DEF PollLetter
  <2>2. c \in Chars
    BY TakenInTyped DEF KeysInv, Added
  <2>3. ToLower(c) \in Keys
    BY <2>2, LettersLower
  <2> QED BY <1>1, <1>4, <2>1, <2>3 DEF PollLetter, RoomInBuf
<1>5. CASE PollOther
  BY <1>1, <1>5 DEF PollOther
<1> QED BY <1>2, <1>3, <1>4, <1>5

LEMMA KeysInvStep == KeysInv /\ [KeysNext]_keysVars => KeysInv'
<1> SUFFICES ASSUME KeysInv, [KeysNext]_keysVars PROVE KeysInv'
  OBVIOUS
<1>1. CASE \E k \in Keys : KeyDown(k) \/ KeyUp(k)
  BY <1>1, KeyDownKeeps, KeyUpKeeps
<1>2. CASE Shift \/ EnterOrDel
  BY <1>2, ShiftKeeps
<1>3. CASE PollEnter \/ PollDel \/ PollLetter \/ PollOther
  BY <1>3, PollWrites, PollKeeps
<1>4. CASE PollReleased
  <2>1. KeysTypeOK'
    <3>1. <<>> \in Seq(Keys) /\ Len(<<>>) <= BufCap
      BY EmptySeq, KeyboardAssumption
    <3>2. buf' \in Seq(Keys) /\ Len(buf') <= BufCap
      BY <1>4, <3>1 DEF PollReleased, KeysInv, KeysTypeOK
    <3> QED BY <1>4, <3>2 DEF KeysInv, KeysTypeOK, PollReleased, keyboard
  <2>2. down = {}
    BY <1>4 DEF PollReleased, Pressed
  <2>3. NotCrowded'
    BY <1>4, <2>2, FS_EmptySet, KeyboardAssumption DEF NotCrowded, PollReleased, keyboard
  <2>4. Accounted'
    BY <1>4, <2>2 DEF Accounted, PollReleased, keyboard
  <2> QED BY <2>1, <2>3, <2>4 DEF KeysInv
<1>5. CASE UNCHANGED keysVars
  BY <1>5 DEF KeysInv, KeysTypeOK, NotCrowded, Accounted, Char, keysVars, keyboard, edges
<1> QED BY <1>1, <1>2, <1>3, <1>4, <1>5 DEF KeysNext

\* An unanswered press that a poll takes in is new to it; what is new is an
\* unanswered press.
LEMMA NewIsUnanswered ==
  ASSUME KeysInv, ~crowded, ~reshifted
  PROVE  /\ \A k \in unspent : Char(k) \in TakenIn => Char(k) \in Added
         /\ \A c \in Added : ToLower(c) \in unspent
<1>1. mask = seen /\ shift \in BOOLEAN /\ unspent \subseteq down /\ down \subseteq Keys
  BY DEF KeysInv, KeysTypeOK, NotCrowded
<1>2. \A k \in down : k \in unspent <=> Char(k) \notin seen
  BY DEF KeysInv, Accounted
<1>3. ASSUME NEW c \in Added
      PROVE  ToLower(c) \in unspent
  <2>1. PICK k \in down : c = Char(k)
    BY TakenInTyped DEF Added, KeysInv
  <2>2. ToLower(c) = k
    BY <1>1, <2>1, CharOfKey
  <2> QED BY <1>1, <1>2, <2>1, <2>2 DEF Added
<1> QED BY <1>1, <1>2, <1>3 DEF Added

\* A letter enters the word only for a press no earlier poll has answered.
LEMMA LetterStep ==
  KeysInv /\ [KeysNext]_keysVars =>
    (Len(buf') > Len(buf) /\ ~crowded /\ ~reshifted => Last(buf') \in unspent)
<1> SUFFICES ASSUME KeysInv, [KeysNext]_keysVars, Len(buf') > Len(buf), ~crowded, ~reshifted
             PROVE  Last(buf') \in unspent
  OBVIOUS
<1>1. buf \in Seq(Keys) /\ Len(buf) \in Nat
  BY DEF KeysInv, KeysTypeOK
<1>2. CASE PollLetter
  <2>1. PICK c \in Added : buf' = IF RoomInBuf THEN Append(buf, ToLower(c)) ELSE buf
    BY <1>2 DEF PollLetter
  <2>2. buf' = Append(buf, ToLower(c))
    BY <1>1, <2>1
  <2>3. ToLower(c) \in unspent
    BY NewIsUnanswered
  <2>4. Last(buf') = ToLower(c)
    BY <1>1, <2>2 DEF Last
  <2> QED BY <2>3, <2>4
<1>3. CASE PollDel
  <2>1. CASE buf # <<>>
    <3>1. Len(Front(buf)) = Len(buf) - 1
      BY <1>1, <2>1, FrontShorter
    <3> QED BY <1>1, <1>3, <2>1, <3>1 DEF PollDel
  <2> QED BY <1>1, <1>3, <2>1 DEF PollDel
<1>4. CASE PollEnter
  BY <1>1, <1>4 DEF PollEnter
<1>5. CASE buf' = buf
  BY <1>1, <1>5
<1>6. CASE PollReleased
  BY <1>1, <1>5, <1>6 DEF PollReleased
<1> QED
  BY <1>2, <1>3, <1>4, <1>5, <1>6
     DEF KeysNext, KeyDown, KeyUp, Shift, EnterOrDel, PollOther, keysVars

\* A press that a poll took in became a letter or was refused, unless Enter,
\* Del, or a full word went first.
LEMMA PressStep ==
  ASSUME KeysInv, [KeysNext]_keysVars, NEW k \in (unspent \ unspent') \cap down'
  PROVE  \/ buf' = Append(buf, k)
         \/ Cardinality(Added) > 1
         \/ EnterEdge \/ DelEdge \/ Len(buf) = BufCap
         \/ crowded \/ reshifted
<1> SUFFICES ASSUME ~crowded, ~reshifted, ~EnterEdge, ~DelEdge, Len(buf) # BufCap
             PROVE  buf' = Append(buf, k) \/ Cardinality(Added) > 1
  OBVIOUS
<1>1. /\ buf \in Seq(Keys) /\ Len(buf) \in Nat /\ Len(buf) < BufCap
      /\ shift \in BOOLEAN /\ unspent \subseteq down /\ down \subseteq Keys
  BY KeyboardAssumption DEF KeysInv, KeysTypeOK
<1>2. PollLetter \/ PollOther
  BY <1>1 DEF KeysNext, KeyDown, KeyUp, Shift, EnterOrDel, PollEnter, PollDel, PollReleased, keysVars
<1>3. ToLower(Char(k)) = k /\ Char(k) \in Added
  <2>1. k \in Answered
    BY <1>2 DEF PollLetter, PollOther, Poll
  <2>2. PICK c \in TakenIn : k = ToLower(c)
    BY <2>1 DEF Answered
  <2>3. PICK j \in down : c = Char(j)
    BY TakenInTyped DEF KeysInv
  <2>4. ToLower(Char(j)) = j
    BY <1>1, <2>3, CharOfKey
  <2>5. k = j
    BY <2>2, <2>3, <2>4
  <2> QED BY <2>2, <2>3, <2>4, <2>5, NewIsUnanswered
<1>4. CASE PollLetter
  <2>1. PICK c \in Added : Added = {c} /\ buf' = IF RoomInBuf THEN Append(buf, ToLower(c)) ELSE buf
    BY <1>4 DEF PollLetter
  <2>2. c = Char(k)
    BY <1>3, <2>1
  <2> QED BY <1>1, <1>3, <2>1, <2>2 DEF RoomInBuf
<1>5. CASE PollOther
  <2>1. Added \subseteq Chars
    BY TakenInTyped DEF Added, KeysInv
  <2>2. IsFiniteSet(Added) /\ Cardinality(Added) \in Nat
    BY <2>1, CharsFinite
  <2>3. Cardinality(Added) # 0
    BY <1>3, <2>2, FS_EmptySet
  <2> QED BY <1>5, <2>2, <2>3 DEF PollOther
<1> QED BY <1>2, <1>4, <1>5

-----------------------------------------------------------------------------
(* The number in the bytes: acc holds, little end first, what the digits     *)
(* taken in so far stand for.                                                *)

LEMMA RawConstants ==
  /\ Faces \in Nat \ {0} /\ NeedEntries \in Nat \ {0} /\ MaxRolls \in Nat
  /\ RawRanges \in Nat \ {0} /\ RawRangeSize \in Nat \ {0}
  /\ Base \in Nat \ {0} /\ AccSize \in Nat \ {0} /\ Faces <= Base /\ RawRanges < Base
BY DiceAssumption, RawAssumption

LEMMA TranscriptTyped ==
  ASSUME NEW r \in Transcripts
  PROVE  Len(r) \in Nat /\ \A n \in 1 .. Len(r) : r[n] \in 1 .. Faces
<1>1. PICK n \in 0 .. MaxRolls : r \in [1 .. n -> Face]
  BY DEF Transcripts
<1>2. n \in Nat
  BY <1>1, RawConstants
<1>3. Len(r) = n
  BY <1>1, <1>2
<1> QED BY <1>1, <1>2, <1>3 DEF Face

\* How many digits a transcript gives, and the number after each of them.
Digits(r) == IF Len(r) < NeedEntries THEN Len(r) ELSE NeedEntries

DigitValues(r) ==
  CHOOSE X : X = [n \in 0 .. Digits(r) |-> IF n = 0 THEN 0 ELSE X[n - 1] * Faces + (r[n] - 1)]

LEMMA DigitsTyped ==
  ASSUME NEW r \in Transcripts
  PROVE  /\ Digits(r) \in Nat /\ Digits(r) <= NeedEntries /\ Digits(r) <= Len(r)
         /\ (Digits(r) = NeedEntries <=> ~(Len(r) < NeedEntries))
BY TranscriptTyped, RawConstants DEF Digits

LEMMA DigitValuesStep ==
  ASSUME NEW r \in Transcripts
  PROVE  /\ RawValue(r) = DigitValues(r)[Digits(r)]
         /\ DigitValues(r)[0] = 0
         /\ \A n \in 1 .. Digits(r) :
              DigitValues(r)[n] = DigitValues(r)[n - 1] * Faces + (r[n] - 1)
<1> DEFINE m == Digits(r)
           X == DigitValues(r)
           Table(Y) == Y = [n \in 0 .. m |-> IF n = 0 THEN 0 ELSE Y[n - 1] * Faces + (r[n] - 1)]
           g == [n \in 1 .. m |-> r[n] - 1]
<1>1. RawValue(r) = X[m]
  BY DEF RawValue, DigitValues, Digits
<1>2. X = CHOOSE Y : Table(Y)
  BY DEF DigitValues
<1>3. m \in Nat /\ m <= Len(r)
  BY DigitsTyped
<1> HIDE DEF m, X
<1>4. g \in [1 .. m -> Nat]
  <2>1. \A n \in 1 .. m : r[n] \in 1 .. Faces
    BY <1>3, TranscriptTyped
  <2> QED BY <2>1, RawConstants
<1>5. PICK f : Linear(f, m, 0, Faces, g)
  <2>1. 0 \in Nat /\ Faces \in Nat
    BY RawConstants
  <2> HIDE DEF g, Table
  <2> QED BY <1>3, <1>4, <2>1, LinearRecursion
<1>6. Table(f)
  <2>1. \A n \in 1 .. m : f[n] = f[n - 1] * Faces + (r[n] - 1)
    BY <1>5 DEF Linear
  <2> HIDE DEF g
  <2> QED BY <1>3, <1>5, <2>1 DEF Linear
<1>7. Table(X)
  <2> HIDE DEF Table
  <2> QED BY <1>2, <1>6
<1>8. X[0] = 0 /\ \A n \in 1 .. m : X[n] = X[n - 1] * Faces + (r[n] - 1)
  BY <1>3, <1>7
<1> QED BY <1>1, <1>8 DEF m, X

\* n digits make a number below Faces^n.
LEMMA DigitsBound ==
  ASSUME NEW r \in Transcripts
  PROVE  \A n \in 0 .. Digits(r) :
           DigitValues(r)[n] \in Nat /\ DigitValues(r)[n] < Power(Faces, n)
<1> DEFINE X == DigitValues(r)
           S == {n \in Nat : n <= Digits(r) => X[n] \in Nat /\ X[n] < Power(Faces, n)}
<1>1. 0 \in S
  <2>1. X[0] = 0
    BY DigitValuesStep
  <2>2. Power(Faces, 0) = 1
    BY PowerSteps, RawConstants
  <2> HIDE DEF X
  <2> QED BY <2>1, <2>2
<1>2. ASSUME NEW n \in Nat, n \in S
      PROVE  n + 1 \in S
  <2> SUFFICES ASSUME n + 1 <= Digits(r)
               PROVE  X[n + 1] \in Nat /\ X[n + 1] < Power(Faces, n + 1)
    OBVIOUS
  <2>1. Digits(r) \in Nat /\ Digits(r) <= Len(r) /\ Len(r) \in Nat
    BY DigitsTyped, TranscriptTyped
  <2>2. X[n] \in Nat /\ X[n] < Power(Faces, n) /\ n + 1 \in 1 .. Digits(r) /\ (n + 1) - 1 = n
    BY <1>2, <2>1
  <2>3. r[n + 1] - 1 \in 0 .. Faces - 1
    BY <2>1, TranscriptTyped, RawConstants
  <2>4. X[n + 1] = X[n] * Faces + (r[n + 1] - 1)
    BY <2>2, DigitValuesStep
  <2>5. Power(Faces, n) \in Nat /\ Power(Faces, n + 1) = Power(Faces, n) * Faces
    BY PowerSteps, RawConstants
  <2>6. \A x, p, f, d \in Nat : x < p /\ d < f => x * f + d \in Nat /\ x * f + d < p * f
    <3> SUFFICES ASSUME NEW x \in Nat, NEW p \in Nat, NEW f \in Nat, NEW d \in Nat,
                        x + 1 <= p, d < f
                 PROVE  x * f + d \in Nat /\ x * f + d < p * f
      OBVIOUS
    <3>1. (x + 1) * f <= p * f
      OBVIOUS
    <3>2. (x + 1) * f = x * f + f /\ x * f \in Nat /\ p * f \in Nat
      OBVIOUS
    <3> QED BY <3>1, <3>2
  <2>7. r[n + 1] - 1 \in Nat /\ r[n + 1] - 1 < Faces /\ Faces \in Nat
    BY <2>3, RawConstants
  <2> HIDE DEF X
  <2> QED BY <2>2, <2>4, <2>5, <2>6, <2>7
<1>3. \A n \in Nat : n \in S
  <2> HIDE DEF S
  <2> QED BY <1>1, <1>2, FromZero
<1> QED BY <1>3, DigitsTyped

-----------------------------------------------------------------------------
\* L[i] is the number in the first i bytes of s.
PrefixSums(L, s) ==
  /\ L \in [0 .. Len(s) -> Int] /\ L[0] = 0
  /\ \A i \in 1 .. Len(s) : L[i] = L[i - 1] + s[i] * Power(Base, i - 1)

LEMMA Weights ==
  \A i \in Nat : /\ Power(Base, i) \in Nat \ {0}
                 /\ Power(Base, i + 1) = Power(Base, i) * Base
BY PowerPositive, PowerSteps, RawConstants

\* One more digit below b adds less than one more place.
LEMMA PlaceBound ==
  ASSUME NEW low \in Nat, NEW w \in Nat, NEW d \in Nat, NEW b \in Nat, low < w, d < b
  PROVE  low + d * w \in Nat /\ low + d * w < w * b
<1>1. (d + 1) * w <= b * w
  <2>1. d + 1 <= b
    OBVIOUS
  <2> QED BY <2>1
<1>2. (d + 1) * w = d * w + w /\ d * w \in Nat /\ b * w = w * b
  OBVIOUS
<1>3. w * b \in Nat
  OBVIOUS
<1> QED BY <1>1, <1>2, <1>3

LEMMA PrefixBound ==
  ASSUME NEW s \in Seq(0 .. Base - 1), NEW L, PrefixSums(L, s)
  PROVE  \A i \in 0 .. Len(s) : L[i] \in Nat /\ L[i] < Power(Base, i)
<1> DEFINE S == {i \in Nat : i <= Len(s) => L[i] \in Nat /\ L[i] < Power(Base, i)}
<1>1. 0 \in S
  <2>1. L[0] = 0
    BY DEF PrefixSums
  <2>2. Power(Base, 0) = 1
    BY PowerSteps, RawConstants
  <2> QED BY <2>1, <2>2
<1>2. ASSUME NEW i \in Nat, i \in S
      PROVE  i + 1 \in S
  <2> SUFFICES ASSUME i + 1 <= Len(s)
               PROVE  L[i + 1] \in Nat /\ L[i + 1] < Power(Base, i + 1)
    OBVIOUS
  <2>1. Len(s) \in Nat
    OBVIOUS
  <2>2. i + 1 \in 1 .. Len(s) /\ (i + 1) - 1 = i
    BY <2>1
  <2>3. s[i + 1] \in 0 .. Base - 1
    BY <2>2, ElementOfSeq
  <2>4. L[i + 1] = L[i] + s[i + 1] * Power(Base, i)
    BY <2>2 DEF PrefixSums
  <2>5. L[i] \in Nat /\ L[i] < Power(Base, i)
    BY <1>2, <2>1
  <2>6. s[i + 1] \in Nat /\ s[i + 1] < Base /\ Base \in Nat
    BY <2>3, RawConstants
  <2>7. Power(Base, i) \in Nat /\ Power(Base, i + 1) = Power(Base, i) * Base
    BY Weights
  <2> HIDE DEF S
  <2>8. /\ L[i] + s[i + 1] * Power(Base, i) \in Nat
        /\ L[i] + s[i + 1] * Power(Base, i) < Power(Base, i) * Base
    BY <2>5, <2>6, <2>7, PlaceBound
  <2> QED BY <2>4, <2>7, <2>8
<1>3. \A i \in Nat : i \in S
  <2> HIDE DEF S
  <2>1. \A i \in Nat : i >= 0 => i \in S
    BY <1>1, <1>2, Upwards
  <2> QED BY <2>1
<1>4. Len(s) \in Nat
  OBVIOUS
<1> QED BY <1>3, <1>4

\* Changing byte d + 1 shifts the numbers from there on.
LEMMA PrefixesChanged ==
  ASSUME NEW s \in Seq(0 .. Base - 1), NEW L, PrefixSums(L, s),
         NEW d \in 0 .. Len(s) - 1, NEW x \in 0 .. Base - 1
  PROVE  LET w == Power(Base, d)
             t == [s EXCEPT ![d + 1] = x]
             M == [i \in 0 .. Len(s) |-> IF i <= d THEN L[i] ELSE L[i] + (x - s[d + 1]) * w]
         IN  PrefixSums(M, t)
<1> DEFINE w == Power(Base, d)
           t == [s EXCEPT ![d + 1] = x]
           delta == (x - s[d + 1]) * w
           M == [i \in 0 .. Len(s) |-> IF i <= d THEN L[i] ELSE L[i] + delta]
<1>1. Len(s) \in Nat /\ d \in Nat /\ d < Len(s)
  OBVIOUS
<1>2. s[d + 1] \in 0 .. Base - 1 /\ s[d + 1] \in Int /\ x \in Int
  BY <1>1, RawConstants
<1>3. w \in Int
  BY <1>1, Weights
<1>4. delta \in Int
  BY <1>2, <1>3
<1>5. /\ Len(t) = Len(s) /\ t[d + 1] = x
      /\ \A i \in 1 .. Len(s) : i # d + 1 => t[i] = s[i]
  BY <1>1
<1>6. x * w = s[d + 1] * w + delta
  <2> HIDE DEF w
  <2> QED BY <1>2, <1>3
<1>7. /\ L \in [0 .. Len(s) -> Int] /\ L[0] = 0
      /\ \A i \in 1 .. Len(s) : L[i] = L[i - 1] + s[i] * Power(Base, i - 1)
  BY DEF PrefixSums
<1> HIDE DEF w, t, delta
<1>8. M \in [0 .. Len(s) -> Int]
  BY <1>1, <1>4, <1>7
<1>9. M[0] = 0
  BY <1>1, <1>7
<1>10. ASSUME NEW i \in 1 .. Len(s)
       PROVE  M[i] = M[i - 1] + t[i] * Power(Base, i - 1)
  <2>1. i \in 0 .. Len(s) /\ i - 1 \in 0 .. Len(s) /\ L[i] \in Int /\ L[i - 1] \in Int
    <3>1. i \in 0 .. Len(s) /\ i - 1 \in 0 .. Len(s)
      BY <1>1
    <3>2. \A k \in 0 .. Len(s) : L[k] \in Int
      BY <1>7
    <3> QED BY <3>1, <3>2
  <2>2. Power(Base, i - 1) \in Int /\ s[i] \in Int
    <3>1. i - 1 \in Nat
      BY <1>1
    <3>3. s[i] \in 0 .. Base - 1
      <4> HIDE DEF M
      <4> QED BY ElementOfSeq
    <3>2. Power(Base, i - 1) \in Int
      BY <3>1, Weights
    <3> QED BY <3>2, <3>3, RawConstants
  <2>3. s[i] * Power(Base, i - 1) \in Int
    BY <2>2
  <2>4. CASE i <= d
    <3>1. M[i] = L[i] /\ M[i - 1] = L[i - 1] /\ t[i] = s[i]
      BY <1>1, <1>5, <2>1, <2>4
    <3> QED BY <1>7, <3>1
  <2>5. CASE i = d + 1
    <3>1. M[i] = L[i] + delta /\ M[i - 1] = L[i - 1] /\ t[i] = x /\ Power(Base, i - 1) = w
      BY <1>1, <1>5, <2>1, <2>5 DEF w
    <3>2. L[i] = L[i - 1] + s[d + 1] * w
      BY <1>7, <2>5, <3>1
    <3>3. s[d + 1] * w \in Int /\ x * w \in Int
      BY <1>2, <1>3
    <3> HIDE DEF M
    <3>4. L[i] + delta = L[i - 1] + x * w
      <4> DEFINE u == L[i - 1]
                 y == s[d + 1] * w
                 z == x * w
      <4>1. u \in Int /\ y \in Int /\ z \in Int /\ L[i] = u + y /\ z = y + delta
        BY <1>6, <2>1, <3>2, <3>3
      <4> HIDE DEF u, y, z
      <4>2. L[i] + delta = u + z
        BY <1>4, <4>1
      <4> QED BY <4>2 DEF u, z
    <3> QED BY <3>1, <3>4
  <2>6. CASE i > d + 1
    <3>1. M[i] = L[i] + delta /\ M[i - 1] = L[i - 1] + delta /\ t[i] = s[i]
      BY <1>1, <1>5, <2>1, <2>6
    <3>2. L[i] = L[i - 1] + s[i] * Power(Base, i - 1)
      BY <1>7
    <3> HIDE DEF M
    <3> QED BY <1>4, <2>1, <2>3, <3>1, <3>2
  <2> QED BY <1>1, <2>4, <2>5, <2>6
<1> HIDE DEF M
<1>11. PrefixSums(M, t)
  BY <1>5, <1>8, <1>9, <1>10 DEF PrefixSums
<1> QED BY <1>11 DEF M, t, delta, w

LEMMA PrefixesGrown ==
  ASSUME NEW s \in Seq(0 .. Base - 1), NEW L, PrefixSums(L, s), NEW x \in 0 .. Base - 1
  PROVE  LET m == Len(s)
             M == [i \in 0 .. m + 1 |-> IF i <= m THEN L[i] ELSE L[m] + x * Power(Base, m)]
         IN  PrefixSums(M, Append(s, x))
<1> DEFINE m == Len(s)
           t == Append(s, x)
           top == L[m] + x * Power(Base, m)
           M == [i \in 0 .. m + 1 |-> IF i <= m THEN L[i] ELSE top]
<1>1. m \in Nat
  OBVIOUS
<1>2. Len(t) = m + 1 /\ t[m + 1] = x /\ \A i \in 1 .. m : t[i] = s[i]
  OBVIOUS
<1>3. /\ L \in [0 .. m -> Int] /\ L[0] = 0
      /\ \A i \in 1 .. m : L[i] = L[i - 1] + s[i] * Power(Base, i - 1)
  BY DEF PrefixSums
<1>4. top \in Int
  <2>1. L[m] \in Int /\ x \in Int /\ Power(Base, m) \in Int
    <3>1. L[m] \in Int
      BY <1>1, <1>3
    <3>2. Power(Base, m) \in Int
      BY <1>1, Weights
    <3> QED BY <3>1, <3>2, RawConstants
  <2> QED BY <2>1
<1> HIDE DEF m, t
<1>5. ASSUME NEW i \in 1 .. m + 1
      PROVE  M[i] = M[i - 1] + t[i] * Power(Base, i - 1)
  <2>1. CASE i <= m
    <3>1. M[i] = L[i] /\ M[i - 1] = L[i - 1] /\ t[i] = s[i] /\ i \in 1 .. m
      BY <1>1, <1>2, <2>1
    <3> QED BY <1>3, <3>1
  <2>2. CASE i = m + 1
    <3>1. M[i] = top /\ M[i - 1] = L[m] /\ t[i] = x /\ i - 1 = m
      BY <1>1, <1>2, <2>2
    <3> QED BY <3>1
  <2> QED BY <1>1, <2>1, <2>2
<1> HIDE DEF top
<1>6. M \in [0 .. m + 1 -> Int] /\ M[0] = 0
  BY <1>1, <1>3, <1>4
<1> HIDE DEF M
<1>7. PrefixSums(M, t)
  BY <1>2, <1>5, <1>6 DEF PrefixSums
<1> QED BY <1>7 DEF M, top, t, m

-----------------------------------------------------------------------------
\* In the middle of a digit the bytes below done are those of the new number,
\* the others still those of the old one, and the carry waits between them.
HoldsDigits ==
  \E L : /\ PrefixSums(L, acc)
         /\ L[done] + Power(Base, done) * carry + Faces * (L[Len(acc)] - L[done])
              = DigitValues(rolls)[used]

RawInv ==
  /\ RawTypeOK /\ AccFits
  /\ Len(acc) >= 1 /\ used <= Digits(rolls) /\ carry < Faces
  /\ returned \in {"idle", "running"} => result = Zeros
  /\ HoldsDigits

LEMMA AccTyped ==
  ASSUME RawInv
  PROVE  /\ rolls \in Transcripts /\ acc \in Seq(0 .. Base - 1)
         /\ Len(acc) \in Nat /\ 1 <= Len(acc) /\ Len(acc) <= AccSize
         /\ done \in 0 .. Len(acc) /\ carry \in 0 .. Faces - 1 /\ used \in 0 .. Digits(rolls)
         /\ Digits(rolls) \in Nat /\ Digits(rolls) <= NeedEntries
<1>1. RawTypeOK /\ AccFits /\ Len(acc) >= 1 /\ used <= Digits(rolls) /\ carry < Faces
  BY DEF RawInv
<1>2. rolls \in Transcripts /\ acc \in Seq(0 .. Base - 1) /\ done \in 0 .. Len(acc)
  BY <1>1 DEF RawTypeOK
<1>3. carry \in 0 .. Faces - 1
  BY <1>1, RawConstants DEF RawTypeOK
<1>4. Digits(rolls) \in Nat /\ Digits(rolls) <= NeedEntries
  BY <1>2, DigitsTyped
<1>5. used \in 0 .. Digits(rolls)
  BY <1>1, <1>4, RawConstants DEF RawTypeOK
<1> QED BY <1>1, <1>2, <1>3, <1>4, <1>5 DEF AccFits

LEMMA RawInvInit == RawInit \/ RawIdle => RawInv
<1> SUFFICES ASSUME RawInit \/ RawIdle PROVE RawInv
  OBVIOUS
<1>1. rolls \in Transcripts
  <2>1. CASE RawIdle
    <3>1. rolls = <<>> /\ 0 \in 0 .. MaxRolls
      BY <2>1, RawConstants DEF RawIdle
    <3>2. <<>> \in [1 .. 0 -> Face]
      OBVIOUS
    <3> QED BY <3>1, <3>2 DEF Transcripts
  <2>2. CASE RawInit
    BY <2>2 DEF RawInit
  <2> QED BY <2>1, <2>2
<1>2. /\ used = 0 /\ acc = <<0>> /\ done = 1 /\ carry = 0
      /\ returned \in {"idle", "running"} /\ result = Zeros
  BY DEF RawInit, RawIdle
<1>3. 0 \in 0 .. Base - 1 /\ 0 \in 0 .. Faces /\ 0 \in 0 .. NeedEntries /\ 0 < Faces
  BY RawConstants
<1>4. acc \in Seq(0 .. Base - 1) /\ Len(acc) = 1 /\ acc[1] = 0
  BY <1>2, <1>3
<1>5. Zeros \in [1 .. AccSize - 1 -> 0 .. Base - 1]
  BY <1>3 DEF Zeros
<1>6. RawTypeOK
  BY <1>1, <1>2, <1>3, <1>4, <1>5 DEF RawTypeOK
<1>7. AccFits
  BY <1>4, RawConstants DEF AccFits
<1>8. used <= Digits(rolls)
  BY <1>1, <1>2, DigitsTyped
<1>9. HoldsDigits
  <2> DEFINE L == [i \in 0 .. 1 |-> 0]
  <2>1. Power(Base, 0) \in Int /\ Power(Base, 1) \in Int /\ 0 \in Nat /\ 1 \in Nat
    BY Weights
  <2>2. 0 * Power(Base, 0) = 0 /\ Power(Base, 1) * 0 = 0 /\ Faces * (0 - 0) = 0
    BY <2>1, RawConstants
  <2>3. PrefixSums(L, acc)
    BY <1>4, <2>2 DEF PrefixSums
  <2>4. L[done] + Power(Base, done) * carry + Faces * (L[Len(acc)] - L[done]) = 0
    BY <1>2, <1>4, <2>2
  <2>5. DigitValues(rolls)[used] = 0
    BY <1>1, <1>2, DigitValuesStep
  <2> HIDE DEF L
  <2> QED BY <2>3, <2>4, <2>5 DEF HoldsDigits
<1> QED BY <1>2, <1>3, <1>4, <1>6, <1>7, <1>8, <1>9 DEF RawInv

\* Nothing of the number changes: the rest of the invariant is enough.
LEMMA NextDigitKeeps == RawInv /\ NextDigit => RawInv'
<1> SUFFICES ASSUME RawInv, NextDigit PROVE RawInv'
  OBVIOUS
<1>1. /\ used < Len(rolls) /\ used < NeedEntries /\ done = Len(acc) /\ carry = 0
      /\ carry' = rolls[used + 1] - 1 /\ done' = 0 /\ used' = used + 1
      /\ UNCHANGED <<rolls, acc, returned, result>>
  BY DEF NextDigit, DigitDone, MoreDigits
<1>2. /\ rolls \in Transcripts /\ acc \in Seq(0 .. Base - 1) /\ Len(acc) \in Nat
      /\ used \in Nat /\ used \in 0 .. Digits(rolls)
  BY AccTyped
<1>3. Len(rolls) \in Nat /\ rolls[used + 1] \in 1 .. Faces
  <2>1. Len(rolls) \in Nat /\ \A n \in 1 .. Len(rolls) : rolls[n] \in 1 .. Faces
    BY <1>2, TranscriptTyped
  <2> QED BY <1>1, <1>2, <2>1
<1>4. carry' \in 0 .. Faces - 1 /\ carry' \in 0 .. Faces /\ carry' < Faces
  BY <1>1, <1>3, RawConstants
<1>5. used' \in 0 .. NeedEntries /\ used' <= Digits(rolls) /\ used' \in 1 .. Digits(rolls)
  BY <1>1, <1>2, <1>3, RawConstants DEF Digits
<1>6. RawTypeOK'
  BY <1>1, <1>2, <1>4, <1>5 DEF RawInv, RawTypeOK
<1>7. HoldsDigits'
  <2>1. PICK L : /\ PrefixSums(L, acc)
                 /\ L[done] + Power(Base, done) * carry + Faces * (L[Len(acc)] - L[done])
                      = DigitValues(rolls)[used]
    BY DEF RawInv, HoldsDigits
  <2>2. L[0] = 0 /\ L[Len(acc)] \in Int
    BY <1>2, <2>1 DEF PrefixSums
  <2>3. Power(Base, 0) = 1 /\ Power(Base, done) \in Int /\ Faces \in Int
    BY <1>1, <1>2, Weights, PowerSteps, RawConstants
  <2>4. L[Len(acc)] = DigitValues(rolls)[used]
    <3>1. \A l, w, f \in Int : l + w * 0 + f * (l - l) = l
      OBVIOUS
    <3> QED BY <1>1, <2>1, <2>2, <2>3, <3>1
  <2>5. DigitValues(rolls)[used + 1] = DigitValues(rolls)[used] * Faces + (rolls[used + 1] - 1)
    <3>1. used + 1 \in 1 .. Digits(rolls) /\ (used + 1) - 1 = used
      BY <1>1, <1>2, <1>5
    <3> QED BY <1>2, <3>1, DigitValuesStep
  <2>6. L[0] + Power(Base, 0) * carry' + Faces * (L[Len(acc)] - L[0])
          = DigitValues(rolls)[used + 1]
    <3>1. \A l, c, f \in Int : 0 + 1 * c + f * (l - 0) = l * f + c
      OBVIOUS
    <3>2. carry' \in Int /\ carry' = rolls[used + 1] - 1
      BY <1>1, <1>4, RawConstants
    <3> QED BY <2>2, <2>3, <2>4, <2>5, <3>1, <3>2
  <2> QED BY <1>1, <2>1, <2>6 DEF HoldsDigits
<1> QED BY <1>1, <1>4, <1>5, <1>6, <1>7 DEF RawInv, AccFits

\* One place of long multiplication: byte and carry, and what becomes of them.
LEMMA PlaceTimes ==
  ASSUME NEW a \in 0 .. Base - 1, NEW c \in 0 .. Faces - 1
  PROVE  /\ LowByte(a * Faces + c) \in 0 .. Base - 1
         /\ (a * Faces + c) \div Base \in 0 .. Faces - 1
         /\ a * Faces + c = Base * ((a * Faces + c) \div Base) + LowByte(a * Faces + c)
<1> DEFINE t == a * Faces + c
           q == t \div Base
           r == t % Base
<1>1. a \in Nat /\ a + 1 <= Base /\ c \in Nat /\ c < Faces /\ Faces \in Nat /\ Base \in Nat \ {0}
  BY RawConstants
<1>2. t \in Nat /\ t < Base * Faces
  <2>1. (a + 1) * Faces <= Base * Faces
    BY <1>1
  <2>2. (a + 1) * Faces = a * Faces + Faces /\ a * Faces \in Nat /\ Base * Faces \in Nat
    BY <1>1
  <2> QED BY <1>1, <2>1, <2>2
<1>3. q \in Nat /\ r \in 0 .. Base - 1 /\ t = Base * q + r
  <2> HIDE DEF t
  <2> QED BY <1>1, <1>2
<1>4. LowByte(t) = r
  BY DEF LowByte
<1> HIDE DEF q, r, t
<1>5. q < Faces
  <2> SUFFICES ASSUME q >= Faces PROVE FALSE
    BY <1>1, <1>3
  <2>1. Base * q >= Base * Faces
    BY <1>1, <1>3
  <2>2. Base * q \in Nat /\ Base * Faces \in Nat
    BY <1>1, <1>3
  <2> QED BY <1>1, <1>2, <1>3, <2>1, <2>2
<1> QED BY <1>1, <1>3, <1>4, <1>5 DEF q, t

\* What is carried over has the weight of the next place.
LEMMA CarryOver ==
  ASSUME NEW low \in Int, NEW old \in Int, NEW top \in Int, NEW w \in Int, NEW b \in Int,
         NEW f \in Int, NEW a \in Int, NEW x \in Int, NEW c \in Int, NEW q \in Int,
         a * f + c = b * q + x
  PROVE  LET delta == (x - a) * w
         IN  (low + a * w + delta) + (w * b) * q + f * ((top + delta) - (low + a * w + delta))
               = low + w * c + f * (top - low)
<1> DEFINE delta == (x - a) * w
<1>1. low + a * w + delta = low + x * w
  OBVIOUS
<1>2. (top + delta) - (low + a * w + delta) = (top - low) - a * w
  OBVIOUS
<1>3. f * ((top - low) - a * w) = f * (top - low) - w * (a * f)
  OBVIOUS
<1>4. w * (a * f) + w * c = (w * b) * q + x * w
  <2>1. w * (a * f + c) = w * (b * q + x)
    OBVIOUS
  <2> QED BY <2>1
<1>5. /\ w * (a * f) \in Int /\ w * c \in Int /\ (w * b) * q \in Int /\ x * w \in Int
      /\ f * (top - low) \in Int
  OBVIOUS
<1> HIDE DEF delta
<1>6. (low + a * w + delta) + (w * b) * q + f * ((top + delta) - (low + a * w + delta))
        = low + x * w + (w * b) * q + (f * (top - low) - w * (a * f))
  BY <1>1, <1>2, <1>3
<1>7. low + x * w + (w * b) * q + (f * (top - low) - w * (a * f)) = low + w * c + f * (top - low)
  BY <1>4, <1>5
<1> QED BY <1>6, <1>7 DEF delta

LEMMA MultiplyByteKeeps == RawInv /\ MultiplyByte => RawInv'
<1> SUFFICES ASSUME RawInv, MultiplyByte PROVE RawInv'
  OBVIOUS
<1> DEFINE a == acc[done + 1]
           t == a * Faces + carry
           x == LowByte(t)
           q == t \div Base
           w == Power(Base, done)
<1>1. /\ done < Len(acc) /\ done' = done + 1
      /\ acc' = [acc EXCEPT ![done + 1] = x] /\ carry' = q
      /\ UNCHANGED <<rolls, used, returned, result>>
  BY DEF MultiplyByte
<1>2. /\ rolls \in Transcripts /\ acc \in Seq(0 .. Base - 1) /\ Len(acc) \in Nat
      /\ done \in Nat /\ done + 1 \in 1 .. Len(acc) /\ done \in 0 .. Len(acc) - 1
      /\ carry \in 0 .. Faces - 1
  BY <1>1, AccTyped
<1>3. a \in 0 .. Base - 1
  <2> HIDE DEF a
  <2>1. acc[done + 1] \in 0 .. Base - 1
    BY <1>2, ElementOfSeq
  <2> QED BY <2>1 DEF a
<1>4. x \in 0 .. Base - 1 /\ q \in 0 .. Faces - 1 /\ t = Base * q + x
  <2> HIDE DEF a
  <2> QED BY <1>2, <1>3, PlaceTimes
<1>5. Len(acc') = Len(acc) /\ acc' \in Seq(0 .. Base - 1)
  <2> HIDE DEF x
  <2> QED BY <1>1, <1>2, <1>4
<1>6. q \in 0 .. Faces /\ q < Faces
  <2> HIDE DEF q
  <2> QED BY <1>4, RawConstants
<1>7. HoldsDigits'
  <2>1. PICK L : /\ PrefixSums(L, acc)
                 /\ L[done] + w * carry + Faces * (L[Len(acc)] - L[done])
                      = DigitValues(rolls)[used]
    BY DEF RawInv, HoldsDigits
  <2> DEFINE delta == (x - a) * w
             M == [i \in 0 .. Len(acc) |-> IF i <= done THEN L[i] ELSE L[i] + delta]
  <2>2. PrefixSums(M, acc')
    <3>1. PrefixSums(M, [acc EXCEPT ![done + 1] = x])
      <4> HIDE DEF x
      <4> QED BY <1>2, <1>4, <2>1, PrefixesChanged
    <3> QED BY <1>1, <3>1
  <2>3. /\ L[done] \in Int /\ L[done + 1] = L[done] + a * w /\ L[Len(acc)] \in Int
    <3>1. (done + 1) - 1 = done /\ done \in 0 .. Len(acc) /\ Len(acc) \in 0 .. Len(acc)
      BY <1>2
    <3> QED BY <1>2, <2>1, <3>1 DEF PrefixSums
  <2> HIDE DEF delta, w, x, q, t, a
  <2>4. M[done + 1] = L[done] + a * w + delta /\ M[Len(acc)] = L[Len(acc)] + delta
    BY <1>1, <1>2, <2>3
  <2> HIDE DEF M
  <2>5. w \in Int /\ Power(Base, done + 1) = w * Base /\ Base \in Int /\ Faces \in Int
    <3>1. Power(Base, done) \in Int /\ Power(Base, done + 1) = Power(Base, done) * Base
      <4>1. done \in Nat
        BY <1>2
      <4> QED BY <4>1, Weights
    <3> QED BY <3>1, RawConstants DEF w
  <2>6. a \in Int /\ x \in Int /\ carry \in Int /\ q \in Int /\ a * Faces + carry = Base * q + x
    BY <1>2, <1>3, <1>4, RawConstants DEF t
  <2>7. (L[done] + a * w + delta) + (w * Base) * q
          + Faces * ((L[Len(acc)] + delta) - (L[done] + a * w + delta))
          = L[done] + w * carry + Faces * (L[Len(acc)] - L[done])
    <3> DEFINE low == L[done]
               top == L[Len(acc)]
    <3>1. low \in Int /\ top \in Int
      BY <2>3
    <3> HIDE DEF low, top
    <3>2. (low + a * w + delta) + (w * Base) * q + Faces * ((top + delta) - (low + a * w + delta))
            = low + w * carry + Faces * (top - low)
      BY <2>5, <2>6, <3>1, CarryOver DEF delta
    <3> QED BY <3>2 DEF low, top
  <2>8. M[done'] + Power(Base, done') * carry' + Faces * (M[Len(acc')] - M[done'])
          = DigitValues(rolls')[used']
    BY <1>1, <1>5, <2>1, <2>4, <2>5, <2>7
  <2> QED BY <2>2, <2>8 DEF HoldsDigits
<1> HIDE DEF x, q, t, a
<1>8. RawTypeOK'
  <2>1. done' \in 0 .. Len(acc')
    BY <1>1, <1>2, <1>5
  <2> QED BY <1>1, <1>5, <1>6, <2>1 DEF RawInv, RawTypeOK
<1> QED BY <1>1, <1>5, <1>6, <1>7, <1>8 DEF RawInv, AccFits

\* The number so far is below Base^AccSize, whatever of the digits is taken in.
LEMMA DigitsFit ==
  ASSUME RawInv
  PROVE  /\ DigitValues(rolls)[used] \in Nat
         /\ DigitValues(rolls)[used] < (RawRanges + 1) * RawRangeSize
         /\ (RawRanges + 1) * RawRangeSize <= Power(Base, AccSize)
<1>1. rolls \in Transcripts /\ used \in 0 .. Digits(rolls) /\ used \in Nat /\ used <= NeedEntries
  BY AccTyped, RawConstants
<1>2. DigitValues(rolls)[used] \in Nat /\ DigitValues(rolls)[used] < Power(Faces, used)
  BY <1>1, DigitsBound
<1>3. Power(Faces, used) <= Power(Faces, NeedEntries)
  BY <1>1, PowerGrows, RawConstants
<1>4. Power(Faces, used) \in Nat /\ Power(Faces, NeedEntries) \in Nat
  BY <1>1, PowerSteps, RawConstants
<1>5. Power(Faces, NeedEntries) < (RawRanges + 1) * RawRangeSize
  BY RawAssumption
<1>6. (RawRanges + 1) * RawRangeSize \in Nat
  BY RawConstants
<1>7. (RawRanges + 1) * RawRangeSize <= Power(Base, AccSize)
  <2>1. AccSize - 1 \in Nat /\ (AccSize - 1) + 1 = AccSize
    BY RawConstants
  <2>2. Power(Base, AccSize) = RawRangeSize * Base
    BY <2>1, Weights, RawAssumption
  <2>3. (RawRanges + 1) * RawRangeSize <= Base * RawRangeSize
    <3>1. RawRanges + 1 <= Base /\ RawRanges + 1 \in Nat /\ Base \in Nat /\ RawRangeSize \in Nat
      BY RawConstants
    <3> QED BY <3>1
  <2>4. Base * RawRangeSize = RawRangeSize * Base
    BY RawConstants
  <2> QED BY <2>2, <2>3, <2>4
<1> QED BY <1>2, <1>3, <1>4, <1>5, <1>6, <1>7

LEMMA GrowAccKeeps == RawInv /\ GrowAcc => RawInv'
<1> SUFFICES ASSUME RawInv, GrowAcc PROVE RawInv'
  OBVIOUS
<1> DEFINE m == Len(acc)
           w == Power(Base, m)
<1>1. /\ done = m /\ carry # 0 /\ done' = done + 1 /\ carry' = 0
      /\ acc' = Append(acc, LowByte(carry))
      /\ UNCHANGED <<rolls, used, returned, result>>
  BY DEF GrowAcc, Overflows
<1>2. /\ rolls \in Transcripts /\ acc \in Seq(0 .. Base - 1)
      /\ m \in Nat /\ 1 <= m /\ m <= AccSize /\ carry \in 0 .. Faces - 1
  BY AccTyped
<1>3. LowByte(carry) = carry /\ carry \in 0 .. Base - 1 /\ carry \in Nat /\ carry >= 1
  <2>1. carry \in Nat /\ carry >= 1 /\ carry < Base /\ Base \in Nat \ {0}
    BY <1>1, <1>2, RawConstants
  <2>2. carry % Base = carry
    BY <2>1
  <2> QED BY <2>1, <2>2 DEF LowByte
<1>4. Len(acc') = m + 1 /\ acc' \in Seq(0 .. Base - 1)
  BY <1>1, <1>2, <1>3
<1>5. PICK L : /\ PrefixSums(L, acc)
               /\ L[done] + Power(Base, done) * carry + Faces * (L[Len(acc)] - L[done])
                    = DigitValues(rolls)[used]
  BY DEF RawInv, HoldsDigits
<1>6. L[m] \in Nat /\ w \in Nat \ {0}
  <2>1. m \in 0 .. Len(acc)
    BY <1>2
  <2> QED BY <1>2, <1>5, <2>1, PrefixBound, Weights
<1>7. L[m] + carry * w = DigitValues(rolls)[used]
  <2>1. \A l, u, c, f \in Int : l + u * c + f * (l - l) = l + c * u
    OBVIOUS
  <2>2. L[m] \in Int /\ w \in Int /\ carry \in Int /\ Faces \in Int
    BY <1>3, <1>6, RawConstants
  <2>3. L[m] + w * carry + Faces * (L[m] - L[m]) = DigitValues(rolls)[used]
    BY <1>1, <1>5
  <2> HIDE DEF m, w
  <2> QED BY <2>1, <2>2, <2>3
<1>8. m < AccSize
  <2> SUFFICES ASSUME m = AccSize PROVE FALSE
    BY <1>2, RawConstants
  <2>1. DigitValues(rolls)[used] < w
    <3>1. /\ DigitValues(rolls)[used] \in Nat /\ (RawRanges + 1) * RawRangeSize \in Nat
          /\ DigitValues(rolls)[used] < (RawRanges + 1) * RawRangeSize
          /\ (RawRanges + 1) * RawRangeSize <= w
      BY DigitsFit, RawConstants
    <3> HIDE DEF m, w
    <3> QED BY <1>6, <3>1
  <2>2. \A l, u, c \in Nat : c >= 1 => l + c * u >= u
    OBVIOUS
  <2>3. L[m] + carry * w >= w
    BY <1>3, <1>6, <2>2
  <2>4. DigitValues(rolls)[used] \in Nat
    BY DigitsFit
  <2> HIDE DEF m, w
  <2> QED BY <1>6, <1>7, <2>1, <2>3, <2>4
<1>9. HoldsDigits'
  <2> DEFINE M == [i \in 0 .. m + 1 |-> IF i <= m THEN L[i] ELSE L[m] + carry * w]
  <2>1. PrefixSums(M, acc')
    <3>1. PrefixSums(M, Append(acc, carry))
      BY <1>2, <1>3, <1>5, PrefixesGrown
    <3> QED BY <1>1, <1>3, <3>1
  <2>2. M[m + 1] = DigitValues(rolls)[used]
    BY <1>2, <1>7
  <2>3. Power(Base, m + 1) \in Int /\ M[m + 1] \in Int /\ Faces \in Int
    <3>1. Power(Base, m + 1) \in Int
      BY <1>2, Weights
    <3> QED BY <2>2, <3>1, DigitsFit, RawConstants
  <2> HIDE DEF M, m, w
  <2>4. \A l, u, f \in Int : l + u * 0 + f * (l - l) = l
    OBVIOUS
  <2>5. M[m + 1] + Power(Base, m + 1) * 0 + Faces * (M[m + 1] - M[m + 1]) = M[m + 1]
    BY <2>3, <2>4
  <2> QED BY <1>1, <1>4, <2>1, <2>2, <2>5 DEF HoldsDigits
<1> HIDE DEF m, w
<1>10. RawTypeOK'
  <2>1. done' \in 0 .. Len(acc') /\ carry' \in 0 .. Faces
    BY <1>1, <1>2, <1>4, RawConstants
  <2> QED BY <1>1, <1>4, <2>1 DEF RawInv, RawTypeOK
<1>11. Len(acc') <= AccSize /\ Len(acc') >= 1 /\ carry' < Faces
  BY <1>1, <1>2, <1>4, <1>8, RawConstants
<1> QED BY <1>1, <1>9, <1>10, <1>11 DEF RawInv, AccFits

LEMMA ReturnKeeps == RawInv /\ Return => RawInv'
<1> SUFFICES ASSUME RawInv, Return PROVE RawInv'
  OBVIOUS
<1>1. UNCHANGED <<rolls, used, acc, done, carry>> /\ returned' = Verdict
  BY DEF Return
<1>2. returned' \in {"insufficient", "rejected", "extracted"}
  BY <1>1 DEF Verdict
<1>3. result' \in [1 .. AccSize - 1 -> 0 .. Base - 1]
  <2>1. acc \in Seq(0 .. Base - 1) /\ Len(acc) \in Nat /\ 0 \in 0 .. Base - 1
    BY AccTyped, RawConstants
  <2>2. ASSUME NEW i \in 1 .. AccSize - 1
        PROVE  AccByte(AccSize - i) \in 0 .. Base - 1
    <3>1. AccSize - i \in Nat \ {0}
      BY RawConstants
    <3>2. CASE AccSize - i <= Len(acc)
      <4>1. AccSize - i \in 1 .. Len(acc)
        BY <2>1, <3>1, <3>2
      <4>2. acc[AccSize - i] \in 0 .. Base - 1
        BY <2>1, <4>1, ElementOfSeq
      <4> QED BY <3>2, <4>2 DEF AccByte
    <3>3. CASE ~(AccSize - i <= Len(acc))
      BY <2>1, <3>3 DEF AccByte
    <3> QED BY <3>2, <3>3
  <2> QED BY <2>2 DEF Return, RawInv, RawTypeOK
<1>4. RawTypeOK'
  BY <1>1, <1>2, <1>3 DEF RawInv, RawTypeOK
<1>5. HoldsDigits'
  BY <1>1 DEF RawInv, HoldsDigits
<1> QED BY <1>1, <1>2, <1>4, <1>5 DEF RawInv, AccFits

LEMMA RawInvStep == RawInv /\ [RawNext]_rawVars => RawInv'
<1>1. RawInv /\ UNCHANGED rawVars => RawInv'
  BY DEF rawVars, RawInv, RawTypeOK, AccFits, HoldsDigits
<1> QED BY <1>1, NextDigitKeeps, MultiplyByteKeeps, GrowAccKeeps, ReturnKeeps DEF RawNext

-----------------------------------------------------------------------------
(* The answer: what the bytes say is what the exact conversion says.         *)

OutSize == AccSize - 1

HornerTable(s) ==
  CHOOSE N : N = [i \in 0 .. Len(s) |-> IF i = 0 THEN 0 ELSE N[i - 1] * Base + s[i]]

LEMMA HornerSteps ==
  ASSUME NEW s \in [1 .. OutSize -> 0 .. Base - 1]
  PROVE  /\ Horner(s) = HornerTable(s)[OutSize]
         /\ HornerTable(s) \in [0 .. OutSize -> Int]
         /\ HornerTable(s)[0] = 0
         /\ \A i \in 1 .. OutSize : HornerTable(s)[i] = HornerTable(s)[i - 1] * Base + s[i]
<1> DEFINE m == OutSize
           N == HornerTable(s)
           Table(M) == M = [i \in 0 .. m |-> IF i = 0 THEN 0 ELSE M[i - 1] * Base + s[i]]
<1>1. m \in Nat /\ Base \in Nat /\ 0 \in Nat
  BY RawConstants DEF OutSize
<1>2. Len(s) = m
  BY <1>1
<1>3. Horner(s) = N[m] /\ N = CHOOSE M : Table(M)
  BY <1>2 DEF Horner, HornerTable
<1>4. s \in [1 .. m -> Nat]
  BY <1>1
<1> HIDE DEF m, N
<1>5. PICK f : Linear(f, m, 0, Base, s)
  <2> HIDE DEF Table
  <2> QED BY <1>1, <1>4, LinearRecursion
<1>6. Table(f)
  BY <1>1, <1>5 DEF Linear
<1>7. Table(N)
  <2> HIDE DEF Table
  <2> QED BY <1>3, <1>6
<1>8. N[0] = 0 /\ \A i \in 1 .. m : N[i] = N[i - 1] * Base + s[i]
  BY <1>1, <1>7
<1> DEFINE S == {i \in Nat : i <= m => N[i] \in Nat}
<1>9. 0 \in S
  BY <1>8
<1>10. ASSUME NEW i \in Nat, i \in S
       PROVE  i + 1 \in S
  <2> SUFFICES ASSUME i + 1 <= m PROVE N[i + 1] \in Nat
    OBVIOUS
  <2>1. i + 1 \in 1 .. m /\ (i + 1) - 1 = i /\ N[i] \in Nat
    BY <1>1, <1>10
  <2>2. N[i + 1] = N[i] * Base + s[i + 1] /\ s[i + 1] \in Nat
    BY <1>4, <1>8, <2>1
  <2> HIDE DEF S
  <2> QED BY <1>1, <2>1, <2>2
<1>11. \A i \in Nat : i \in S
  <2> HIDE DEF S, Table
  <2>1. \A i \in Nat : i >= 0 => i \in S
    BY <1>9, <1>10, Upwards
  <2> QED BY <2>1
<1>12. N = [i \in 0 .. m |-> N[i]]
  BY <1>7
<1>13. N \in [0 .. m -> Int]
  BY <1>11, <1>12
<1> QED BY <1>3, <1>8, <1>13 DEF m, N

LEMMA PlaceMoved ==
  ASSUME NEW x \in Int, NEW b \in Int, NEW w \in Int, NEW c \in Int, NEW l \in Int
  PROVE  (x * b + c) * w + l = x * (w * b) + (l + c * w)
<1>1. (x * b + c) * w = x * (w * b) + c * w
  OBVIOUS
<1> QED BY <1>1

\* Bytes written out big end first stand for the same number.
LEMMA BigEndian ==
  ASSUME NEW s \in [1 .. OutSize -> 0 .. Base - 1], NEW L \in [0 .. OutSize -> Int], L[0] = 0,
         \A i \in 1 .. OutSize : L[i] = L[i - 1] + s[OutSize + 1 - i] * Power(Base, i - 1)
  PROVE  Horner(s) = L[OutSize]
<1> DEFINE n == OutSize
           N == HornerTable(s)
           S == {i \in Nat : i <= n => N[i] * Power(Base, n - i) + L[n - i] = L[n]}
<1>1. n \in Nat /\ Base \in Int
  BY RawConstants DEF OutSize
<1>2. /\ Horner(s) = N[n] /\ N \in [0 .. n -> Int] /\ N[0] = 0
      /\ \A i \in 1 .. n : N[i] = N[i - 1] * Base + s[i]
  BY HornerSteps
<1>8. /\ L \in [0 .. n -> Int] /\ s \in [1 .. n -> 0 .. Base - 1]
      /\ \A i \in 1 .. n : L[i] = L[i - 1] + s[n + 1 - i] * Power(Base, i - 1)
  OBVIOUS
<1> HIDE DEF N, n
<1>3. 0 \in S
  <2>1. Power(Base, n) \in Int /\ L[n] \in Int /\ n - 0 = n
    <3>1. Power(Base, n) \in Int
      BY <1>1, Weights
    <3>2. n \in 0 .. n /\ n - 0 = n
      BY <1>1
    <3>3. L[n] \in Int
      BY <1>8, <3>2
    <3> QED BY <3>1, <3>2, <3>3
  <2> QED BY <1>2, <2>1
<1>4. ASSUME NEW i \in Nat, i \in S
      PROVE  i + 1 \in S
  <2> SUFFICES ASSUME i + 1 <= n
               PROVE  N[i + 1] * Power(Base, n - (i + 1)) + L[n - (i + 1)] = L[n]
    OBVIOUS
  <2> DEFINE j == n - (i + 1)
             w == Power(Base, j)
             c == s[i + 1]
  <2>1. /\ j \in Nat /\ n - i = j + 1 /\ j + 1 \in 1 .. n /\ (j + 1) - 1 = j
        /\ n + 1 - (j + 1) = i + 1 /\ i + 1 \in 1 .. n /\ (i + 1) - 1 = i
    BY <1>1
  <2>2. N[i] * Power(Base, j + 1) + L[j + 1] = L[n]
    BY <1>1, <1>4, <2>1
  <2>3. L[j + 1] = L[j] + c * w
    <3> HIDE DEF j
    <3> QED BY <1>8, <2>1
  <2>4. N[i + 1] = N[i] * Base + c
    BY <1>2, <2>1
  <2>5. Power(Base, j + 1) = w * Base /\ w \in Int
    <3> HIDE DEF j, S, w, c
    <3>1. j \in Nat
      BY <2>1
    <3>2. Power(Base, j) \in Nat \ {0} /\ Power(Base, j + 1) = Power(Base, j) * Base
      BY <3>1, Weights
    <3> QED BY <3>2 DEF w
  <2>6. N[i] \in Int /\ L[j] \in Int /\ L[n] \in Int /\ c \in Int
    <3>1. i \in 0 .. n /\ j \in 0 .. n /\ n \in 0 .. n
      BY <1>1, <2>1
    <3>2. c \in 0 .. Base - 1
      BY <1>8, <2>1
    <3>3. c \in Int
      <4> HIDE DEF c
      <4> QED BY <3>2, RawConstants
    <3> HIDE DEF c, j, S
    <3>4. N[i] \in Int /\ L[j] \in Int /\ L[n] \in Int
      BY <1>2, <1>8, <3>1
    <3> QED BY <3>3, <3>4
  <2> HIDE DEF j, w, c, S
  <2>8. (N[i] * Base + c) * w + L[j] = N[i] * (w * Base) + (L[j] + c * w)
    BY <1>1, <2>5, <2>6, PlaceMoved, SMTT(30)
  <2>9. N[i + 1] * w + L[j] = L[n]
    BY <2>2, <2>3, <2>4, <2>5, <2>8
  <2> QED BY <2>9 DEF j, w
<1>5. n \in S
  <2> HIDE DEF S
  <2>1. \A i \in Nat : i >= 0 => i \in S
    BY <1>3, <1>4, Upwards
  <2> QED BY <1>1, <2>1
<1>6. N[n] * Power(Base, 0) + L[0] = L[n]
  <2>1. n - n = 0
    BY <1>1
  <2> QED BY <1>1, <1>5, <2>1
<1>7. Power(Base, 0) = 1 /\ N[n] \in Int
  BY <1>1, <1>2, PowerSteps, RawConstants
<1>9. N[n] = L[n]
  BY <1>6, <1>7
<1> QED BY <1>2, <1>9 DEF n

LEMMA HornerZeros == Horner(Zeros) = 0
<1> DEFINE L == [i \in 0 .. OutSize |-> 0]
<1>1. OutSize \in Nat /\ 0 \in 0 .. Base - 1 /\ OutSize \in 0 .. OutSize
  BY RawConstants DEF OutSize
<1>2. Zeros \in [1 .. OutSize -> 0 .. Base - 1] /\ L \in [0 .. OutSize -> Int] /\ L[0] = 0
  BY <1>1 DEF Zeros, OutSize
<1>3. ASSUME NEW i \in 1 .. OutSize
      PROVE  L[i] = L[i - 1] + Zeros[OutSize + 1 - i] * Power(Base, i - 1)
  <2>1. i - 1 \in Nat /\ OutSize + 1 - i \in 1 .. OutSize /\ i \in 0 .. OutSize /\ i - 1 \in 0 .. OutSize
    BY <1>1
  <2>2. Zeros[OutSize + 1 - i] = 0
    BY <2>1 DEF Zeros, OutSize
  <2>3. Power(Base, i - 1) \in Int
    BY <2>1, Weights
  <2>4. 0 * Power(Base, i - 1) = 0
    BY <2>3
  <2>5. L[i] = 0 /\ L[i - 1] = 0
    BY <2>1
  <2> HIDE DEF L
  <2> QED BY <2>2, <2>4, <2>5
<1>4. L[OutSize] = 0
  BY <1>1
<1> HIDE DEF L
<1> QED BY <1>2, <1>3, <1>4, BigEndian

\* At the end of a digit acc holds the number itself.
LEMMA NumberHeld ==
  ASSUME RawInv, DigitDone
  PROVE  \E L : PrefixSums(L, acc) /\ L[Len(acc)] = DigitValues(rolls)[used]
<1>1. PICK L : /\ PrefixSums(L, acc)
               /\ L[done] + Power(Base, done) * carry + Faces * (L[Len(acc)] - L[done])
                    = DigitValues(rolls)[used]
  BY DEF RawInv, HoldsDigits
<1>2. done = Len(acc) /\ carry = 0 /\ Len(acc) \in Nat
  BY AccTyped DEF DigitDone
<1>3. L[Len(acc)] \in Int /\ Power(Base, Len(acc)) \in Int /\ Faces \in Int
  <2>1. L[Len(acc)] \in Int
    BY <1>1, <1>2 DEF PrefixSums
  <2>2. Power(Base, Len(acc)) \in Int
    BY <1>2, Weights
  <2> QED BY <2>1, <2>2, RawConstants
<1>4. \A l, w, f \in Int : l + w * 0 + f * (l - l) = l
  OBVIOUS
<1>5. L[Len(acc)] = DigitValues(rolls)[used]
  BY <1>1, <1>2, <1>3, <1>4
<1> QED BY <1>1, <1>5

\* The top byte decides the verdict, the others are the rest.
LEMMA TopByte ==
  ASSUME NEW low \in Nat, NEW size \in Nat \ {0}, low < size, NEW top \in Nat, NEW ranges \in Nat
  PROVE  /\ (low + top * size) % size = low
         /\ (low + top * size >= ranges * size) <=> (top >= ranges)
<1>1. (size * top + low) % size = low
  <2>1. low \in 0 .. size - 1
    OBVIOUS
  <2> QED BY <2>1, RestOfMultiple
<1>2. size * top + low = low + top * size
  OBVIOUS
<1>3. ASSUME top >= ranges
      PROVE  low + top * size >= ranges * size
  <2>1. top * size >= ranges * size
    BY <1>3
  <2>2. top * size \in Nat /\ ranges * size \in Nat
    OBVIOUS
  <2> QED BY <2>1, <2>2
<1>4. ASSUME top < ranges
      PROVE  low + top * size < ranges * size
  <2>1. (top + 1) * size <= ranges * size
    BY <1>4
  <2>2. (top + 1) * size = top * size + size /\ top * size \in Nat /\ ranges * size \in Nat
    OBVIOUS
  <2> QED BY <2>1, <2>2
<1>5. low + top * size \in Nat /\ ranges * size \in Nat
  OBVIOUS
<1> QED BY <1>1, <1>2, <1>3, <1>4, <1>5

\* The numbers below the top byte, also where acc has not grown so far.
LEMMA ValueOfBytes ==
  ASSUME RawInv, NEW L, PrefixSums(L, acc)
  PROVE  LET low == IF Len(acc) < AccSize THEN L[Len(acc)] ELSE L[OutSize]
             top == IF Len(acc) < AccSize THEN 0 ELSE acc[AccSize]
         IN  /\ low \in Nat /\ low < RawRangeSize /\ top \in Nat
             /\ L[Len(acc)] = low + top * RawRangeSize
             /\ Rejected <=> top >= RawRanges
             /\ Horner([i \in 1 .. OutSize |-> AccByte(AccSize - i)]) = low
<1> DEFINE m == Len(acc)
           low == IF m < AccSize THEN L[m] ELSE L[OutSize]
           top == IF m < AccSize THEN 0 ELSE acc[AccSize]
           s == [i \in 1 .. OutSize |-> AccByte(AccSize - i)]
           K == [i \in 0 .. OutSize |-> IF i <= m THEN L[i] ELSE L[m]]
<1>1. acc \in Seq(0 .. Base - 1) /\ m \in Nat /\ 1 <= m /\ m <= AccSize
  BY AccTyped
<1>2. /\ OutSize \in Nat /\ AccSize = OutSize + 1 /\ AccSize \in Nat
      /\ Power(Base, OutSize) = RawRangeSize
  BY RawConstants, RawAssumption DEF OutSize
<1>3. \A i \in 0 .. m : L[i] \in Nat /\ L[i] < Power(Base, i)
  BY PrefixBound, <1>1
<1>4. \A i \in 1 .. m : L[i] = L[i - 1] + acc[i] * Power(Base, i - 1)
  BY DEF PrefixSums
<1>5. \A i \in 1 .. m : acc[i] \in 0 .. Base - 1
  BY <1>1, ElementOfSeq
<1>6. low \in Nat /\ low < RawRangeSize
  <2>1. CASE m < AccSize
    <3>1. m \in 0 .. m /\ m <= OutSize
      BY <1>1, <1>2, <2>1
    <3>2. L[m] \in Nat /\ L[m] < Power(Base, m)
      BY <1>3, <3>1
    <3>3. Power(Base, m) <= Power(Base, OutSize)
      BY <1>1, <1>2, <3>1, PowerGrows, RawConstants
    <3>4. Power(Base, m) \in Nat /\ Power(Base, OutSize) \in Nat
      BY <1>1, <1>2, Weights
    <3>5. L[m] < RawRangeSize
      BY <1>2, <3>2, <3>3, <3>4
    <3> QED BY <2>1, <3>2, <3>5
  <2>2. CASE ~(m < AccSize)
    <3>1. OutSize \in 0 .. m
      BY <1>1, <1>2, <2>2
    <3> QED BY <1>2, <1>3, <2>2, <3>1
  <2> QED BY <2>1, <2>2
<1>7. top \in Nat /\ L[m] = low + top * RawRangeSize /\ (Rejected <=> top >= RawRanges)
  <2>1. CASE m < AccSize
    <3>1. L[m] \in Nat /\ 0 * RawRangeSize = 0
      BY <1>6, <2>1, RawConstants
    <3>2. ~Rejected
      BY <1>1, <1>2, <2>1 DEF Rejected
    <3>3. low = L[m] /\ top = 0
      BY <2>1
    <3> QED BY <3>1, <3>2, <3>3, RawConstants
  <2>2. CASE ~(m < AccSize)
    <3>1. m = AccSize /\ AccSize \in 1 .. m /\ AccSize - 1 = OutSize
      BY <1>1, <1>2, <2>2
    <3>2. L[m] = L[OutSize] + acc[AccSize] * RawRangeSize
      BY <1>2, <1>4, <3>1
    <3>3. acc[AccSize] \in 0 .. Base - 1
      BY <1>5, <3>1
    <3>4. Rejected <=> acc[AccSize] >= RawRanges
      BY <1>1, <3>1 DEF Rejected
    <3>5. low = L[OutSize] /\ top = acc[AccSize]
      BY <2>2
    <3> QED BY <3>2, <3>3, <3>4, <3>5, RawConstants
  <2> QED BY <2>1, <2>2
<1>8. s \in [1 .. OutSize -> 0 .. Base - 1]
  <2>1. ASSUME NEW i \in 1 .. OutSize
        PROVE  AccByte(AccSize - i) \in 0 .. Base - 1
    <3>1. AccSize - i \in Nat \ {0}
      BY <1>2
    <3>2. CASE AccSize - i <= m
      BY <1>1, <1>5, <3>1, <3>2 DEF AccByte
    <3>3. CASE ~(AccSize - i <= m)
      BY <3>3, RawConstants DEF AccByte
    <3> QED BY <3>2, <3>3
  <2> QED BY <2>1
<1>9. K \in [0 .. OutSize -> Int] /\ K[0] = 0
  <2>1. L[0] = 0 /\ m \in 0 .. m
    BY <1>1 DEF PrefixSums
  <2>2. ASSUME NEW i \in 0 .. OutSize
        PROVE  K[i] \in Int
    <3>1. CASE i <= m
      <4>1. i \in 0 .. m
        BY <1>1, <1>2, <3>1
      <4> QED BY <1>3, <3>1, <4>1
    <3>2. CASE ~(i <= m)
      BY <1>3, <2>1, <3>2
    <3> QED BY <3>1, <3>2
  <2>3. K[0] = L[0]
    BY <1>1, <1>2
  <2> QED BY <2>1, <2>2, <2>3
<1>10. ASSUME NEW i \in 1 .. OutSize
       PROVE  K[i] = K[i - 1] + s[OutSize + 1 - i] * Power(Base, i - 1)
  <2>1. /\ OutSize + 1 - i \in 1 .. OutSize /\ AccSize - (OutSize + 1 - i) = i
        /\ i \in 0 .. OutSize /\ i - 1 \in 0 .. OutSize /\ i - 1 \in Nat
    BY <1>2
  <2>2. s[OutSize + 1 - i] = AccByte(i)
    BY <2>1
  <2>3. CASE i <= m
    <3>1. K[i] = L[i] /\ K[i - 1] = L[i - 1] /\ AccByte(i) = acc[i] /\ i \in 1 .. m
      BY <1>1, <2>1, <2>3 DEF AccByte
    <3> HIDE DEF K, s
    <3> QED BY <1>4, <2>2, <3>1
  <2>4. CASE ~(i <= m)
    <3>1. K[i] = L[m] /\ K[i - 1] = L[m] /\ AccByte(i) = 0
      BY <1>1, <2>1, <2>4 DEF AccByte
    <3>2. L[m] \in Int /\ Power(Base, i - 1) \in Int
      <4>1. m \in 0 .. m
        BY <1>1
      <4>2. Power(Base, i - 1) \in Int
        BY <2>1, Weights
      <4> QED BY <1>3, <4>1, <4>2
    <3>3. 0 * Power(Base, i - 1) = 0
      BY <3>2
    <3> HIDE DEF K, s, m
    <3> QED BY <2>2, <3>1, <3>2, <3>3
  <2> QED BY <2>3, <2>4
<1>11. K[OutSize] = low
  BY <1>1, <1>2
<1>12. Horner(s) = low
  <2> HIDE DEF K, s, low
  <2> QED BY <1>8, <1>9, <1>10, <1>11, BigEndian
<1> HIDE DEF low, top, s, m, K
<1>13. low \in Nat /\ low < RawRangeSize /\ top \in Nat /\ L[m] = low + top * RawRangeSize
       /\ (Rejected <=> top >= RawRanges) /\ Horner(s) = low
  BY <1>6, <1>7, <1>12
<1> QED BY <1>13 DEF low, top, s, m

\* The return of the code is the return of the contract.
LEMMA ReturnAnswers == RawInv /\ Return => Contract!CallReturn
<1> SUFFICES ASSUME RawInv, Return PROVE Contract!CallReturn
  OBVIOUS
<1> DEFINE X == RawValue(rolls)
<1>1. /\ DigitDone /\ ~MoreDigits /\ returned = "running" /\ returned' = Verdict
      /\ result' = IF Verdict = "extracted"
                   THEN [i \in 1 .. AccSize - 1 |-> AccByte(AccSize - i)] ELSE result
      /\ rolls' = rolls
  BY DEF Return, DigitDone
<1>2. rolls \in Transcripts /\ used \in 0 .. Digits(rolls) /\ Digits(rolls) \in Nat
      /\ Len(rolls) \in Nat /\ NeedEntries \in Nat
  BY AccTyped, TranscriptTyped, RawConstants
<1>3. used = Digits(rolls) /\ (used < NeedEntries <=> Len(rolls) < NeedEntries)
  BY <1>1, <1>2 DEF MoreDigits, Digits
<1>4. PICK L : PrefixSums(L, acc) /\ L[Len(acc)] = X
  BY <1>1, <1>2, <1>3, NumberHeld, DigitValuesStep
<1> DEFINE low == IF Len(acc) < AccSize THEN L[Len(acc)] ELSE L[OutSize]
           top == IF Len(acc) < AccSize THEN 0 ELSE acc[AccSize]
           s == [i \in 1 .. OutSize |-> AccByte(AccSize - i)]
<1>5. /\ low \in Nat /\ low < RawRangeSize /\ top \in Nat
      /\ L[Len(acc)] = low + top * RawRangeSize
      /\ Rejected <=> top >= RawRanges
      /\ Horner(s) = low
  BY <1>4, ValueOfBytes
<1> HIDE DEF X, low, top
<1>6. X % RawRangeSize = low /\ (X >= RawRanges * RawRangeSize <=> top >= RawRanges)
  <2>1. RawRangeSize \in Nat \ {0} /\ RawRanges \in Nat
    BY RawConstants
  <2>2. X = low + top * RawRangeSize
    BY <1>4, <1>5
  <2> QED BY <1>5, <2>1, <2>2, TopByte
<1>7. Rejected <=> RawRejected(rolls)
  BY <1>5, <1>6 DEF RawRejected, X
<1>8. RawExtract(rolls) = low
  BY <1>6 DEF RawExtract, X
<1>9. Verdict = Contract!CallVerdict
  BY <1>3, <1>7
     DEF Verdict, Contract!CallVerdict, Contract!RawRejected, Contract!RawValue, RawRejected, RawValue
<1>10. result = Zeros
  BY <1>1 DEF RawInv
<1>11. CASE Verdict = "extracted"
  <2>1. result' = s
    BY <1>1, <1>11 DEF OutSize
  <2>2. Horner(result') = RawExtract(rolls)
    BY <1>5, <1>8, <2>1
  <2>3. RawExtract(rolls) = Contract!RawExtract(rolls)
    BY DEF RawExtract, RawValue, Contract!RawExtract, Contract!RawValue
  <2> HIDE DEF s
  <2> QED BY <1>1, <1>9, <1>11, <2>2, <2>3 DEF Contract!CallReturn
<1>12. CASE Verdict # "extracted"
  <2>1. Horner(result') = 0
    BY <1>1, <1>10, <1>12, HornerZeros
  <2> HIDE DEF s
  <2> QED BY <1>1, <1>9, <1>12, <2>1 DEF Contract!CallReturn
<1> QED BY <1>11, <1>12

\* Every step of the code is a step of the contract, or none.
LEMMA RawCallStep == RawInv /\ [RawNext]_rawVars => [Contract!CallReturn]_(Contract!callVars)
<1> SUFFICES ASSUME RawInv, [RawNext]_rawVars PROVE [Contract!CallReturn]_(Contract!callVars)
  OBVIOUS
<1>1. CASE Return
  BY <1>1, ReturnAnswers
<1>2. CASE UNCHANGED <<rolls, returned, result>>
  BY <1>2 DEF Contract!callVars
<1> QED BY <1>1, <1>2 DEF RawNext, NextDigit, MultiplyByte, GrowAcc, rawVars

LEMMA RawCallInit == RawInit \/ RawIdle => Contract!CallInit
<1> SUFFICES ASSUME RawInit \/ RawIdle PROVE Contract!CallInit
  OBVIOUS
<1>1. rolls \in Transcripts
  BY RawInvInit DEF RawInv, RawTypeOK
<1>2. returned \in {"idle", "running"} /\ Horner(result) = 0
  BY HornerZeros DEF RawInit, RawIdle
<1> QED BY <1>1, <1>2
        DEF Contract!CallInit, Contract!Transcripts, Transcripts, Contract!Face, Face

-----------------------------------------------------------------------------
(* The calls of loop(), one at a time.                                       *)

\* The call for a hash of zeros has taken the smallest positions, in order.
LEMMA IdleQuiz == QuizIdle => IInv /\ OrderInv
<1> SUFFICES ASSUME QuizIdle PROVE IInv /\ OrderInv
  OBVIOUS
<1>1. /\ HashLen \in Nat /\ WordCount \in Nat /\ QuizWords \in Nat \ {0}
      /\ QuizWords <= WordCount /\ 0 \in Byte
  BY QuizAssumption
<1>2. /\ hash = [i \in 0 .. HashLen - 1 |-> 0] /\ candidate = HashLen /\ v = QuizWords
      /\ pos = [s \in 1 .. QuizWords |-> s - 1]
  BY DEF QuizIdle
<1>3. /\ pos \in Seq(Position) /\ Len(pos) = QuizWords
      /\ \A s \in 1 .. QuizWords : pos[s] = s - 1
  BY <1>1, <1>2 DEF Position
<1>4. IInv
  <2>1. TypeOK
    BY <1>1, <1>2, <1>3 DEF TypeOK
  <2>2. Distinct
    BY <1>1, <1>3 DEF Distinct
  <2>3. ASSUME NEW u \in 0 .. v - 1
        PROVE  Taken(u)
    <3>1. u + 1 \in 1 .. Len(pos) /\ pos[u + 1] = u
      BY <1>1, <1>2, <1>3
    <3> QED BY <3>1 DEF Taken
  <2> QED BY <2>1, <2>2, <2>3 DEF IInv, PassedTaken
<1>5. \A i \in 1 .. StreamLen : Stream[i] = IF i <= HashLen THEN 0 ELSE i - HashLen - 1
  <2>1. \A i \in 0 .. HashLen - 1 : hash[i] % WordCount = 0
    BY <1>1, <1>2, ConstantsTyped
  <2> SUFFICES ASSUME NEW i \in 1 .. StreamLen
               PROVE  Stream[i] = IF i <= HashLen THEN 0 ELSE i - HashLen - 1
    OBVIOUS
  <2>2. StreamLen \in Nat /\ i \in Nat
    BY <1>1 DEF StreamLen
  <2>3. CASE i <= HashLen
    <3>1. i - 1 \in 0 .. HashLen - 1
      BY <1>1, <2>2, <2>3
    <3> QED BY <2>1, <2>3, <3>1 DEF Stream, StreamLen
  <2>4. CASE ~(i <= HashLen)
    BY <2>4 DEF Stream, StreamLen
  <2> QED BY <2>3, <2>4
<1>6. StreamLen \in Nat /\ StreamLen = HashLen + WordCount /\ Looked = HashLen + QuizWords
  BY <1>1, <1>2 DEF StreamLen, Looked
<1>7. HoldsFirst(Stream, Looked, pos)
  <2>1. ASSUME NEW j \in 1 .. Looked
        PROVE  \E k \in 1 .. Len(pos) : pos[k] = Stream[j]
    <3> DEFINE k == IF j <= HashLen THEN 1 ELSE j - HashLen
    <3>1. k \in 1 .. Len(pos) /\ pos[k] = Stream[j]
      BY <1>1, <1>3, <1>5, <1>6
    <3> HIDE DEF k
    <3> QED BY <3>1
  <2>2. ASSUME NEW k \in 1 .. Len(pos)
        PROVE  \E j \in 1 .. Looked : Stream[j] = pos[k]
    <3>1. HashLen + k \in 1 .. Looked /\ Stream[HashLen + k] = pos[k]
      BY <1>1, <1>3, <1>5, <1>6
    <3> QED BY <3>1
  <2> QED BY <2>1, <2>2 DEF HoldsFirst
<1>8. Earliest(Stream, StreamLen, pos)
  <2> SUFFICES ASSUME NEW t \in 1 .. Len(pos)
               PROVE  \E i \in 1 .. StreamLen :
                        /\ Stream[i] = pos[t]
                        /\ \A j \in 1 .. i - 1 :
                             Stream[j] # pos[t] /\ \E k \in 1 .. t - 1 : pos[k] = Stream[j]
                        /\ \A k \in 1 .. t - 1 : \E j \in 1 .. i - 1 : Stream[j] = pos[k]
    BY DEF Earliest
  <2> DEFINE i == IF t = 1 THEN 1 ELSE HashLen + t
  <2>1. t \in Nat /\ t >= 1 /\ t <= QuizWords /\ pos[t] = t - 1
    BY <1>1, <1>3
  <2>2. i \in 1 .. StreamLen /\ Stream[i] = pos[t]
    BY <1>1, <1>5, <1>6, <2>1
  <2>3. ASSUME NEW j \in 1 .. i - 1
        PROVE  Stream[j] # pos[t] /\ \E k \in 1 .. t - 1 : pos[k] = Stream[j]
    <3> DEFINE k == IF j <= HashLen THEN 1 ELSE j - HashLen
    <3>1. t > 1 /\ i = HashLen + t /\ j \in 1 .. StreamLen
      BY <1>1, <1>6, <2>1, <2>2
    <3>2. Stream[j] = IF j <= HashLen THEN 0 ELSE j - HashLen - 1
      BY <1>5, <3>1
    <3>3. k \in 1 .. t - 1 /\ pos[k] = Stream[j] /\ Stream[j] # pos[t]
      BY <1>1, <1>3, <2>1, <3>1, <3>2
    <3> HIDE DEF k
    <3> QED BY <3>3
  <2>4. ASSUME NEW k \in 1 .. t - 1
        PROVE  \E j \in 1 .. i - 1 : Stream[j] = pos[k]
    <3>1. i = HashLen + t /\ HashLen + k \in 1 .. i - 1 /\ HashLen + k \in 1 .. StreamLen
      BY <1>1, <1>6, <2>1
    <3>2. Stream[HashLen + k] = k - 1 /\ pos[k] = k - 1
      BY <1>1, <1>3, <1>5, <2>1, <3>1
    <3> HIDE DEF i
    <3> QED BY <3>1, <3>2
  <2> HIDE DEF i
  <2> QED BY <2>2, <2>3, <2>4
<1> QED BY <1>2, <1>4, <1>7, <1>8 DEF OrderInv

LEMMA StartsInOrder == Init => OrderInv
<1> SUFFICES ASSUME Init PROVE OrderInv
  OBVIOUS
<1>1. Len(pos) = 0 /\ Looked = 0 /\ v = 0
  BY DEF Init, Looked
<1>2. 1 .. Len(pos) = {} /\ 1 .. Looked = {}
  BY <1>1
<1> QED BY <1>1, <1>2 DEF OrderInv, HoldsFirst, Earliest

QuizInv == IInv /\ OrderInv

CallsInv == QuizInv /\ RawInv /\ KeysInv

LEMMA CallsInvInit == CallsInit => CallsInv
BY IInvInit, StartsInOrder, IdleQuiz, RawInvInit, KeysInvInit DEF CallsInit, CallsInv, QuizInv

\* Each component's part survives the steps of the others, which leave its
\* variables alone.
LEMMA QuizInvStep == QuizInv /\ [CallsNext]_callsVars => QuizInv'
<1>1. QuizInv /\ [CallsNext]_callsVars => [Next]_vars
  BY DEF CallsNext, OneQuiz, OneRaw, OnePoll, callsVars
<1> QED BY <1>1, IInvStep, OrderInvStep DEF QuizInv

LEMMA RawStays == [CallsNext]_callsVars => [RawNext]_rawVars
BY DEF CallsNext, OneQuiz, OneRaw, OnePoll, callsVars

LEMMA KeysStay == [CallsNext]_callsVars => [KeysNext]_keysVars
BY DEF CallsNext, OneQuiz, OneRaw, OnePoll, callsVars

LEMMA CallsInvStep == CallsInv /\ [CallsNext]_callsVars => CallsInv'
BY QuizInvStep, RawStays, KeysStay, RawInvStep, KeysInvStep DEF CallsInv

LEMMA CallsInvCorrect == CallsSpec => []CallsInv
BY CallsInvInit, CallsInvStep, PTL DEF CallsSpec

\* For every size of the arrays: nothing is written past pos[], acc[] and
\* quizBuf[], and every local keeps its type.
THEOREM NoArrayOverrun == CallsSpec => []TypesOK
<1>1. CallsInv => TypesOK
  BY DEF CallsInv, QuizInv, IInv, RawInv, KeysInv, TypesOK
<1> QED BY <1>1, CallsInvCorrect, PTL

\* Whatever the hash, no word is asked for twice.
THEOREM DistinctPositions == CallsSpec => []Distinct
<1>1. CallsInv => Distinct
  BY DEF CallsInv, QuizInv, IInv
<1> QED BY <1>1, CallsInvCorrect, PTL

\* Whatever the hash, the positions are the earliest distinct values of the hash
\* and of the fallback, in their order, and on return all entries are filled.
THEOREM EarliestPositions == CallsSpec => []PositionsSound
<1>1. CallsInv => HashOrder
  BY DEF CallsInv, QuizInv, OrderInv, Earliest, HashOrder, StreamLen
<1>2. CallsInv => FourPositions
  BY FilledOnReturn DEF CallsInv, QuizInv
<1>3. CallsInv => PositionsSound
  BY <1>1, <1>2 DEF PositionsSound
<1> QED BY <1>3, CallsInvCorrect, PTL

\* Whatever the keys and the sizes of the poll and of the buffer, a press is
\* typed once at most, and it is lost only when Enter or Del rises in its poll,
\* the buffer is full, too many keys are down, or shift moved under a held key.
THEOREM TypingIsExplained == CallsSpec => TypingExplained
<1>1. KeysInv /\ [KeysNext]_keysVars =>
        \A k \in (unspent \ unspent') \cap down' :
          \/ buf' = Append(buf, k)
          \/ Cardinality(Added) > 1
          \/ EnterEdge \/ DelEdge \/ Len(buf) = BufCap
          \/ crowded \/ reshifted
  BY PressStep
<1>2. CallsSpec => []KeysInv /\ [][KeysNext]_keysVars
  <2>1. CallsInv => KeysInv
    BY DEF CallsInv
  <2> QED BY <2>1, CallsInvCorrect, KeysStay, PTL DEF CallsSpec
<1> QED BY <1>1, <1>2, LetterStep, PTL DEF TypingExplained, OneLetterPerPress, DropsExplained

\* wc_raw_extract answers with the exact number of the first digits: rejected
\* beyond the full ranges, else that number modulo the range.  (That the call
\* returns is the liveness part of the contract and is not stated here.)
THEOREM AnswersAreExact ==
  CallsSpec => Contract!CallInit /\ [][Contract!CallReturn]_(Contract!callVars)
<1>1. CallsInit => Contract!CallInit
  BY RawCallInit DEF CallsInit
<1>2. CallsSpec => []RawInv /\ [][RawNext]_rawVars
  <2>1. CallsInv => RawInv
    BY DEF CallsInv
  <2> QED BY <2>1, CallsInvCorrect, RawStays, PTL DEF CallsSpec
<1> QED BY <1>1, <1>2, RawCallStep, PTL DEF CallsSpec
=============================================================================
