---------------------------- MODULE WalletBuildProofs ----------------------------
(***************************************************************************)
(* Proofs for HwrngDigest, for every block size, number of blocks and      *)
(* limits: a stuck source is rejected, the verdict is the written one, and *)
(* no way out leaves anything.  Then for WalletBuild, which calls it:      *)
(* whichever way a build is left, and wherever power fails.                *)
(***************************************************************************)
EXTENDS WalletBuild, InductionLemmas

-----------------------------------------------------------------------------
(* The generator and its health tests.                                       *)

USE DEF vars

LEMMA SizesTyped ==
  /\ Blocks \in Nat /\ Blocks >= 1 /\ BlockSize \in Nat /\ BlockSize >= 1
  /\ Full \in Nat /\ Full >= 1 /\ BlockSize <= Full
  /\ PeriodLimit \in Nat /\ PeriodLimit >= 1
<1>1. Blocks \in Nat /\ Blocks >= 1 /\ BlockSize \in Nat /\ BlockSize >= 1
      /\ PeriodLimit \in Nat /\ PeriodLimit >= 1
  BY HwrngAssumption
<1>2. Full \in Nat
  BY <1>1 DEF Full
<1>3. BlockSize <= Full
  <2>1. BlockSize * 1 <= BlockSize * Blocks
    BY <1>1
  <2> QED BY <1>1, <2>1 DEF Full
<1> QED BY <1>1, <1>2, <1>3

-----------------------------------------------------------------------------
(* What the way out leaves.                                                 *)

\* The tests run over a copy of a full sample.  Once they have spoken the copy and
\* the counts are gone and the source is off, so nothing is read after the verdict.
Progress ==
  /\ i \in Nat
  /\ i > 0 /\ ~returned => Len(pool) = Full
  /\ result # "running" => i = Full /\ source = "off" /\ buf = <<>> /\ counts = NoCounts
  /\ buf # <<>> => buf = pool /\ Len(pool) = Full /\ result = "running" /\ ~returned
  /\ i > 0 /\ result = "running" => buf = pool

\* A digest and a printed sample exist only after a passed test.
Outputs ==
  /\ result \in {"running", "ok", "failed"}
  /\ result # "ok" => digest = <<>> /\ sampleOut = <<>>
  /\ result = "ok" => Len(digest) = Full
  /\ returned => pool = <<>> /\ result # "running"

OutInv == Progress /\ Outputs

LEMMA OutInvStep == OutInv /\ [Next]_vars => OutInv'
<1> SUFFICES ASSUME OutInv, [Next]_vars
             PROVE  OutInv'
  OBVIOUS
<1> USE DEF OutInv, Progress, Outputs
<1>1. CASE Enable
  BY <1>1, SizesTyped DEF Enable
<1>2. CASE FillBlock
  <2>1. result = "running" /\ ~returned /\ i = 0 /\ buf = <<>>
    BY <1>2 DEF FillBlock
  <2> QED BY <1>2, <2>1 DEF FillBlock
<1>8. CASE Assemble
  <2>1. result = "running" /\ ~returned /\ Len(pool) = Full
    BY <1>8 DEF Assemble
  <2> QED BY <1>8, <2>1 DEF Assemble
<1>3. CASE ScanByte
  <2>1. result = "running" /\ ~returned /\ i' = i + 1 /\ Len(pool) = Full /\ buf = pool
    BY <1>3, SizesTyped DEF ScanByte, Scanning
  <2> QED BY <1>3, <2>1 DEF ScanByte
<1>4. CASE TryPeriod
  BY <1>4 DEF TryPeriod, LookingForCycle
<1>9. CASE WipeCounts
  BY <1>9 DEF WipeCounts, Tested
<1>5. CASE RejectSample \/ HashSample
  <2>1. /\ result = "running" /\ ~returned /\ i = Full /\ Len(pool) = Full /\ buf = pool
        /\ counts = NoCounts /\ UNCHANGED <<pool, i, counts, sampleOut, returned>>
        /\ source' = "off" /\ buf' = <<>>
    BY <1>5, SizesTyped DEF RejectSample, HashSample, Tested, BufAfter
  <2>2. NoCounts' = NoCounts
    BY DEF NoCounts
  <2> QED BY <1>5, <2>1, <2>2 DEF RejectSample, HashSample
<1>6. CASE Return
  BY <1>6 DEF Return, SampleOut, NoCounts
<1>7. CASE UNCHANGED vars
  BY <1>7 DEF NoCounts
<1> QED BY <1>1, <1>2, <1>3, <1>4, <1>5, <1>6, <1>7, <1>8, <1>9 DEF Next

LEMMA OutInvCorrect == Spec => []OutInv
<1>1. Init => OutInv
  BY DEF Init, OutInv, Progress, Outputs
<1> QED BY <1>1, OutInvStep, PTL DEF Spec

\* On every path the blocks, the copy of them that the tests ran over and its
\* counts are wiped, and a failed test leaves neither digest nor sample.
THEOREM NothingLeft == Spec => []CleanReturn
<1>1. OutInv => CleanReturn
  <2> SUFFICES ASSUME OutInv, returned
               PROVE  /\ pool = <<>> /\ buf = <<>> /\ counts = NoCounts
                      /\ result = "failed" => digest = <<>> /\ sampleOut = <<>>
                      /\ result = "ok" => digest # <<>>
    BY DEF CleanReturn
  <2>1. result = "ok" => digest # <<>>
    BY SizesTyped DEF OutInv, Outputs
  <2> QED BY <2>1 DEF OutInv, Outputs, Progress
<1> QED BY <1>1, OutInvCorrect, PTL

-----------------------------------------------------------------------------
(* A source that repeats its first block.                                   *)

\* Until a fault is known, every cycle length tried so far was no cycle; an
\* accepted sample has none at all.
CycleFree ==
  /\ period \in Nat /\ period >= 1
  /\ period > 1 => i = Full
  /\ result = "running" /\ ~unhealthy => \A p \in 1 .. period - 1 : ~Repeats(buf, p)
  /\ result = "ok" => \A p \in 1 .. PeriodLimit : ~Repeats(digest, p)

LEMMA CycleFreeStep == OutInv /\ CycleFree /\ [Next]_vars => CycleFree'
<1> SUFFICES ASSUME OutInv, CycleFree, [Next]_vars
             PROVE  CycleFree'
  OBVIOUS
<1> USE DEF CycleFree
<1>1. CASE Enable
  BY <1>1 DEF Enable, Repeats
<1>2. CASE FillBlock \/ Assemble
  <2>1. i = 0 /\ period = 1 /\ result = "running" /\ UNCHANGED <<i, period, result>>
    <3>1. CASE FillBlock
      BY <3>1, SizesTyped DEF FillBlock, OutInv, Progress, Outputs
    <3>2. CASE Assemble
      BY <3>2, SizesTyped DEF Assemble, OutInv, Progress, Outputs
    <3> QED BY <1>2, <3>1, <3>2
  <2> QED BY <2>1
<1>3. CASE ScanByte
  <2>1. period = 1 /\ period' = 1 /\ result = "running" /\ result' = "running"
    BY <1>3, SizesTyped DEF ScanByte, Scanning, OutInv, Progress
  <2> QED BY <2>1
<1>4. CASE TryPeriod
  <2>1. result = "running" /\ ~unhealthy /\ i = Full /\ i' = i /\ period' = period + 1
        /\ buf' = buf /\ result' = result /\ unhealthy' = Repeats(buf, period)
    BY <1>4 DEF TryPeriod, LookingForCycle, OutInv, Progress
  <2>2. ASSUME ~unhealthy', NEW p \in 1 .. period' - 1
        PROVE  ~Repeats(buf, p)
    <3>1. CASE p = period
      BY <2>1, <2>2, <3>1
    <3>2. CASE p # period
      BY <2>1, <2>2, <3>2
    <3> QED BY <3>1, <3>2
  <2>3. \A p : Repeats(buf, p)' <=> Repeats(buf, p)
    BY <2>1 DEF Repeats
  <2> QED BY <2>1, <2>2, <2>3
<1>8. CASE WipeCounts
  BY <1>8 DEF WipeCounts, Repeats
<1>5. CASE RejectSample \/ HashSample
  <2>1. result = "running" /\ period' = period /\ i' = i
        /\ (result' = "ok" => ~unhealthy /\ period > PeriodLimit /\ digest' = buf)
    BY <1>5, SizesTyped DEF RejectSample, HashSample, Tested, LookingForCycle, LastPeriod, OutInv, Progress
  <2>2. result' # "running"
    BY <1>5 DEF RejectSample, HashSample
  <2>3. ASSUME result' = "ok", NEW p \in 1 .. PeriodLimit
        PROVE  ~Repeats(digest', p)
    BY <2>1, <2>3, SizesTyped
  <2>4. \A p : Repeats(digest, p)' <=> Repeats(digest', p)
    BY DEF Repeats
  <2> QED BY <2>1, <2>2, <2>3, <2>4
<1>6. CASE Return
  BY <1>6 DEF Return, Repeats
<1>7. CASE UNCHANGED vars
  BY <1>7 DEF Repeats
<1> QED BY <1>1, <1>2, <1>3, <1>4, <1>5, <1>6, <1>7, <1>8 DEF Next

\* Equal blocks repeat with the length of a block.
LEMMA EqualBlocksRepeat ==
  ASSUME NEW s \in Seq(Byte), Len(s) = Full,
         \A n \in 2 .. Blocks : Block(s, n) = Block(s, 1)
  PROVE  Repeats(s, BlockSize)
<1> SUFFICES ASSUME NEW n \in BlockSize + 1 .. Full
             PROVE  s[n] = s[((n - 1) % BlockSize) + 1]
  BY DEF Repeats
<1> DEFINE q == (n - 1) \div BlockSize
           r == (n - 1) % BlockSize
<1>1. q \in Nat /\ r \in 0 .. BlockSize - 1 /\ n - 1 = BlockSize * q + r
  BY SizesTyped
<1>2. q >= 1 /\ q + 1 \in 2 .. Blocks
  <2>1. q >= 1
    BY <1>1, SizesTyped
  <2>2. q < Blocks
    <3> SUFFICES ASSUME q >= Blocks PROVE FALSE
      BY <1>1, SizesTyped
    <3>1. BlockSize * q >= BlockSize * Blocks
      BY <1>1, SizesTyped
    <3> QED BY <1>1, <3>1, SizesTyped DEF Full
  <2> QED BY <1>1, <2>1, <2>2, SizesTyped
<1>3. Block(s, q + 1) = SubSeq(s, q * BlockSize + 1, (q + 1) * BlockSize)
      /\ Block(s, 1) = SubSeq(s, 1, BlockSize)
  BY <1>1, SizesTyped DEF Block
<1>4. (q + 1) * BlockSize = q * BlockSize + BlockSize /\ q * BlockSize \in Nat
      /\ n = q * BlockSize + 1 + r
  BY <1>1, SizesTyped
<1>5. SubSeq(s, q * BlockSize + 1, q * BlockSize + BlockSize)[r + 1] = s[n]
  <2>1. r + 1 \in 1 .. BlockSize
    BY <1>1, SizesTyped
  <2>2. q * BlockSize + BlockSize <= Len(s)
    <3>1. (q + 1) * BlockSize <= Blocks * BlockSize
      BY <1>1, <1>2, SizesTyped
    <3> QED BY <1>4, <3>1 DEF Full
  <2> HIDE DEF q, r
  <2> QED BY <1>1, <1>4, <2>1, <2>2, SizesTyped
<1>6. SubSeq(s, 1, BlockSize)[r + 1] = s[r + 1]
  <2>1. r + 1 \in 1 .. BlockSize
    BY <1>1, SizesTyped
  <2> HIDE DEF q, r
  <2> QED BY <2>1, SizesTyped
<1> QED BY <1>2, <1>3, <1>4, <1>5, <1>6

LEMMA CycleFreeCorrect == Spec => []CycleFree
<1>1. Init => CycleFree
  BY DEF Init, CycleFree
<1> QED BY <1>1, CycleFreeStep, OutInvCorrect, PTL DEF Spec

LEMMA DigestTyped == Spec => [](pool \in Seq(Byte) /\ digest \in Seq(Byte))
<1>1. Init => pool \in Seq(Byte) /\ digest \in Seq(Byte)
  BY DEF Init
<1>2. OutInv /\ pool \in Seq(Byte) /\ digest \in Seq(Byte) /\ [Next]_vars
        => (pool \in Seq(Byte) /\ digest \in Seq(Byte))'
  <2> SUFFICES ASSUME OutInv, pool \in Seq(Byte), digest \in Seq(Byte), [Next]_vars
               PROVE  pool' \in Seq(Byte) /\ digest' \in Seq(Byte)
    OBVIOUS
  <2>1. CASE FillBlock
    <3>1. PICK block \in [1 .. BlockSize -> Byte] : pool' = pool \o block
      BY <2>1 DEF FillBlock
    <3>2. block \in Seq(Byte)
      BY SizesTyped
    <3> QED BY <2>1, <3>1, <3>2 DEF FillBlock
  <2>2. CASE RejectSample
    BY <2>2 DEF RejectSample
  <2>3. CASE HashSample
    <3>1. buf \in Seq(Byte)
      <4>1. CASE buf = <<>>
        BY <4>1
      <4>2. CASE buf # <<>>
        BY <4>2 DEF OutInv, Progress
      <4> QED BY <4>1, <4>2
    <3>2. digest' = buf /\ pool' = pool
      BY <2>3 DEF HashSample
    <3> QED BY <3>1, <3>2
  <2>4. CASE Return
    BY <2>4 DEF Return
  <2> QED BY <2>1, <2>2, <2>3, <2>4 DEF Next, Enable, Assemble, ScanByte, TryPeriod, WipeCounts
<1> QED BY <1>1, <1>2, OutInvCorrect, PTL DEF Spec

\* A source stuck in a loop of one block never yields a digest, whatever the
\* block holds, as long as the cycle search reaches the length of a block (in
\* the firmware both are 32).
THEOREM StuckSource ==
  ASSUME BlockSize <= PeriodLimit
  PROVE  Spec => []StuckSourceRejected
<1>1. OutInv /\ CycleFree /\ digest \in Seq(Byte) => StuckSourceRejected
  <2> SUFFICES ASSUME OutInv, CycleFree, digest \in Seq(Byte), result = "ok",
                      \A n \in 2 .. Blocks : Block(digest, n) = Block(digest, 1)
               PROVE  FALSE
    BY DEF StuckSourceRejected
  <2>1. Repeats(digest, BlockSize)
    BY EqualBlocksRepeat DEF OutInv, Outputs
  <2>2. BlockSize \in 1 .. PeriodLimit
    BY SizesTyped
  <2> QED BY <2>1, <2>2 DEF CycleFree
<1> QED BY <1>1, OutInvCorrect, CycleFreeCorrect, DigestTyped, PTL
-----------------------------------------------------------------------------
(* The verdict.                                                             *)

\* The places of byte x among the first m of sample s.
Occurrences(s, x, m) == {n \in 1 .. m : s[n] = x}

LEMMA OccurrencesCounted ==
  ASSUME NEW s, NEW x, NEW m \in Nat
  PROVE  /\ Cardinality(Occurrences(s, x, 0)) = 0
         /\ Cardinality(Occurrences(s, x, m)) \in 0 .. m
         /\ Cardinality(Occurrences(s, x, m + 1)) =
              Cardinality(Occurrences(s, x, m)) + (IF s[m + 1] = x THEN 1 ELSE 0)
<1>1. Occurrences(s, x, 0) = {}
  BY DEF Occurrences
<1>2. IsFiniteSet(1 .. m) /\ Cardinality(1 .. m) = m
  BY FS_Interval
<1>3. IsFiniteSet(Occurrences(s, x, m)) /\ Cardinality(Occurrences(s, x, m)) <= m
  BY <1>2, FS_Subset DEF Occurrences
<1>4. Cardinality(Occurrences(s, x, m)) \in Nat
  BY <1>3, FS_CardinalityType
<1>5. m + 1 \notin Occurrences(s, x, m)
  BY DEF Occurrences
<1>6. CASE s[m + 1] = x
  <2>1. \A n : n \in 1 .. m + 1 <=> n \in 1 .. m \/ n = m + 1
    OBVIOUS
  <2>2. \A n : n \in Occurrences(s, x, m + 1) <=> n \in Occurrences(s, x, m) \cup {m + 1}
    BY <1>6, <2>1 DEF Occurrences
  <2>3. Occurrences(s, x, m + 1) = Occurrences(s, x, m) \cup {m + 1}
    BY <2>2
  <2>4. Cardinality(Occurrences(s, x, m + 1)) = Cardinality(Occurrences(s, x, m)) + 1
    BY <1>3, <1>5, <2>3, FS_AddElement
  <2> QED BY <1>1, <1>3, <1>4, <1>6, <2>4, FS_EmptySet
<1>7. CASE s[m + 1] # x
  <2>1. Occurrences(s, x, m + 1) = Occurrences(s, x, m)
    BY <1>7 DEF Occurrences
  <2> QED BY <1>1, <1>3, <1>4, <1>7, <2>1, FS_EmptySet
<1> QED BY <1>6, <1>7

\* The faults of the first m bytes of a sample.
RunTo(s, m) == \E n \in 1 .. m - RunLimit + 1 : \A j \in n .. n + RunLimit - 1 : s[j] = s[n]
FrequentTo(s, m) == \E x \in Byte : Cardinality(Occurrences(s, x, m)) > CountLimit

\* run is the length of the longest run of equal bytes that the m-th ends.
EndsRun(s, m, r) ==
  /\ r \in 1 .. m
  /\ \A j \in m - r + 1 .. m : s[j] = s[m]
  /\ m - r >= 1 => s[m - r] # s[m]

\* One more byte makes a run of RunLimit exactly when it ends one.
LEMMA RunGrows ==
  ASSUME NEW s, NEW m \in Nat, NEW r, EndsRun(s, m + 1, r)
  PROVE  RunTo(s, m + 1) <=> RunTo(s, m) \/ r >= RunLimit
<1> USE HwrngAssumption
<1>1. RunLimit \in Nat /\ RunLimit >= 2 /\ r \in 1 .. m + 1
  BY DEF EndsRun
<1>2. ASSUME RunTo(s, m) PROVE RunTo(s, m + 1)
  BY <1>1, <1>2 DEF RunTo
<1>3. ASSUME r >= RunLimit PROVE RunTo(s, m + 1)
  <2> DEFINE n == m + 2 - RunLimit
  <2>1. n \in 1 .. (m + 1) - RunLimit + 1
    BY <1>1, <1>3
  <2>2. \A j \in n .. n + RunLimit - 1 : s[j] = s[n]
    BY <1>1, <1>3 DEF EndsRun
  <2> QED BY <2>1, <2>2 DEF RunTo
<1>4. ASSUME RunTo(s, m + 1), ~RunTo(s, m) PROVE r >= RunLimit
  <2>1. PICK n \in 1 .. (m + 1) - RunLimit + 1 : \A j \in n .. n + RunLimit - 1 : s[j] = s[n]
    BY <1>4 DEF RunTo
  <2>2. n = m + 2 - RunLimit
    BY <1>1, <1>4, <2>1 DEF RunTo
  <2>3. \A j \in n .. m + 1 : s[j] = s[m + 1]
    BY <1>1, <2>1, <2>2
  <2> SUFFICES ASSUME r < RunLimit PROVE FALSE
    BY <1>1
  <2>4. m + 1 - r \in n .. m + 1 /\ m + 1 - r >= 1
    BY <1>1, <2>1, <2>2
  <2> QED BY <2>3, <2>4 DEF EndsRun
<1> QED BY <1>2, <1>3, <1>4

\* The counter that scanning keeps is that length.
LEMMA RunCounted ==
  ASSUME NEW s, NEW m \in Nat, m >= 1 => EndsRun(s, m, run)
  PROVE  EndsRun(s, m + 1, IF m + 1 > 1 /\ s[m + 1] = s[m] THEN run + 1 ELSE 1)
<1>1. CASE m = 0
  BY <1>1 DEF EndsRun
<1>2. CASE m >= 1 /\ s[m + 1] = s[m]
  BY <1>2 DEF EndsRun
<1>3. CASE m >= 1 /\ s[m + 1] # s[m]
  BY <1>3 DEF EndsRun
<1> QED BY <1>1, <1>2, <1>3

\* One more byte makes a byte too frequent exactly when it is that byte.
LEMMA FrequencyGrows ==
  ASSUME NEW s, NEW m \in Nat, s[m + 1] \in Byte
  PROVE  FrequentTo(s, m + 1) <=>
           \/ FrequentTo(s, m)
           \/ Cardinality(Occurrences(s, s[m + 1], m + 1)) > CountLimit
<1>1. CountLimit \in Nat
  BY HwrngAssumption
<1>2. \A x : /\ Cardinality(Occurrences(s, x, m)) \in 0 .. m
             /\ Cardinality(Occurrences(s, x, m + 1)) =
                  Cardinality(Occurrences(s, x, m)) + (IF s[m + 1] = x THEN 1 ELSE 0)
  BY OccurrencesCounted
<1>3. ASSUME FrequentTo(s, m) PROVE FrequentTo(s, m + 1)
  <2>1. PICK x \in Byte : Cardinality(Occurrences(s, x, m)) > CountLimit
    BY <1>3 DEF FrequentTo
  <2>2. Cardinality(Occurrences(s, x, m + 1)) > CountLimit
    BY <1>1, <1>2, <2>1
  <2> QED BY <2>2 DEF FrequentTo
<1>4. ASSUME FrequentTo(s, m + 1), ~FrequentTo(s, m)
      PROVE  Cardinality(Occurrences(s, s[m + 1], m + 1)) > CountLimit
  <2>1. PICK x \in Byte : Cardinality(Occurrences(s, x, m + 1)) > CountLimit
    BY <1>4 DEF FrequentTo
  <2>2. ~(Cardinality(Occurrences(s, x, m)) > CountLimit)
    BY <1>4 DEF FrequentTo
  <2>3. s[m + 1] = x
    BY <1>1, <1>2, <2>1, <2>2
  <2> QED BY <2>1, <2>3
<1> QED BY <1>3, <1>4 DEF FrequentTo

\* What the counters and the flag of the tests say of the bytes scanned and the
\* cycle lengths tried.
VerdictInv ==
  /\ pool \in Seq(Byte) /\ i \in 0 .. Full /\ period \in 1 .. PeriodLimit + 1
  /\ unhealthy \in BOOLEAN
  /\ ~returned =>
       /\ i < Full => /\ counts \in [Byte -> Nat]
                      /\ \A x \in Byte : counts[x] = Cardinality(Occurrences(pool, x, i))
       /\ i >= 1 => EndsRun(pool, i, run)
       /\ unhealthy <=> \/ RunTo(pool, i) \/ FrequentTo(pool, i)
                        \/ \E p \in 1 .. period - 1 : Repeats(pool, p)
  /\ result # "running" /\ ~returned =>
       /\ result = "failed" <=> unhealthy
       /\ unhealthy \/ period = PeriodLimit + 1

LEMMA NothingScanned ==
  ASSUME NEW s
  PROVE  ~RunTo(s, 0) /\ ~FrequentTo(s, 0) /\ \A x : Cardinality(Occurrences(s, x, 0)) = 0
<1>1. ~RunTo(s, 0)
  BY HwrngAssumption DEF RunTo
<1>2. \A x : Cardinality(Occurrences(s, x, 0)) = 0
  BY OccurrencesCounted
<1>3. ~FrequentTo(s, 0)
  BY <1>2, HwrngAssumption DEF FrequentTo
<1> QED BY <1>1, <1>2, <1>3

LEMMA VerdictInvInit == Init => VerdictInv
<1> SUFFICES ASSUME Init PROVE VerdictInv
  OBVIOUS
<1>1. \A x \in Byte : counts[x] = Cardinality(Occurrences(pool, x, i))
  BY NothingScanned DEF Init, NoCounts
<1>2. unhealthy <=> \/ RunTo(pool, i) \/ FrequentTo(pool, i)
                    \/ \E p \in 1 .. period - 1 : Repeats(pool, p)
  <2>1. i = 0 /\ period = 1 /\ unhealthy = FALSE
    BY DEF Init
  <2> QED BY <2>1, NothingScanned
<1>3. /\ pool \in Seq(Byte) /\ i = 0 /\ period = 1 /\ unhealthy = FALSE
      /\ counts \in [Byte -> Nat] /\ result = "running"
  BY DEF Init, NoCounts
<1>4. i \in 0 .. Full /\ period \in 1 .. PeriodLimit + 1 /\ ~(i >= 1)
  BY <1>3, SizesTyped
<1> QED BY <1>1, <1>2, <1>3, <1>4 DEF VerdictInv

LEMMA VerdictInvStep == OutInv /\ CycleFree /\ VerdictInv /\ [Next]_vars => VerdictInv'
<1> SUFFICES ASSUME OutInv, CycleFree, VerdictInv, [Next]_vars
             PROVE  VerdictInv'
  OBVIOUS
<1>1. CASE Enable
  BY <1>1 DEF Enable, VerdictInv, Repeats, RunTo, FrequentTo, Occurrences, EndsRun
<1>2. CASE FillBlock
  <2>1. /\ i = 0 /\ period = 1 /\ result = "running" /\ ~returned
        /\ UNCHANGED <<i, period, counts, unhealthy, result, returned>>
    BY <1>2, SizesTyped DEF FillBlock, OutInv, Progress, Outputs, CycleFree
  <2>2. pool' \in Seq(Byte)
    <3>1. PICK block \in [1 .. BlockSize -> Byte] : pool' = pool \o block
      BY <1>2 DEF FillBlock
    <3>2. block \in Seq(Byte)
      BY SizesTyped
    <3> QED BY <3>1, <3>2 DEF VerdictInv
  <2>3. ~unhealthy
    BY <2>1, NothingScanned DEF VerdictInv
  <2>6. /\ counts \in [Byte -> Nat]
        /\ \A x \in Byte : counts[x] = Cardinality(Occurrences(pool, x, 0))
    BY <2>1, SizesTyped DEF VerdictInv
  <2>4. \A x \in Byte : counts'[x] = Cardinality(Occurrences(pool', x, 0))
    BY <2>1, <2>6, NothingScanned
  <2>5. ~RunTo(pool', 0) /\ ~FrequentTo(pool', 0)
    BY NothingScanned
  <2> QED BY <2>1, <2>2, <2>3, <2>4, <2>5, <2>6, SizesTyped DEF VerdictInv
<1>3. CASE ScanByte
  <2>1. /\ period = 1 /\ result = "running" /\ ~returned /\ Len(pool) = Full /\ i < Full
        /\ buf = pool
        /\ UNCHANGED <<pool, period, result, returned>>
        /\ i' = i + 1
        /\ counts' = [counts EXCEPT ![pool[i + 1]] = @ + 1]
        /\ run' = IF i + 1 > 1 /\ pool[i + 1] = pool[i + 1 - 1] THEN run + 1 ELSE 1
        /\ unhealthy' = (unhealthy \/ counts'[pool[i + 1]] > CountLimit \/ run' >= RunLimit)
    BY <1>3, SizesTyped DEF ScanByte, Scanning, RunAt, OutInv, Progress, Outputs, CycleFree
  <2>2. i \in Nat /\ i + 1 \in 1 .. Full /\ pool[i + 1] \in Byte
    BY <2>1, SizesTyped DEF VerdictInv
  <2>3. EndsRun(pool, i + 1, run')
    <3>1. i >= 1 => EndsRun(pool, i, run)
      BY <2>1 DEF VerdictInv
    <3>2. EndsRun(pool, i + 1, IF i + 1 > 1 /\ pool[i + 1] = pool[i] THEN run + 1 ELSE 1)
      BY <2>2, <3>1, RunCounted
    <3>3. (i + 1) - 1 = i
      BY <2>2
    <3> QED BY <2>1, <3>2, <3>3
  <2>4. counts' \in [Byte -> Nat]
        /\ \A x \in Byte : counts'[x] = Cardinality(Occurrences(pool, x, i + 1))
    <3>1. \A x \in Byte : Cardinality(Occurrences(pool, x, i + 1)) =
                            Cardinality(Occurrences(pool, x, i)) + (IF pool[i + 1] = x THEN 1 ELSE 0)
      BY <2>2, OccurrencesCounted
    <3>2. counts \in [Byte -> Nat] /\ \A x \in Byte : counts[x] = Cardinality(Occurrences(pool, x, i))
      BY <2>1 DEF VerdictInv
    <3> QED BY <2>1, <2>2, <3>1, <3>2
  <2>5. unhealthy <=> RunTo(pool, i) \/ FrequentTo(pool, i)
    BY <2>1 DEF VerdictInv
  <2>6. RunTo(pool, i + 1) <=> RunTo(pool, i) \/ run' >= RunLimit
    BY <2>2, <2>3, RunGrows
  <2>7. FrequentTo(pool, i + 1) <=> FrequentTo(pool, i) \/ counts'[pool[i + 1]] > CountLimit
    BY <2>2, <2>4, FrequencyGrows
  <2>8. unhealthy' <=> RunTo(pool, i + 1) \/ FrequentTo(pool, i + 1)
    BY <2>1, <2>5, <2>6, <2>7
  <2>9. unhealthy' \in BOOLEAN
    BY <2>1 DEF VerdictInv
  <2> QED BY <2>1, <2>2, <2>3, <2>4, <2>8, <2>9 DEF VerdictInv
<1>4. CASE TryPeriod
  <2>1. /\ result = "running" /\ i = Full /\ ~unhealthy /\ period <= PeriodLimit
        /\ UNCHANGED <<pool, i, counts, run, result, returned>>
        /\ period' = period + 1 /\ unhealthy' = Repeats(pool, period)
    BY <1>4, SizesTyped DEF TryPeriod, LookingForCycle, LastPeriod, OutInv, Progress
  <2>2. period \in 1 .. PeriodLimit /\ period' \in 1 .. PeriodLimit + 1
    BY <2>1, SizesTyped DEF VerdictInv
  <2>3. (\E p \in 1 .. period' - 1 : Repeats(pool, p))
          <=> (\E p \in 1 .. period - 1 : Repeats(pool, p)) \/ Repeats(pool, period)
    BY <2>1, <2>2, SizesTyped
  <2>4. unhealthy' \in BOOLEAN
    BY <2>1 DEF Repeats
  <2>5. \A p : Repeats(pool, p)' <=> Repeats(pool, p)
    BY <2>1 DEF Repeats
  <2> QED BY <2>1, <2>2, <2>3, <2>4, <2>5 DEF VerdictInv
<1>8. CASE Assemble
  BY <1>8 DEF Assemble, VerdictInv, Repeats, RunTo, FrequentTo, Occurrences, EndsRun
<1>9. CASE WipeCounts
  <2>1. /\ result = "running" /\ ~(i < Full)
        /\ UNCHANGED <<pool, i, run, period, unhealthy, result, returned>>
    BY <1>9, SizesTyped DEF WipeCounts, Tested, OutInv, Progress
  <2>2. \A p : Repeats(pool, p)' <=> Repeats(pool, p)
    BY <2>1 DEF Repeats
  <2> QED BY <2>1, <2>2 DEF VerdictInv
<1>5. CASE RejectSample \/ HashSample
  <2>1. /\ unhealthy \/ period = PeriodLimit + 1
        /\ UNCHANGED <<pool, i, counts, run, period, unhealthy, returned>>
        /\ result' = IF unhealthy THEN "failed" ELSE "ok"
    BY <1>5, SizesTyped
       DEF RejectSample, HashSample, Tested, LookingForCycle, LastPeriod, VerdictInv
  <2>2. \A p : Repeats(pool, p)' <=> Repeats(pool, p)
    BY <2>1 DEF Repeats
  <2> QED BY <2>1, <2>2 DEF VerdictInv
<1>6. CASE Return
  BY <1>6 DEF Return, VerdictInv
<1>7. CASE UNCHANGED vars
  BY <1>7 DEF VerdictInv, Repeats, RunTo, FrequentTo, Occurrences, EndsRun
<1> QED BY <1>1, <1>2, <1>3, <1>4, <1>5, <1>6, <1>7, <1>8, <1>9 DEF Next

\* A whole sample repeats its first p bytes exactly when each byte is the one p
\* places before it.
LEMMA RepeatsIsCycle ==
  ASSUME NEW s \in Seq(Byte), Len(s) = Full, NEW p \in 1 .. PeriodLimit
  PROVE  Repeats(s, p) <=> \A n \in 1 .. Len(s) - p : s[n + p] = s[n]
<1>1. p \in Nat /\ p >= 1 /\ Full \in Nat
  BY SizesTyped
<1>2. ASSUME Repeats(s, p), NEW n \in 1 .. Full - p
      PROVE  s[n + p] = s[n]
  <2>1. s[n + p] = s[((n + p - 1) % p) + 1]
    BY <1>1, <1>2 DEF Repeats
  <2>2. (n + p - 1) % p = (n - 1) % p
    <3> DEFINE q == (n - 1) \div p
               r == (n - 1) % p
    <3>1. q \in Nat /\ r \in 0 .. p - 1 /\ n - 1 = p * q + r
      BY <1>1
    <3>2. n + p - 1 = p * (q + 1) + r
      <4> HIDE DEF q, r
      <4> QED BY <1>1, <3>1
    <3>3. (p * (q + 1) + r) % p = r
      <4> HIDE DEF q, r
      <4> QED BY <1>1, <3>1, RestOfMultiple
    <3> QED BY <3>2, <3>3
  <2>3. CASE n <= p
    <3>1. (n - 1) % p = n - 1
      BY <1>1, <2>3
    <3> QED BY <2>1, <2>2, <3>1
  <2>4. CASE n > p
    <3>1. s[n] = s[((n - 1) % p) + 1]
      BY <1>1, <1>2, <2>4 DEF Repeats
    <3> QED BY <2>1, <2>2, <3>1
  <2> QED BY <2>3, <2>4, <1>1
<1>3. ASSUME \A n \in 1 .. Full - p : s[n + p] = s[n]
      PROVE  Repeats(s, p)
  <2> DEFINE S == {q \in Nat : \A r \in 1 .. p : q * p + r <= Full => s[q * p + r] = s[r]}
  <2>1. 0 \in S
    BY <1>1
  <2>2. ASSUME NEW q \in Nat, q \in S
        PROVE  q + 1 \in S
    <3> SUFFICES ASSUME NEW r \in 1 .. p, (q + 1) * p + r <= Full
                 PROVE  s[(q + 1) * p + r] = s[r]
      OBVIOUS
    <3>1. q * p \in Nat /\ (q + 1) * p = q * p + p
      BY <1>1
    <3>2. s[q * p + r + p] = s[q * p + r]
      BY <1>1, <1>3, <3>1
    <3> QED BY <1>1, <2>2, <3>1, <3>2
  <2>3. \A q \in Nat : q \in S
    <3> HIDE DEF S
    <3> QED BY <2>1, <2>2, FromZero
  <2> SUFFICES ASSUME NEW n \in p + 1 .. Full
               PROVE  s[n] = s[((n - 1) % p) + 1]
    BY DEF Repeats
  <2> DEFINE q == (n - 1) \div p
             r == ((n - 1) % p) + 1
  <2>4. q \in Nat /\ r \in 1 .. p /\ n - 1 = p * q + (r - 1)
    BY <1>1
  <2>5. n = q * p + r
    <3> HIDE DEF q, r
    <3> QED BY <1>1, <2>4
  <2>6. s[q * p + r] = s[r]
    <3> HIDE DEF q, r
    <3> QED BY <2>3, <2>4, <2>5
  <2> QED BY <2>5, <2>6
<1> QED BY <1>2, <1>3

LEMMA VerdictFromInv == OutInv /\ VerdictInv => VerdictExact
<1> SUFFICES ASSUME OutInv, VerdictInv, result # "running", ~returned
             PROVE  result = "failed" <=> LongRun(pool) \/ FrequentByte(pool) \/ ShortCycle(pool)
  BY DEF VerdictExact
<1>1. i = Full /\ Len(pool) = Full /\ pool \in Seq(Byte)
  BY SizesTyped DEF OutInv, Progress, VerdictInv
<1>2. LongRun(pool) <=> RunTo(pool, i)
  BY <1>1 DEF LongRun, RunTo
<1>3. FrequentByte(pool) <=> FrequentTo(pool, i)
  BY <1>1 DEF FrequentByte, FrequentTo, Occurrences
<1>4. ShortCycle(pool) <=> \E p \in 1 .. PeriodLimit : Repeats(pool, p)
  BY <1>1, RepeatsIsCycle DEF ShortCycle
<1>5. \A p \in 1 .. period - 1 : p \in 1 .. PeriodLimit
  BY SizesTyped DEF VerdictInv
<1>6. period = PeriodLimit + 1 => period - 1 = PeriodLimit
  BY SizesTyped
<1> QED BY <1>1, <1>2, <1>3, <1>4, <1>5, <1>6 DEF VerdictInv

\* However the counters are reset and wherever the cycle search stops, the test
\* fails a sample exactly if it has one of the documented faults.
THEOREM Verdict == Spec => []VerdictExact
<1>1. Spec => []VerdictInv
  BY VerdictInvInit, VerdictInvStep, OutInvCorrect, CycleFreeCorrect, PTL DEF Spec
<1> QED BY <1>1, VerdictFromInv, OutInvCorrect, PTL

HIDE DEF vars
USE DEF NoSample, Goto, locals, wallet, file

-----------------------------------------------------------------------------
(* No local outlives the function.                                          *)

\* Each local is live between two statements only, a callee's buffer inside the
\* call only; the source is on and blocks, their copy and counts are held only
\* inside the call of the generator.
WipeInv ==
  /\ OutInv
  /\ pc # "hwrng" => pool = <<>> /\ buf = <<>> /\ counts = NoCounts /\ source = "off"
  /\ pc \notin {"reduce", "hash", "spell"} => work = None
  /\ pc \notin {"recheck", "hwrng"} => diceD = None
  /\ pc # "hwrng" => hwD = None
  /\ pc \notin {"fingerprint", "words", "spell", "seed", "address"} =>
       bytes = None /\ hash = None /\ seed = None

LEMMA WipeInit == BuildInit => WipeInv
BY DEF BuildInit, Init, WipeInv, OutInv, Progress, Outputs

\* The generator returns with its source off.
LEMMA SourceOffAfter ==
  OutInv /\ returned => pool = <<>> /\ buf = <<>> /\ counts = NoCounts /\ source = "off"
BY DEF OutInv, Progress, Outputs

LEMMA WipeStep == WipeInv /\ [BuildNext]_buildVars => WipeInv'
<1> SUFFICES ASSUME WipeInv, [BuildNext]_buildVars
             PROVE  WipeInv'
  OBVIOUS
<1>1. ASSUME UNCHANGED vars
      PROVE  OutInv' /\ UNCHANGED <<pool, buf, counts, source, NoCounts>>
  BY <1>1, OutInvStep DEF WipeInv, vars, NoCounts
<1>2. CASE \/ Enter \/ Blocked \/ Assessed \/ ExtractVN \/ AccumulateRaw \/ ExtractRaw
           \/ CopyDice \/ DigestDice \/ RadiosStillOff
  <2>1. UNCHANGED vars
    BY <1>2 DEF Enter, Blocked, Assessed, ExtractVN, AccumulateRaw, ExtractRaw, CopyDice,
       DigestDice, RadiosStillOff
  <2> QED BY <1>1, <1>2, <2>1 DEF WipeInv, Enter, Blocked, Assessed, ExtractVN, AccumulateRaw,
             ExtractRaw, CopyDice, DigestDice, RadiosStillOff
<1>3. CASE RadioError
  <2>1. UNCHANGED vars
    BY <1>3 DEF RadioError
  <2> QED BY <1>1, <1>3, <2>1 DEF WipeInv, RadioError, Fail, WipeDigests
<1>4. CASE Hwrng
  <2>1. OutInv'
    BY <1>4, OutInvStep DEF WipeInv, Hwrng
  <2> QED BY <1>4, <2>1 DEF WipeInv, Hwrng
<1>5. CASE HwrngFailed
  BY <1>1, <1>5, SourceOffAfter DEF WipeInv, HwrngFailed, Fail, WipeDigests
<1>6. CASE Combine
  BY <1>1, <1>6, SourceOffAfter DEF WipeInv, Combine, WipeDigests
<1>7. CASE MakeFingerprint \/ AlignBits \/ MakeWords \/ MakeSeed \/ MakeAddress \/ Finish
  <2>1. UNCHANGED vars
    BY <1>7 DEF MakeFingerprint, AlignBits, MakeWords, MakeSeed, MakeAddress, Finish
  <2> QED BY <1>1, <1>7, <2>1
          DEF WipeInv, MakeFingerprint, AlignBits, MakeWords, MakeSeed, MakeAddress, Finish, WipeSecrets
<1>8. CASE NotOpened \/ Opened \/ PrintLine \/ Flush
  <2>1. UNCHANGED vars
    BY <1>8 DEF NotOpened, Opened, PrintLine, Flush
  <2> QED BY <1>1, <1>8, <2>1 DEF WipeInv, NotOpened, Opened, PrintLine, Flush
<1>9. CASE PowerLoss
  BY <1>9 DEF WipeInv, PowerLoss, OutInv, Progress, Outputs, NoCounts
<1>10. CASE UNCHANGED buildVars
  <2>1. UNCHANGED vars
    BY <1>10 DEF buildVars
  <2>2. UNCHANGED <<pc, diceD, hwD, bytes, seed, hash, work>>
    BY <1>10 DEF buildVars
  <2> QED BY <1>1, <2>1, <2>2 DEF WipeInv
<1> QED BY <1>2, <1>3, <1>4, <1>5, <1>6, <1>7, <1>8, <1>9, <1>10 DEF BuildNext, BuildStep

LEMMA WipeCorrect == BuildSpec => []WipeInv
BY WipeInit, WipeStep, PTL DEF BuildSpec

\* Every exit of buildWallet and of the functions it calls up to the words, for
\* every outcome, leaves none of their locals with key material: neither entropy
\* and its digests, nor the callees' working buffers, nor the generator's blocks,
\* their copy and its counts; and the source is off.
THEOREM EveryExitWipes == BuildSpec => []LocalsWiped
<1>1. WipeInv => LocalsWiped
  BY DEF WipeInv, LocalsWiped, locals
<1> QED BY <1>1, WipeCorrect, PTL

-----------------------------------------------------------------------------
(* The health tests inside a build.                                         *)

\* A build calls the generator or leaves it alone; losing power resets it.
LEMMA BuildCallsGenerator == [BuildNext]_buildVars => [Next]_vars \/ Init'
<1> SUFFICES ASSUME [BuildNext]_buildVars
             PROVE  [Next]_vars \/ Init'
  OBVIOUS
<1>1. CASE Hwrng
  BY <1>1 DEF Hwrng
<1>2. CASE PowerLoss
  BY <1>2 DEF PowerLoss, Init, NoCounts
<1>3. CASE \/ Enter \/ RadioError \/ Blocked \/ Assessed \/ ExtractVN \/ AccumulateRaw
           \/ ExtractRaw \/ CopyDice \/ DigestDice \/ RadiosStillOff \/ HwrngFailed
           \/ Combine \/ MakeFingerprint \/ AlignBits \/ MakeWords
           \/ MakeSeed \/ MakeAddress \/ Finish \/ NotOpened \/ Opened \/ PrintLine \/ Flush
  BY <1>3 DEF Enter, RadioError, Blocked, Assessed, ExtractVN, AccumulateRaw, ExtractRaw,
     CopyDice, DigestDice, RadiosStillOff, HwrngFailed, Combine, MakeFingerprint, AlignBits, MakeWords, MakeSeed, MakeAddress, Finish,
     NotOpened, Opened, PrintLine, Flush
<1>4. CASE UNCHANGED buildVars
  BY <1>4 DEF buildVars
<1> QED BY <1>1, <1>2, <1>3, <1>4 DEF BuildNext, BuildStep

\* Also inside a build, whose power may fail in the middle of a test, the
\* verdict on the sample is the documented one.
THEOREM VerdictInBuild == BuildSpec => []VerdictExact
<1> DEFINE CallsInv == OutInv /\ CycleFree /\ VerdictInv
<1>1. Init => CallsInv
  <2>1. Init => OutInv /\ CycleFree
    BY DEF Init, OutInv, Progress, Outputs, CycleFree
  <2> QED BY <2>1, VerdictInvInit
<1>2. CallsInv /\ [Next]_vars => CallsInv'
  BY OutInvStep, CycleFreeStep, VerdictInvStep
<1>3. BuildInit => Init
  BY DEF BuildInit
<1>4. BuildSpec => []CallsInv
  BY <1>1, <1>2, <1>3, BuildCallsGenerator, PTL DEF BuildSpec
<1> QED BY <1>4, VerdictFromInv, PTL

-----------------------------------------------------------------------------
(* What the call of the generator hands over.                               *)

SampleOf(d) == [n \in 1 .. SampleSize |-> 1 + (d[n] % Faces)]

\* The sample printed is the one of the digest returned.
GenInv ==
  /\ pool \in Seq(Byte) /\ digest \in Seq(Byte)
  /\ result = "ok" /\ ~returned => digest = pool
  /\ sampleOut = IF returned /\ result = "ok" THEN SampleOf(digest) ELSE <<>>

LEMMA GenInit == Init => GenInv
BY DEF Init, GenInv

LEMMA GenStep == OutInv /\ GenInv /\ [Next]_vars => GenInv'
<1> SUFFICES ASSUME OutInv, GenInv, [Next]_vars
             PROVE  GenInv'
  OBVIOUS
<1>1. CASE Enable
  BY <1>1 DEF Enable, GenInv, SampleOf
<1>2. CASE FillBlock
  <2>1. PICK block \in [1 .. BlockSize -> Byte] : pool' = pool \o block
    BY <1>2 DEF FillBlock
  <2>2. block \in Seq(Byte)
    BY SizesTyped
  <2>3. result # "ok" /\ UNCHANGED <<digest, result, returned, sampleOut>>
    BY <1>2 DEF FillBlock, OutInv, Progress
  <2> QED BY <2>1, <2>2, <2>3 DEF GenInv
<1>3. CASE Assemble \/ ScanByte \/ TryPeriod \/ WipeCounts
  BY <1>3 DEF Assemble, ScanByte, TryPeriod, WipeCounts, GenInv, SampleOf
<1>4. CASE RejectSample \/ HashSample
  <2>1. ~returned /\ result = "running" /\ i = Full /\ i > 0
    BY <1>4, SizesTyped DEF RejectSample, HashSample, Tested, OutInv, Progress, Outputs
  <2>2. buf = pool
    BY <2>1 DEF OutInv, Progress
  <2>3. UNCHANGED <<pool, sampleOut, returned>>
    BY <1>4 DEF RejectSample, HashSample
  <2>4. CASE RejectSample
    <3>1. digest' = <<>> /\ result' = "failed"
      BY <2>4 DEF RejectSample
    <3> QED BY <2>1, <2>3, <3>1 DEF GenInv
  <2>5. CASE HashSample
    <3>1. digest' = pool /\ result' = "ok"
      BY <2>2, <2>5 DEF HashSample
    <3> QED BY <2>1, <2>3, <3>1 DEF GenInv
  <2> QED BY <1>4, <2>4, <2>5
<1>5. CASE Return
  <2>1. /\ ~returned /\ returned' /\ pool' = <<>> /\ UNCHANGED <<digest, result>>
        /\ sampleOut' = IF result = "ok" THEN SampleOf(pool) ELSE <<>>
    BY <1>5 DEF Return, SampleOut, SampleOf
  <2>2. result = "ok" => SampleOf(pool) = SampleOf(digest)
    BY <2>1 DEF GenInv
  <2>3. SampleOf(digest)' = SampleOf(digest)
    BY <2>1 DEF SampleOf
  <2> QED BY <2>1, <2>2, <2>3 DEF GenInv
<1>6. CASE UNCHANGED vars
  BY <1>6 DEF GenInv, SampleOf, vars
<1> QED BY <1>1, <1>2, <1>3, <1>4, <1>5, <1>6 DEF Next

LEMMA GenUnchanged == GenInv /\ UNCHANGED vars => GenInv'
BY DEF GenInv, SampleOf, vars

\* A digest is no wiped buffer and no wallet of an earlier build.
LEMMA DigestIsFresh ==
  ASSUME OutInv, GenInv, result = "ok"
  PROVE  digest \notin {None, OldEntropy}
<1>1. digest \in Seq(Byte) /\ Len(digest) = Blocks * BlockSize
  BY DEF OutInv, Outputs, GenInv, Full
<1>2. digest \in [1 .. Blocks * BlockSize -> Byte]
  BY <1>1
<1> QED BY <1>2, BuildAssumption

-----------------------------------------------------------------------------
(* The wallet at each statement.                                            *)

Early ==
  {"enter", "assess", "extract", "reduce", "digest", "hash", "recheck", "hwrng", "fingerprint"}

OldWords ==
  /\ mnemonic = before.mnemonic /\ address = before.address
  /\ backupVerified = before.backupVerified

\* Entropy of this build: of the dice, or in hybrid mode the digest the
\* generator returned.
OfThisBuild(w) ==
  /\ w \notin {None, OldEntropy}
  /\ hybrid => returned /\ result = "ok" /\ w = digest
  /\ ~hybrid => w = DiceEntropy

NoGenerator == ~returned /\ result = "running"

Refused ==
  /\ ~hasHash /\ sampleOut = <<>> /\ report = before.report
  /\ entropyHex = before.entropyHex /\ OldWords

BlockedEnd == ~hasHash /\ sampleOut = <<>> /\ entropyHex = None /\ OldWords

Built ==
  /\ hasHash /\ ~backupVerified
  /\ OfThisBuild(mnemonic) /\ entropyHex = mnemonic /\ address = mnemonic

\* The sample on show is the generator's, and only a hybrid build calls it.
CallInv ==
  /\ pc # "enter" => hwSample = sampleOut
  /\ pc = "hwrng" /\ returned /\ result = "ok" => hwD = digest
  /\ pc \in {"enter", "assess", "extract", "reduce", "digest", "hash", "recheck"} => NoGenerator
  /\ ~hybrid => NoGenerator
  /\ pc \in {"digest", "hash", "recheck", "hwrng"} => hybrid
  /\ pc \in {"extract", "reduce"} => ~hybrid

\* The words change between two statements only, and from the words on every
\* result is of the same entropy.
WordsInv ==
  /\ pc \in Early => entropyHex = before.entropyHex
  /\ pc \in Early \cup {"words", "spell"} => OldWords
  /\ pc = "reduce" => work = DiceEntropy
  /\ pc \in {"fingerprint", "words", "spell"} => OfThisBuild(bytes)
  /\ pc \in {"words", "spell"} => entropyHex = bytes
  /\ pc = "spell" => work = bytes
  /\ pc \in {"seed", "address", "reset"} => OfThisBuild(mnemonic) /\ entropyHex = mnemonic
  /\ pc = "address" => seed = mnemonic
  /\ pc = "reset" => address = mnemonic
  /\ pc \in {"report", "print"} => Built \/ BlockedEnd
  /\ pc = "done" => Refused \/ Built \/ BlockedEnd
  /\ pc \notin {"print", "done", "off"} => report = before.report

BuildInv == WipeInv /\ GenInv /\ CallInv /\ WordsInv

LEMMA BuildInvInit == BuildInit => BuildInv
<1> SUFFICES ASSUME BuildInit
             PROVE  BuildInv
  OBVIOUS
<1>1. Init /\ pc = "enter" /\ result = "running" /\ ~returned
  BY DEF BuildInit, Init
<1>2. CallInv
  BY <1>1 DEF CallInv, NoGenerator
<1>3. WordsInv
  BY DEF BuildInit, WordsInv, OldWords, Wallet, Early
<1> QED BY <1>1, <1>2, <1>3, WipeInit, GenInit DEF BuildInv

\* Without a call of the generator there is no sample.
LEMMA NoSampleWithout == GenInv /\ NoGenerator => sampleOut = <<>>
BY DEF GenInv, NoGenerator

\* The step that returns changes neither verdict nor digest.
LEMMA ReturnKeeps == OutInv /\ Next /\ returned' => UNCHANGED <<result, digest>>
<1> SUFFICES ASSUME OutInv, Next, returned'
             PROVE  UNCHANGED <<result, digest>>
  OBVIOUS
<1>1. CASE Return
  BY <1>1 DEF Return
<1>2. CASE Enable \/ FillBlock \/ Assemble \/ ScanByte \/ TryPeriod \/ WipeCounts
  BY <1>2 DEF Enable, FillBlock, Assemble, ScanByte, TryPeriod, WipeCounts
<1>3. CASE RejectSample \/ HashSample
  BY <1>3 DEF RejectSample, HashSample, Tested, OutInv, Progress, Outputs
<1> QED BY <1>1, <1>2, <1>3 DEF Next

LEMMA CallStep == BuildInv /\ [BuildNext]_buildVars => CallInv'
<1> SUFFICES ASSUME BuildInv, [BuildNext]_buildVars
             PROVE  CallInv'
  OBVIOUS
<1>1. CallInv
  BY DEF BuildInv
<1>2. ASSUME UNCHANGED vars
      PROVE  NoGenerator' = NoGenerator /\ UNCHANGED <<returned, result, digest, sampleOut>>
  BY <1>2 DEF NoGenerator, vars
<1>3. CASE Enter
  <2>1. UNCHANGED vars /\ sampleOut = <<>>
    BY <1>1, <1>3, NoSampleWithout DEF Enter, CallInv, BuildInv
  <2> QED BY <1>1, <1>2, <1>3, <2>1 DEF Enter, ClearSample, CallInv
<1>4. CASE \/ Blocked \/ Assessed \/ ExtractVN \/ AccumulateRaw \/ ExtractRaw
           \/ CopyDice \/ DigestDice \/ RadiosStillOff
  <2>1. UNCHANGED vars
    BY <1>4 DEF Blocked, Assessed, ExtractVN, AccumulateRaw, ExtractRaw, CopyDice, DigestDice,
       RadiosStillOff
  <2> QED BY <1>1, <1>2, <1>4, <2>1
          DEF Blocked, Assessed, ExtractVN, AccumulateRaw, ExtractRaw, CopyDice, DigestDice,
              RadiosStillOff, CallInv, NoGenerator
<1>5. CASE RadioError
  <2>1. UNCHANGED vars
    BY <1>5 DEF RadioError
  <2>2. pc = "enter" => sampleOut = <<>>
    BY <1>1, NoSampleWithout DEF CallInv, BuildInv
  <2> QED BY <1>1, <1>2, <1>5, <2>1, <2>2 DEF RadioError, Fail, ClearSample, CallInv
<1>6. CASE Hwrng
  <2>1. returned' => UNCHANGED <<result, digest>>
    BY <1>6, ReturnKeeps DEF Hwrng, BuildInv, WipeInv
  <2> QED BY <1>1, <1>6, <2>1 DEF Hwrng, CallInv
<1>7. CASE HwrngFailed \/ Combine
  <2>1. UNCHANGED vars
    BY <1>7 DEF HwrngFailed, Combine
  <2> QED BY <1>1, <1>2, <1>7, <2>1 DEF HwrngFailed, Fail, Combine, CallInv
<1>8. CASE MakeFingerprint \/ AlignBits \/ MakeWords \/ MakeSeed \/ MakeAddress \/ Finish
  <2>1. UNCHANGED vars
    BY <1>8 DEF MakeFingerprint, AlignBits, MakeWords, MakeSeed, MakeAddress, Finish
  <2> QED BY <1>1, <1>2, <1>8, <2>1
          DEF MakeFingerprint, AlignBits, MakeWords, MakeSeed, MakeAddress, Finish, CallInv
<1>9. CASE NotOpened \/ Opened \/ PrintLine \/ Flush
  <2>1. UNCHANGED vars
    BY <1>9 DEF NotOpened, Opened, PrintLine, Flush
  <2> QED BY <1>1, <1>2, <1>9, <2>1 DEF NotOpened, Opened, PrintLine, Flush, CallInv
<1>10. CASE PowerLoss
  BY <1>10 DEF PowerLoss, CallInv, NoGenerator
<1>11. CASE UNCHANGED buildVars
  <2>1. UNCHANGED vars /\ UNCHANGED <<pc, hybrid, hwSample, hwD>>
    BY <1>11 DEF buildVars
  <2> QED BY <1>1, <1>2, <2>1 DEF CallInv
<1> QED BY <1>3, <1>4, <1>5, <1>6, <1>7, <1>8, <1>9, <1>10, <1>11 DEF BuildNext, BuildStep

LEMMA WordsStep == BuildInv /\ [BuildNext]_buildVars => WordsInv'
<1> SUFFICES ASSUME BuildInv, [BuildNext]_buildVars
             PROVE  WordsInv'
  OBVIOUS
<1>1. WipeInv /\ GenInv /\ CallInv /\ WordsInv
  BY DEF BuildInv
<1>2. NoGenerator => sampleOut = <<>>
  BY <1>1, NoSampleWithout
<1>3. ASSUME UNCHANGED vars, UNCHANGED <<hybrid, before>>
      PROVE  /\ UNCHANGED <<returned, result, digest, sampleOut>>
             /\ \A w : OfThisBuild(w) => (w \notin {None, OldEntropy}
                         /\ (hybrid' => returned' /\ result' = "ok" /\ w = digest')
                         /\ (~hybrid' => w = DiceEntropy))
  BY <1>3 DEF OfThisBuild, vars
<1>4. CASE Enter \/ Assessed \/ AccumulateRaw \/ CopyDice \/ DigestDice \/ RadiosStillOff
  <2>1. UNCHANGED vars /\ UNCHANGED <<hybrid, wallet, before, report>>
    BY <1>4 DEF Enter, Assessed, AccumulateRaw, CopyDice, DigestDice, RadiosStillOff
  <2>2. pc \in Early /\ pc' \in Early \ {"fingerprint"}
    BY <1>4 DEF Enter, Assessed, AccumulateRaw, CopyDice, DigestDice, RadiosStillOff, Early
  <2>3. pc' \notin {"fingerprint", "words", "spell", "seed", "address", "reset", "report",
                   "print", "done"}
    BY <2>2 DEF Early
  <2>4. pc' = "reduce" => work' = DiceEntropy
    BY <1>4 DEF Enter, Assessed, AccumulateRaw, CopyDice, DigestDice, RadiosStillOff
  <2> QED BY <1>1, <2>1, <2>2, <2>3, <2>4 DEF WordsInv, OldWords, Early
<1>5. CASE Blocked
  <2>1. sampleOut = <<>> /\ OldWords /\ report = before.report
    BY <1>1, <1>2, <1>5 DEF Blocked, CallInv, WordsInv, Early
  <2>2. UNCHANGED vars /\ UNCHANGED <<mnemonic, address, backupVerified, before, report>>
    BY <1>5 DEF Blocked
  <2>3. BlockedEnd'
    BY <1>5, <2>1, <2>2 DEF Blocked, BlockedEnd, OldWords, vars
  <2> QED BY <1>5, <2>1, <2>2, <2>3 DEF Blocked, WordsInv, Early
<1>6. CASE ExtractVN \/ ExtractRaw
  <2>1. UNCHANGED vars /\ UNCHANGED <<hybrid, wallet, before, report>> /\ ~hybrid
    BY <1>1, <1>6 DEF ExtractVN, ExtractRaw, CallInv
  <2>2. pc \in Early /\ pc' = "fingerprint" /\ bytes' = DiceEntropy
    BY <1>1, <1>6 DEF ExtractVN, ExtractRaw, Early, WordsInv
  <2>3. OfThisBuild(bytes)'
    BY <2>1, <2>2, BuildAssumption DEF OfThisBuild
  <2> QED BY <1>1, <2>1, <2>2, <2>3 DEF WordsInv, OldWords, Early
<1>7. CASE RadioError \/ HwrngFailed
  <2>1. pc \in Early /\ pc' = "done" /\ UNCHANGED vars
    BY <1>7 DEF RadioError, HwrngFailed, Fail, Early
  <2>2. ~hasHash' /\ UNCHANGED <<entropyHex, mnemonic, address, backupVerified, report, before>>
    BY <1>7 DEF RadioError, HwrngFailed, Fail
  <2>3. sampleOut = <<>>
    BY <1>1, <1>2, <1>7 DEF RadioError, HwrngFailed, Fail, CallInv, GenInv
  <2>4. pc \notin {"print", "done", "off"}
    BY <2>1 DEF Early
  <2>5. Refused'
    BY <1>1, <2>1, <2>2, <2>3, <2>4 DEF Refused, WordsInv, OldWords, vars
  <2> QED BY <2>1, <2>5 DEF WordsInv, Early
<1>8. CASE Hwrng
  BY <1>1, <1>8 DEF Hwrng, WordsInv, OldWords, Early
<1>9. CASE Combine
  <2>1. UNCHANGED vars /\ UNCHANGED <<hybrid, wallet, before, report>>
    BY <1>9 DEF Combine
  <2>2. pc = "hwrng" /\ pc' = "fingerprint" /\ bytes' = hwD /\ returned /\ result = "ok"
    BY <1>9 DEF Combine
  <2>3. hybrid /\ hwD = digest /\ digest \notin {None, OldEntropy}
    BY <1>1, <2>2, DigestIsFresh DEF CallInv, WipeInv
  <2>4. OfThisBuild(bytes)'
    BY <2>1, <2>2, <2>3 DEF OfThisBuild, vars
  <2> QED BY <1>1, <2>1, <2>2, <2>4 DEF WordsInv, OldWords, Early
<1>10. CASE MakeFingerprint
  <2>1. UNCHANGED vars
        /\ UNCHANGED <<hybrid, mnemonic, address, backupVerified, before, report, bytes>>
    BY <1>10 DEF MakeFingerprint
  <2>2. pc = "fingerprint" /\ pc' = "words" /\ entropyHex' = bytes
    BY <1>10 DEF MakeFingerprint
  <2>3. OfThisBuild(bytes)'
    BY <1>1, <1>3, <2>1, <2>2 DEF WordsInv, OfThisBuild
  <2> QED BY <1>1, <2>1, <2>2, <2>3 DEF WordsInv, OldWords, Early
<1>17. CASE AlignBits
  <2>1. UNCHANGED vars /\ UNCHANGED <<hybrid, wallet, before, report, bytes>>
    BY <1>17 DEF AlignBits
  <2>2. pc = "words" /\ pc' = "spell" /\ work' = bytes
    BY <1>17 DEF AlignBits
  <2>3. OfThisBuild(bytes)'
    BY <1>1, <1>3, <2>1, <2>2 DEF WordsInv, OfThisBuild
  <2> QED BY <1>1, <2>1, <2>2, <2>3 DEF WordsInv, OldWords, Early
<1>11. CASE MakeWords
  <2>1. UNCHANGED vars /\ UNCHANGED <<hybrid, entropyHex, before, report>>
    BY <1>11 DEF MakeWords
  <2>2. pc = "spell" /\ pc' = "seed" /\ mnemonic' = bytes
    BY <1>1, <1>11 DEF MakeWords, WordsInv
  <2>3. OfThisBuild(mnemonic)'
    BY <1>1, <1>3, <2>1, <2>2 DEF WordsInv, OfThisBuild
  <2> QED BY <1>1, <2>1, <2>2, <2>3 DEF WordsInv, Early
<1>12. CASE MakeSeed \/ MakeAddress
  <2>1. UNCHANGED vars /\ UNCHANGED <<hybrid, entropyHex, mnemonic, before, report>>
    BY <1>12 DEF MakeSeed, MakeAddress
  <2>2. pc \in {"seed", "address"}
    BY <1>12 DEF MakeSeed, MakeAddress
  <2>3. OfThisBuild(mnemonic)'
    BY <1>1, <1>3, <2>1, <2>2 DEF WordsInv, OfThisBuild
  <2>4. \/ pc' = "address" /\ seed' = mnemonic
        \/ pc' = "reset" /\ address' = mnemonic
    BY <1>1, <1>12 DEF MakeSeed, MakeAddress, WordsInv
  <2> QED BY <1>1, <2>1, <2>2, <2>3, <2>4 DEF WordsInv, Early
<1>13. CASE Finish
  <2>1. UNCHANGED vars /\ UNCHANGED <<hybrid, entropyHex, mnemonic, address, before, report>>
    BY <1>13 DEF Finish
  <2>2. pc = "reset" /\ pc' = "report" /\ hasHash' /\ ~backupVerified'
    BY <1>13 DEF Finish, ResetVerdict
  <2>3. OfThisBuild(mnemonic)'
    BY <1>1, <1>3, <2>1, <2>2 DEF WordsInv, OfThisBuild
  <2>4. Built'
    BY <1>1, <2>1, <2>2, <2>3 DEF Built, WordsInv
  <2> QED BY <1>1, <2>1, <2>2, <2>4 DEF WordsInv, Early
<1>14. CASE NotOpened \/ Opened \/ PrintLine \/ Flush
  <2>1. UNCHANGED vars /\ UNCHANGED <<hybrid, wallet, before>>
    BY <1>14 DEF NotOpened, Opened, PrintLine, Flush
  <2>2. pc \in {"report", "print"} /\ pc' \in {"print", "done"}
    BY <1>14 DEF NotOpened, Opened, PrintLine, Flush
  <2>3. Built \/ BlockedEnd
    BY <1>1, <2>2 DEF WordsInv
  <2>4. (Built \/ BlockedEnd)'
    BY <1>3, <2>1, <2>3 DEF Built, BlockedEnd, OfThisBuild, OldWords
  <2> QED BY <2>2, <2>4 DEF WordsInv, Early
<1>15. CASE PowerLoss
  BY <1>15 DEF PowerLoss, WordsInv, Early
<1>16. CASE UNCHANGED buildVars
  <2>1. UNCHANGED vars
        /\ UNCHANGED <<pc, hybrid, wallet, bytes, seed, work, report, before>>
    BY <1>16 DEF buildVars
  <2>2. (OfThisBuild(bytes) => OfThisBuild(bytes)')
        /\ (OfThisBuild(mnemonic) => OfThisBuild(mnemonic)')
    BY <1>3, <2>1 DEF OfThisBuild
  <2>3. /\ Built => Built'
        /\ BlockedEnd => BlockedEnd'
        /\ Refused => Refused'
        /\ OldWords => OldWords'
    BY <1>3, <2>1, <2>2 DEF Built, BlockedEnd, Refused, OldWords
  <2> QED BY <1>1, <2>1, <2>2, <2>3 DEF WordsInv, Early
<1> QED BY <1>4, <1>5, <1>6, <1>7, <1>8, <1>9, <1>10, <1>11, <1>12, <1>13, <1>14, <1>15, <1>16, <1>17
    DEF BuildNext, BuildStep

LEMMA BuildInvStep == BuildInv /\ [BuildNext]_buildVars => BuildInv'
<1> SUFFICES ASSUME BuildInv, [BuildNext]_buildVars
             PROVE  BuildInv'
  OBVIOUS
<1>1. WipeInv /\ GenInv /\ OutInv
  BY DEF BuildInv, WipeInv
<1>2. WipeInv' /\ CallInv' /\ WordsInv'
  BY <1>1, WipeStep, CallStep, WordsStep
<1>3. GenInv'
  <2>1. CASE Hwrng
    BY <1>1, <2>1, GenStep DEF Hwrng
  <2>2. CASE PowerLoss
    <3>1. pool' = <<>> /\ digest' = <<>> /\ result' = "running" /\ ~returned' /\ sampleOut' = <<>>
      BY <2>2 DEF PowerLoss
    <3> QED BY <3>1 DEF GenInv
  <2>3. CASE ~Hwrng /\ ~PowerLoss
    <3>1. UNCHANGED vars
      BY <2>3 DEF BuildNext, BuildStep, buildVars, Enter, RadioError, Blocked, Assessed, ExtractVN,
         AccumulateRaw, ExtractRaw, CopyDice, DigestDice, RadiosStillOff, HwrngFailed, Combine,
         MakeFingerprint, AlignBits, MakeWords, MakeSeed,
         MakeAddress, Finish, NotOpened, Opened, PrintLine, Flush
    <3> QED BY <1>1, <3>1, GenUnchanged
  <2> QED BY <2>1, <2>2, <2>3
<1> QED BY <1>2, <1>3 DEF BuildInv

-----------------------------------------------------------------------------
(* What is on the card.                                                     *)

Lines == {Line(n) : n \in 1 .. 5}

\* A record that prints a sample has beside it the fingerprint it belongs to.
Beside(r) == Len(r) >= 3 /\ r[2] # <<>> => r[3] # None /\ r[2] = SampleOf(r[3])

CardInv ==
  /\ pc \notin {"print", "done"} => pending = <<>>
  /\ pending \in Seq(Lines)
  /\ Len(pending) >= 2 => pending[2] = Line(2)
  /\ Len(pending) >= 3 => pending[3] = Line(3)
  /\ Len(pending) >= 4 => pending[4] = Line(4)
  /\ report = before.report \/ Beside(report)

LEMMA LineNumbers ==
  Sanity = 1 /\ Sample = 2 /\ Fingerprint = 3 /\ Address = 4 /\ Verified = 5
BY DEF Sanity, Sample, Fingerprint, Address, Verified

LEMMA LinesPrinted ==
  /\ Line(2) = IF hybrid THEN hwSample ELSE <<>>
  /\ Line(3) = entropyHex
  /\ Line(4) = IF backupVerified THEN address ELSE None
BY LineNumbers DEF Line, AddressLine

\* Whatever part of the printed lines gets to the card.
LEMMA TornBeside ==
  ASSUME BuildInv, CardInv, pc \in {"print", "done"}
  PROVE  /\ Beside(pending)
         /\ \A r \in Torn : r = report \/ Beside(r)
<1>1. ASSUME Len(pending) >= 3, pending[2] # <<>>
      PROVE  pending[3] # None /\ pending[2] = SampleOf(pending[3])
  <2>1. hybrid /\ pending[2] = sampleOut /\ sampleOut # <<>> /\ pending[3] = entropyHex
    BY <1>1, LinesPrinted DEF CardInv, BuildInv, CallInv
  <2>2. sampleOut = SampleOf(digest)
    BY <2>1 DEF BuildInv, GenInv
  <2>3. Built
    BY <2>1 DEF BuildInv, WordsInv, Refused, BlockedEnd
  <2> QED BY <2>1, <2>2, <2>3 DEF Built, OfThisBuild
<1>2. ASSUME NEW n \in 1 .. Len(pending)
      PROVE  Beside(SubSeq(pending, 1, n))
  <2>1. /\ Len(SubSeq(pending, 1, n)) = n /\ n \in Nat /\ n <= Len(pending)
        /\ \A k \in 1 .. n : SubSeq(pending, 1, n)[k] = pending[k]
    BY DEF CardInv
  <2> QED BY <1>1, <2>1 DEF Beside
<1> QED BY <1>1, <1>2 DEF Beside, Torn

LEMMA CardInit == BuildInit => CardInv
<1> SUFFICES ASSUME BuildInit
             PROVE  CardInv
  OBVIOUS
<1>1. pc = "enter" /\ pending = <<>> /\ report = before.report
  BY DEF BuildInit, Wallet
<1> QED BY <1>1 DEF CardInv

LEMMA CardStep == BuildInv /\ CardInv /\ [BuildNext]_buildVars => CardInv'
<1> SUFFICES ASSUME BuildInv, CardInv, [BuildNext]_buildVars
             PROVE  CardInv'
  OBVIOUS
<1>1. ASSUME pending' = <<>>, report' = before'.report \/ Beside(report)'
      PROVE  CardInv'
  BY <1>1 DEF CardInv
<1>2. ASSUME UNCHANGED <<report, before>>
      PROVE  report' = before'.report \/ Beside(report)'
  BY <1>2 DEF CardInv, Beside, SampleOf
<1>3. CASE \/ Enter \/ RadioError \/ Blocked \/ Assessed \/ ExtractVN \/ AccumulateRaw
           \/ ExtractRaw \/ CopyDice \/ DigestDice \/ RadiosStillOff \/ Hwrng \/ HwrngFailed
           \/ Combine \/ MakeFingerprint \/ AlignBits \/ MakeWords \/ MakeSeed \/ MakeAddress
           \/ Finish
  <2>1. pending = <<>> /\ UNCHANGED <<pending, report, before>>
    BY <1>3 DEF CardInv, Enter, RadioError, Fail, Blocked, Assessed, ExtractVN,
       AccumulateRaw, ExtractRaw, CopyDice, DigestDice, RadiosStillOff, Hwrng, HwrngFailed, Combine,
       MakeFingerprint, AlignBits, MakeWords, MakeSeed, MakeAddress, Finish
  <2> QED BY <1>1, <1>2, <2>1
<1>4. ASSUME UNCHANGED <<hybrid, wallet, hwSample>>
      PROVE  Lines' = Lines /\ Line(2)' = Line(2) /\ Line(3)' = Line(3) /\ Line(4)' = Line(4)
  BY <1>4 DEF Lines, Line, AddressLine
<1>5. CASE NotOpened \/ Opened
  <2>1. pending = <<>> /\ UNCHANGED <<pending, report, before>>
    BY <1>5 DEF CardInv, NotOpened, Opened
  <2> QED BY <1>1, <1>2, <2>1
<1>6. CASE PrintLine
  <2>1. /\ pc = "print" /\ pc' = pc /\ Len(pending) < 5
        /\ pending' = Append(pending, Line(Len(pending) + 1))
        /\ UNCHANGED <<hybrid, wallet, hwSample, report, before>>
    BY <1>6, LineNumbers DEF PrintLine
  <2>2. pending \in Seq(Lines) /\ Len(pending) \in Nat
    BY DEF CardInv
  <2>3. Line(Len(pending) + 1) \in Lines
    BY <2>1, <2>2 DEF Lines
  <2>4. /\ pending' \in Seq(Lines) /\ Len(pending') = Len(pending) + 1
        /\ pending'[Len(pending) + 1] = Line(Len(pending) + 1)
        /\ \A k \in 1 .. Len(pending) : pending'[k] = pending[k]
    BY <2>1, <2>2, <2>3
  <2>5. Len(pending') >= 2 => pending'[2] = Line(2)
    BY <2>2, <2>4 DEF CardInv
  <2>6. Len(pending') >= 3 => pending'[3] = Line(3)
    BY <2>2, <2>4 DEF CardInv
  <2>7. Len(pending') >= 4 => pending'[4] = Line(4)
    BY <2>2, <2>4 DEF CardInv
  <2>8. report' = before'.report \/ Beside(report)'
    BY <1>2, <2>1
  <2> QED BY <1>4, <2>1, <2>4, <2>5, <2>6, <2>7, <2>8 DEF CardInv
<1>7. CASE Flush
  <2>1. /\ pc = "print" /\ pc' = "done"
        /\ UNCHANGED <<hybrid, wallet, hwSample, pending, before>>
        /\ report' = pending \/ report' \in Torn
    BY <1>7 DEF Flush
  <2>2. report' = before.report \/ Beside(report')
    BY <2>1, TornBeside DEF CardInv
  <2>3. Beside(report') = Beside(report)'
    BY DEF Beside, SampleOf
  <2> QED BY <1>4, <2>1, <2>2, <2>3 DEF CardInv
<1>8. CASE PowerLoss
  <2>1. pending' = <<>> /\ report' \in Torn /\ UNCHANGED before
    BY <1>8 DEF PowerLoss
  <2>2. pc \notin {"print", "done"} => Torn = {report}
    BY DEF CardInv, Torn
  <2>3. report' = before.report \/ Beside(report')
    BY <2>1, <2>2, TornBeside DEF CardInv
  <2>4. Beside(report') = Beside(report)'
    BY DEF Beside, SampleOf
  <2> QED BY <1>1, <2>1, <2>3, <2>4
<1>9. CASE UNCHANGED buildVars
  <2>1. UNCHANGED <<hybrid, wallet, hwSample>> /\ UNCHANGED <<pc, pending, report, before>>
    BY <1>9 DEF buildVars
  <2> QED BY <1>2, <1>4, <2>1 DEF CardInv
<1> QED BY <1>3, <1>5, <1>6, <1>7, <1>8, <1>9 DEF BuildNext, BuildStep

LEMMA BuildInvCorrect == BuildSpec => [](BuildInv /\ CardInv)
<1>1. BuildInit => BuildInv /\ CardInv
  BY BuildInvInit, CardInit
<1>2. BuildInv /\ CardInv /\ [BuildNext]_buildVars => (BuildInv /\ CardInv)'
  BY BuildInvStep, CardStep
<1> QED BY <1>1, <1>2, PTL DEF BuildSpec

\* Whichever way a build ends the wallet is wholly old or wholly new, and no
\* record, torn or not, joins a sample with the fingerprint of another build.
THEOREM NothingMixed == BuildSpec => []NeverMixed
<1>3. BuildInv => BuildIsAtomic
  <2> SUFFICES ASSUME BuildInv, pc = "done"
               PROVE  \/ /\ ~hasHash /\ hwSample = NoSample /\ report = before.report
                         /\ <<entropyHex, mnemonic, address, backupVerified>> =
                              <<before.entropyHex, before.mnemonic, before.address, before.backupVerified>>
                      \/ /\ ~hasHash /\ hwSample = NoSample /\ entropyHex = None
                         /\ <<mnemonic, address, backupVerified>> =
                              <<before.mnemonic, before.address, before.backupVerified>>
                      \/ /\ hasHash /\ ~backupVerified
                         /\ mnemonic \notin {None, OldEntropy}
                         /\ entropyHex = mnemonic /\ address = mnemonic
                         /\ hwSample = IF hybrid THEN sampleOut ELSE NoSample
    BY DEF BuildIsAtomic
  <2>1. hwSample = sampleOut /\ (~hybrid => sampleOut = <<>>)
    BY NoSampleWithout DEF BuildInv, CallInv
  <2> QED BY <2>1 DEF BuildInv, WordsInv, Refused, Built, BlockedEnd, OfThisBuild, OldWords
<1>4. CardInv => SampleBesideItsFingerprint
  BY LineNumbers DEF CardInv, Beside, SampleOf, SampleBesideItsFingerprint
<1>5. BuildInv /\ CardInv => NeverMixed
  BY <1>3, <1>4 DEF NeverMixed
<1> QED BY <1>5, BuildInvCorrect, PTL

-----------------------------------------------------------------------------
(* The life of a wallet.                                                    *)

\* The old address was that of the old words.
OldInv == before.address = before.mnemonic /\ backupVerified \in BOOLEAN

LEMMA OldInvCorrect == BuildSpec => []OldInv
<1>1. BuildInit => OldInv
  <2> SUFFICES ASSUME BuildInit
               PROVE  OldInv
    OBVIOUS
  <2>1. before.address = before.mnemonic
    BY DEF BuildInit, Wallet
  <2>2. backupVerified \in BOOLEAN
    BY DEF BuildInit
  <2> QED BY <2>1, <2>2 DEF OldInv
<1>2. OldInv /\ [BuildNext]_buildVars => OldInv'
  <2> SUFFICES ASSUME OldInv, [BuildNext]_buildVars
               PROVE  OldInv'
    OBVIOUS
  <2>1. UNCHANGED before
    BY DEF BuildNext, BuildStep, buildVars, Enter, RadioError, Fail, Blocked, Assessed,
       ExtractVN, AccumulateRaw, ExtractRaw, CopyDice, DigestDice, RadiosStillOff, Hwrng,
       HwrngFailed, Combine, MakeFingerprint, AlignBits, MakeWords, MakeSeed, MakeAddress, Finish, NotOpened, Opened, PrintLine, Flush, PowerLoss
  <2>2. backupVerified' = backupVerified \/ backupVerified' = FALSE
    BY DEF BuildNext, BuildStep, buildVars, wallet, Enter, RadioError, Fail, Blocked, Assessed,
       ExtractVN, AccumulateRaw, ExtractRaw, CopyDice, DigestDice, RadiosStillOff, Hwrng,
       HwrngFailed, Combine, MakeFingerprint, AlignBits, MakeWords, MakeSeed, MakeAddress, Finish, ResetVerdict, NotOpened, Opened, PrintLine, Flush, PowerLoss
  <2> QED BY <2>1, <2>2 DEF OldInv
<1> QED BY <1>1, <1>2, PTL DEF BuildSpec

\* The wallet, verdict and record an observer of WalletLifecycle sees.
LifeWallet == IF Settled THEN mnemonic ELSE before.mnemonic
LifeVerdict ==
  IF Settled THEN backupVerified /\ mnemonic # None
  ELSE before.backupVerified /\ before.mnemonic # None
RecordIn(r) == IF r = <<>> THEN <<>> ELSE IF Len(r) >= Address THEN <<r[Address]>> ELSE <<None>>
MayStand == {RecordIn(report), <<None>>, <<IF LifeVerdict THEN LifeWallet ELSE None>>}

\* Whatever part of the printed lines gets to the card is a record of the wallet
\* in memory that has its address only if it is verified.
LEMMA TornRecord ==
  ASSUME BuildInv, CardInv, OldInv, NEW r,
         r \in Torn \/ (r = pending /\ Len(pending) = 5)
  PROVE  RecordIn(r) \in MayStand
<1>1. CASE r = report
  BY <1>1 DEF MayStand
<1>2. CASE r # report
  <2>1. pending \in Seq(Lines)
    BY DEF CardInv
  <2>2. PICK n \in 1 .. Len(pending) : r = SubSeq(pending, 1, n)
    <3>1. CASE r \in Torn
      BY <1>2, <3>1 DEF Torn
    <3>2. CASE r = pending /\ Len(pending) = 5
      <4>1. pending = SubSeq(pending, 1, 5) /\ 5 \in 1 .. Len(pending)
        BY <2>1, <3>2
      <4> QED BY <3>2, <4>1
    <3> QED BY <3>1, <3>2
  <2>3. /\ Len(r) = n /\ n \in Nat /\ n >= 1 /\ n <= Len(pending)
        /\ \A k \in 1 .. n : r[k] = pending[k]
    BY <2>1, <2>2
  <2>4. r # <<>>
    BY <2>3
  <2>5. CASE n < 4
    BY <2>3, <2>4, <2>5, LineNumbers DEF RecordIn, MayStand
  <2>6. CASE n >= 4
    <3>1. r[4] = IF backupVerified THEN address ELSE None
      BY <2>3, <2>6, LinesPrinted DEF CardInv
    <3>2. pc \in {"print", "done"}
      BY <2>3 DEF CardInv
    <3>3. Settled /\ (Built \/ BlockedEnd \/ Refused)
      BY <3>2 DEF Settled, BuildInv, WordsInv
    <3>4. backupVerified => address = mnemonic
      BY <3>3 DEF Built, BlockedEnd, Refused, OldWords, OldInv
    <3>5. RecordIn(r) = <<r[4]>>
      BY <2>3, <2>4, <2>6, LineNumbers DEF RecordIn
    <3> QED BY <3>1, <3>3, <3>4, <3>5 DEF LifeWallet, LifeVerdict, OldInv, MayStand
  <2> QED BY <2>3, <2>5, <2>6
<1> QED BY <1>1, <1>2

\* Every step of a build, and a power loss at any statement, is a step of the
\* abstract life or invisible in it.
LEMMA LifecycleStep ==
  BuildInv /\ CardInv /\ OldInv /\ [BuildNext]_buildVars
    => [Lifecycle!Next]_(Lifecycle!vars)
<1> SUFFICES ASSUME BuildInv, CardInv, OldInv, [BuildNext]_buildVars
             PROVE  [Lifecycle!Next]_(Lifecycle!vars)
  OBVIOUS
<1>1. ASSUME LifeWallet' = LifeWallet, LifeVerdict' = LifeVerdict, RecordIn(report)' = RecordIn(report)
      PROVE  UNCHANGED Lifecycle!vars
  BY <1>1 DEF LifeWallet, LifeVerdict, RecordIn, Lifecycle!vars
<1>2. RecordIn(report)' = RecordIn(report')
  BY DEF RecordIn
<1>3. CASE \/ Enter \/ RadioError \/ Blocked \/ Assessed \/ ExtractVN \/ AccumulateRaw
           \/ ExtractRaw \/ CopyDice \/ DigestDice \/ RadiosStillOff \/ Hwrng \/ HwrngFailed
           \/ Combine \/ MakeFingerprint \/ AlignBits \/ MakeWords \/ MakeSeed \/ MakeAddress
  <2>1. /\ ~Settled /\ UNCHANGED <<report, before>>
        /\ Settled' => pc \in Early /\ UNCHANGED <<mnemonic, backupVerified>>
    BY <1>3 DEF Settled, Early, Enter, RadioError, Fail, Blocked, Assessed, ExtractVN,
       AccumulateRaw, ExtractRaw, CopyDice, DigestDice, RadiosStillOff, Hwrng, HwrngFailed, Combine,
       MakeFingerprint, AlignBits, MakeWords, MakeSeed, MakeAddress
  <2>2. Settled' => LifeWallet' = before.mnemonic /\ LifeVerdict' = (before.backupVerified /\ before.mnemonic # None)
    BY <2>1 DEF LifeWallet, LifeVerdict, BuildInv, WordsInv, OldWords
  <2> QED BY <1>1, <1>2, <2>1, <2>2 DEF LifeWallet, LifeVerdict
<1>4. CASE Finish
  <2>1. /\ pc = "reset" /\ pc' = "report" /\ UNCHANGED <<mnemonic, report>>
        /\ backupVerified' = FALSE
    BY <1>4 DEF Finish, ResetVerdict
  <2>2. OfThisBuild(mnemonic)
    BY <2>1 DEF BuildInv, WordsInv
  <2>3. mnemonic \in {DiceEntropy} \cup [1 .. Full -> Byte]
    <3>1. CASE hybrid
      <4>1. digest \in Seq(Byte) /\ Len(digest) = Full /\ mnemonic = digest
        BY <2>2, <3>1 DEF OfThisBuild, BuildInv, WipeInv, OutInv, Outputs, GenInv
      <4> QED BY <4>1
    <3> QED BY <2>2, <3>1 DEF OfThisBuild
  <2>4. LifeWallet' = mnemonic /\ LifeVerdict' = FALSE /\ RecordIn(report)' = RecordIn(report)
    BY <1>2, <2>1 DEF LifeWallet, LifeVerdict, Settled
  <2>5. Lifecycle!Generate
    BY <2>2, <2>3, <2>4 DEF OfThisBuild, LifeWallet, LifeVerdict, RecordIn, Lifecycle!Generate,
       Lifecycle!MayRecord, Lifecycle!RecordOf
  <2> QED BY <2>5 DEF Lifecycle!Next
<1>5. CASE NotOpened \/ Opened \/ PrintLine
  <2>1. UNCHANGED <<mnemonic, backupVerified, report>> /\ Settled /\ Settled'
    BY <1>5 DEF NotOpened, Opened, PrintLine, Settled
  <2> QED BY <1>1, <1>2, <2>1 DEF LifeWallet, LifeVerdict
<1>6. CASE Flush
  <2>1. /\ UNCHANGED <<mnemonic, backupVerified>> /\ Settled /\ Settled'
        /\ pc = "print" /\ Len(pending) = 5 /\ (report' \in Torn \/ report' = pending)
    BY <1>6, LineNumbers DEF Flush, Settled
  <2>2. LifeWallet' = LifeWallet /\ LifeVerdict' = LifeVerdict
    BY <2>1 DEF LifeWallet, LifeVerdict
  <2>3. RecordIn(report') \in MayStand
    BY <2>1, TornRecord
  <2>4. Lifecycle!Refuse
    BY <1>2, <2>2, <2>3 DEF MayStand, LifeWallet, LifeVerdict, RecordIn, Lifecycle!Refuse,
       Lifecycle!MayRecord, Lifecycle!RecordOf
  <2> QED BY <2>4 DEF Lifecycle!Next
<1>7. CASE PowerLoss
  <2>1. /\ pc' = "off" /\ mnemonic' = None /\ backupVerified' = FALSE /\ report' \in Torn
    BY <1>7 DEF PowerLoss
  <2>2. LifeWallet' = None /\ LifeVerdict' = FALSE
    BY <2>1 DEF LifeWallet, LifeVerdict, Settled
  <2>3. RecordIn(report') \in MayStand
    BY <2>1, TornRecord
  <2>4. Lifecycle!PowerLoss
    BY <1>2, <2>2, <2>3 DEF MayStand, LifeWallet, LifeVerdict, RecordIn, Lifecycle!PowerLoss,
       Lifecycle!Forgotten, Lifecycle!RecordOf
  <2> QED BY <2>4 DEF Lifecycle!Next
<1>8. CASE UNCHANGED buildVars
  <2>1. UNCHANGED <<pc, mnemonic, backupVerified, report, before>>
    BY <1>8 DEF buildVars, wallet, file
  <2> QED BY <1>1, <1>2, <2>1 DEF LifeWallet, LifeVerdict, Settled
<1> QED BY <1>3, <1>4, <1>5, <1>6, <1>7, <1>8 DEF BuildNext, BuildStep

\* Interrupted at any statement, with any sample and any card, a build does to
\* wallet, verdict and record only what the appliance promises.
THEOREM BuildKeepsLifecycle == BuildSpec => KeepsLifecycle
<1> QED BY LifecycleStep, BuildInvCorrect, OldInvCorrect, PTL DEF BuildSpec, KeepsLifecycle
=============================================================================
