---------------------------- MODULE HwrngDigest ----------------------------
(***************************************************************************)
(* The hardware half of hybrid entropy: wc_platform_hwrng_digest of        *)
(* src/wc_platform_esp.cpp and the health tests it calls,                  *)
(* wc_hwrng_stream_finish of lib/wallet_core/wallet_core.cpp.  One step is *)
(* one block read from the generator, one iteration of a health test, one  *)
(* wipe, or the way out.  The null checks on the 16 pointers are left out: *)
(* the one caller passes blocks of its own stack.  SHA-256 and the domain  *)
(* in front of the sample are left out: the digest is identified with the  *)
(* sample it is of.                                                        *)
(***************************************************************************)
EXTENDS Integers, Sequences, FiniteSets

CONSTANTS
  Byte,         \* values of a byte (0 .. 255)
  Blocks,       \* blocks read (16)
  BlockSize,    \* bytes of a block (32)
  RunLimit,     \* equal bytes in a row that are a fault (16)
  CountLimit,   \* occurrences of a byte that are still healthy (64)
  PeriodLimit,  \* longest cycle looked for (32)
  SampleSize,   \* bytes of the first block that are printed (10)
  Faces         \* faces of a die (6)

ASSUME HwrngAssumption ==
  /\ {Blocks, BlockSize, RunLimit, CountLimit, PeriodLimit} \subseteq Nat \ {0}
  /\ SampleSize \in 0 .. BlockSize /\ Faces \in Nat \ {0} /\ Byte \subseteq Nat
  /\ RunLimit >= 2 /\ PeriodLimit < Blocks * BlockSize

VARIABLES
  pool,       \* the blocks read so far, in one sequence
  source,     \* bootloader_random_enable ... disable: "on" or "off"
  buf,        \* wc_hwrng_stream_finish's copy of all blocks; <<>> stands for zeros
  i,          \* bytes scanned
  counts,     \* occurrences among them, until they are wiped
  run,        \* length of the run the last of them ends
  period,     \* next cycle length to look for
  unhealthy,
  result,     \* "running", "ok" or "failed"
  digest,     \* out[]; <<>> stands for zeros
  sampleOut,  \* sample_out[]; <<>> stands for zeros
  returned

vars == <<pool, source, buf, i, counts, run, period, unhealthy, result, digest,
          sampleOut, returned>>

Full == Blocks * BlockSize

NoCounts == [x \in Byte |-> 0]

Init ==
  /\ pool = <<>> /\ source = "off" /\ buf = <<>>
  /\ i = 0 /\ counts = NoCounts /\ run = 1
  /\ period = 1 /\ unhealthy = FALSE
  /\ result = "running" /\ digest = <<>> /\ sampleOut = <<>> /\ returned = FALSE

Enable ==
  /\ source = "off" /\ pool = <<>> /\ ~returned
  /\ source' = "on"
  /\ UNCHANGED <<pool, buf, i, counts, run, period, unhealthy, result, digest, sampleOut, returned>>

\* esp_fill_random: the source may return anything.
FillBlock ==
  /\ source = "on" /\ Len(pool) < Full
  /\ \E block \in [1 .. BlockSize -> Byte] : pool' = pool \o block
  /\ UNCHANGED <<source, buf, i, counts, run, period, unhealthy, result, digest, sampleOut, returned>>

\* wc_hwrng_stream_finish puts the blocks in one row; the tests read the copy.
Assemble ==
  /\ source = "on" /\ Len(pool) = Full /\ result = "running"
  /\ buf = <<>>
  /\ buf' = pool
  /\ UNCHANGED <<pool, source, i, counts, run, period, unhealthy, result, digest, sampleOut, returned>>

\* Mutant of RunAt: a run is never reset.
RunAtKept(n) == IF n > 1 /\ buf[n] = buf[n - 1] THEN run + 1 ELSE run

\* The run that the n-th byte ends.
RunAt(n) == IF n > 1 /\ buf[n] = buf[n - 1] THEN run + 1 ELSE 1

Scanning == buf # <<>> /\ i < Full

ScanByte ==
  /\ Scanning
  /\ i' = i + 1
  /\ counts' = [counts EXCEPT ![buf[i']] = @ + 1]
  /\ run' = RunAt(i')
  /\ unhealthy' = (unhealthy \/ counts'[buf[i']] > CountLimit \/ run' >= RunLimit)
  /\ UNCHANGED <<pool, source, buf, period, result, digest, sampleOut, returned>>

Repeats(s, p) == \A n \in p + 1 .. Full : s[n] = s[((n - 1) % p) + 1]

LastPeriod == PeriodLimit

LookingForCycle == i = Full /\ source = "on" /\ period <= LastPeriod /\ ~unhealthy

TryPeriod ==
  /\ LookingForCycle
  /\ unhealthy' = Repeats(buf, period)
  /\ period' = period + 1
  /\ UNCHANGED <<pool, source, buf, i, counts, run, result, digest, sampleOut, returned>>

Tested == i = Full /\ source = "on" /\ ~LookingForCycle

WipeCounts ==
  /\ Tested /\ counts # NoCounts
  /\ counts' = NoCounts
  /\ UNCHANGED <<pool, source, buf, i, run, period, unhealthy, result, digest, sampleOut, returned>>

\* Mutant of BufAfter: the early return of a failed test leaves the copy.
BufAfterReject == IF unhealthy THEN buf ELSE <<>>

BufAfter == <<>>

\* wc_hwrng_stream_finish returns on either of its two exits, and the source is
\* disabled whatever it said.
RejectSample ==
  /\ Tested /\ counts = NoCounts /\ unhealthy
  /\ result' = "failed"
  /\ digest' = <<>> /\ buf' = BufAfter
  /\ source' = "off"
  /\ UNCHANGED <<pool, i, counts, run, period, unhealthy, sampleOut, returned>>

HashSample ==
  /\ Tested /\ counts = NoCounts /\ ~unhealthy
  /\ result' = "ok"
  /\ digest' = buf /\ buf' = BufAfter
  /\ source' = "off"
  /\ UNCHANGED <<pool, i, counts, run, period, unhealthy, sampleOut, returned>>

\* Ten values of the first block, mapped to a die's faces.
SampleOut ==
  IF result = "ok" THEN [n \in 1 .. SampleSize |-> 1 + (pool[n] % Faces)] ELSE <<>>

Return ==
  /\ result # "running" /\ ~returned
  /\ sampleOut' = SampleOut
  /\ pool' = <<>>
  /\ returned' = TRUE
  /\ UNCHANGED <<source, buf, i, counts, run, period, unhealthy, result, digest>>

Next ==
  \/ Enable \/ FillBlock \/ Assemble \/ ScanByte \/ TryPeriod
  \/ WipeCounts \/ RejectSample \/ HashSample \/ Return

\* Straight-line code: nothing waits inside the function.
Spec == Init /\ [][Next]_vars /\ WF_vars(Next)

-----------------------------------------------------------------------------
\* Types of the function's locals; counters, run and period stay within the
\* bounds of the arrays and loops they count.
TypeOK ==
  /\ pool \in Seq(Byte) /\ Len(pool) <= Full /\ buf \in Seq(Byte)
  /\ source \in {"on", "off"} /\ result \in {"running", "ok", "failed"}
  /\ i \in 0 .. Full /\ counts \in [Byte -> 0 .. Full] /\ run \in 1 .. Full
  /\ period \in 1 .. PeriodLimit + 1
  /\ unhealthy \in BOOLEAN /\ returned \in BOOLEAN
  /\ digest \in Seq(Byte) /\ sampleOut \in Seq(1 .. Faces)

\* The three faults the comment names, each as a statement about a whole sample.
LongRun(s) ==
  \E n \in 1 .. Len(s) - RunLimit + 1 :
    \A j \in n .. n + RunLimit - 1 : s[j] = s[n]
FrequentByte(s) == \E x \in Byte : Cardinality({n \in 1 .. Len(s) : s[n] = x}) > CountLimit
ShortCycle(s) ==
  \E p \in 1 .. PeriodLimit : \A n \in 1 .. Len(s) - p : s[n + p] = s[n]

\* One pass with counters that are reset, and a cycle search that is skipped
\* once a fault is known, together decide exactly the documented faults
\* (repetition count, adaptive proportion, short cycle).
VerdictExact ==
  (result # "running" /\ ~returned) =>
    (result = "failed" <=> LongRun(pool) \/ FrequentByte(pool) \/ ShortCycle(pool))

Block(s, n) == SubSeq(s, (n - 1) * BlockSize + 1, n * BlockSize)

\* "All 16 blocks identical (e.g. stuck constant) -> false": the rewritten
\* tests have no such comparison; the cycle search has to cover it.
StuckSourceRejected ==
  result = "ok" => \E n \in 2 .. Blocks : Block(digest, n) # Block(digest, 1)

\* "chunk buffers always wiped, failed runs zero the output": neither the
\* blocks, nor the copy that was tested, nor what was counted in it outlive the
\* call, and after a failure there is neither a digest nor a sample to print.
CleanReturn ==
  returned =>
    /\ pool = <<>> /\ buf = <<>> /\ counts = NoCounts
    /\ result = "failed" => digest = <<>> /\ sampleOut = <<>>
    /\ result = "ok" => digest # <<>>
=============================================================================
