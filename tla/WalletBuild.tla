---------------------------- MODULE WalletBuild ----------------------------
(***************************************************************************)
(* buildWallet of src/main.cpp, statement by statement, with the call of   *)
(* wc_platform_hwrng_digest (HwrngDigest) inside it, the report going to   *)
(* the card line by line, and power that may fail between any two steps.   *)
(* DiceWallet has the same function as single steps.                       *)
(*                                                                         *)
(* Data is identified with what it is computed from: bytes, fingerprint,   *)
(* words, seed and address all hold the entropy they were derived from.    *)
(* The buffer a callee works in is one more local, work: acc of            *)
(* wc_raw_extract, buf of wc_hybrid_dice_digest, cs and bits of            *)
(* wc_mnemonic_from_entropy.  Those of the seed and the address, which     *)
(* call each other, are the cells of KeyDerivation.                        *)
(*                                                                         *)
(* Left out are the exits loop() cannot reach: an extraction that comes    *)
(* short or rejects after the assessment passed (DiceWallet.ExtractorAgrees*)
(* and RawBytes.ImplementsRawCall), a transcript that is invalid then, and *)
(* a seed of a mnemonic that is not terminated.                            *)
(***************************************************************************)
EXTENDS HwrngDigest

CONSTANTS
  None,        \* a wiped buffer
  DiceEntropy, \* what the transcript extracts to
  OldEntropy   \* the wallet of an earlier build

ASSUME BuildAssumption ==
  /\ None # OldEntropy /\ DiceEntropy \notin {None, OldEntropy}
  /\ {None, OldEntropy} \cap [1 .. Blocks * BlockSize -> Byte] = {}

VARIABLES
  pc,                                   \* the statement to run next
  hybrid,                               \* entropyMode == MODE_HYBRID
  hasHash, entropyHex, mnemonic, address, hwSample, backupVerified,
  diceD, hwD, bytes, seed, hash,        \* locals that hold key material
  work,                                 \* that of the function called
  sdOK, lastReportOK,
  pending,                              \* lines printed to the open file
  report,                               \* lines of the last record on the card
  before                                \* observer: the wallet at entry

wallet == <<hasHash, entropyHex, mnemonic, address, backupVerified>>
locals == <<diceD, hwD, bytes, seed, hash, work>>
file == <<lastReportOK, pending, report>>
buildVars == <<vars, pc, hybrid, wallet, hwSample, locals, sdOK, file, before>>

NoSample == <<>>

\* The lines of a record that properties are about, in the order written.
Sanity == 1
Sample == 2
Fingerprint == 3
Address == 4
Verified == 5

Wallet == [hasHash |-> hasHash, entropyHex |-> entropyHex, mnemonic |-> mnemonic,
           address |-> address, backupVerified |-> backupVerified, hwSample |-> hwSample,
           report |-> report]

OldSample == [n \in 1 .. SampleSize |-> 1]

\* The record of an earlier hybrid wallet, and that of an attempt that was blocked.
OldRecord(verified) ==
  <<TRUE, OldSample, OldEntropy, IF verified THEN OldEntropy ELSE None, verified>>
BlockedRecord ==
  <<FALSE, NoSample, None, IF backupVerified THEN address ELSE None, backupVerified>>

\* Entered from loop() with no wallet, with one of an earlier build, or with the
\* words of one that a failed build has withdrawn (and with their fingerprint, or
\* without it when the assessment blocked).  The backup may have been verified in
\* each case, that of no wallet too (run empty_quiz).  The last record on the card
\* need not be of this wallet: it outlives the memory.
BuildInit ==
  /\ Init
  /\ pc = "enter" /\ hybrid \in BOOLEAN
  /\ mnemonic \in {None, OldEntropy} /\ address = mnemonic
  /\ hasHash \in {FALSE, mnemonic # None}
  /\ entropyHex \in IF hasHash THEN {mnemonic} ELSE {None, mnemonic}
  /\ backupVerified \in BOOLEAN
  /\ hwSample = IF hasHash /\ hybrid THEN OldSample ELSE NoSample
  /\ diceD = None /\ hwD = None /\ bytes = None /\ seed = None /\ hash = None /\ work = None
  /\ sdOK \in BOOLEAN /\ lastReportOK = FALSE /\ pending = <<>>
  /\ report \in {<<>>, BlockedRecord, OldRecord(TRUE), OldRecord(FALSE)}
  /\ before = Wallet

\* No build was asked for.
BuildIdle ==
  /\ Init /\ pc = "done"
  /\ hybrid = FALSE /\ hasHash = FALSE /\ backupVerified = FALSE
  /\ entropyHex = None /\ mnemonic = None /\ address = None /\ hwSample = NoSample
  /\ diceD = None /\ hwD = None /\ bytes = None /\ seed = None /\ hash = None /\ work = None
  /\ sdOK = FALSE /\ lastReportOK = FALSE /\ pending = <<>> /\ report = <<>>
  /\ before = Wallet

Goto(here, there) == pc = here /\ pc' = there

-----------------------------------------------------------------------------
(* Up to the entropy.                                                       *)

\* Mutant of ClearSample: the sample of the run before is kept.
KeepSample == UNCHANGED hwSample

ClearSample == hwSample' = NoSample

\* verifyRadios() said yes.
Enter ==
  /\ Goto("enter", "assess")
  /\ ClearSample
  /\ UNCHANGED <<vars, hybrid, wallet, locals, sdOK, file, before>>

WipeDigests == hwD' = None /\ diceD' = None

\* Every exit without a wallet drops hasHash and paints; none wipes the words
\* of an older wallet.
Fail(here) ==
  /\ Goto(here, "done")
  /\ hasHash' = FALSE
  /\ UNCHANGED <<hybrid, entropyHex, mnemonic, address, backupVerified,
                 bytes, seed, hash, work, sdOK, file, before>>

RadioError ==
  \/ Fail("enter") /\ ClearSample /\ UNCHANGED <<vars, diceD, hwD>>
  \/ Fail("recheck") /\ WipeDigests /\ UNCHANGED <<vars, hwSample>>

Blocked ==
  /\ Goto("assess", "report")
  /\ hasHash' = FALSE /\ entropyHex' = None
  /\ UNCHANGED <<vars, hybrid, mnemonic, address, backupVerified, hwSample, locals,
                 sdOK, file, before>>

Assessed ==
  /\ Goto("assess", IF hybrid THEN "digest" ELSE "extract")
  /\ UNCHANGED <<vars, hybrid, wallet, hwSample, locals, sdOK, file, before>>

ExtractVN ==
  /\ Goto("extract", "fingerprint")
  /\ bytes' = DiceEntropy
  /\ UNCHANGED <<vars, hybrid, wallet, hwSample, diceD, hwD, seed, hash, work, sdOK, file, before>>

\* wc_raw_extract works in acc ...
AccumulateRaw ==
  /\ Goto("extract", "reduce")
  /\ work' = DiceEntropy
  /\ UNCHANGED <<vars, hybrid, wallet, hwSample, diceD, hwD, bytes, seed, hash, sdOK, file, before>>

\* ... which it hands over and wipes.
ExtractRaw ==
  /\ Goto("reduce", "fingerprint")
  /\ bytes' = work
  /\ work' = None
  /\ UNCHANGED <<vars, hybrid, wallet, hwSample, diceD, hwD, seed, hash, sdOK, file, before>>

\* wc_hybrid_dice_digest copies the transcript behind its domain ...
CopyDice ==
  /\ Goto("digest", "hash")
  /\ work' = DiceEntropy
  /\ UNCHANGED <<vars, hybrid, wallet, hwSample, diceD, hwD, bytes, seed, hash, sdOK, file, before>>

\* ... hashes the copy and wipes it.
DigestDice ==
  /\ Goto("hash", "recheck")
  /\ diceD' = work
  /\ work' = None
  /\ UNCHANGED <<vars, hybrid, wallet, hwSample, hwD, bytes, seed, hash, sdOK, file, before>>

RadiosStillOff ==
  /\ Goto("recheck", "hwrng")
  /\ UNCHANGED <<vars, hybrid, wallet, hwSample, locals, sdOK, file, before>>

\* The call of wc_platform_hwrng_digest(hwD, hwSample).
Hwrng ==
  /\ pc = "hwrng"
  /\ Next
  /\ hwD' = IF returned' /\ result = "ok" THEN digest ELSE None
  /\ hwSample' = sampleOut'
  /\ UNCHANGED <<pc, hybrid, wallet, diceD, bytes, seed, hash, work, sdOK, file, before>>

HwrngFailed ==
  /\ returned /\ result = "failed"
  /\ Fail("hwrng") /\ WipeDigests
  /\ UNCHANGED <<vars, hwSample>>

\* wc_hybrid_combine; the transcript is the same for every run, so the entropy
\* is identified with the sample.
Combine ==
  /\ returned /\ result = "ok"
  /\ Goto("hwrng", "fingerprint")
  /\ bytes' = hwD
  /\ WipeDigests
  /\ UNCHANGED <<vars, hybrid, wallet, hwSample, seed, hash, work, sdOK, file, before>>

-----------------------------------------------------------------------------
(* From the entropy to the wallet.                                          *)

MakeFingerprint ==
  /\ Goto("fingerprint", "words")
  /\ hash' = bytes /\ entropyHex' = bytes
  /\ UNCHANGED <<vars, hybrid, hasHash, mnemonic, address, backupVerified, hwSample,
                 diceD, hwD, bytes, seed, work, sdOK, file, before>>

\* wc_mnemonic_from_entropy lines the bits up with their checksum ...
AlignBits ==
  /\ Goto("words", "spell")
  /\ work' = bytes
  /\ UNCHANGED <<vars, hybrid, wallet, hwSample, diceD, hwD, bytes, seed, hash, sdOK, file, before>>

\* ... spells them out and wipes both.
MakeWords ==
  /\ Goto("spell", "seed")
  /\ mnemonic' = work
  /\ work' = None
  /\ UNCHANGED <<vars, hybrid, hasHash, entropyHex, address, backupVerified, hwSample,
                 diceD, hwD, bytes, seed, hash, sdOK, file, before>>

MakeSeed ==
  /\ Goto("seed", "address")
  /\ seed' = mnemonic
  /\ UNCHANGED <<vars, hybrid, wallet, hwSample, diceD, hwD, bytes, hash, work, sdOK, file, before>>

WipeSecrets == seed' = None /\ bytes' = None /\ hash' = None

MakeAddress ==
  /\ Goto("address", "reset")
  /\ address' = seed
  /\ WipeSecrets
  /\ UNCHANGED <<vars, hybrid, hasHash, entropyHex, mnemonic, backupVerified, hwSample,
                 diceD, hwD, work, sdOK, file, before>>

\* Mutant of ResetVerdict: the verdict on the old wallet is kept.
KeepVerdict == UNCHANGED backupVerified

ResetVerdict == backupVerified' = FALSE

Finish ==
  /\ Goto("reset", "report")
  /\ ResetVerdict
  /\ hasHash' = TRUE
  /\ UNCHANGED <<vars, hybrid, entropyHex, mnemonic, address, hwSample, locals, sdOK, file, before>>

-----------------------------------------------------------------------------
(* writeReport: the file is opened for appending, printed to, flushed.      *)

NotOpened ==
  /\ Goto("report", "done")
  /\ lastReportOK' = FALSE
  /\ UNCHANGED <<vars, hybrid, wallet, hwSample, locals, sdOK, pending, report, before>>

Opened ==
  /\ sdOK
  /\ Goto("report", "print")
  /\ lastReportOK' = FALSE
  /\ UNCHANGED <<vars, hybrid, wallet, hwSample, locals, sdOK, pending, report, before>>

AddressLine == IF backupVerified THEN address ELSE None

Line(n) ==
  CASE n = Sanity -> hasHash
    [] n = Sample -> IF hybrid THEN hwSample ELSE NoSample
    [] n = Fingerprint -> entropyHex
    [] n = Address -> AddressLine
    [] n = Verified -> backupVerified

PrintLine ==
  /\ pc = "print" /\ Len(pending) < Verified
  /\ pending' = Append(pending, Line(Len(pending) + 1))
  /\ UNCHANGED <<vars, pc, hybrid, wallet, hwSample, locals, sdOK, lastReportOK, report, before>>

\* What of the printed lines is on the card when not all of them had to be.
Torn == {report} \cup {SubSeq(pending, 1, n) : n \in 1 .. Len(pending)}

Flush ==
  /\ Len(pending) = Verified
  /\ Goto("print", "done")
  /\ \/ lastReportOK' = TRUE /\ report' = pending
     \/ lastReportOK' = FALSE /\ report' \in Torn
  /\ UNCHANGED <<vars, hybrid, wallet, hwSample, locals, sdOK, pending, before>>

-----------------------------------------------------------------------------
\* Power fails anywhere: RAM is gone, and the printed lines may or may not
\* have reached the card.
PowerLoss ==
  /\ pc' = "off"
  /\ pc # "off"
  /\ hasHash' = FALSE /\ entropyHex' = None /\ mnemonic' = None /\ address' = None
  /\ backupVerified' = FALSE /\ hwSample' = NoSample
  /\ diceD' = None /\ hwD' = None /\ bytes' = None /\ seed' = None /\ hash' = None
  /\ work' = None
  /\ pool' = <<>> /\ source' = "off" /\ buf' = <<>> /\ i' = 0 /\ counts' = NoCounts
  /\ run' = 1 /\ period' = 1 /\ unhealthy' = FALSE /\ result' = "running"
  /\ digest' = <<>> /\ sampleOut' = <<>> /\ returned' = FALSE
  /\ lastReportOK' = FALSE /\ pending' = <<>>
  /\ report' \in Torn
  /\ UNCHANGED <<hybrid, sdOK, before>>

BuildStep ==
  \/ Enter \/ RadioError \/ Blocked \/ Assessed
  \/ ExtractVN \/ AccumulateRaw \/ ExtractRaw
  \/ CopyDice \/ DigestDice \/ RadiosStillOff \/ Hwrng \/ HwrngFailed \/ Combine
  \/ MakeFingerprint \/ AlignBits \/ MakeWords \/ MakeSeed \/ MakeAddress \/ Finish
  \/ NotOpened \/ Opened \/ PrintLine \/ Flush

BuildNext == BuildStep \/ PowerLoss

\* A function that waits for nothing runs on; power owes nobody a failure.
BuildSpec == BuildInit /\ [][BuildNext]_buildVars /\ WF_buildVars(BuildStep)

-----------------------------------------------------------------------------
\* However the function is left, no local of it that held key material still
\* does, nor the working buffer of a function it called; of the generator neither
\* the blocks, nor the copy the tests ran over, nor their counts are left, and its
\* source is off: "single cleanup path: no early return between enable and disable".
LocalsWiped ==
  pc = "done" =>
    /\ locals = <<None, None, None, None, None, None>>
    /\ pool = <<>> /\ buf = <<>> /\ counts = NoCounts
    /\ source = "off"

\* Seen from outside the function is one step: it leaves the old wallet as it
\* was (refused), or the old words without fingerprint (blocked), or a whole
\* new unverified wallet; the sample is of this build.
BuildIsAtomic ==
  pc = "done" =>
    \/ /\ ~hasHash /\ hwSample = NoSample /\ report = before.report
       /\ <<entropyHex, mnemonic, address, backupVerified>> =
            <<before.entropyHex, before.mnemonic, before.address, before.backupVerified>>
    \/ /\ ~hasHash /\ hwSample = NoSample /\ entropyHex = None
       /\ <<mnemonic, address, backupVerified>> =
            <<before.mnemonic, before.address, before.backupVerified>>
    \/ /\ hasHash /\ ~backupVerified
       /\ mnemonic \notin {None, OldEntropy}
       /\ entropyHex = mnemonic /\ address = mnemonic
       /\ hwSample = IF hybrid THEN sampleOut ELSE NoSample

\* No record, whole or torn by a power loss, prints a sample beside the
\* fingerprint of another build.
SampleBesideItsFingerprint ==
  Len(report) >= Fingerprint /\ report # before.report /\ report[Sample] # NoSample =>
    report[Fingerprint] # None /\ report[Sample] = [n \in 1 .. SampleSize |-> 1 + (report[Fingerprint][n] % Faces)]

\* Nothing the device shows or writes is put together from two builds.
NeverMixed == BuildIsAtomic /\ SampleBesideItsFingerprint

\* Between two steps of a build the wallet counts as the old one until the
\* verdict is reset and the report begins.
Settled == pc \in {"report", "print", "done", "off"}

Lifecycle == INSTANCE WalletLifecycle WITH
  Wallets <- {DiceEntropy, OldEntropy} \cup [1 .. Full -> Byte],
  wallet <- IF Settled THEN mnemonic ELSE before.mnemonic,
  verified <- IF Settled THEN backupVerified /\ mnemonic # None
              ELSE before.backupVerified /\ before.mnemonic # None,
  record <- IF report = <<>> THEN <<>>
            ELSE IF Len(report) >= Address THEN <<report[Address]>> ELSE <<None>>

\* Interrupted anywhere, a build still does to wallet, verdict and record only
\* what the appliance promises.
KeepsLifecycle == [][Lifecycle!Next]_(Lifecycle!vars)
=============================================================================
