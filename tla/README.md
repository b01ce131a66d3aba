# Dice wallet firmware: specification, checks and proofs

The firmware (`src/src/main.cpp`, `src/lib/wallet_core`, `src/src/wc_platform_esp.cpp`) runs on
an offline Cardputer. A user enters dice rolls, the device turns them into a 24-word mnemonic and a
Solana address, asks for some of the words back, and keeps a metadata report on an SD card. These
TLA+ modules model that program, from the key that enters a roll down to the limbs of the field
arithmetic, and state what it must never do.

## Inventory

There is one thread: Arduino's `loop()`. Nothing preempts it. What makes it hard is that it
*polls*: a key press lasts many polls, other keys join and leave in between, and which handler runs
depends on some fifteen flags that every handler sets by hand. Around it are three things that fail
on their own: radio verification, the hardware generator, the SD card; and power may go at any
statement. Below it is a chain of pure functions, from rolls to address, whose difficulty is
numbers at their limits, aliased and fixed buffers, and key material that must not stay behind.

| Component | Where | State | Operations | Hard behaviour | What makes it correct |
|---|---|---|---|---|---|
| Main loop and screens | `main.cpp:527-547, 589-635, 666-760` | mode flags, press gates, page, painted screen | one handler per poll | held keys and chords, gates that several handlers open and shut, Enter and Del that mean four things | one press has one effect; modes never overlap; the screen shown is the one decoded |
| Wallet build | `main.cpp:416-525` | `hasHash`, fingerprint, words, address, word offsets, challenge | `buildWallet` | nine exits that undo different parts; running over an old wallet; power loss inside | what is shown together is of one wallet, of these rolls; every exit wipes |
| Backup check | `main.cpp:549-587` | `quizStep`, `quizBuf`, key edges, `backupVerified` | `handleQuiz` | overlapping keys, starting over, cancelling, checking with a wiped mnemonic | verified means every challenged word was typed |
| SD report | `main.cpp:351-403, 612-616` | file, `lastReportOK`, `sdOK` | append, remove | absent, unmountable, pulled and failing cards; a report that outlives the wallet; one torn by a power loss | what the report and the screen claim is so; no address before the check |
| Dice statistics | `main.cpp:76-83, 127-176` | `vnBits` | `computeStats`, `entropyReady`, `assessmentOK` | a cached count gates the build | the cache is fresh and agrees with the extractor |
| Extraction | `wallet_core.cpp:57-105` | locals | `wc_vn_extract`, `wc_raw_extract` | multi-byte arithmetic in a fixed array, a rejection threshold | the result is the documented number |
| Challenge | `wallet_core.cpp:108-122` | locals | `wc_quiz_positions` | duplicates, a fallback, once a possible endless loop | distinct, complete, terminating, in the order of the hash |
| Keyboard edges | `wallet_core.cpp:130-159` | `typeMask`, two flags | `wc_key_edges` | keys that overlap, shift moving under a held key | a letter per press; one that is lost is lost in a way `handleQuiz` has for it |
| Hardware entropy | `wc_platform_esp.cpp:34-58`, `wallet_core.cpp:203-254` | sample, counters, source on or off | `wc_platform_hwrng_digest` | boundaries of three health tests; cleanup on both exits | exact verdict; source off, and nothing left of the sample or its copy |
| Words and their offsets | `wallet_core.cpp:258-291`, `main.cpp:316-328` | buffer, offsets | `wc_mnemonic_from_entropy`, `parseMnemonicWords` | 11-bit indices over byte borders, a buffer that is just long enough | indices, words and offsets are those of the entropy |
| Seed and keys | `wallet_core.cpp:293-391` | six kinds of buffer, several aliased | HMAC, PBKDF2, SLIP-0010 | a key block at its limit, in-place updates, wipes | seed and key are the standard's; temporaries wiped |
| Base58 | `wallet_core.cpp:393-431` | `tmp[50]` | `wc_base58_encode` | leading zeros, a fixed array | the digits of the number; in bounds |
| SHA-512 | `lib/ed25519/sha512.c` | `curlen`, `length`, `buf` | init, update, final, compress | a message at the edges of a block, words that wrap | padded blocks and rounds of FIPS 180-4 |
| Ed25519 | `lib/ed25519/` | limbs, points, scalars | field, group, scalars, keys | carries and limb sizes, unreduced operands, signed digits | same numbers as modular arithmetic; keys and signatures fit |
| NFKD | `wallet_core.cpp`, `lib/utf8proc` | one buffer, 32-bit and 8-bit cells in turn | `wc_nfkd` | re-encoding in place, capacity | decomposed, ordered, in bounds |
| Radios | `main.cpp:178-183, 637-657` | `radiosOffOK` | `verifyRadios`, `disableRadios` | failing at any moment | a failure blocks the build it happens in |
| Tests, tools, CI | `src/tests`, `src/tools` | | | | not modelled; read as statements of what is promised |

`loop()` calls the handlers; handlers call the drawing functions, **which change state**
(`drawMain` ends the result pages, every drawing of rolls recomputes the statistics), the build, and
the report. `buildWallet` calls the radios (up to three times), extraction, the hardware entropy,
the derivation chain and the challenge. There are no messages and no callbacks; all sharing is
through globals.

`PROJECT.json` lists the hazards line by line.

## Modules

    WalletLifecycle        the life of one wallet, in five actions (abstract)
    DiceExtract            transcripts, pair counting, both extractions (formulas)
      DiceWallet           the main loop and everything it calls; implements WalletLifecycle
        MCDiceWallet       instances for TLC
        DiceWalletProofs   types, modes, wallet, backup, report, presses, screens, lifecycle (proofs)
    HwrngDigest            wc_platform_hwrng_digest and its health tests
      WalletBuild          buildWallet by statement, HWRNG call inside; implements WalletLifecycle
        WalletBuildProofs  of both                         (proofs)
    CoreCalls              calls made while rolling and checking the backup
      QuizPositions        wc_quiz_positions
      RawBytes             wc_raw_extract byte by byte; implements RawCall
      KeyEdges             wc_key_edges, the polls of the backup check, and the hands
      CoreCallsProofs      of the three                    (proofs)
    Ed25519                the curve library, one layer per module (MCEd25519: its instance)
      FieldLimbs           fe.c over limbs; implements FieldElements (numbers modulo the prime)
      FieldPowers          the exponent chains of fe_invert and fe_pow22523, real size
      ScalarLimbs          sc.c over limbs
      Edwards              ge.c and its digit recodings
      Ed25519Keys          keypair, add_scalar, sign, verify, key exchange
      CurveProofs          FieldLimbs implements FieldElements; of ScalarLimbs and Edwards (proofs)
      FieldBoundProofs     sizes of FieldLimbs; of FieldPowers (proofs)
    Derivation             from entropy to address
      Sha512Stream         buffering and padding
      Sha512Compress       the compression; implements Sha512Rounds (FIPS 180-4)
      KeyDerivation        HMAC, PBKDF2, SLIP-0010, address
        DerivationProofs   of the three                    (proofs)
      Mnemonic, Base58     words and their offsets, wc_base58_encode
      Nfkd                 wc_nfkd
        WalletTextProofs   of the three                    (proofs)
    WalletCreation         WalletBuild and Derivation under one task
      MCWalletCreation     entries of the character tables for TLC
    Numerals               powers, sums and the number digits stand for (used by RawBytes, Mnemonic,
                           Base58, FieldLimbs, ScalarLimbs)
      InductionLemmas      induction, recursive functions, powers, numerals, sums, congruences (proofs)

`CoreCalls`, `Ed25519` and `Derivation` are roots: the functions below each of them share one task,
so a root takes one call of one of them at a time, and one run checks them all. `WalletCreation` does
the same with `WalletBuild`, where words, seed and address are one step each, and the functions of
`Derivation` that compute them. What one layer
needs of the layer below is stated there as that layer's property.

### DiceWallet

One action is one poll of `loop()` that does something, with everything its handler does, or an
event of the environment. A poll reads an arbitrary set of keys (`KeyStates`), so holding, joining
and releasing keys in any order is covered without keyboard state. `Decode` is the order of
`loop()`'s tests; each action is one branch:

| Code | Actions |
|---|---|
| no key down | `Release` |
| `handleModeSelect` | `MenuMove`, `MenuChoose`, `MenuIgnore` |
| `handleQuiz` | `QuizWrong`, `QuizNext`, `QuizPassed`, `QuizErase`, `QuizCancel`, `QuizLetter`, `QuizChord`, `QuizIgnore` |
| armed clear, Del | `AskClear`, `ClearEverything`, `EraseRoll` |
| pages | `ShowRolls`, `TurnPage`, `QuizStart`, `IgnoreKey` |
| `acceptRoll` | `RollRefused`, `RollAccepted` |
| Enter, `buildWallet` | `BuildRefused` (loop's own radio check), `BuildRadioError`, `BuildBlocked`, `HwrngFailed`, `BuildDone` |
| outside | `PowerCycle`, `CardPulled` |

Variables keep the names of the globals. `quizLen` is the length of `quizBuf` and `rollCount` that
of `rolls`; a poll of the check takes in `WordCap` (eight) keys at most. A wallet is
identified with the 32 bytes it is derived from: `mnemonic`, `address` and
`entropyHex` hold that entropy, or `NoWallet` when the buffer is wiped. `Word(w, p)` gives the
letters of a word and `Challenge(w)` the positions asked; both are constants, so the proofs hold for
any derivation. `card` and `report` are the slot and the last record on the card. `press`, `typed`
and `denied` are observers: no action reads them to decide anything.

A mounted card may answer every access wrongly. `open` and each write may fail, `SD.exists()` may
deny a report that is there (`denied`), and `SD.remove()` may return false with the file gone or
left. The code takes a denial for absence, so `ClearedIsTruthful` claims what the code can know: with
`cleared` on the screen no report is left unless the card itself denied it. That even this falls
short of the documented "deletes the file" is said again under Findings.

Abstractions: the clock is reduced to the verdict of its two debounce tests, the radios and the SD
card to the outcome of each access. The status line keeps the three messages a property is about.
Statistics that are only displayed are left out. A build is one step here; its statements are in
`WalletBuild`. Both leave out the exits that the assessment before them rules out (a batch that
comes short or is rejected after it was accepted: `ExtractorAgrees` and `ImplementsRawCall` are the
reason; an invalid transcript of exactly 100 accepted rolls; a mnemonic without terminator).
`DiceWallet` is shown to implement `WalletLifecycle`, the life of a wallet in five actions
(`Generate`, `Verify`, `Refuse`, `Wipe`, `PowerLoss`): a new wallet is never verified, a record on
the card has an address only if that wallet was verified when it was written, and losing power
forgets all but it.

### WalletBuild and HwrngDigest

`WalletBuild` is `buildWallet` with one action per statement that matters to somebody else: the
radio checks, the assessment, extraction, the HWRNG call (the whole of `HwrngDigest`, step by step),
the combiner, fingerprint, words, seed, address, the flags, and the report line by line. `locals`
are its five temporaries and, as `work`, the buffer of the function it calls: `acc` of the raw
extraction, the copy of the dice transcript in `wc_hybrid_dice_digest`, checksum and bits of
`wc_mnemonic_from_entropy`. `HwrngDigest` has `wc_hwrng_stream_finish` with its own buffers: `buf`,
the copy of all sixteen blocks that the tests read (`Assemble`), and `counts`, which are wiped before
the verdict is acted on (`WipeCounts`); `buf` goes on either exit (`RejectSample`, `HashSample`), the
blocks in the caller (`Return`).

A build starts over whatever an earlier one can have left: no wallet, an old one, or the words of
one that a failed build has withdrawn, with or without their fingerprint; verified or not in each
case; over no report, or one of a blocked attempt or of an old wallet, which need not be the wallet in
memory. `PowerLoss` may follow any statement; of the lines printed and not yet flushed any prefix may
then be on the card. A digest is identified with the sample it is computed from and an entropy with its
sources; SHA-256 and XOR are data.

### CoreCalls

`QuizPositions` and `RawBytes` take one step per loop iteration. `QuizPositions` justifies what
`DiceWallet` assumes of `Challenge` (distinct, all filled, in range); `RawBytes` justifies
`RawExtract` and `RawRejected`, which `DiceWallet` uses. `KeyEdges` has a hand that presses,
releases, overlaps and shifts keys, polls at any moment in between, and what `handleQuiz` makes of
each poll. Its presses are counted by observers.
`TypingExplained` says that a press types one letter at most, and names each way in which one that
was taken in may come to nothing: the chord warning; Enter or Del in the same poll, which go first;
a full buffer; and, as side conditions, a shift that moves under a held key or more keys at once than
the eight a poll takes in, both of which hide or repeat a key. The documents promise more. They deny that
overlapping letters are accepted and that anything is dropped in silence; `OverlapRejected` and
`DropsVisible` state their words, and the runs `overlapping_keys` and `swallowed_letter` refute them.

### Ed25519

`FieldLimbs` has every function of `fe.c` over short vectors of alternating limbs, with carries,
conditional moves and byte conversion in the order of the code, the loads cut at bytes included;
`FieldElements` has the same functions over numbers modulo the prime. Beside its limbs a register
carries how many reduced elements were added up in it (`terms`) and how many times the constant 1
(`ones`): `ge.c` adds three elements at most, and 1 twice at most, in the `Z + Z` of `ge_madd` with
`Z = 1`. `MayAddUp` is that precondition of `fe_add` and `fe_sub`. `FieldPowers` follows the squarings and multiplications of
the two chains as sums and shifts of exponents, held in eighteen digits of 15 bits, so that the
exponents compared are really `p-2` and `(p-5)/8`. `ScalarLimbs` reduces pass by pass as `sc.c`
does, for a `-delta` of any number of digits up to half a vector (six of twelve limbs in the code).
`Edwards` has each `ge_` function with the statements of the code over a small curve of the
same shape, and carries along the size of every operand: `ge_p2_dbl` and `ge_madd` hand two-term
operands to `fe_add` and `fe_sub` although the comments of `fe.c` state one-term preconditions, so
`OperandsFit` states what is really needed, that no operand of a multiplication exceeds the three
terms `fe_mul` admits. Both recodings of a scalar, the borrowed digits of `ge_scalarmult_base` and
`slide`, are in it as the loops of the code, their arrays indexed as there: `RecodingExact` says that
what the comments promise ("each e[i] is between -8 and 8") and what the tables need holds of the
digits, and that they still are the scalar. The tables of `precomp_data.h` are read as the multiples they hold. `Ed25519Keys`
has the whole interface; the wallet itself calls only `ed25519_create_keypair`.

### Derivation

`Sha512Stream` is the buffering of `sha512_update` and `sha512_final`. `Sha512Compress` turns its
eight registers by renaming, as the macro does, over words of a few bits through all eighty rounds;
`Sha512Rounds` writes them as the standard does. `KeyDerivation` is a term model: a buffer holds a
term (`Sha512(t)`, `Left(t)`, ...), the lengths are real, and a function's wipes, aliases (the child's output over its parent) and truncations are those of the
code. Every buffer the functions of `wallet_core.cpp` declare from HMAC to the address has a cell:
the hashed long key, the key block and both pads, the inner digest, PBKDF2's salt, `U` and `T`, the
chain codes and the child's data, both halves of the keypair; each is live between the statements that
fill and wipe it. The insides of the hash and curve libraries have none, so `TemporariesWiped` does not
speak of them. `Sha512` stands for `wc_sha512`, which on the device is mbedtls; the vendored `sha512.c` of
`Sha512Stream` and `Sha512Compress` serves the curve library.

HMAC's refusal (more than 240 bytes of data) is unreachable from its callers, who ignore its
result: the salt is at most 75 bytes, the other messages 37 and 64. `Mnemonic` packs indices bit by bit
and writes words letter by letter into the buffer that `parseMnemonicWords` then splits. `Base58`
makes the digit passes. `wc_base58_encode` admits 40 bytes, whose 55 digits exceed `tmp[50]`; its
only caller passes 32, which need 44, so the property speaks of the length passed. `wc_solana_address`
ignores the encoder's result; the capacity it is called with always suffices, which is checked.
`Nfkd` is the path of `utf8proc` that `wc_nfkd` takes, over real code points and real bytes; the
tables of `utf8proc_data.inc` are parameters, of which `MCWalletCreation` gives TLC a few entries. The
normal form it is compared with inserts each mark behind the last one of no higher class, which is
what Unicode asks for and not what the loop of the code does.

## Runs

Distinct states are those TLC reports with the bounds given.

| Run | Checks | Shows |
|---|---|---|
| `keyboard` (100 179 distinct states) | `TypeOK`, `StatsFresh`, `ExtractorAgrees`, `ScreenMatchesMode`, `ModesExclusive`, `WalletImmutable`, `SecretsLockRolls`, `OneRollPerPress`, `QuizPressesSeparate` | Two keys at a time in any order never turn one press into two effects; gate and extractor agree; with healthy radios a wallet stays locked with its rolls until clear-all. |
| `hybrid_faults` (108 905) | `WalletMatchesTranscript`, `ResultsAgree`, `BackupGate`, `SampleFromThisRun` | Rebuilds and failures at every point never mix two wallets. |
| `raw_reports` (320 776) | `ReportTruthful`, `ClearedIsTruthful`, `AddressWrittenAfterQuiz`, `ImplementsLifecycle` | The report and the messages about it are right, as far as the card can be believed, with cards that are absent, pulled, failing or denying a file, and across power cycles; the whole device implements `WalletLifecycle`. |
| `core_calls` (290 817) | `TypesOK`, `PositionsSound`, `Returns`, `ImplementsRawCall`, `TypingExplained` | Every hash of four bytes over six values, every transcript of up to six rolls, every way three keys overlap. |
| `ed25519` (44 058) | `FieldSound`, `ScalarSound`, `OperandsSound`, `GroupSound`, `KeysSound`, `ImplementsField` | Chains of field operations on unreduced operands; both exponent chains; scalars around multiples of the order; every scalar of seven bits recoded; the scalar multiplications, digit by digit, and keys and signatures of the small curve. |
| `wallet_creation` (903 460) | `VerdictExact`, `LocalsWiped`, `NeverMixed`, `KeepsLifecycle` of the build; `StreamSound`, `AddressIsDerived`, `TemporariesWiped`, `PhraseSound`, `Base58Sound`, `NfkdSound`, `ImplementsFips`, `NfkdReturns` of what it calls | Every sample of nine bytes over two values, every failing exit, over every wallet and report found, power lost after any statement; and every step from entropy to address, with messages, keys and buffers at the lengths where the code changes its path. |

A property of a composed run may be a conjunction of named parts, one per function: `TypesOK` is
`TypeOK`, `RawTypeOK`, `AccFits` and `KeysTypeOK`; `TypingExplained` is `OneLetterPerPress` and
`DropsExplained`; `PositionsSound` is `FourPositions` and `HashOrder`; `NeverMixed` is `BuildIsAtomic` and `SampleBesideItsFingerprint`; `FieldSound` is
`LimbsBounded`, `CanonicalBytes` and `PowersExact`; `ScalarSound` is `ScalarPreserved` and
`ScalarReduced`; `OperandsSound` is `RecodingExact` and `OperandsFit`; `GroupSound` is `BaseWindows`, `DoubleBits`
and `UnpackExact`; `KeysSound` is `HalvesAgree` and `SignaturesVerify`; `StreamSound` is `CompressesPadded` and
`NothingLost`; `AddressIsDerived` is `SeedIsPbkdf2` and `KeyIsDerived`; `PhraseSound` is
`WordsAreTheEntropy` and `PhraseFits`; `Base58Sound` is `Base58Exact` and `Base58Fits`; `NfkdSound`
is `NfkdWhole` and `BufferHolds`.

The remaining six runs each end in a violation, described under Findings.

**Bounds.** The die has two faces: a pair can be equal, rising or falling, which is all the
extractors distinguish (three in `core_calls`). `NeedBits`, `NeedEntries` and `MaxRolls` are 1 to 5,
so that the gate is passed, missed by one, and the buffer is full (in `keyboard` five rolls hold two
pairs and an odd one). Words have one or two letters, differ between wallets and positions, and
share letters with the commands (a pages, y confirms), so a letter that leaks from the check into a
command or back shows. Two or three words of which two are asked distinguish the first, a middle and
the last step. One page of words gives pages before, on and after it. `MaxChord` is 1 except in
`keyboard`, where it is 2: the branch `loop()` takes for three keys is one it also takes for two of
them. In `keyboard` the card is never opened, so that its outcomes do not multiply the key
sequences; `raw_reports` has them all. `SecretsLockRolls` is checked in Von Neumann mode because in the other modes the cap on
entries refuses a roll anyway.

In `core_calls` four bytes over four words give hashes that supply none, some or all of the remaining
positions; the raw numbers keep the inequalities of the real ones (`3*64 < 3^5 < 4*64`, as `5*2^256
< 6^100 < 6*2^256`), stated as `RawAssumption`; three keys, a poll that holds two and a buffer of two
reach every limit of `wc_key_edges`. In the build of `wallet_creation` the three limits of the health tests (4, 6, 3)
differ and the sample is long enough for each fault to occur alone.

In `ed25519` four limbs of 4 and 3 bits with a fold by 3 stand for ten of 26 and 25 with a fold by
19: a first, a last and inner limbs of either width, and a prime `2^14 - 3`; the inputs exceed the
prime and alternate bits. Scalars have four limbs of three bits, and the inputs are multiples of the
order and their neighbours, where a lost carry or one subtraction too few shows; `-delta` has two
digits there, one of each sign. The curve is over
101 with a base point of order 13; four windows of two bits give a carry into, through and out of a
window, and the sliding recoding has a reach of 6 and digits up to 15, the real values.

In the derivation of `wallet_creation` a block is six bytes and its length field starts at byte 4, so that one and two
padding blocks both occur; compression runs all eighty rounds over 8-bit words; PBKDF2 has four
rounds; mnemonics, passphrases and seeds have the lengths 0, one below, at and above a block, and
the longest the buffers take. Two bytes of entropy with three-bit indices put an index inside a byte
and over a border, words have one to three letters; a second phrase follows the first into the same
buffer. Base58 converts base 4 to base 3. Texts have at most three code points, in buffers of 0, 6
and 40 bytes.

**Fairness.** `DiceWallet` has none and claims no liveness: nothing obliges a user to press a key.
`CoreCalls` has `WF(OneQuiz)` and `WF(OneRaw)` but none for polls, `BuildSpec` of `WalletBuild` has
`WF(BuildStep)` but none for `PowerLoss`, `Derivation` and `WalletCreation` have
`WF(OneNfkd)`: a running function that waits for nothing goes on to its next statement. `Ed25519` has none; its calls are bounded by how they are written.
The functions stop when they have returned, hence `CHECK_DEADLOCK FALSE`; `Returns`, `NfkdReturns`
and the fairness of `RawCall` say that they do not stop before that.

## Findings

Each is a run with one property that quotes the repository and that TLC finds violated.

| Run | What the code does | What the repository says |
|---|---|---|
| `regenerate` | Enter on the fingerprint page of a finished hybrid wallet derives another one (`main.cpp:753`) | "immutable until explicit clear-all" (`main.cpp:590`) |
| `failed_rebuild` | a repeated build whose radio check fails drops `hasHash` and leaves the words; rolls are then accepted (`main.cpp:420`) | "once generated secrets exist, dice input remains locked" (`wallet_core.h:103`) |
| `empty_quiz` | after a blocked build the backup check over an empty mnemonic passes with Enter alone (`main.cpp:724`) | words "must be typed back correctly" (`README.md:29`) |
| `armed_chord` | a die key held together with Y becomes a roll right after the clear (`main.cpp:629`) | "while clear is armed, all other input is ignored" (`README.md:100`) |
| `overlapping_keys` | a second letter pressed while the first is held is typed (`wallet_core.cpp:150`) | "overlapping/chorded keys are rejected with an explicit warning" (`README.md:15`) |
| `swallowed_letter` | a letter that rises with Enter or Del, or finds the buffer full, is dropped without a word (`main.cpp:551-582`) | "never silently merged or dropped" (`README.md:15`), "rejected visibly" (`SECURITY.md:35`) |

Two single steps differ from the documents too and have no run. Radios that could not be verified off
at boot block nothing later, builds ask the drivers anew (`main.cpp:659`; "Any failed verification ...
blocks generation", `SECURITY.md:67`). And a lookup that fails on a mounted card is taken for no
report, so that `cleared` is shown with the report left (`main.cpp:613`; "clear-all deletes the file",
`README.md:32`); `ClearedIsTruthful` excepts this case by the name `denied`, and no other.

`SecretsLockRolls` and `WalletImmutable` therefore hold only on a device whose checks never fail,
and the second only without hybrid mode; the passing run `keyboard` and two theorems say exactly
that. `WalletMatchesTranscript` holds in every mode with every failure: although the rolls may be
edited under old words, the device no longer claims a wallet then.

## Proofs

All theorems are of the form `Spec => ...` for every value of the constants that satisfies the
assumption named in the module that declares them. Most only give types and positive sizes. The
others state what the firmware's numbers do:

- `MnemonicAssumption` of `DiceWallet`: words are non-empty sequences of letters, the challenge is a
  sequence of distinct positions. `EarliestPositions` and `DistinctPositions` are why.
- `QuizAssumption`: no more words are asked than there are. `BuildAssumption`: the markers for an old
  wallet are no samples.
- `RawAssumption`: `5*2^256 < 6^100 < 6*2^256`, as the comment in `wc_raw_extract` has it.
- `StreamAssumption`: the length field lies inside a block (112 <= 120 < 128).
- `Base58Assumption`: `256^n <= 58^50` for every length passed, and `256^32 <= 58^44`, one place
  short of the address buffer.
- `MnemonicAssumption` of `Mnemonic`: the bits divide evenly into indices (`264 = 24*11`).
- `FieldAssumption`: an even number of limbs, the odd ones a bit narrower; `PrimeAssumption`:
  `19 < 2^255`. That the modulus is a prime is not needed.
- `TableAssumption` of `Nfkd`: decompositions consist of code points that are no surrogates and not
  NUL, and following them ends: every set of characters that decompose has one none of whose parts
  is in the set. `NfkdAssumption`: a combining class that is listed is not 0.
- `ScalarAssumption`: an even number of limbs, at least four, and a positive order.
- `CurveAssumption`: the base point's order is at most `2^(SlideBits-3)`, as `2^252 + ...` is at most
  `2^253`; an even number of windows; the largest digit of `slide` is odd. What it and
  `BaseAssumption` say of the curve itself is not used in a proof.

Two hypotheses are no assumptions of a module, because the small instance of TLC does not satisfy
them (with limbs of three bits the carries are no smaller than the limbs; TLC finds the properties
true there all the same, with bounds chosen for that instance):

- `ScalarsFit` of `CurveProofs`: the digits of `-delta` lie within half a limb on either side, the
  order is at least `2^252`, and the carries the last folding leaves are small against a limb.
  `CodeScalarsFit` shows it of the numbers in `sc.c`.
- `FieldFits` of `FieldBoundProofs`: there is room for the carries, a product of two odd limbs counted twice is no more
  than one of two even ones, what is left after each kind of carrying is within `EvenBound` and
  `OddBound`, and two elements and two ones are below twice their place. `CodeFieldFits` shows it of
  ten limbs of 26 and 25 bits with the bounds of the comments of `fe.c`, `1.1*2^25` and `1.1*2^24`.

So neither is empty, and `CodeReduces` and `CodeFieldSound` draw the conclusions for the code.

### Main loop

| Theorem | Property | Invariant that carries it |
|---|---|---|
| `TypeCorrect`, `ModesNeverOverlap` | `TypeOK`, `ModesExclusive` | the two together: `quizPos[quizStep]` is in range only because an active check has a word left, and `quizStep` grows only within the type |
| `ResultsOfOneWallet` | `ResultsAgree` | `OneWallet`: also without a fingerprint, words and address belong together; a blocked build wipes only the fingerprint |
| `WalletOfItsRolls` | `WalletMatchesTranscript` | also: no wallet is claimed at the boot menu, the only place the mode changes |
| `BackupNeedsEveryWord` | `BackupGate` | `QuizProgress`: while the check runs, exactly the first `quizStep` challenged words were typed |
| `AuditPageTruthful`, `SampleOfThisRun` | `ReportTruthful`, `SampleFromThisRun` | `ReportInv`: the sample in memory belongs to the fingerprint in memory, so a record written at any time is of one build |
| `AddressOnlyAfterQuiz` | `AddressWrittenAfterQuiz` | `QuizProgress` and `OneWallet` at the three steps that write |
| `ClearedMeansGone` | `ClearedIsTruthful` | itself, for every answer of `exists` and `remove`; every handler that changes a wallet or a record repaints the status line |
| `HealthyDeviceLocksRolls` | `SecretsLockRolls` | `LockHolds`, assuming no failing radio or HWRNG check: words in memory imply `hasHash`, and the assessment that made the wallet still holds, so no rebuild is blocked |
| `HealthyDeviceKeepsWallet` | `WalletImmutable` | `LockHolds`, assuming also no hybrid mode: a rebuild derives the same entropy |
| `OnePressOneRoll`, `QuizPressesKeptApart` | `OneRollPerPress`, `QuizPressesSeparate` | `PressesGated`: a press that has had its effect keeps one of the two gates shut |
| `ScreenIsOfTheMode`, `StatsNeverStale` | `ScreenMatchesMode`, `StatsFresh` | `ScreenInv` |
| `GateAndExtractorAgree`, `NeverTooFewBits` | `ExtractorAgrees` | `ScreenInv` (the cached statistic is that of the buffer) and a lemma that the two ways of counting unequal pairs agree, by induction over the transcript |
| `ActsAsLifecycle` | `ImplementsLifecycle` | `OneWallet`: wallet, verdict and record are those of one wallet, so every step is an abstract one or leaves all three |

### Builds and the calls below them

| Theorem | Property | Invariant that carries it |
|---|---|---|
| `Verdict`, `VerdictInBuild` | `VerdictExact` | `VerdictInv`: after `i` bytes the counters are the occurrences in that prefix, `run` is the length of the run it ends in, and `unhealthy` says whether the prefix or a cycle length already tried shows a fault; that stopping at the first cycle found loses none |
| `StuckSource` | `StuckSourceRejected` | every cycle length already tried does not repeat, so a sample of equal blocks, which repeats with the block's length, is not accepted (assuming the cycle search reaches that length, 32 <= 32) |
| `NothingLeft` | `CleanReturn` | where the blocks, their copy and the counts may be live: the copy from `Assemble` to either exit, the counts until `WipeCounts`; a digest exists exactly after a passed test |
| `EveryExitWipes` | `LocalsWiped` | `WipeInv`: which temporaries, those of the functions called included, may be live at each statement, so that each exit's wipes are those of the statement it leaves from |
| `NothingMixed` | `NeverMixed` | `BuildInv`: which globals are still the old ones at each statement (`GenInv`), what the HWRNG call has left (`CallInv`), that words and address come from the same entropy (`WordsInv`), and that each line on the card or waiting for it is of this build (`CardInv`) |
| `BuildKeepsLifecycle` | `KeepsLifecycle` | the same, with `OldInv`: what was there before the build was a wallet of its own |
| `NoArrayOverrun` | `TypesOK` | `IInv`, `RawInv` and `KeysInv`. That `acc` never outgrows its 33 bytes is no matter of types: it holds a number below `6^100`, so `RawInv` must say which number |
| `AnswersAreExact` | the safety part of `ImplementsRawCall` | `HoldsDigits` in `RawInv`: the bytes the current digit has passed, its carry and the bytes it has still to pass together make the number of the digits taken in |
| `DistinctPositions`, `EarliestPositions` | `Distinct`, `PositionsSound` | every position the fallback has passed is taken; `WordCount` distinct positions are at least `QuizWords`; `OrderInv`: the values looked at so far, bytes first and then the fallback, begin with exactly the positions taken, and a value was skipped only if it was among them |
| `TypingIsExplained` | `TypingExplained` | `KeysInv`: as long as no key was left out of a poll and shift stood still, the presses answered are those whose characters the poll before saw. The ways to lose a letter are those of `DropsExplained`; the theorem does not say there are none |

### From entropy to address

| Theorem | Property | Invariant that carries it |
|---|---|---|
| `MessageIsPadded` | `StreamSound` | `OpenInv`: what was compressed and what waits in the buffer is the message so far; `PaddingInv`: behind the mark, the same with as many zeros as make the lengths add up |
| `InPlaceRounds` | `ImplementsFips` | `CompressInv`; the mapping turns the eight names back by the round's number, so writing `d` and `h` in place is the round that moves all eight. The schedule is shown to satisfy the recursion of the standard |
| `NothingOnTheStack` | `TemporariesWiped` | between which two statements each buffer of the derivation, HMAC's pads and the keypair's private half included, may hold key material, with buffers aliased or not |
| `AddressFromWords` | `AddressIsDerived` | `DerivedInv`: what each caller on the way down has in its buffers when its callee returns; in the PBKDF2 loop, `U` is the last iterate and `T` the XOR of all so far |
| `PhraseIsTheWallet` | `PhraseSound` | `PhraseInv`: word `w` begins behind the words in front of it with a separator each, the buffer holds those written (`Holds`), and the parser stands inside the word whose offsets it fills next (`Cut`), whatever was in the buffer before |
| `AddressIsTheKey` | `Base58Sound` | `InDivision`: the input is the number of what remains of `buf` followed by the digits in `tmp`, the bytes in front of `start` are zero, and the highest digit found is not |
| `NormalFormOrRefusal` | `NfkdSound` | `NfkdInv`: behind `k` characters read, `rpos` is the length of their bytes and `wpos` that of what they are made of, in the first pass as in the second, so the second stops where the buffer ends; while the loop orders, the order it works towards does not change (`ExchangeKeepsOrder`, from `MarksCommute`: marks of different classes can be inserted in either order) and all pairs below `pos` are in order, so at the end that order is the buffer (`InOrder`); what is written over the buffer is the UTF-8 of the code points read. Decoding is shown to invert UTF-8 for every code point (`Decodes`) and to stop at each kind of malformed sequence (`NotDecoded`) |

### Curve library

| Theorem | Property | Argument |
|---|---|---|
| `LimbsAreElements` | `ImplementsField` | `FieldTyped`, and one congruence per function. A product of two limbs belongs at the sum of their places, a bit higher if both are odd, `FoldBy` times lower past the top; `fe_sq` writes the mixed products once and doubles them. Every carry leaves the element as it is, whatever its rounding, the last one because it enters limb 0 times `FoldBy`. `fe_cmov` is a move or nothing also where its operands are one register. `fe_tobytes` subtracts a multiple of the prime, so loading its bytes back gives the element stored; that the bytes are the canonical ones is a matter of bounds and follows in `FieldIsBounded` |
| `FieldIsBounded`, `LibraryFieldSound`, `CodeFieldSound` | `FieldSound` | `FieldBounded`: the limbs of a register are within `Bound(i) * terms + ones`. A column of a product has `Limbs` products of at most `FoldBy` times three elements squared; either order of carries visits every limb, after its last visit a limb is half a limb at most plus the one small carry that still enters it, and that is within the bound (`Settles`). In `fe_tobytes` the top limb's carry, rounded, is near enough to the number divided by the prime that the chain of floors ends in exactly that quotient; then what the floored carries leave are digits below the prime, which are unique. With the widths of the code every limb and its multiples by 2, 19 and 38 fit `int32_t` and every column of a product, doubled, `int64_t` (`TypesHold`), so `Int` stands for them rightly |
| `PowersAreExact` | `PowersExact` in `FieldSound` | `PowersInv`: after each statement the registers hold the digits of the exponents the statements so far amount to, a difference of two powers of two for each run of squarings. `Sum2` adds the numbers its digits stand for, so this holds for digits of any width of at least five bits |
| `ScalarIsPreserved` | `ScalarPreserved` in `ScalarSound` | `ScalarInv`: the vector stands for the argument modulo the order. The loads telescope, the product by columns is the product by rows, a carry moves what it takes, a fold loses a multiple of the order, and the passes only ever name limbs the vector has |
| `ScalarIsReduced`, `LibraryScalarSound`, `CodeReduces` | `ScalarSound`, of which the first states `ScalarReduced` | `ScalarGrip`: `ScalarInv` and, before each of the nine passes, how large each limb may be and which are zero already (`Before1` .. `Before9`, `AtTheEnd`). A rounding pass leaves half a limb and what the one carry behind it adds; a folding pass adds up to `Quarter` multiples of such limbs; the first flooring leaves digits, and above them a limb that is -1 or 0, since the number lies between `-2^252` and `2^252`; folding it once more leaves a number from 0 to below the order, and the digits of such a number are all that is left. The bounds also show that no limb leaves `int64_t` between the passes (`LibraryStaysNarrow`), so `Int` stands for it rightly |
| `RecodingIsExact`, `LibraryRecodes` | `RecodingExact` in `OperandsSound` | Of the windows (`WindowsExact`): the digits below `i` and what is left of the scalar with the borrow stand for the scalar; a digit and its borrow are at most one window, so they stay within half a window on either side; the last one needs no borrow because the scalar's highest bit is clear. Of `slide`: `Sliding` says that the digits below `i` are settled, bits follow, they stand for the scalar, and what is settled is no less than `-2^j` wherever a bit `j` is still to come. Inside a step (`TakingIn`) the digit is positive and below the next weight, with zeros where it took bits in, or it was made negative `c` places above, and then no further bit fits either way. The carry never runs off the array (`ZeroAbove`): with ones up to the end the digits would stand for at least `2^(SlideBits-1)`, and a scalar is below `2^(SlideBits-3)`; this uses that what is settled is not too negative |
| `OperandsAlwaysFit`, `LibraryOperandsSound` | `OperandsSound`, of which the first states `OperandsFit` | `PointInv`, with `RecodingExact`: the coordinates of the point sum up one reduced element each, those of a cached multiple two at most, an addition or a doubling makes three at most (`Doubling`, `PointsMeeting`) and the next conversion multiplies them down to one; the digits index entries the tables have |
| `LibraryComputes` | `ImplementsField`, `ScalarPreserved` | the specification TLC runs, in which a behaviour exercises one layer |

Each step lemma has one case per action; `WalletSteps` and `ReportSteps` first sort the actions
into those that touch the wallet or the report and those that do not, so later proofs treat only
the former. `WalletBuildProofs` cites the step lemmas for the health tests once for all of its own
statements, which leave the generator alone.

What a loop computes over all inputs needs induction over data. `InductionLemmas` states induction
about the set of numbers for which a fact holds (`Upwards`), that a function defined step by step
exists (`StepwiseFunction`), and for the numbers digits stand for: that they exist and are unique
(`LinearRecursion`, `LinearIsOne`), how a digit in front or behind changes them, how large they are,
and that groups of digits are digits of a larger base (`Grouped`, why eleven-bit indices and
eight-bit bytes of the same bits are one number). For the limbs it has sums over an index (split,
exchanged, shifted, rotated: `SumShifted`, `SumRotated`) and what is kept modulo a number
(`Congruent`, `SameRest`). Recursive definitions are functions throughout.

**Only model-checked.** `GroupSound` and `KeysSound`: that the formulas of `ge.c` add points, and
that adding points is associative, is algebra over a field with the prime and the order as they are, and the provers
have none; what these properties say of digits and operand sizes beside it is proved
(`OperandsSound`). `Returns`, `NfkdReturns` and the fairness of `RawCall` are liveness. What the constants of SHA-512
are does not enter `InPlaceRounds`: both sides read the same table. The findings are
counterexamples and come from TLC.

## Not modelled

- SHA-256, mbedtls's SHA-512 on the device, the word list's words and the numbers of `precomp_data.h`: data, read as what they stand for.
- What is only drawn: face counts, ties, streaks and their warnings, the battery gauge, layout.
- The driver calls inside `disableRadios`: only its verdict is read by anybody.
- The clock. Two debounce tests read it (`main.cpp:714` and the release); they are a choice of
  verdict. That the unsigned difference survives the wrap of `millis()`, and that the first presses
  after boot are debounced against 0, is not covered by a property.
- Clear-all without a card: the report is out of reach and the device says so or not depending on
  `sdOK`; what it says is checked where the card is in (`ClearedIsTruthful`), a card
  that returns later with its old report is not.
- The options of `utf8proc` that `wc_nfkd` does not set (composition, case folding, grapheme
  boundaries). `wc_nfkd` itself is called by tests only; the firmware's passphrase is empty.
- `ed25519_create_seed` (reads a file of the host) and `wc_ct_equal` (a comparison without branches,
  whose point is time).
- The null-pointer checks of the C interfaces: every caller in the firmware passes its own buffers.
- The host tests, the tools and CI.

## Plan

1. *(done)* The main loop as one module, its runs, its proofs; the functions it relies on.
2. *(done)* `KeyEdges`; `WalletBuild` with power loss; `WalletLifecycle` and its two refinements.
3. *(done)* The chain from entropy to address, and the curve library, layer by layer.
4. *(done)* Proofs of both refinements of `WalletLifecycle`, of the typing for any number of keys, of
   the array bounds and the answer of the raw extraction, of the verdict on samples, of the chain
   from entropy to address, of NFKD for every table, and of the arithmetic of field and scalars for
   every number of limbs.
5. *(done)* From the widths: the size of the reduced scalar, the bounds of an element's limbs, the
   canonical bytes.
6. *(done)* That the digit recodings of `Edwards` keep the scalar, and that operands fit.
