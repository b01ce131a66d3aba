---------------------------- MODULE DiceWallet ----------------------------
(***************************************************************************)
(* The firmware's main loop (src/main.cpp).  loop() polls the keyboard and *)
(* runs at most one handler per poll; every action below is one poll, with *)
(* all the handler does, or an event of the environment (power, SD card).  *)
(*                                                                         *)
(* Between two polls the keys that are down may change in any way, so the  *)
(* keyboard is not state: each poll reads an arbitrary key set.  The clock *)
(* is abstracted to the verdict of its two debounce tests, each reading of *)
(* the radios to its verdict, each SD access to its outcome.               *)
(*                                                                         *)
(* A wallet is identified by the 32 bytes of entropy it is derived from:   *)
(* mnemonic, address and entropyHex (the audit fingerprint) hold the       *)
(* entropy they were computed from, or NoWallet when the buffer is wiped.  *)
(***************************************************************************)
EXTENDS DiceExtract, SequencesExt

CONSTANTS
  Modes,                \* the modes that can be chosen, of the three
  Chars,                \* character codes the keyboard can report
  MaxChord,             \* bound: characters in one poll of the keyboard
  HwDigests,            \* outputs of wc_platform_hwrng_digest, positive
  WordCount,            \* words in a mnemonic (24)
  QuizWords,            \* words the backup check asks for (4)
  QuizBufCap,           \* letters quizBuf can hold (11)
  PAGE_MNEMONIC_COUNT,  \* result pages that show the words (4)
  RadioVerdicts,        \* what verifyRadios() may return after boot
  SelfTests,            \* what setup() may find: radios verified off, a card in
                        \* the slot, the card mounted
  SdOutcomes,           \* how an attempt to write the report may end
  HwrngMayFail,         \* whether the HWRNG health check may fail
  CardRemovable,        \* whether the SD card can be pulled while powered
  Word(_, _),           \* Word(w, p): the letters of word p of wallet w
  Challenge(_)          \* wc_quiz_positions of the fingerprint of wallet w

VARIABLES
  modeSelect, modeCursor, entropyMode,        \* boot menu
  rolls, vnBits,                              \* transcript, cached statistic
  hasHash, entropyHex, mnemonic, address,     \* result of buildWallet
  hwSample, wordLen, quizPos,
  backupVerified, quizActive, quizStep, quizBuf,
  typeMask, prevEnterK, prevDelK,             \* key edges in the backup check
  waitingRelease, inputAwaitRelease,          \* press-release gates
  showingResult, resultPage, clearArmed,      \* user interface
  statusLine, drawnScreen,
  radiosOffOK, sdOK, lastReportOK,
  card,    \* an SD card is in the slot
  report,  \* <<>> if report.txt does not exist, else <<its last record>>
  denied,  \* observer: SD.exists() denied a report that the last clear-all left
  press,   \* observer: what the current key press has done
  typed    \* observer: challenged positions answered with their word

menuVars   == <<modeSelect, modeCursor, entropyMode>>
resultVars == <<hasHash, entropyHex, mnemonic, address, hwSample, wordLen, quizPos>>
quizVars   == <<backupVerified, quizActive, quizStep, quizBuf, typed>>
edgeVars   == <<typeMask, prevEnterK, prevDelK>>
screenVars == <<showingResult, statusLine, drawnScreen, vnBits>>
pageVars   == <<resultPage, clearArmed>>
reportVars == <<lastReportOK, report, denied>>
hwVars     == <<radiosOffOK, sdOK, card>>
vars == <<menuVars, rolls, resultVars, quizVars, edgeVars, waitingRelease,
          inputAwaitRelease, screenVars, pageVars, reportVars, hwVars, press>>

NoWallet == <<>>
NoSample == 0
Nul == 0

\* The result pages, in the order of the PAGE_ constants.
PAGE_FINGERPRINT == 0
MnemonicPages == 1 .. PAGE_MNEMONIC_COUNT
PAGE_ADDRESS == 1 + PAGE_MNEMONIC_COUNT
PAGE_SANITY == 2 + PAGE_MNEMONIC_COUNT
PAGE_COUNT == 4 + PAGE_MNEMONIC_COUNT

Lower == 97 .. 122
Upper == 65 .. 90
DieChars == {48 + f : f \in Face}
PrevChars == {119, 97, 87, 65, 59, 44}    \* w a W A ; ,
NextChars == {115, 100, 83, 68, 46, 47}   \* s d S D . /
YesChars == {121, 89}                     \* y Y
NoChars == {110, 78}                      \* n N
EscChar == 96

\* What one poll can read while at least one key is down (a key that is
\* neither a character nor Enter nor Del leaves the record empty).
KeyStates == {k \in [word : SUBSET Chars, enter : BOOLEAN, del : BOOLEAN] :
                Cardinality(k.word) <= MaxChord}

ModeNames == <<"VN", "RAW", "HYBRID">>

\* The entropy of a build: hybrid mode combines the conditioned HWRNG value
\* with the digest of the transcript.
Entropy(m, r, h) ==
  CASE m = "VN" -> VnExtract(r)
    [] m = "RAW" -> <<RawExtract(r)>>
    [] m = "HYBRID" -> <<h>> \o r

Entropies ==
  {Entropy(m, r, h) : m \in Modes, r \in Transcripts, h \in HwDigests} \ {NoWallet}

Positions == 0 .. WordCount - 1
Steps == 0 .. QuizWords - 1
Challenged == {quizPos[s] : s \in Steps}

ASSUME WalletAssumption ==
  /\ Modes \subseteq {"VN", "RAW", "HYBRID"}
  /\ Chars \subseteq 32 .. 126
  /\ HwDigests \subseteq Nat \ {NoSample}
  /\ {WordCount, QuizWords, QuizBufCap, PAGE_MNEMONIC_COUNT, MaxChord} \subseteq Nat \ {0}
  /\ RadioVerdicts \subseteq BOOLEAN
  /\ SelfTests \subseteq [radios : BOOLEAN, card : BOOLEAN, mounted : BOOLEAN]
  /\ \A t \in SelfTests : t.mounted => t.card
  /\ SdOutcomes \subseteq {"unopened", "failed", "ok"}
  /\ HwrngMayFail \in BOOLEAN
  /\ CardRemovable \in BOOLEAN

\* Every word has letters only, and the challenge asks for distinct words.
ASSUME MnemonicAssumption ==
  \A w \in Entropies :
    /\ \A p \in Positions : Word(w, p) \in Seq(Lower) \ {<<>>}
    /\ Challenge(w) \in [Steps -> Positions]
    /\ \A s, t \in Steps : s # t => Challenge(w)[s] # Challenge(w)[t]

-----------------------------------------------------------------------------
(* Drawing a screen also refreshes state.                                   *)

\* Mutants of DrawMain: the statistics are not recomputed; the result pages
\* stay the ones that are decoded.
DrawMainStale(status) ==
  /\ showingResult' = FALSE
  /\ drawnScreen' = "main"
  /\ statusLine' = status
  /\ UNCHANGED vnBits

DrawMainOverResult(status) ==
  /\ drawnScreen' = "main"
  /\ statusLine' = status
  /\ vnBits' = VnBits(rolls')
  /\ UNCHANGED showingResult

DrawMain(status) ==
  /\ showingResult' = FALSE
  /\ drawnScreen' = "main"
  /\ statusLine' = status
  /\ vnBits' = VnBits(rolls')

DrawResult(status) ==
  /\ showingResult' = TRUE
  /\ drawnScreen' = "result"
  /\ statusLine' = status
  /\ vnBits' = VnBits(rolls')

DrawQuiz(status) ==
  /\ drawnScreen' = "quiz"
  /\ statusLine' = status
  /\ UNCHANGED <<showingResult, vnBits>>

EdgeReset == typeMask' = {} /\ prevEnterK' = FALSE /\ prevDelK' = FALSE

EntropyReady(bits) ==
  IF entropyMode = "VN" THEN bits >= NeedBits ELSE Len(rolls) = NeedEntries

\* assessmentOK recomputes the statistics before it judges them.
AssessmentOK ==
  /\ EntropyReady(VnBits(rolls))
  /\ entropyMode = "RAW" => ~RawRejected(rolls)

\* writeReport appends one record, built from the state the handler leaves.
\* A write error is seen after the lines went out, so the record may be there.
\* Mutant of AddressShown: not gated on the backup check.
AddressAlways == address'

AddressShown == IF backupVerified' THEN address' ELSE NoWallet

\* Mutant of ReportVerdict: the verdict of the record before is not reset.
ReportVerdictSticky(outcome) == outcome = "ok" \/ lastReportOK

ReportVerdict(outcome) == outcome = "ok"

WriteReport(sanity, outcome) ==
  /\ outcome # "unopened" => sdOK /\ card
  /\ lastReportOK' = ReportVerdict(outcome)
  /\ UNCHANGED denied
  /\ report' = IF outcome = "unopened" THEN report
               ELSE <<[sanity |-> sanity, fingerprint |-> entropyHex',
                       address |-> AddressShown, verified |-> backupVerified',
                       sample |-> IF entropyMode = "HYBRID" THEN hwSample' ELSE NoSample]>>

-----------------------------------------------------------------------------
(* Power and environment.                                                   *)

NoWordLen == [p \in Positions |-> 0]
NoQuizPos == [s \in Steps |-> 0]

\* RAM after setup(), before the first poll.
Init ==
  /\ modeSelect = TRUE /\ modeCursor = 0 /\ entropyMode = "VN"
  /\ rolls = <<>>
  /\ hasHash = FALSE /\ entropyHex = NoWallet /\ mnemonic = NoWallet /\ address = NoWallet
  /\ hwSample = NoSample /\ wordLen = NoWordLen /\ quizPos = NoQuizPos
  /\ backupVerified = FALSE /\ quizActive = FALSE /\ quizStep = 0 /\ quizBuf = <<>>
  /\ typed = {}
  /\ typeMask = {} /\ prevEnterK = FALSE /\ prevDelK = FALSE
  /\ waitingRelease = FALSE /\ inputAwaitRelease = FALSE
  /\ showingResult = FALSE /\ statusLine = "info" /\ drawnScreen = "menu" /\ vnBits = 0
  /\ resultPage = PAGE_FINGERPRINT /\ clearArmed = FALSE
  /\ \E t \in SelfTests : radiosOffOK = t.radios /\ sdOK = t.mounted /\ card = t.card
  /\ lastReportOK = FALSE /\ report = <<>> /\ denied = FALSE
  /\ press = "up"

\* The device loses power and boots again; only the SD card remembers.
PowerCycle ==
  /\ modeSelect' = TRUE /\ modeCursor' = 0 /\ entropyMode' = "VN"
  /\ rolls' = <<>>
  /\ hasHash' = FALSE /\ entropyHex' = NoWallet /\ mnemonic' = NoWallet /\ address' = NoWallet
  /\ hwSample' = NoSample /\ wordLen' = NoWordLen /\ quizPos' = NoQuizPos
  /\ backupVerified' = FALSE /\ quizActive' = FALSE /\ quizStep' = 0 /\ quizBuf' = <<>>
  /\ typed' = {}
  /\ EdgeReset
  /\ waitingRelease' = FALSE /\ inputAwaitRelease' = FALSE
  /\ showingResult' = FALSE /\ statusLine' = "info" /\ drawnScreen' = "menu" /\ vnBits' = 0
  /\ resultPage' = PAGE_FINGERPRINT /\ clearArmed' = FALSE
  /\ \E t \in SelfTests : radiosOffOK' = t.radios /\ sdOK' = t.mounted /\ card' = t.card
  /\ lastReportOK' = FALSE /\ denied' = FALSE /\ UNCHANGED report
  /\ press' = "up"

CardPulled ==
  /\ CardRemovable /\ card
  /\ card' = FALSE
  /\ UNCHANGED <<menuVars, rolls, resultVars, quizVars, edgeVars, waitingRelease,
                 inputAwaitRelease, screenVars, pageVars, reportVars, radiosOffOK, sdOK, press>>

\* A poll that finds no key down.
Release ==
  /\ waitingRelease' = FALSE
  /\ inputAwaitRelease' = FALSE
  /\ EdgeReset
  /\ press' = "up"
  /\ UNCHANGED <<menuVars, rolls, resultVars, quizVars, screenVars, pageVars,
                 reportVars, hwVars>>

-----------------------------------------------------------------------------
(* The boot menu.  Arrow keys arrive as characters on this keyboard.        *)

PressHeld ==
  press' = IF press # "up" THEN press ELSE IF clearArmed THEN "armed" ELSE "down"

Back(ks) == ks.word \cap PrevChars # {}
Forward(ks) == ks.word \cap NextChars # {}

MenuFrame == UNCHANGED <<rolls, resultVars, quizVars, edgeVars, inputAwaitRelease,
                         pageVars, reportVars, hwVars>>

MenuPoll == modeSelect /\ ~waitingRelease /\ waitingRelease' = TRUE /\ PressHeld /\ MenuFrame

MenuMove(ks) ==
  /\ MenuPoll
  /\ Back(ks) \/ Forward(ks)
  /\ modeCursor' = (modeCursor + (IF Forward(ks) THEN 1 ELSE 2)) % 3
  /\ UNCHANGED <<modeSelect, entropyMode, screenVars>>

MenuChoose(ks) ==
  /\ MenuPoll
  /\ ~Back(ks) /\ ~Forward(ks) /\ ks.enter
  /\ ModeNames[modeCursor + 1] \in Modes
  /\ entropyMode' = ModeNames[modeCursor + 1]
  /\ modeSelect' = FALSE
  /\ DrawMain("info")
  /\ UNCHANGED modeCursor

MenuIgnore(ks) ==
  /\ MenuPoll
  /\ ~Back(ks) /\ ~Forward(ks) /\ ~ks.enter
  /\ UNCHANGED <<menuVars, screenVars>>

-----------------------------------------------------------------------------
(* The backup check (handleQuiz).  Every poll saves the keys it has seen,   *)
(* eight at most; Enter goes before Del, and Del before characters.         *)

WordCap == 8
TakenIn(ks) == {c \in ks.word : Cardinality({d \in ks.word : d <= c}) <= WordCap}

\* Mutant of QuizGate: the press that opened the check is not waited out.
QuizGateOpen == ~modeSelect /\ quizActive

QuizGate == ~modeSelect /\ quizActive /\ ~inputAwaitRelease

QuizPoll(ks) ==
  /\ QuizGate
  /\ typeMask' = TakenIn(ks) /\ prevEnterK' = ks.enter /\ prevDelK' = ks.del
  /\ UNCHANGED <<menuVars, rolls, resultVars, inputAwaitRelease, pageVars, hwVars>>

EnterEdge(ks) == ks.enter /\ ~prevEnterK
DelEdge(ks) == ks.del /\ ~prevDelK /\ ~EnterEdge(ks)
Added(ks) == IF EnterEdge(ks) \/ DelEdge(ks) THEN {} ELSE TakenIn(ks) \ typeMask

\* The bytes Enter compares with: the prompted word, or what the wiped
\* mnemonic buffer holds at the offset and length parsed last.
Expected ==
  LET pos == quizPos[quizStep]
  IN  IF mnemonic = NoWallet THEN [i \in 1 .. wordLen[pos] |-> Nul] ELSE Word(mnemonic, pos)

\* Mutant of Match: only the length is compared.
MatchLength == Len(quizBuf) = Len(Expected)

Match == quizBuf = Expected

\* Mutant of LastStep: one word too many.
LastStepLate == quizStep = QuizWords

LastStep == quizStep + 1 = QuizWords

\* The observer's own comparison: a word of the wallet, typed in full.
Remembered ==
  LET pos == quizPos[quizStep]
  IN  IF mnemonic # NoWallet /\ quizBuf = Word(mnemonic, pos) THEN typed \cup {pos} ELSE typed

QuizWrong(ks) ==
  /\ QuizPoll(ks) /\ PressHeld /\ EnterEdge(ks)
  /\ ~Match
  /\ quizStep' = 0 /\ quizBuf' = <<>> /\ typed' = {}
  /\ DrawQuiz("info")
  /\ UNCHANGED <<backupVerified, quizActive, waitingRelease, reportVars>>

QuizNext(ks) ==
  /\ QuizPoll(ks) /\ PressHeld /\ EnterEdge(ks)
  /\ Match /\ ~LastStep
  /\ quizStep' = quizStep + 1 /\ quizBuf' = <<>> /\ typed' = Remembered
  /\ DrawQuiz("info")
  /\ UNCHANGED <<backupVerified, quizActive, waitingRelease, reportVars>>

QuizPassed(ks) ==
  /\ QuizPoll(ks) /\ press' = "quiz ended" /\ EnterEdge(ks)
  /\ Match /\ LastStep
  /\ quizStep' = quizStep + 1 /\ quizBuf' = <<>> /\ typed' = Remembered
  /\ quizActive' = FALSE /\ backupVerified' = TRUE /\ waitingRelease' = TRUE
  /\ DrawResult("info")
  /\ \E outcome \in SdOutcomes : WriteReport(AssessmentOK, outcome)

QuizErase(ks) ==
  /\ QuizPoll(ks) /\ PressHeld /\ DelEdge(ks)
  /\ quizBuf # <<>>
  /\ quizBuf' = Front(quizBuf)
  /\ DrawQuiz("info")
  /\ UNCHANGED <<backupVerified, quizActive, quizStep, typed, waitingRelease, reportVars>>

QuizCancel(ks) ==
  /\ QuizPoll(ks) /\ press' = "quiz ended" /\ DelEdge(ks)
  /\ quizBuf = <<>>
  /\ quizActive' = FALSE /\ waitingRelease' = TRUE
  /\ DrawResult("info")
  /\ UNCHANGED <<backupVerified, quizStep, quizBuf, typed, reportVars>>

\* One key more than at the last poll: a letter is appended in lower case
\* while there is room, any other character is dropped.
ToLower(c) == IF c \in Upper THEN c + 32 ELSE c

\* Mutant of Appended: one letter too many.
AppendedLate(c) ==
  IF ToLower(c) \in Lower /\ Len(quizBuf) <= QuizBufCap
  THEN Append(quizBuf, ToLower(c)) ELSE quizBuf

Appended(c) ==
  IF ToLower(c) \in Lower /\ Len(quizBuf) < QuizBufCap
  THEN Append(quizBuf, ToLower(c)) ELSE quizBuf

QuizLetter(ks) ==
  /\ QuizPoll(ks) /\ PressHeld
  /\ \E c \in Chars : Added(ks) = {c} /\ quizBuf' = Appended(c)
  /\ DrawQuiz(statusLine)
  /\ UNCHANGED <<backupVerified, quizActive, quizStep, typed, waitingRelease, reportVars>>

QuizChord(ks) ==
  /\ QuizPoll(ks) /\ PressHeld
  /\ Cardinality(Added(ks)) > 1
  /\ DrawQuiz("info")
  /\ UNCHANGED <<quizVars, waitingRelease, reportVars>>

QuizIgnore(ks) ==
  /\ QuizPoll(ks) /\ PressHeld
  /\ ~EnterEdge(ks) /\ ~DelEdge(ks) /\ Added(ks) = {}
  /\ UNCHANGED <<quizVars, waitingRelease, screenVars, reportVars>>

-----------------------------------------------------------------------------
(* Everywhere else a press is decoded once, in the order loop() tests it.   *)

Dice(ks) == {c - 48 : c \in ks.word \cap DieChars}
OneDie(ks) == Cardinality(Dice(ks)) = 1
Holds(ks, S) == ks.word \cap S # {}

\* Mutant of DelMeansClear: only the screen decides what Del does.
DelClearsOnPages == showingResult

DelMeansClear == showingResult \/ hasHash

\* navReady and enterReady: the 180 ms and 500 ms debounce tests.
Decode(ks, navReady, enterReady) ==
  CASE clearArmed -> IF Holds(ks, YesChars) THEN "clear"
                     ELSE IF Holds(ks, NoChars) THEN "keep" ELSE "confirm"
    [] ~clearArmed ->
       IF showingResult /\ OneDie(ks) /\ ~Back(ks) /\ ~Forward(ks) THEN "roll"
       ELSE IF showingResult /\ EscChar \in ks.word THEN "back"
       ELSE IF showingResult /\ (Back(ks) \/ Forward(ks)) /\ navReady THEN "page"
       ELSE IF showingResult /\ ks.enter /\ enterReady /\ resultPage \in MnemonicPages
            THEN "quiz"
       ELSE IF ks.del THEN IF DelMeansClear THEN "arm" ELSE "erase"
       ELSE IF ks.enter /\ enterReady THEN "build"
       ELSE IF ~showingResult /\ OneDie(ks) THEN "roll"
       ELSE IF ~showingResult /\ Dice(ks) # {} THEN "chord"
       ELSE "ignored"

\* Mutant of CommandGate: a held key is a new command at every poll.
CommandGateOpen == ~modeSelect /\ ~quizActive

CommandGate == ~modeSelect /\ ~quizActive /\ ~waitingRelease

Decoded(ks) == {Decode(ks, navReady, enterReady) : navReady, enterReady \in BOOLEAN}

\* Every command but clearing closes the gate until the keys are released.
Consumed == waitingRelease' = TRUE /\ UNCHANGED <<menuVars, hwVars>>

\* Nothing but the screen, the page or the armed flag changes.
Viewing == Consumed /\ UNCHANGED <<rolls, resultVars, quizVars, edgeVars,
                                   inputAwaitRelease, reportVars>>

AskClear(command) ==
  /\ PressHeld /\ Viewing
  /\ \/ command = "arm" /\ clearArmed' = TRUE
     \/ command = "keep" /\ clearArmed' = FALSE
     \/ command = "confirm" /\ UNCHANGED clearArmed
  /\ DrawResult("info")
  /\ UNCHANGED resultPage

\* Esc leaves the result pages; a chord of dice on the input page is refused.
ShowRolls(command) ==
  /\ command = "back" \/ command = "chord"
  /\ PressHeld /\ Viewing
  /\ DrawMain("info")
  /\ UNCHANGED pageVars

TurnPage(command, ks) ==
  /\ command = "page" /\ PressHeld /\ Viewing
  /\ resultPage' = (resultPage + (IF Back(ks) THEN PAGE_COUNT - 1 ELSE 1)) % PAGE_COUNT
  /\ DrawResult(statusLine)
  /\ UNCHANGED clearArmed

IgnoreKey(command) ==
  /\ \/ command = "ignored"
     \/ command = "quiz" /\ backupVerified
  /\ PressHeld /\ Viewing
  /\ UNCHANGED <<screenVars, pageVars>>

QuizStart(command) ==
  /\ command = "quiz" /\ press' = "quiz opened" /\ Consumed
  /\ ~backupVerified
  /\ quizActive' = TRUE /\ quizStep' = 0 /\ quizBuf' = <<>> /\ typed' = {}
  /\ EdgeReset
  /\ inputAwaitRelease' = TRUE
  /\ DrawQuiz("info")
  /\ UNCHANGED <<rolls, resultVars, backupVerified, pageVars, reportVars>>

-----------------------------------------------------------------------------
(* The transcript.                                                          *)

\* Mutant of RollInputAllowed: no lock.
RollAlwaysAllowed == TRUE

\* wc_roll_input_allowed(hasHash).
RollInputAllowed == ~hasHash

BufferFull ==
  \/ entropyMode \in {"RAW", "HYBRID"} /\ Len(rolls) >= NeedEntries
  \/ Len(rolls) >= MaxRolls

RollRefused(command) ==
  /\ command = "roll" /\ PressHeld /\ Viewing
  /\ ~RollInputAllowed \/ BufferFull
  /\ IF RollInputAllowed THEN DrawMain("info") ELSE DrawResult("info")
  /\ UNCHANGED pageVars

RollAccepted(command, ks) ==
  /\ command = "roll" /\ Consumed
  /\ RollInputAllowed /\ ~BufferFull
  /\ \E d \in Dice(ks) : rolls' = Append(rolls, d)
  /\ hasHash' = FALSE
  /\ clearArmed' = FALSE
  /\ DrawMain("info")
  /\ press' = "rolled"
  /\ UNCHANGED <<entropyHex, mnemonic, address, hwSample, wordLen, quizPos, quizVars,
                 edgeVars, inputAwaitRelease, resultPage, reportVars>>

EraseRoll(command) ==
  /\ command = "erase" /\ PressHeld /\ Consumed
  /\ rolls' = IF rolls = <<>> THEN rolls ELSE Front(rolls)
  /\ DrawMain(IF rolls = <<>> THEN statusLine ELSE "info")
  /\ UNCHANGED <<resultVars, quizVars, edgeVars, inputAwaitRelease, pageVars, reportVars>>

-----------------------------------------------------------------------------
(* Enter: the loop's own radio check, then buildWallet.  The status line    *)
(* keeps apart only what a property is about.                               *)

Build(command) ==
  /\ command = "build" /\ PressHeld
  /\ waitingRelease' = TRUE
  /\ UNCHANGED <<menuVars, rolls, edgeVars, inputAwaitRelease, clearArmed, sdOK, card>>

\* loop() verifies the radios before it calls buildWallet with enough entropy.
BuildRefused(command) ==
  /\ Build(command)
  /\ EntropyReady(vnBits) /\ FALSE \in RadioVerdicts
  /\ radiosOffOK' = FALSE
  /\ DrawMain("radio")
  /\ UNCHANGED <<resultVars, quizVars, resultPage, reportVars>>

\* Every way into buildWallet passes a radio check.
RadiosPass == TRUE \in RadioVerdicts

\* Mutant of FreshSample: the sample of an earlier build is kept.
KeptSample == UNCHANGED hwSample

\* The first thing buildWallet does.
FreshSample == hwSample' = NoSample

\* buildWallet's own verification fails: the first, or in hybrid mode the one
\* after the transcript was digested.
BuildRadioError(command) ==
  /\ Build(command)
  /\ FALSE \in RadioVerdicts
  /\ EntropyReady(vnBits) => RadiosPass
  /\ FreshSample
  /\ radiosOffOK' = FALSE /\ hasHash' = FALSE
  /\ DrawMain("radio")
  /\ UNCHANGED <<entropyHex, mnemonic, address, wordLen, quizPos, quizVars, resultPage,
                 reportVars>>

BuildBlocked(command) ==
  /\ Build(command) /\ RadiosPass
  /\ ~AssessmentOK
  /\ FreshSample
  /\ hasHash' = FALSE /\ entropyHex' = NoWallet
  /\ resultPage' = PAGE_SANITY
  /\ DrawResult("info")
  /\ UNCHANGED <<mnemonic, address, wordLen, quizPos, quizVars, radiosOffOK>>
  /\ \E outcome \in SdOutcomes : WriteReport(FALSE, outcome)

HwrngFailed(command) ==
  /\ Build(command) /\ RadiosPass
  /\ AssessmentOK
  /\ entropyMode = "HYBRID" /\ HwrngMayFail
  /\ FreshSample /\ hasHash' = FALSE
  /\ DrawMain("info")
  /\ UNCHANGED <<entropyHex, mnemonic, address, wordLen, quizPos, quizVars, resultPage,
                 radiosOffOK, reportVars>>

\* Mutant of FreshQuiz: the verdict on the wallet before is kept.
FreshQuizKeepsVerdict ==
  /\ quizActive' = FALSE /\ quizStep' = 0 /\ quizBuf' = <<>> /\ typed' = {}
  /\ UNCHANGED backupVerified

FreshQuiz ==
  /\ quizActive' = FALSE /\ quizStep' = 0 /\ quizBuf' = <<>> /\ typed' = {}
  /\ backupVerified' = FALSE

\* The code re-tests that the Von Neumann extractor filled its output after
\* the assessment counted enough pairs; ExtractorAgrees: that test never fails.
Extracted == entropyMode = "VN" => Len(VnExtract(rolls)) >= NeedBits

BuildDone(command) ==
  /\ Build(command) /\ RadiosPass
  /\ AssessmentOK /\ Extracted
  /\ \E h \in HwDigests :
       LET w == Entropy(entropyMode, rolls, h)
       IN  /\ entropyHex' = w /\ mnemonic' = w /\ address' = w
           /\ wordLen' = [p \in Positions |-> Len(Word(w, p))]
           /\ quizPos' = Challenge(w)
           /\ hwSample' = IF entropyMode = "HYBRID" THEN h ELSE NoSample
  /\ FreshQuiz
  /\ hasHash' = TRUE
  /\ resultPage' = PAGE_FINGERPRINT
  /\ DrawResult("info")
  /\ UNCHANGED radiosOffOK
  /\ \E outcome \in SdOutcomes : WriteReport(TRUE, outcome)

-----------------------------------------------------------------------------
(* clearEverything.  Neither SD.exists() nor SD.remove() can be believed: a  *)
(* lookup that fails says no, a removal may fail and say yes, or the reverse *)

ReportInReach == sdOK /\ card /\ report # <<>>

\* sdOK && SD.exists(): a report out of reach is never found.
Exists(inReach) == IF inReach THEN BOOLEAN ELSE {FALSE}

\* Mutant of ReportDeleted: the removal is believed.
RemovalBelieved(removed, found) == removed

ReportDeleted(removed, found) == removed /\ ~found

\* The report is looked for, removed and looked for again; what the accesses
\* answered decides the message, nothing else.
RemoveReport ==
  \/ /\ FALSE \in Exists(ReportInReach)
     /\ UNCHANGED report
     /\ denied' = ReportInReach
     /\ DrawMain("cleared")
  \/ /\ TRUE \in Exists(ReportInReach)
     /\ report' \in {report, <<>>}
     /\ \E removed \in BOOLEAN, found \in Exists(report' # <<>>) :
          /\ denied' = (report' # <<>> /\ ~found)
          /\ DrawMain(IF ReportDeleted(removed, found) THEN "cleared" ELSE "deleteFailed")

\* Mutant of WipeWallet: the fingerprint is left behind.
WipeWords == mnemonic' = NoWallet /\ address' = NoWallet /\ UNCHANGED entropyHex

WipeWallet == mnemonic' = NoWallet /\ address' = NoWallet /\ entropyHex' = NoWallet

ClearEverything(command) ==
  /\ command = "clear" /\ PressHeld
  /\ rolls' = <<>>
  /\ RemoveReport
  /\ WipeWallet /\ hasHash' = FALSE /\ hwSample' = NoSample
  /\ quizActive' = FALSE /\ backupVerified' = FALSE /\ quizBuf' = <<>> /\ typed' = {}
  /\ clearArmed' = FALSE /\ resultPage' = PAGE_FINGERPRINT
  /\ waitingRelease' = FALSE
  /\ EdgeReset
  /\ lastReportOK' = FALSE
  /\ UNCHANGED <<menuVars, wordLen, quizPos, quizStep, inputAwaitRelease, hwVars>>

-----------------------------------------------------------------------------
MenuPress(ks) == MenuMove(ks) \/ MenuChoose(ks) \/ MenuIgnore(ks)

QuizPress(ks) ==
  \/ QuizWrong(ks) \/ QuizNext(ks) \/ QuizPassed(ks)
  \/ QuizErase(ks) \/ QuizCancel(ks) \/ QuizLetter(ks) \/ QuizChord(ks) \/ QuizIgnore(ks)

CommandPress(ks) ==
  /\ CommandGate
  /\ \E command \in Decoded(ks) :
       \/ AskClear(command) \/ ClearEverything(command)
       \/ ShowRolls(command) \/ TurnPage(command, ks) \/ IgnoreKey(command)
       \/ QuizStart(command)
       \/ RollRefused(command) \/ RollAccepted(command, ks) \/ EraseRoll(command)
       \/ BuildRefused(command) \/ BuildRadioError(command) \/ BuildBlocked(command)
       \/ HwrngFailed(command) \/ BuildDone(command)

\* A poll with a key down that an unreleased key gates changes nothing.
Next ==
  \/ PowerCycle \/ CardPulled \/ Release
  \/ \E ks \in KeyStates : MenuPress(ks) \/ QuizPress(ks) \/ CommandPress(ks)

Spec == Init /\ [][Next]_vars

-----------------------------------------------------------------------------
(* Properties.                                                              *)

Presses == {"up", "down", "armed", "rolled", "quiz opened", "quiz ended"}

Wallets == Entropies \cup {NoWallet}
Samples == HwDigests \cup {NoSample}
Records == [sanity : BOOLEAN, fingerprint : Wallets, address : Wallets,
            verified : BOOLEAN, sample : Samples]

MenuOK ==
  /\ modeSelect \in BOOLEAN /\ modeCursor \in 0 .. 2
  /\ entropyMode \in {"VN", "RAW", "HYBRID"} /\ (modeSelect \/ entropyMode \in Modes)

RollsOK == rolls \in Seq(Face) /\ Len(rolls) <= MaxRolls

WalletOK ==
  /\ hasHash \in BOOLEAN
  /\ entropyHex \in Wallets /\ mnemonic \in Wallets /\ address \in Wallets
  /\ hwSample \in Samples
  /\ wordLen \in [Positions -> Nat] /\ quizPos \in [Steps -> Positions]

QuizOK ==
  /\ backupVerified \in BOOLEAN /\ quizActive \in BOOLEAN /\ quizStep \in 0 .. QuizWords
  /\ quizBuf \in Seq(Lower) /\ Len(quizBuf) <= QuizBufCap
  /\ typed \subseteq Positions

KeysOK ==
  /\ typeMask \subseteq Chars /\ prevEnterK \in BOOLEAN /\ prevDelK \in BOOLEAN
  /\ waitingRelease \in BOOLEAN /\ inputAwaitRelease \in BOOLEAN
  /\ press \in Presses

ScreenOK ==
  /\ showingResult \in BOOLEAN /\ clearArmed \in BOOLEAN /\ vnBits \in Nat
  /\ statusLine \in {"info", "radio", "cleared", "deleteFailed"}
  /\ drawnScreen \in {"menu", "main", "quiz", "result"}
  /\ resultPage \in 0 .. PAGE_COUNT - 1

DeviceOK ==
  /\ radiosOffOK \in BOOLEAN /\ sdOK \in BOOLEAN /\ card \in BOOLEAN
  /\ lastReportOK \in BOOLEAN /\ denied \in BOOLEAN
  /\ report \in {<<>>} \cup {<<r>> : r \in Records}

\* Every variable holds a value the firmware's buffers can hold; quizBuf never
\* outgrows its array, resultPage is always a page there is, and a chosen mode
\* is one of the three.
TypeOK ==
  MenuOK /\ RollsOK /\ WalletOK /\ QuizOK /\ KeysOK /\ ScreenOK /\ DeviceOK

\* The screen on the display is the one whose keys loop() will decode: no
\* sequence of menu, quiz, page and clear handlers leaves another one painted.
ScreenMatchesMode ==
  drawnScreen = CASE modeSelect -> "menu"
                  [] quizActive -> "quiz"
                  [] ~modeSelect /\ ~quizActive /\ showingResult -> "result"
                  [] OTHER -> "main"

\* The modes loop() distinguishes never overlap: a backup check runs over a
\* result page with the words, before verification, with clear not armed and
\* a word left to ask (quizPos[quizStep] is in bounds).
ModesExclusive ==
  /\ modeSelect => ~quizActive /\ ~showingResult
  /\ quizActive => /\ showingResult /\ resultPage \in MnemonicPages
                   /\ ~clearArmed /\ ~backupVerified /\ quizStep < QuizWords
  /\ clearArmed => showingResult

\* entropyReady() reads vnBits, which only drawing refreshes: whatever changed
\* the transcript has repainted before the next Enter is judged.
StatsFresh == vnBits = VnBits(rolls)

\* The gate and the extractor count the same pairs: when entropyReady() says
\* there are enough bits, wc_vn_extract fills its output.
ExtractorAgrees ==
  entropyMode = "VN" /\ EntropyReady(vnBits) => Len(VnExtract(rolls)) = NeedBits

\* While hasHash claims a finished wallet, the mnemonic is the one these rolls
\* (and in hybrid mode the reported HWRNG run) produce: nothing edits the
\* transcript under it.
WalletMatchesTranscript ==
  hasHash => mnemonic = Entropy(entropyMode, rolls, hwSample)

\* Fingerprint, words and address shown together are of one wallet, through
\* blocked, failed and repeated builds.
ResultsAgree == entropyHex # NoWallet => mnemonic = entropyHex /\ address = mnemonic

\* With a wallet in memory, a verified backup means that every challenged word
\* of that very wallet was typed in full since the last wrong answer.
BackupGate == mnemonic # NoWallet /\ backupVerified => typed = Challenged

\* While the audit page says the report was written, its last record speaks of
\* the wallet and the verification state now in memory.
ReportTruthful ==
  lastReportOK =>
    /\ report # <<>>
    /\ report[1].fingerprint = entropyHex
    /\ report[1].verified = backupVerified
    /\ report[1].address = IF backupVerified THEN address ELSE NoWallet

\* "a sample only from this run": a HWRNG sample in a record is of the build
\* whose fingerprint stands in the same record, never left over from another.
SampleFromThisRun ==
  report # <<>> /\ report[1].sample # NoSample =>
    /\ report[1].fingerprint # NoWallet
    /\ Head(report[1].fingerprint) = report[1].sample

\* "cleared", with the mounted card still in the slot, means that no wallet is
\* in memory and no report is left, whatever SD.remove() answered, unless
\* SD.exists() itself said no of a report that is there.
ClearedIsTruthful ==
  statusLine = "cleared" =>
    /\ sdOK /\ card /\ ~denied => report = <<>>
    /\ mnemonic = NoWallet /\ entropyHex = NoWallet /\ address = NoWallet /\ rolls = <<>>

\* One complete keypress is one roll: a press that entered a roll enters no
\* other, however many polls it lasts and whatever joins the chord.
OneRollPerPress == [][press = "rolled" => Len(rolls') <= Len(rolls)]_vars

\* The press that opened the backup check types nothing in it, and the press
\* that ended it (the last Enter, or Del) commands nothing on the result page.
QuizPressesSeparate ==
  [][press' = press =>
       /\ (press = "quiz opened" => UNCHANGED quizVars)
       /\ (press = "quiz ended" => UNCHANGED <<rolls, resultVars, quizVars, pageVars>>)]_vars

\* The address reaches the card only when every challenged word of that wallet
\* has been typed back.
AddressWrittenAfterQuiz ==
  [][report' \notin {report, <<>>} =>
       \/ report'[1].address = NoWallet
       \/ report'[1].address = mnemonic' /\ typed' = {quizPos'[s] : s \in Steps}]_vars

\* Once secrets are in memory the transcript is locked until clear-all (or
\* power loss) wipes them.
SecretsLockRolls == [][mnemonic # NoWallet /\ rolls' # rolls => mnemonic' = NoWallet]_vars

\* Generated mnemonic and address are immutable until clear-all wipes them.
WalletImmutable ==
  [][mnemonic # NoWallet => mnemonic' \in {mnemonic, NoWallet} /\ address' = mnemonic']_vars

\* The appliance as WalletLifecycle describes it.  The verdict of a check that
\* had no wallet to compare with does not count as a verification.
Lifecycle == INSTANCE WalletLifecycle WITH
  Wallets <- Entropies,
  None <- NoWallet,
  wallet <- mnemonic,
  verified <- backupVerified /\ mnemonic # NoWallet,
  record <- IF report = <<>> THEN <<>> ELSE <<report[1].address>>

\* Whatever keys are pressed, checks fail or power is lost, the firmware does
\* to wallet, verdict and record only what WalletLifecycle allows.
ImplementsLifecycle == Lifecycle!Spec

\* A verified backup is the backup of a wallet that exists.
BackupIsOfAWallet == backupVerified => mnemonic # NoWallet

\* While clear is armed every other input is ignored: a press that began then
\* enters no roll.
ArmedInputIgnored == [][press = "armed" => Len(rolls') <= Len(rolls)]_vars
=============================================================================
