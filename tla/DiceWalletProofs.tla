-------------------------- MODULE DiceWalletProofs --------------------------
(***************************************************************************)
(* Proofs about DiceWallet, for every value of its constants: types and    *)
(* modes, what it promises about a wallet, its backup check and its        *)
(* report, about what one press may do, about the painted screen and the   *)
(* cached statistic the next poll will read, and that it implements        *)
(* WalletLifecycle.  Each property is carried by an invariant of its own,  *)
(* inductive on top of the types and modes; the strengthenings are named   *)
(* here.                                                                   *)
(***************************************************************************)
EXTENDS DiceWallet, InductionLemmas

USE DEF NoSample

-----------------------------------------------------------------------------
(* Lemmas about transcripts.                                                *)

\* computeStats counts finitely many pairs.
LEMMA VnBitsNat ==
  ASSUME NEW r \in Seq(Face)
  PROVE  VnBits(r) \in Nat
<1> DEFINE pairs == 1 .. Len(r) \div 2
<1>1. Len(r) \div 2 \in Nat
  <2>1. Len(r) \in Nat
    OBVIOUS
  <2> QED BY <2>1
<1>2. IsFiniteSet(pairs)
  BY <1>1, FS_Interval
<1>3. {i \in pairs : Unequal(RollPair(r, i))} \subseteq pairs
  OBVIOUS
<1> QED BY <1>2, <1>3, FS_Subset, FS_CardinalityType DEF VnBits

\* The extractor fills its output exactly as far as the statistic counted
\* unequal pairs.
LEMMA VnExtractFills ==
  ASSUME NEW r \in Seq(Face)
  PROVE  /\ VnExtract(r) \in Seq({0, 1})
         /\ Len(VnExtract(r)) = IF VnBits(r) < NeedBits THEN VnBits(r) ELSE NeedBits
<1> DEFINE n == Len(r) \div 2
           Bits == Seq({0, 1})
           Next1(bits, i) == IF Len(bits) < NeedBits /\ Unequal(RollPair(r, i))
                             THEN Append(bits, IF RollPair(r, i)[1] > RollPair(r, i)[2] THEN 1 ELSE 0)
                             ELSE bits
           Fills(out) == out = [i \in 0 .. n |-> IF i = 0 THEN <<>> ELSE Next1(out[i - 1], i)]
           out == CHOOSE out : Fills(out)
           Pairs(m) == {i \in 1 .. m : Unequal(RollPair(r, i))}
<1>1. n \in Nat /\ NeedBits \in Nat /\ NeedBits >= 1
  <2>1. Len(r) \in Nat
    OBVIOUS
  <2> QED BY <2>1, DiceAssumption
<1>2. VnExtract(r) = out[n]
  BY DEF VnExtract
<1>3. \A bits \in Bits, i \in 1 .. n : Next1(bits, i) \in Bits
  OBVIOUS
<1>4. \E f \in [0 .. n -> Bits] : Fills(f)
  <2> DEFINE step == [i \in 1 .. n |-> [bits \in Bits |-> Next1(bits, i)]]
  <2>1. step \in [1 .. n -> [Bits -> Bits]]
    <3> HIDE DEF Next1, n
    <3> QED BY <1>3
  <2> DEFINE none == <<>>
  <2>2. none \in Bits
    OBVIOUS
  <2>3. PICK f \in [0 .. n -> Bits] : f[0] = none /\ \A i \in 1 .. n : f[i] = step[i][f[i - 1]]
    <3> HIDE DEF step, n, Next1, Bits, none
    <3>1. PICK f : Stepwise(f, Bits, n, none, step)
      BY <1>1, <2>1, <2>2, StepwiseFunction
    <3> QED BY <3>1 DEF Stepwise
  <2>4. \A i \in 1 .. n : f[i] = Next1(f[i - 1], i)
    <3> SUFFICES ASSUME NEW i \in 1 .. n PROVE f[i] = Next1(f[i - 1], i)
      OBVIOUS
    <3>1. f[i - 1] \in Bits
      BY <1>1
    <3> HIDE DEF Next1, n
    <3> QED BY <2>3, <3>1
  <2>5. Fills(f)
    <3> HIDE DEF Next1, n
    <3> QED BY <1>1, <2>3, <2>4
  <2> QED BY <2>5
<1>5. Fills(out)
  <2> HIDE DEF Fills
  <2> QED BY <1>4
<1> HIDE DEF out
<1>6. out[0] = <<>> /\ \A i \in 1 .. n : out[i] = Next1(out[i - 1], i)
  <2> HIDE DEF Next1, n
  <2> QED BY <1>1, <1>5
<1> HIDE DEF Fills, n
<1>7. \A m \in Nat : IsFiniteSet(Pairs(m)) /\ Cardinality(Pairs(m)) \in Nat
  <2> SUFFICES ASSUME NEW m \in Nat PROVE IsFiniteSet(Pairs(m)) /\ Cardinality(Pairs(m)) \in Nat
    OBVIOUS
  <2>1. IsFiniteSet(1 .. m) /\ Pairs(m) \subseteq 1 .. m
    BY FS_Interval
  <2> QED BY <2>1, FS_Subset, FS_CardinalityType
<1> DEFINE Reached(m) == /\ out[m] \in Bits
                         /\ Len(out[m]) = IF Cardinality(Pairs(m)) < NeedBits
                                          THEN Cardinality(Pairs(m)) ELSE NeedBits
           S == {m \in Nat : m <= n => Reached(m)}
<1>8. 0 \in S
  <2>1. Pairs(0) = {}
    OBVIOUS
  <2> HIDE DEF Pairs
  <2>2. Cardinality(Pairs(0)) = 0
    BY <2>1, FS_EmptySet
  <2>3. out[0] \in Bits /\ Len(out[0]) = 0
    BY <1>6
  <2> HIDE DEF Bits, Next1
  <2> QED BY <1>1, <2>2, <2>3
<1>9. ASSUME NEW m \in Nat, m \in S
      PROVE  m + 1 \in S
  <2> SUFFICES ASSUME m + 1 <= n PROVE Reached(m + 1)
    OBVIOUS
  <2>1. Reached(m)
    BY <1>1, <1>9
  <2>2. out[m + 1] = Next1(out[m], m + 1)
    <3>1. m + 1 \in 1 .. n /\ (m + 1) - 1 = m
      BY <1>1
    <3> HIDE DEF Next1
    <3> QED BY <1>6, <3>1
  <2>3. CASE Unequal(RollPair(r, m + 1))
    <3>1. \A i : i \in Pairs(m + 1) <=> i \in Pairs(m) \cup {m + 1}
      BY <2>3
    <3>2. m + 1 \notin Pairs(m)
      OBVIOUS
    <3> HIDE DEF Pairs
    <3>3. Pairs(m + 1) = Pairs(m) \cup {m + 1}
      BY <3>1
    <3>4. Cardinality(Pairs(m + 1)) = Cardinality(Pairs(m)) + 1
      BY <1>7, <3>2, <3>3, FS_AddElement
    <3>5. Cardinality(Pairs(m)) \in Nat
      BY <1>7
    <3>6. CASE Len(out[m]) < NeedBits
      <4>1. out[m + 1] \in Bits /\ Len(out[m + 1]) = Len(out[m]) + 1
        BY <2>1, <2>2, <2>3, <3>6
      <4> HIDE DEF Next1, Bits
      <4> QED BY <1>1, <2>1, <3>4, <3>5, <3>6, <4>1
    <3>7. CASE ~(Len(out[m]) < NeedBits)
      <4>1. out[m + 1] = out[m]
        BY <2>2, <3>7
      <4> HIDE DEF Next1, Bits
      <4> QED BY <1>1, <2>1, <3>4, <3>5, <3>7, <4>1
    <3> QED BY <3>6, <3>7
  <2>4. CASE ~Unequal(RollPair(r, m + 1))
    <3>1. \A i : i \in Pairs(m + 1) <=> i \in Pairs(m)
      BY <2>4
    <3> HIDE DEF Pairs
    <3>2. Pairs(m + 1) = Pairs(m)
      BY <3>1
    <3> QED BY <2>1, <2>2, <2>4, <3>2
  <2> QED BY <2>3, <2>4
<1>10. Reached(n)
  <2> HIDE DEF Reached
  <2>1. \A m \in Nat : m >= 0 => m \in S
    <3> HIDE DEF S
    <3> QED BY <1>8, <1>9, Upwards
  <2> QED BY <1>1, <2>1
<1>11. Cardinality(Pairs(n)) = VnBits(r)
  BY DEF VnBits, n
<1> QED BY <1>2, <1>10, <1>11

\* The used prefix of rolls[] is a transcript.
LEMMA RollsAreTranscript ==
  ASSUME NEW r \in Seq(Face), Len(r) <= MaxRolls
  PROVE  r \in Transcripts
<1>1. Len(r) \in 0 .. MaxRolls
  BY DiceAssumption
<1>2. r \in [1 .. Len(r) -> Face]
  OBVIOUS
<1> QED BY <1>1, <1>2 DEF Transcripts

\* A transcript one roll longer or shorter is one, while the buffer has room.
LEMMA RollsStayTyped ==
  ASSUME NEW r \in Seq(Face), Len(r) <= MaxRolls
  PROVE  /\ <<>> \in Seq(Face) /\ Len(<<>>) <= MaxRolls
         /\ \A d \in Face : Len(r) < MaxRolls =>
              Append(r, d) \in Seq(Face) /\ Len(Append(r, d)) <= MaxRolls
         /\ r # <<>> => Front(r) \in Seq(Face) /\ Len(Front(r)) <= MaxRolls
<1>1. MaxRolls \in Nat
  BY DiceAssumption
<1> QED BY <1>1 DEF Front

\* What a build derives from the transcript is a wallet; in Von Neumann mode
\* the extractor must have filled its output.
LEMMA BuiltWallet ==
  ASSUME TypeOK, NEW h \in HwDigests, entropyMode \in Modes, Extracted,
         entropyMode = "VN" \/ entropyMode = "RAW" \/ entropyMode = "HYBRID"
  PROVE  Entropy(entropyMode, rolls, h) \in Entropies
<1>1. rolls \in Transcripts
  BY RollsAreTranscript DEF TypeOK, RollsOK
<1>2. Entropy(entropyMode, rolls, h) # NoWallet
  <2>1. CASE entropyMode = "VN"
    <3>1. Len(VnExtract(rolls)) > 0
      BY <2>1, DiceAssumption DEF Extracted
    <3> QED BY <2>1, <3>1 DEF Entropy, NoWallet
  <2>2. CASE entropyMode = "RAW"
    BY <2>2 DEF Entropy, NoWallet
  <2>3. CASE entropyMode = "HYBRID"
    <3>1. rolls \in Seq(Face)
      BY DEF TypeOK, RollsOK
    <3>2. Len(<<h>> \o rolls) = 1 + Len(rolls)
      BY <3>1
    <3>3. Len(<<h>> \o rolls) > 0
      BY <3>1, <3>2
    <3> QED BY <2>3, <3>3 DEF Entropy, NoWallet
  <2> QED BY <2>1, <2>2, <2>3
<1> QED BY <1>1, <1>2 DEF Entropies

-----------------------------------------------------------------------------
(* Type correctness.  A step of the quiz asks for quizPos[quizStep], so the  *)
(* bound on quizStep during a check, part of ModesExclusive, goes with it.   *)

USE DEF vars, menuVars, resultVars, quizVars, edgeVars, screenVars, pageVars, reportVars,
        hwVars

\* The values that power-on, clear-all and a new check assign have their types.
LEMMA StartValues ==
  /\ <<>> \in Seq(Lower) /\ Len(<<>>) <= QuizBufCap
  /\ 0 \in 0 .. QuizWords /\ 0 < QuizWords /\ 0 \in 0 .. 2 /\ 0 \in Nat
  /\ NoWordLen \in [Positions -> Nat] /\ NoQuizPos \in [Steps -> Positions]
  /\ PAGE_FINGERPRINT \in 0 .. PAGE_COUNT - 1 /\ PAGE_SANITY \in 0 .. PAGE_COUNT - 1
<1>1. {WordCount, QuizWords, QuizBufCap, PAGE_MNEMONIC_COUNT} \subseteq Nat \ {0}
  BY WalletAssumption
<1>2. /\ <<>> \in Seq(Lower) /\ Len(<<>>) <= QuizBufCap
      /\ 0 \in 0 .. QuizWords /\ 0 < QuizWords /\ 0 \in 0 .. 2 /\ 0 \in Nat
  BY <1>1
<1>3. NoWordLen \in [Positions -> Nat] /\ NoQuizPos \in [Steps -> Positions]
  BY <1>1 DEF NoWordLen, NoQuizPos, Positions
<1>4. PAGE_FINGERPRINT \in 0 .. PAGE_COUNT - 1 /\ PAGE_SANITY \in 0 .. PAGE_COUNT - 1
  BY <1>1 DEF PAGE_FINGERPRINT, PAGE_SANITY, PAGE_COUNT
<1> QED BY <1>2, <1>3, <1>4

\* The menu offers the three modes.
LEMMA ModeNamesTyped ==
  ASSUME modeCursor \in 0 .. 2
  PROVE  ModeNames[modeCursor + 1] \in {"VN", "RAW", "HYBRID"}
BY DEF ModeNames

\* An accepted roll is a face, and fits the buffer.
LEMMA AcceptedRolls ==
  ASSUME RollsOK, NEW ks \in KeyStates, NEW d \in Dice(ks), ~BufferFull, rolls' = Append(rolls, d)
  PROVE  RollsOK'
<1>1. d \in Face
  BY DEF Dice, DieChars, Face
<1>2. Len(rolls) < MaxRolls
  BY DiceAssumption DEF BufferFull, RollsOK
<1> QED BY <1>1, <1>2, RollsStayTyped DEF RollsOK

\* What one press types into the quiz buffer fits it.
LEMMA AppendedTyped ==
  ASSUME QuizOK, NEW c
  PROVE  Appended(c) \in Seq(Lower) /\ Len(Appended(c)) <= QuizBufCap
<1>1. QuizBufCap \in Nat
  BY WalletAssumption
<1> QED BY <1>1 DEF Appended, QuizOK

\* So does what Del leaves.
LEMMA FrontTyped ==
  ASSUME QuizOK, quizBuf # <<>>
  PROVE  Front(quizBuf) \in Seq(Lower) /\ Len(Front(quizBuf)) <= QuizBufCap
<1>1. QuizBufCap \in Nat
  BY WalletAssumption
<1> QED BY <1>1 DEF Front, QuizOK

\* The observer records positions of words.
LEMMA RememberedTyped ==
  ASSUME WalletOK, QuizOK, quizStep \in Steps
  PROVE  Remembered \subseteq Positions
BY DEF Remembered, WalletOK, QuizOK

\* During a check there is a word left to ask, and answering it moves on by one.
LEMMA QuizAdvances ==
  ASSUME TypeOK, ModesExclusive, quizActive
  PROVE  /\ quizStep \in Steps /\ quizStep + 1 \in 0 .. QuizWords
         /\ ~LastStep => quizStep + 1 < QuizWords
         /\ Remembered \subseteq Positions
<1>1. quizStep \in 0 .. QuizWords /\ quizStep < QuizWords /\ QuizWords \in Nat
  BY WalletAssumption DEF TypeOK, QuizOK, ModesExclusive
<1>2. quizStep \in Steps
  BY <1>1 DEF Steps
<1>3. Remembered \subseteq Positions
  BY <1>2, RememberedTyped DEF TypeOK
<1> QED BY <1>1, <1>2, <1>3 DEF LastStep

\* assessmentOK() answers yes or no.
LEMMA AssessmentTyped == AssessmentOK \in BOOLEAN
BY DEF AssessmentOK

\* A record holds what writeReport could read from the state.
LEMMA ReportTyped ==
  ASSUME DeviceOK, WalletOK', QuizOK', NEW sanity \in BOOLEAN, NEW outcome \in SdOutcomes,
         WriteReport(sanity, outcome)
  PROVE  lastReportOK' \in BOOLEAN /\ denied' \in BOOLEAN /\ report' \in {<<>>} \cup {<<r>> : r \in Records}
<1>1. AddressShown \in Wallets
  BY DEF AddressShown, WalletOK, Wallets
<1> DEFINE r == [sanity |-> sanity, fingerprint |-> entropyHex',
                 address |-> AddressShown, verified |-> backupVerified',
                 sample |-> IF entropyMode = "HYBRID" THEN hwSample' ELSE NoSample]
<1>2. r \in Records
  BY <1>1 DEF WalletOK, QuizOK, Records, Samples
<1>3. report' = report \/ report' = <<r>>
  BY DEF WriteReport
<1>4. lastReportOK' \in BOOLEAN /\ UNCHANGED denied
  BY DEF WriteReport, ReportVerdict
<1> HIDE DEF r
<1> QED BY <1>2, <1>3, <1>4 DEF DeviceOK

\* Turning pages in either direction stays among them.
LEMMA PageTurned ==
  ASSUME resultPage \in 0 .. PAGE_COUNT - 1
  PROVE  /\ (resultPage + (PAGE_COUNT - 1)) % PAGE_COUNT \in 0 .. PAGE_COUNT - 1
         /\ (resultPage + 1) % PAGE_COUNT \in 0 .. PAGE_COUNT - 1
BY WalletAssumption DEF PAGE_COUNT

\* What a decoded command says of the state it was decoded in.
LEMMA DecodedFacts ==
  ASSUME TypeOK, NEW ks \in KeyStates, NEW command \in Decoded(ks)
  PROVE  /\ clearArmed <=> command \in {"clear", "keep", "confirm"}
         /\ command = "quiz" => showingResult /\ resultPage \in MnemonicPages
         /\ command \in {"page", "back"} => showingResult
         /\ command = "erase" => ~showingResult /\ ~hasHash
         /\ command = "chord" => ~showingResult
<1>1. PICK navReady, enterReady \in BOOLEAN : command = Decode(ks, navReady, enterReady)
  BY DEF Decoded
<1>2. CASE clearArmed
  BY <1>1, <1>2 DEF Decode
<1>3. CASE ~clearArmed
  BY <1>1, <1>3 DEF Decode, DelMeansClear
<1> QED BY <1>2, <1>3

\* A finished build leaves a wallet in every buffer, and its word table.
LEMMA BuildTyped ==
  ASSUME TypeOK, CommandGate, NEW command, BuildDone(command)
  PROVE  /\ entropyHex' \in Entropies /\ mnemonic' = entropyHex' /\ address' = entropyHex'
         /\ wordLen' \in [Positions -> Nat] /\ quizPos' \in [Steps -> Positions]
         /\ quizPos' = Challenge(mnemonic')
         /\ hasHash' = TRUE /\ hwSample' \in Samples
<1>1. PICK h \in HwDigests :
        LET w == Entropy(entropyMode, rolls, h)
        IN  /\ entropyHex' = w /\ mnemonic' = w /\ address' = w
            /\ wordLen' = [p \in Positions |-> Len(Word(w, p))]
            /\ quizPos' = Challenge(w)
            /\ hwSample' = IF entropyMode = "HYBRID" THEN h ELSE NoSample
  BY DEF BuildDone
<1>2. entropyMode \in Modes
  BY DEF TypeOK, MenuOK, CommandGate
<1>3. Extracted
  BY DEF BuildDone
<1>4. Entropy(entropyMode, rolls, h) \in Entropies
  BY <1>2, <1>3, BuiltWallet DEF TypeOK, MenuOK
<1>5. \A p \in Positions : Len(Word(entropyHex', p)) \in Nat
  BY <1>1, <1>4, MnemonicAssumption
<1>6. quizPos' \in [Steps -> Positions]
  BY <1>1, <1>4, MnemonicAssumption
<1> QED BY <1>1, <1>4, <1>5, <1>6 DEF BuildDone, Samples

THEOREM TypeInit == Init => TypeOK /\ ModesExclusive
<1> SUFFICES ASSUME Init PROVE TypeOK /\ ModesExclusive
  OBVIOUS
<1>1. MenuOK /\ KeysOK
  BY StartValues DEF Init, MenuOK, KeysOK, Presses
<1>2. RollsOK
  BY RollsStayTyped, DiceAssumption DEF Init, RollsOK
<1>3. WalletOK
  BY StartValues DEF Init, WalletOK, Wallets, Samples
<1>4. QuizOK
  BY StartValues DEF Init, QuizOK
<1>5. ScreenOK
  BY StartValues DEF Init, ScreenOK
<1>6. DeviceOK
  BY WalletAssumption DEF Init, DeviceOK
<1>7. ModesExclusive
  BY DEF Init, ModesExclusive
<1> QED BY <1>1, <1>2, <1>3, <1>4, <1>5, <1>6, <1>7 DEF TypeOK

\* Menu presses keep the types.
LEMMA TypeMenu ==
  ASSUME TypeOK, ModesExclusive, NEW ks \in KeyStates, MenuPress(ks)
  PROVE  TypeOK' /\ ModesExclusive'
<1>1. CASE MenuMove(ks)
  <2>1. RollsOK' /\ WalletOK' /\ QuizOK' /\ ScreenOK' /\ DeviceOK'
    BY <1>1 DEF MenuMove, MenuPoll, MenuFrame, PressHeld, TypeOK, RollsOK, WalletOK, QuizOK,
       ScreenOK, DeviceOK
  <2>2. MenuOK'
    BY <1>1 DEF MenuMove, MenuPoll, MenuFrame, PressHeld, TypeOK, MenuOK
  <2>3. KeysOK'
    BY <1>1 DEF MenuMove, MenuPoll, MenuFrame, PressHeld, Presses, TypeOK, KeysOK
  <2>4. ModesExclusive'
    BY <1>1 DEF MenuMove, MenuPoll, MenuFrame, PressHeld, ModesExclusive
  <2> QED BY <2>1, <2>2, <2>3, <2>4 DEF TypeOK
<1>2. CASE MenuChoose(ks)
  <2>1. RollsOK' /\ WalletOK' /\ QuizOK' /\ DeviceOK'
    BY <1>2 DEF MenuChoose, MenuPoll, MenuFrame, PressHeld, DrawMain, TypeOK, RollsOK, WalletOK,
       QuizOK, DeviceOK
  <2>2. MenuOK'
    BY <1>2, ModeNamesTyped DEF MenuChoose, MenuPoll, MenuFrame, PressHeld, DrawMain, TypeOK, MenuOK
  <2>3. KeysOK'
    BY <1>2 DEF MenuChoose, MenuPoll, MenuFrame, PressHeld, DrawMain, Presses, TypeOK, KeysOK
  <2>4. ScreenOK'
    BY <1>2, VnBitsNat, <2>1 DEF MenuChoose, MenuPoll, MenuFrame, PressHeld, DrawMain, RollsOK,
       TypeOK, ScreenOK
  <2>5. ModesExclusive'
    BY <1>2 DEF MenuChoose, MenuPoll, MenuFrame, PressHeld, DrawMain, ModesExclusive
  <2> QED BY <2>1, <2>2, <2>3, <2>4, <2>5 DEF TypeOK
<1>3. CASE MenuIgnore(ks)
  <2>1. MenuOK' /\ RollsOK' /\ WalletOK' /\ QuizOK' /\ ScreenOK' /\ DeviceOK'
    BY <1>3 DEF MenuIgnore, MenuPoll, MenuFrame, PressHeld, TypeOK, MenuOK, RollsOK, WalletOK,
       QuizOK, ScreenOK, DeviceOK
  <2>2. KeysOK'
    BY <1>3 DEF MenuIgnore, MenuPoll, MenuFrame, PressHeld, Presses, TypeOK, KeysOK
  <2>3. ModesExclusive'
    BY <1>3 DEF MenuIgnore, MenuPoll, MenuFrame, PressHeld, ModesExclusive
  <2> QED BY <2>1, <2>2, <2>3 DEF TypeOK
<1> QED BY <1>1, <1>2, <1>3 DEF MenuPress

\* Presses in the backup check keep the types; no answer moves quizStep past
\* the last word.
LEMMA TypeQuiz ==
  ASSUME TypeOK, ModesExclusive, NEW ks \in KeyStates, QuizPress(ks)
  PROVE  TypeOK' /\ ModesExclusive'
<1>1. CASE QuizWrong(ks)
  <2>1. MenuOK' /\ RollsOK' /\ WalletOK' /\ DeviceOK'
    BY <1>1 DEF QuizWrong, QuizPoll, QuizGate, PressHeld, DrawQuiz, TypeOK, MenuOK, RollsOK,
       WalletOK, DeviceOK
  <2>2. QuizOK'
    BY <1>1, StartValues DEF QuizWrong, QuizPoll, QuizGate, PressHeld, DrawQuiz, TypeOK, QuizOK
  <2>3. KeysOK'
    BY <1>1 DEF QuizWrong, QuizPoll, QuizGate, PressHeld, DrawQuiz, Presses, KeyStates, TakenIn,
       TypeOK, KeysOK
  <2>4. ScreenOK'
    BY <1>1 DEF QuizWrong, QuizPoll, QuizGate, PressHeld, DrawQuiz, TypeOK, ScreenOK
  <2>5. ModesExclusive'
    BY <1>1, StartValues DEF QuizWrong, QuizPoll, QuizGate, PressHeld, DrawQuiz, ModesExclusive
  <2> QED BY <2>1, <2>2, <2>3, <2>4, <2>5 DEF TypeOK
<1>2. CASE QuizNext(ks)
  <2>1. MenuOK' /\ RollsOK' /\ WalletOK' /\ DeviceOK'
    BY <1>2 DEF QuizNext, QuizPoll, QuizGate, PressHeld, DrawQuiz, TypeOK, MenuOK, RollsOK,
       WalletOK, DeviceOK
  <2>2. QuizOK'
    BY <1>2, StartValues, QuizAdvances DEF QuizNext, QuizPoll, QuizGate, PressHeld, DrawQuiz,
       TypeOK, QuizOK
  <2>3. KeysOK'
    BY <1>2 DEF QuizNext, QuizPoll, QuizGate, PressHeld, DrawQuiz, Presses, KeyStates, TakenIn,
       TypeOK, KeysOK
  <2>4. ScreenOK'
    BY <1>2 DEF QuizNext, QuizPoll, QuizGate, PressHeld, DrawQuiz, TypeOK, ScreenOK
  <2>5. ModesExclusive'
    BY <1>2, QuizAdvances DEF QuizNext, QuizPoll, QuizGate, PressHeld, DrawQuiz, ModesExclusive
  <2> QED BY <2>1, <2>2, <2>3, <2>4, <2>5 DEF TypeOK
<1>3. CASE QuizPassed(ks)
  <2>1. MenuOK' /\ RollsOK' /\ WalletOK'
    BY <1>3 DEF QuizPassed, QuizPoll, QuizGate, DrawResult, TypeOK, MenuOK, RollsOK, WalletOK
  <2>2. QuizOK'
    BY <1>3, StartValues, QuizAdvances DEF QuizPassed, QuizPoll, QuizGate, DrawResult, TypeOK,
       QuizOK
  <2>3. KeysOK'
    BY <1>3 DEF QuizPassed, QuizPoll, QuizGate, DrawResult, Presses, KeyStates, TakenIn,
       TypeOK, KeysOK
  <2>4. ScreenOK'
    BY <1>3, VnBitsNat, <2>1 DEF QuizPassed, QuizPoll, QuizGate, DrawResult, RollsOK, TypeOK,
       ScreenOK
  <2>5. DeviceOK'
    BY <1>3, ReportTyped, AssessmentTyped, <2>1, <2>2 DEF QuizPassed, QuizPoll, QuizGate,
       DrawResult, TypeOK, DeviceOK
  <2>6. ModesExclusive'
    BY <1>3 DEF QuizPassed, QuizPoll, QuizGate, DrawResult, ModesExclusive
  <2> QED BY <2>1, <2>2, <2>3, <2>4, <2>5, <2>6 DEF TypeOK
<1>4. CASE QuizErase(ks)
  <2>1. MenuOK' /\ RollsOK' /\ WalletOK' /\ DeviceOK'
    BY <1>4 DEF QuizErase, QuizPoll, QuizGate, PressHeld, DrawQuiz, TypeOK, MenuOK, RollsOK,
       WalletOK, DeviceOK
  <2>2. QuizOK'
    BY <1>4, FrontTyped DEF QuizErase, QuizPoll, QuizGate, PressHeld, DrawQuiz, TypeOK, QuizOK
  <2>3. KeysOK'
    BY <1>4 DEF QuizErase, QuizPoll, QuizGate, PressHeld, DrawQuiz, Presses, KeyStates, TakenIn,
       TypeOK, KeysOK
  <2>4. ScreenOK'
    BY <1>4 DEF QuizErase, QuizPoll, QuizGate, PressHeld, DrawQuiz, TypeOK, ScreenOK
  <2>5. ModesExclusive'
    BY <1>4 DEF QuizErase, QuizPoll, QuizGate, PressHeld, DrawQuiz, ModesExclusive
  <2> QED BY <2>1, <2>2, <2>3, <2>4, <2>5 DEF TypeOK
<1>5. CASE QuizCancel(ks)
  <2>1. MenuOK' /\ RollsOK' /\ WalletOK' /\ DeviceOK'
    BY <1>5 DEF QuizCancel, QuizPoll, QuizGate, DrawResult, TypeOK, MenuOK, RollsOK, WalletOK,
       DeviceOK
  <2>2. QuizOK'
    BY <1>5 DEF QuizCancel, QuizPoll, QuizGate, DrawResult, TypeOK, QuizOK
  <2>3. KeysOK'
    BY <1>5 DEF QuizCancel, QuizPoll, QuizGate, DrawResult, Presses, KeyStates, TakenIn,
       TypeOK, KeysOK
  <2>4. ScreenOK'
    BY <1>5, VnBitsNat, <2>1 DEF QuizCancel, QuizPoll, QuizGate, DrawResult, RollsOK, TypeOK,
       ScreenOK
  <2>5. ModesExclusive'
    BY <1>5 DEF QuizCancel, QuizPoll, QuizGate, DrawResult, ModesExclusive
  <2> QED BY <2>1, <2>2, <2>3, <2>4, <2>5 DEF TypeOK
<1>6. CASE QuizLetter(ks)
  <2>1. MenuOK' /\ RollsOK' /\ WalletOK' /\ DeviceOK'
    BY <1>6 DEF QuizLetter, QuizPoll, QuizGate, PressHeld, DrawQuiz, TypeOK, MenuOK, RollsOK,
       WalletOK, DeviceOK
  <2>2. QuizOK'
    BY <1>6, AppendedTyped DEF QuizLetter, QuizPoll, QuizGate, PressHeld, DrawQuiz, TypeOK, QuizOK
  <2>3. KeysOK'
    BY <1>6 DEF QuizLetter, QuizPoll, QuizGate, PressHeld, DrawQuiz, Presses, KeyStates, TakenIn,
       TypeOK, KeysOK
  <2>4. ScreenOK'
    BY <1>6 DEF QuizLetter, QuizPoll, QuizGate, PressHeld, DrawQuiz, TypeOK, ScreenOK
  <2>5. ModesExclusive'
    BY <1>6 DEF QuizLetter, QuizPoll, QuizGate, PressHeld, DrawQuiz, ModesExclusive
  <2> QED BY <2>1, <2>2, <2>3, <2>4, <2>5 DEF TypeOK
<1>7. CASE QuizChord(ks)
  <2>1. MenuOK' /\ RollsOK' /\ WalletOK' /\ QuizOK' /\ DeviceOK'
    BY <1>7 DEF QuizChord, QuizPoll, QuizGate, PressHeld, DrawQuiz, TypeOK, MenuOK, RollsOK,
       WalletOK, QuizOK, DeviceOK
  <2>2. KeysOK'
    BY <1>7 DEF QuizChord, QuizPoll, QuizGate, PressHeld, DrawQuiz, Presses, KeyStates, TakenIn,
       TypeOK, KeysOK
  <2>3. ScreenOK'
    BY <1>7 DEF QuizChord, QuizPoll, QuizGate, PressHeld, DrawQuiz, TypeOK, ScreenOK
  <2>4. ModesExclusive'
    BY <1>7 DEF QuizChord, QuizPoll, QuizGate, PressHeld, DrawQuiz, ModesExclusive
  <2> QED BY <2>1, <2>2, <2>3, <2>4 DEF TypeOK
<1>8. CASE QuizIgnore(ks)
  <2>1. MenuOK' /\ RollsOK' /\ WalletOK' /\ QuizOK' /\ ScreenOK' /\ DeviceOK'
    BY <1>8 DEF QuizIgnore, QuizPoll, QuizGate, PressHeld, TypeOK, MenuOK, RollsOK, WalletOK,
       QuizOK, ScreenOK, DeviceOK
  <2>2. KeysOK'
    BY <1>8 DEF QuizIgnore, QuizPoll, QuizGate, PressHeld, Presses, KeyStates, TakenIn,
       TypeOK, KeysOK
  <2>3. ModesExclusive'
    BY <1>8 DEF QuizIgnore, QuizPoll, QuizGate, PressHeld, ModesExclusive
  <2> QED BY <2>1, <2>2, <2>3 DEF TypeOK
<1> QED BY <1>1, <1>2, <1>3, <1>4, <1>5, <1>6, <1>7, <1>8 DEF QuizPress

\* Commands that show, roll or erase keep the types.
LEMMA TypeView ==
  ASSUME TypeOK, ModesExclusive, NEW ks \in KeyStates, CommandGate,
         NEW command \in Decoded(ks),
         AskClear(command) \/ ShowRolls(command) \/ TurnPage(command, ks) \/
         IgnoreKey(command) \/ QuizStart(command) \/ RollRefused(command) \/
         RollAccepted(command, ks) \/ EraseRoll(command)
  PROVE  TypeOK' /\ ModesExclusive'
<1>1. CASE AskClear(command)
  <2>1. MenuOK' /\ RollsOK' /\ WalletOK' /\ QuizOK' /\ DeviceOK'
    BY <1>1 DEF AskClear, Viewing, Consumed, PressHeld, DrawResult, TypeOK, MenuOK, RollsOK,
       WalletOK, QuizOK, DeviceOK
  <2>2. KeysOK'
    BY <1>1 DEF AskClear, Viewing, Consumed, PressHeld, DrawResult, Presses, TypeOK, KeysOK
  <2>3. ScreenOK'
    BY <1>1, VnBitsNat, <2>1 DEF AskClear, Viewing, Consumed, PressHeld, DrawResult, RollsOK,
       TypeOK, ScreenOK
  <2>4. ModesExclusive'
    BY <1>1, DecodedFacts DEF AskClear, Viewing, Consumed, PressHeld, DrawResult, CommandGate,
       ModesExclusive
  <2> QED BY <2>1, <2>2, <2>3, <2>4 DEF TypeOK
<1>2. CASE ShowRolls(command)
  <2>1. MenuOK' /\ RollsOK' /\ WalletOK' /\ QuizOK' /\ DeviceOK'
    BY <1>2 DEF ShowRolls, Viewing, Consumed, PressHeld, DrawMain, TypeOK, MenuOK, RollsOK,
       WalletOK, QuizOK, DeviceOK
  <2>2. KeysOK'
    BY <1>2 DEF ShowRolls, Viewing, Consumed, PressHeld, DrawMain, Presses, TypeOK, KeysOK
  <2>3. ScreenOK'
    BY <1>2, VnBitsNat, <2>1 DEF ShowRolls, Viewing, Consumed, PressHeld, DrawMain, RollsOK, TypeOK,
       ScreenOK
  <2>4. ModesExclusive'
    BY <1>2, DecodedFacts DEF ShowRolls, Viewing, Consumed, PressHeld, DrawMain, CommandGate,
       ModesExclusive
  <2> QED BY <2>1, <2>2, <2>3, <2>4 DEF TypeOK
<1>3. CASE TurnPage(command, ks)
  <2>1. MenuOK' /\ RollsOK' /\ WalletOK' /\ QuizOK' /\ DeviceOK'
    BY <1>3 DEF TurnPage, Viewing, Consumed, PressHeld, DrawResult, TypeOK, MenuOK, RollsOK,
       WalletOK, QuizOK, DeviceOK
  <2>2. KeysOK'
    BY <1>3 DEF TurnPage, Viewing, Consumed, PressHeld, DrawResult, Presses, TypeOK, KeysOK
  <2>3. ScreenOK'
    BY <1>3, VnBitsNat, <2>1, PageTurned DEF TurnPage, Viewing, Consumed, PressHeld, DrawResult,
       RollsOK, TypeOK, TypeOK, ScreenOK
  <2>4. ModesExclusive'
    BY <1>3, DecodedFacts DEF TurnPage, Viewing, Consumed, PressHeld, DrawResult, CommandGate,
       ModesExclusive
  <2> QED BY <2>1, <2>2, <2>3, <2>4 DEF TypeOK
<1>4. CASE IgnoreKey(command)
  <2>1. MenuOK' /\ RollsOK' /\ WalletOK' /\ QuizOK' /\ ScreenOK' /\ DeviceOK'
    BY <1>4 DEF IgnoreKey, Viewing, Consumed, PressHeld, TypeOK, MenuOK, RollsOK, WalletOK, QuizOK,
       ScreenOK, DeviceOK
  <2>2. KeysOK'
    BY <1>4 DEF IgnoreKey, Viewing, Consumed, PressHeld, Presses, TypeOK, KeysOK
  <2>3. ModesExclusive'
    BY <1>4, DecodedFacts DEF IgnoreKey, Viewing, Consumed, PressHeld, CommandGate, ModesExclusive
  <2> QED BY <2>1, <2>2, <2>3 DEF TypeOK
<1>5. CASE QuizStart(command)
  <2>1. MenuOK' /\ RollsOK' /\ WalletOK' /\ DeviceOK'
    BY <1>5 DEF QuizStart, Consumed, EdgeReset, DrawQuiz, TypeOK, MenuOK, RollsOK, WalletOK,
       DeviceOK
  <2>2. QuizOK'
    BY <1>5, StartValues DEF QuizStart, Consumed, EdgeReset, DrawQuiz, TypeOK, QuizOK
  <2>3. KeysOK'
    BY <1>5 DEF QuizStart, Consumed, EdgeReset, DrawQuiz, Presses, TypeOK, KeysOK
  <2>4. ScreenOK'
    BY <1>5 DEF QuizStart, Consumed, EdgeReset, DrawQuiz, TypeOK, ScreenOK
  <2>5. ModesExclusive'
    BY <1>5, DecodedFacts, StartValues DEF QuizStart, Consumed, EdgeReset, DrawQuiz, CommandGate,
       ModesExclusive
  <2> QED BY <2>1, <2>2, <2>3, <2>4, <2>5 DEF TypeOK
<1>6. CASE RollRefused(command)
  <2>1. MenuOK' /\ RollsOK' /\ WalletOK' /\ QuizOK' /\ DeviceOK'
    BY <1>6 DEF RollRefused, Viewing, Consumed, PressHeld, DrawMain, DrawResult, TypeOK, MenuOK,
       RollsOK, WalletOK, QuizOK, DeviceOK
  <2>2. KeysOK'
    BY <1>6 DEF RollRefused, Viewing, Consumed, PressHeld, DrawMain, DrawResult, Presses, TypeOK,
       KeysOK
  <2>3. ScreenOK'
    BY <1>6, VnBitsNat, <2>1 DEF RollRefused, Viewing, Consumed, PressHeld, DrawMain, DrawResult,
       RollsOK, TypeOK, ScreenOK
  <2>4. ModesExclusive'
    BY <1>6, DecodedFacts DEF RollRefused, Viewing, Consumed, PressHeld, DrawMain, DrawResult,
       CommandGate, ModesExclusive
  <2> QED BY <2>1, <2>2, <2>3, <2>4 DEF TypeOK
<1>7. CASE RollAccepted(command, ks)
  <2>1. MenuOK' /\ QuizOK' /\ DeviceOK'
    BY <1>7 DEF RollAccepted, Consumed, DrawMain, TypeOK, MenuOK, QuizOK, DeviceOK
  <2>2. RollsOK'
    BY <1>7, AcceptedRolls DEF RollAccepted, Consumed, DrawMain, TypeOK, RollsOK
  <2>3. WalletOK'
    BY <1>7 DEF RollAccepted, Consumed, DrawMain, TypeOK, WalletOK
  <2>4. KeysOK'
    BY <1>7 DEF RollAccepted, Consumed, DrawMain, Presses, TypeOK, KeysOK
  <2>5. ScreenOK'
    BY <1>7, VnBitsNat, <2>2 DEF RollAccepted, Consumed, DrawMain, RollsOK, TypeOK, ScreenOK
  <2>6. ModesExclusive'
    BY <1>7, DecodedFacts DEF RollAccepted, Consumed, DrawMain, CommandGate, ModesExclusive
  <2> QED BY <2>1, <2>2, <2>3, <2>4, <2>5, <2>6 DEF TypeOK
<1>8. CASE EraseRoll(command)
  <2>1. MenuOK' /\ WalletOK' /\ QuizOK' /\ DeviceOK'
    BY <1>8 DEF EraseRoll, Consumed, PressHeld, DrawMain, TypeOK, MenuOK, WalletOK, QuizOK, DeviceOK
  <2>2. RollsOK'
    BY <1>8, RollsStayTyped DEF EraseRoll, Consumed, PressHeld, DrawMain, TypeOK, RollsOK
  <2>3. KeysOK'
    BY <1>8 DEF EraseRoll, Consumed, PressHeld, DrawMain, Presses, TypeOK, KeysOK
  <2>4. ScreenOK'
    BY <1>8, VnBitsNat, <2>2 DEF EraseRoll, Consumed, PressHeld, DrawMain, RollsOK, TypeOK, ScreenOK
  <2>5. ModesExclusive'
    BY <1>8, DecodedFacts DEF EraseRoll, Consumed, PressHeld, DrawMain, CommandGate, ModesExclusive
  <2> QED BY <2>1, <2>2, <2>3, <2>4, <2>5 DEF TypeOK
<1> QED BY <1>1, <1>2, <1>3, <1>4, <1>5, <1>6, <1>7, <1>8

\* A build, however it ends, and clear-all keep the types.
LEMMA TypeBuild ==
  ASSUME TypeOK, ModesExclusive, NEW ks \in KeyStates, CommandGate,
         NEW command \in Decoded(ks),
         BuildRefused(command) \/ BuildRadioError(command) \/ BuildBlocked(command) \/
         HwrngFailed(command) \/ BuildDone(command) \/ ClearEverything(command)
  PROVE  TypeOK' /\ ModesExclusive'
<1>1. CASE BuildRefused(command)
  <2>1. MenuOK' /\ RollsOK' /\ WalletOK' /\ QuizOK'
    BY <1>1 DEF BuildRefused, Build, PressHeld, DrawMain, TypeOK, MenuOK, RollsOK, WalletOK, QuizOK
  <2>2. KeysOK'
    BY <1>1 DEF BuildRefused, Build, PressHeld, DrawMain, Presses, TypeOK, KeysOK
  <2>3. ScreenOK'
    BY <1>1, VnBitsNat, <2>1 DEF BuildRefused, Build, PressHeld, DrawMain, RollsOK, TypeOK, ScreenOK
  <2>4. DeviceOK'
    BY <1>1 DEF BuildRefused, Build, PressHeld, DrawMain, TypeOK, DeviceOK
  <2>5. ModesExclusive'
    BY <1>1, DecodedFacts DEF BuildRefused, Build, PressHeld, DrawMain, CommandGate, ModesExclusive
  <2> QED BY <2>1, <2>2, <2>3, <2>4, <2>5 DEF TypeOK
<1>2. CASE BuildRadioError(command)
  <2>1. MenuOK' /\ RollsOK' /\ QuizOK'
    BY <1>2 DEF BuildRadioError, Build, PressHeld, DrawMain, TypeOK, MenuOK, RollsOK, QuizOK
  <2>2. WalletOK'
    BY <1>2 DEF BuildRadioError, Build, PressHeld, DrawMain, Samples, FreshSample, TypeOK, WalletOK
  <2>3. KeysOK'
    BY <1>2 DEF BuildRadioError, Build, PressHeld, DrawMain, Presses, TypeOK, KeysOK
  <2>4. ScreenOK'
    BY <1>2, VnBitsNat, <2>1 DEF BuildRadioError, Build, PressHeld, DrawMain, RollsOK, TypeOK,
       ScreenOK
  <2>5. DeviceOK'
    BY <1>2 DEF BuildRadioError, Build, PressHeld, DrawMain, TypeOK, DeviceOK
  <2>6. ModesExclusive'
    BY <1>2, DecodedFacts DEF BuildRadioError, Build, PressHeld, DrawMain, CommandGate,
       ModesExclusive
  <2> QED BY <2>1, <2>2, <2>3, <2>4, <2>5, <2>6 DEF TypeOK
<1>3. CASE BuildBlocked(command)
  <2>1. MenuOK' /\ RollsOK' /\ QuizOK'
    BY <1>3 DEF BuildBlocked, Build, PressHeld, DrawResult, TypeOK, MenuOK, RollsOK, QuizOK
  <2>2. WalletOK'
    BY <1>3 DEF BuildBlocked, Build, PressHeld, DrawResult, Samples, Wallets, FreshSample, TypeOK,
       WalletOK
  <2>3. KeysOK'
    BY <1>3 DEF BuildBlocked, Build, PressHeld, DrawResult, Presses, TypeOK, KeysOK
  <2>4. ScreenOK'
    BY <1>3, VnBitsNat, <2>1, StartValues DEF BuildBlocked, Build, PressHeld, DrawResult, RollsOK,
       TypeOK, ScreenOK
  <2>5. DeviceOK'
    BY <1>3, ReportTyped, <2>1, <2>2 DEF BuildBlocked, Build, PressHeld, DrawResult, TypeOK,
       DeviceOK
  <2>6. ModesExclusive'
    BY <1>3, DecodedFacts DEF BuildBlocked, Build, PressHeld, DrawResult, CommandGate,
       ModesExclusive
  <2> QED BY <2>1, <2>2, <2>3, <2>4, <2>5, <2>6 DEF TypeOK
<1>4. CASE HwrngFailed(command)
  <2>1. MenuOK' /\ RollsOK' /\ QuizOK' /\ DeviceOK'
    BY <1>4 DEF HwrngFailed, Build, PressHeld, DrawMain, TypeOK, MenuOK, RollsOK, QuizOK, DeviceOK
  <2>2. WalletOK'
    BY <1>4 DEF HwrngFailed, Build, PressHeld, DrawMain, Samples, FreshSample, TypeOK, WalletOK
  <2>3. KeysOK'
    BY <1>4 DEF HwrngFailed, Build, PressHeld, DrawMain, Presses, TypeOK, KeysOK
  <2>4. ScreenOK'
    BY <1>4, VnBitsNat, <2>1 DEF HwrngFailed, Build, PressHeld, DrawMain, RollsOK, TypeOK, ScreenOK
  <2>5. ModesExclusive'
    BY <1>4, DecodedFacts DEF HwrngFailed, Build, PressHeld, DrawMain, CommandGate, ModesExclusive
  <2> QED BY <2>1, <2>2, <2>3, <2>4, <2>5 DEF TypeOK
<1>5. CASE BuildDone(command)
  <2>1. MenuOK' /\ RollsOK'
    BY <1>5 DEF BuildDone, Build, PressHeld, FreshQuiz, DrawResult, TypeOK, MenuOK, RollsOK
  <2>2. WalletOK'
    BY <1>5, BuildTyped DEF BuildDone, Build, PressHeld, FreshQuiz, DrawResult, Samples, Wallets,
       TypeOK, WalletOK
  <2>3. QuizOK'
    BY <1>5, StartValues DEF BuildDone, Build, PressHeld, FreshQuiz, DrawResult, TypeOK, QuizOK
  <2>4. KeysOK'
    BY <1>5 DEF BuildDone, Build, PressHeld, FreshQuiz, DrawResult, Presses, TypeOK, KeysOK
  <2>5. ScreenOK'
    BY <1>5, VnBitsNat, <2>1, StartValues DEF BuildDone, Build, PressHeld, FreshQuiz, DrawResult,
       RollsOK, TypeOK, ScreenOK
  <2>6. DeviceOK'
    BY <1>5, ReportTyped, <2>1, <2>2, <2>3 DEF BuildDone, Build, PressHeld, FreshQuiz, DrawResult,
       TypeOK, DeviceOK
  <2>7. ModesExclusive'
    BY <1>5, DecodedFacts DEF BuildDone, Build, PressHeld, FreshQuiz, DrawResult, CommandGate,
       ModesExclusive
  <2> QED BY <2>1, <2>2, <2>3, <2>4, <2>5, <2>6, <2>7 DEF TypeOK
<1>6. CASE ClearEverything(command)
  <2>1. MenuOK'
    BY <1>6 DEF ClearEverything, EdgeReset, PressHeld, TypeOK, MenuOK
  <2>2. RollsOK'
    BY <1>6, RollsStayTyped DEF ClearEverything, EdgeReset, PressHeld, TypeOK, TypeOK, RollsOK
  <2>3. WalletOK'
    BY <1>6 DEF ClearEverything, EdgeReset, PressHeld, Samples, Wallets, WipeWallet, TypeOK,
       WalletOK
  <2>4. QuizOK'
    BY <1>6, StartValues DEF ClearEverything, EdgeReset, PressHeld, TypeOK, QuizOK
  <2>5. KeysOK'
    BY <1>6 DEF ClearEverything, EdgeReset, PressHeld, Presses, TypeOK, KeysOK
  <2>6. ScreenOK'
    BY <1>6, VnBitsNat, <2>2, StartValues DEF ClearEverything, EdgeReset, PressHeld, RollsOK,
       RemoveReport, DrawMain, TypeOK, ScreenOK
  <2>7. DeviceOK'
    BY <1>6 DEF ClearEverything, EdgeReset, PressHeld, RemoveReport, ReportInReach, Exists, TypeOK, DeviceOK
  <2>8. ModesExclusive'
    BY <1>6, DecodedFacts DEF ClearEverything, EdgeReset, PressHeld, CommandGate, RemoveReport,
       DrawMain, ModesExclusive
  <2> QED BY <2>1, <2>2, <2>3, <2>4, <2>5, <2>6, <2>7, <2>8 DEF TypeOK
<1> QED BY <1>1, <1>2, <1>3, <1>4, <1>5, <1>6

\* The environment's steps keep the types.
LEMMA TypeEnvironment ==
  ASSUME TypeOK, ModesExclusive, PowerCycle \/ CardPulled \/ Release \/ UNCHANGED vars
  PROVE  TypeOK' /\ ModesExclusive'
<1>1. CASE PowerCycle
  <2>1. MenuOK'
    BY <1>1, StartValues DEF PowerCycle, MenuOK
  <2>2. RollsOK'
    BY <1>1, RollsStayTyped DEF PowerCycle, TypeOK, RollsOK
  <2>3. WalletOK'
    BY <1>1, StartValues DEF PowerCycle, WalletOK, Wallets, Samples
  <2>4. QuizOK'
    BY <1>1, StartValues DEF PowerCycle, QuizOK
  <2>5. KeysOK'
    BY <1>1 DEF PowerCycle, EdgeReset, KeysOK, Presses
  <2>6. ScreenOK'
    BY <1>1, StartValues DEF PowerCycle, ScreenOK
  <2>7. DeviceOK'
    BY <1>1, WalletAssumption DEF PowerCycle, TypeOK, DeviceOK
  <2>8. ModesExclusive'
    BY <1>1 DEF PowerCycle, ModesExclusive
  <2> QED BY <2>1, <2>2, <2>3, <2>4, <2>5, <2>6, <2>7, <2>8 DEF TypeOK
<1>2. CASE CardPulled
  <2>1. MenuOK' /\ RollsOK' /\ WalletOK' /\ QuizOK' /\ ModesExclusive'
    BY <1>2 DEF CardPulled, TypeOK, MenuOK, RollsOK, WalletOK, QuizOK, ModesExclusive
  <2>2. KeysOK' /\ ScreenOK'
    BY <1>2 DEF CardPulled, TypeOK, KeysOK, ScreenOK
  <2>3. DeviceOK'
    BY <1>2 DEF CardPulled, TypeOK, DeviceOK
  <2> QED BY <2>1, <2>2, <2>3 DEF TypeOK
<1>3. CASE Release
  <2>1. MenuOK' /\ RollsOK' /\ WalletOK' /\ QuizOK' /\ ModesExclusive'
    BY <1>3 DEF Release, TypeOK, MenuOK, RollsOK, WalletOK, QuizOK, ModesExclusive
  <2>2. KeysOK' /\ ScreenOK' /\ DeviceOK'
    BY <1>3 DEF Release, EdgeReset, Presses, TypeOK, KeysOK, ScreenOK, DeviceOK
  <2> QED BY <2>1, <2>2 DEF TypeOK
<1>4. CASE UNCHANGED vars
  <2>1. MenuOK' /\ RollsOK' /\ WalletOK' /\ QuizOK' /\ ModesExclusive'
    BY <1>4 DEF TypeOK, MenuOK, RollsOK, WalletOK, QuizOK, ModesExclusive
  <2>2. KeysOK' /\ ScreenOK' /\ DeviceOK'
    BY <1>4 DEF TypeOK, KeysOK, ScreenOK, DeviceOK
  <2> QED BY <2>1, <2>2 DEF TypeOK
<1> QED BY <1>1, <1>2, <1>3, <1>4

LEMMA TypeStep == TypeOK /\ ModesExclusive /\ [Next]_vars => TypeOK' /\ ModesExclusive'
<1> SUFFICES ASSUME TypeOK, ModesExclusive, [Next]_vars
             PROVE  TypeOK' /\ ModesExclusive'
  OBVIOUS
<1>1. CASE PowerCycle \/ CardPulled \/ Release \/ UNCHANGED vars
  BY <1>1, TypeEnvironment
<1>2. ASSUME NEW ks \in KeyStates, MenuPress(ks)
      PROVE  TypeOK' /\ ModesExclusive'
  BY <1>2, TypeMenu
<1>3. ASSUME NEW ks \in KeyStates, QuizPress(ks)
      PROVE  TypeOK' /\ ModesExclusive'
  BY <1>3, TypeQuiz
<1>4. ASSUME NEW ks \in KeyStates, CommandPress(ks)
      PROVE  TypeOK' /\ ModesExclusive'
  BY <1>4, TypeView, TypeBuild DEF CommandPress
<1> QED BY <1>1, <1>2, <1>3, <1>4 DEF Next

\* Every buffer, index and flag keeps its type, quizBuf its bound, resultPage
\* its range, for every size of die, buffer, mnemonic and quiz.
THEOREM TypeCorrect == Spec => []TypeOK
<1>1. Spec => [](TypeOK /\ ModesExclusive)
  BY TypeInit, TypeStep, PTL DEF Spec
<1> QED BY <1>1, PTL

\* The backup check, the result pages and the armed question never overlap, and
\* the check never asks past quizPos.
THEOREM ModesNeverOverlap == Spec => []ModesExclusive
<1>1. Spec => [](TypeOK /\ ModesExclusive)
  BY TypeInit, TypeStep, PTL DEF Spec
<1> QED BY <1>1, PTL

-----------------------------------------------------------------------------
USE DEF vars, menuVars, resultVars, quizVars, edgeVars, screenVars, pageVars, reportVars,
        hwVars, NoSample

Typed == TypeOK /\ ModesExclusive

LEMMA TypedCorrect == Spec => []Typed
<1>1. Init => Typed
  BY TypeInit DEF Typed
<1>2. Typed /\ [Next]_vars => Typed'
  BY TypeStep DEF Typed
<1> QED BY <1>1, <1>2, PTL DEF Spec

-----------------------------------------------------------------------------
(* Which steps change the transcript, the mode or the results.              *)

WalletUnchanged == UNCHANGED <<modeSelect, entropyMode, rolls, resultVars>>

WalletStep(ks, command) ==
  \/ RollAccepted(command, ks) \/ EraseRoll(command)
  \/ BuildRadioError(command) \/ BuildBlocked(command) \/ HwrngFailed(command)
  \/ BuildDone(command) \/ ClearEverything(command)

LEMMA WalletSteps ==
  ASSUME [Next]_vars
  PROVE  \/ WalletUnchanged
         \/ PowerCycle
         \/ \E ks \in KeyStates : MenuChoose(ks)
         \/ \E ks \in KeyStates : CommandGate /\ \E command \in Decoded(ks) :
              WalletStep(ks, command)
<1>1. CASE CardPulled \/ Release \/ UNCHANGED vars
  BY <1>1 DEF CardPulled, Release, WalletUnchanged
<1>2. ASSUME NEW ks \in KeyStates, MenuPress(ks), ~MenuChoose(ks)
      PROVE  WalletUnchanged
  BY <1>2 DEF MenuPress, MenuMove, MenuIgnore, MenuPoll, MenuFrame, WalletUnchanged
<1>3. ASSUME NEW ks \in KeyStates, QuizPress(ks)
      PROVE  WalletUnchanged
  <2>1. QuizPoll(ks)
    BY <1>3 DEF QuizPress, QuizWrong, QuizNext, QuizPassed, QuizErase, QuizCancel, QuizLetter,
       QuizChord, QuizIgnore
  <2> QED BY <2>1 DEF QuizPoll, WalletUnchanged
<1>4. ASSUME NEW ks \in KeyStates, CommandGate, NEW command \in Decoded(ks),
             \/ AskClear(command) \/ ShowRolls(command) \/ TurnPage(command, ks)
             \/ IgnoreKey(command) \/ QuizStart(command)
             \/ RollRefused(command) \/ BuildRefused(command)
      PROVE  WalletUnchanged
  <2>1. CASE AskClear(command) \/ ShowRolls(command) \/ TurnPage(command, ks) \/
             IgnoreKey(command) \/ RollRefused(command)
    BY <2>1 DEF AskClear, ShowRolls, TurnPage, IgnoreKey, RollRefused, Viewing, Consumed,
       WalletUnchanged
  <2>2. CASE QuizStart(command)
    BY <2>2 DEF QuizStart, Consumed, WalletUnchanged
  <2>3. CASE BuildRefused(command)
    BY <2>3 DEF BuildRefused, Build, WalletUnchanged
  <2> QED BY <1>4, <2>1, <2>2, <2>3
<1>5. ASSUME NEW ks \in KeyStates, CommandPress(ks)
      PROVE  \/ WalletUnchanged
             \/ CommandGate /\ \E command \in Decoded(ks) : WalletStep(ks, command)
  BY <1>4, <1>5 DEF CommandPress, WalletStep
<1> QED BY <1>1, <1>2, <1>3, <1>5 DEF Next

-----------------------------------------------------------------------------
(* One wallet in memory.                                                    *)

\* The words and the address always belong together; only the fingerprint may
\* be missing, after a blocked build.
OneWallet == address = mnemonic /\ ResultsAgree

LEMMA OneWalletStep ==
  ASSUME Typed, OneWallet, [Next]_vars
  PROVE  OneWallet'
<1>1. CASE WalletUnchanged
  BY <1>1 DEF WalletUnchanged, OneWallet, ResultsAgree
<1>2. CASE PowerCycle
  BY <1>2 DEF PowerCycle, OneWallet, ResultsAgree
<1>3. ASSUME NEW ks \in KeyStates, MenuChoose(ks)
      PROVE  OneWallet'
  BY <1>3 DEF MenuChoose, MenuPoll, MenuFrame, OneWallet, ResultsAgree
<1>4. ASSUME NEW ks \in KeyStates, CommandGate, NEW command \in Decoded(ks),
             WalletStep(ks, command)
      PROVE  OneWallet'
  <2>1. CASE RollAccepted(command, ks) \/ EraseRoll(command)
    BY <2>1 DEF RollAccepted, EraseRoll, OneWallet, ResultsAgree
  <2>2. CASE BuildRadioError(command) \/ HwrngFailed(command)
    BY <2>2 DEF BuildRadioError, HwrngFailed, OneWallet, ResultsAgree
  <2>3. CASE BuildBlocked(command)
    BY <2>3 DEF BuildBlocked, OneWallet, ResultsAgree
  <2>4. CASE BuildDone(command)
    <3>1. mnemonic' = entropyHex' /\ address' = entropyHex'
      BY <1>4, <2>4, BuildTyped DEF Typed
    <3> QED BY <3>1 DEF OneWallet, ResultsAgree
  <2>5. CASE ClearEverything(command)
    BY <2>5 DEF ClearEverything, WipeWallet, OneWallet, ResultsAgree
  <2> QED BY <1>4, <2>1, <2>2, <2>3, <2>4, <2>5 DEF WalletStep
<1> QED BY <1>1, <1>2, <1>3, <1>4, WalletSteps

\* Whatever builds were blocked, failed or repeated: fingerprint, words and
\* address in memory are of one wallet.
THEOREM ResultsOfOneWallet == Spec => []ResultsAgree
<1>1. Init => OneWallet
  BY DEF Init, OneWallet, ResultsAgree
<1>2. Typed /\ OneWallet /\ [Next]_vars => OneWallet'
  BY OneWalletStep
<1>3. OneWallet => ResultsAgree
  BY DEF OneWallet
<1> QED BY <1>1, <1>2, <1>3, TypedCorrect, PTL DEF Spec

-----------------------------------------------------------------------------
(* The wallet and the transcript it was made of.                            *)

\* A finished wallet, and no wallet before a mode was chosen.
WalletOfTranscript == WalletMatchesTranscript /\ (modeSelect => ~hasHash)

\* The entropy of a build does not depend on the sample in the modes that
\* report none.
LEMMA BuildDoneMatches ==
  ASSUME Typed, CommandGate, NEW command, BuildDone(command)
  PROVE  mnemonic' = Entropy(entropyMode, rolls, hwSample')
<1>1. PICK h \in HwDigests :
        /\ mnemonic' = Entropy(entropyMode, rolls, h)
        /\ hwSample' = IF entropyMode = "HYBRID" THEN h ELSE NoSample
  BY DEF BuildDone
<1>2. CASE entropyMode = "HYBRID"
  BY <1>1, <1>2
<1>3. CASE entropyMode # "HYBRID"
  BY <1>1, <1>3 DEF Typed, TypeOK, MenuOK, Entropy
<1> QED BY <1>2, <1>3

LEMMA WalletOfTranscriptStep ==
  ASSUME Typed, WalletOfTranscript, [Next]_vars
  PROVE  WalletOfTranscript'
<1>1. CASE WalletUnchanged
  BY <1>1 DEF WalletUnchanged, WalletOfTranscript, WalletMatchesTranscript
<1>2. CASE PowerCycle
  BY <1>2 DEF PowerCycle, WalletOfTranscript, WalletMatchesTranscript
<1>3. ASSUME NEW ks \in KeyStates, MenuChoose(ks)
      PROVE  WalletOfTranscript'
  BY <1>3 DEF MenuChoose, MenuPoll, MenuFrame, WalletOfTranscript, WalletMatchesTranscript
<1>4. ASSUME NEW ks \in KeyStates, CommandGate, NEW command \in Decoded(ks),
             WalletStep(ks, command)
      PROVE  WalletOfTranscript'
  <2>1. CASE RollAccepted(command, ks) \/ BuildRadioError(command) \/ BuildBlocked(command)
             \/ HwrngFailed(command) \/ ClearEverything(command)
    <3>1. hasHash' = FALSE
      BY <2>1 DEF RollAccepted, BuildRadioError, BuildBlocked, HwrngFailed, ClearEverything
    <3> QED BY <3>1 DEF WalletOfTranscript, WalletMatchesTranscript
  <2>2. CASE EraseRoll(command)
    <3>1. ~hasHash /\ hasHash' = hasHash
      BY <2>2, DecodedFacts DEF EraseRoll, Typed
    <3> QED BY <3>1 DEF WalletOfTranscript, WalletMatchesTranscript
  <2>3. CASE BuildDone(command)
    <3>1. UNCHANGED <<modeSelect, entropyMode, rolls>>
      BY <2>3 DEF BuildDone, Build
    <3> QED BY <1>4, <2>3, <3>1, BuildDoneMatches
            DEF CommandGate, WalletOfTranscript, WalletMatchesTranscript
  <2> QED BY <1>4, <2>1, <2>2, <2>3 DEF WalletStep
<1> QED BY <1>1, <1>2, <1>3, <1>4, WalletSteps

\* While hasHash claims a finished wallet, its words are what the mode makes of
\* the rolls in the buffer: no step edits the transcript under a finished wallet.
THEOREM WalletOfItsRolls == Spec => []WalletMatchesTranscript
<1>1. Init => WalletOfTranscript
  BY DEF Init, WalletOfTranscript, WalletMatchesTranscript
<1>2. Typed /\ WalletOfTranscript /\ [Next]_vars => WalletOfTranscript'
  BY WalletOfTranscriptStep
<1>3. WalletOfTranscript => WalletMatchesTranscript
  BY DEF WalletOfTranscript
<1> QED BY <1>1, <1>2, <1>3, TypedCorrect, PTL DEF Spec

-----------------------------------------------------------------------------
(* The backup check.                                                        *)

\* During a check of a wallet's words, those asked so far have been typed.
QuizProgress ==
  /\ quizActive /\ mnemonic # NoWallet => typed = {quizPos[s] : s \in 0 .. quizStep - 1}
  /\ BackupGate

\* Answering a prompt with the prompted word adds it to the words typed.
LEMMA PromptAnswered ==
  ASSUME Typed, quizActive, QuizProgress, Match, mnemonic # NoWallet
  PROVE  Remembered = {quizPos[s] : s \in 0 .. quizStep}
<1>1. quizBuf = Word(mnemonic, quizPos[quizStep])
  BY DEF Match, Expected
<1>2. Remembered = typed \cup {quizPos[quizStep]}
  BY <1>1 DEF Remembered
<1>3. typed = {quizPos[s] : s \in 0 .. quizStep - 1}
  BY DEF QuizProgress
<1>4. quizStep \in Nat
  BY DEF Typed, TypeOK, QuizOK
<1>5. 0 .. quizStep = (0 .. quizStep - 1) \cup {quizStep}
  BY <1>4
<1> QED BY <1>2, <1>3, <1>5

\* Steps that leave the wallet and the check alone, but for the words in the
\* input line, keep what was reached.
LEMMA QuizUndisturbed ==
  ASSUME QuizProgress,
         UNCHANGED <<mnemonic, quizPos, backupVerified, quizActive, quizStep, typed>>
  PROVE  QuizProgress'
BY DEF QuizProgress, BackupGate, Challenged

LEMMA QuizProgressInQuiz ==
  ASSUME Typed, QuizProgress, NEW ks \in KeyStates, QuizPress(ks)
  PROVE  QuizProgress'
<1>1. QuizPoll(ks) /\ quizActive
  BY DEF QuizPress, QuizWrong, QuizNext, QuizPassed, QuizErase, QuizCancel, QuizLetter,
     QuizChord, QuizIgnore, QuizPoll, QuizGate
<1>2. UNCHANGED <<mnemonic, quizPos>>
  BY <1>1 DEF QuizPoll
<1>3. quizStep \in Steps /\ QuizWords \in Nat /\ ~backupVerified
  BY <1>1, QuizAdvances, WalletAssumption DEF Typed, ModesExclusive
<1>4. CASE QuizWrong(ks)
  <2>1. quizStep' = 0 /\ typed' = {} /\ UNCHANGED <<backupVerified, quizActive>>
    BY <1>4 DEF QuizWrong
  <2>2. 0 .. quizStep' - 1 = {}
    BY <2>1
  <2>3. {quizPos'[s] : s \in 0 .. quizStep' - 1} = {}
    BY <2>2
  <2> QED BY <1>3, <2>1, <2>3 DEF QuizProgress, BackupGate
<1>5. CASE QuizNext(ks)
  <2>1. /\ quizStep' = quizStep + 1 /\ typed' = Remembered /\ Match
        /\ UNCHANGED <<backupVerified, quizActive>>
    BY <1>5 DEF QuizNext
  <2>2. quizStep' - 1 = quizStep
    BY <1>3, <2>1 DEF Steps
  <2>3. mnemonic # NoWallet => typed' = {quizPos'[s] : s \in 0 .. quizStep' - 1}
    BY <1>1, <1>2, <2>1, <2>2, PromptAnswered
  <2> QED BY <1>2, <1>3, <2>1, <2>3 DEF QuizProgress, BackupGate
<1>6. CASE QuizPassed(ks)
  <2>1. typed' = Remembered /\ Match /\ LastStep /\ quizActive' = FALSE
    BY <1>6 DEF QuizPassed
  <2>2. 0 .. quizStep = Steps
    BY <1>3, <2>1 DEF LastStep, Steps
  <2>3. mnemonic # NoWallet => typed' = {quizPos'[s] : s \in Steps}
    BY <1>1, <1>2, <2>1, <2>2, PromptAnswered
  <2> QED BY <1>2, <2>1, <2>3 DEF QuizProgress, BackupGate, Challenged
<1>7. CASE QuizErase(ks) \/ QuizLetter(ks) \/ QuizChord(ks) \/ QuizIgnore(ks)
  <2>1. UNCHANGED <<backupVerified, quizActive, quizStep, typed>>
    BY <1>7 DEF QuizErase, QuizLetter, QuizChord, QuizIgnore
  <2> QED BY <1>2, <2>1, QuizUndisturbed
<1>8. CASE QuizCancel(ks)
  <2>1. quizActive' = FALSE /\ UNCHANGED <<backupVerified, quizStep, typed>>
    BY <1>8 DEF QuizCancel
  <2> QED BY <1>2, <1>3, <2>1 DEF QuizProgress, BackupGate
<1> QED BY <1>4, <1>5, <1>6, <1>7, <1>8 DEF QuizPress

LEMMA QuizProgressByCommand ==
  ASSUME Typed, QuizProgress, NEW ks \in KeyStates, CommandPress(ks)
  PROVE  QuizProgress'
<1>1. PICK command \in Decoded(ks) :
        \/ AskClear(command) \/ ClearEverything(command)
        \/ ShowRolls(command) \/ TurnPage(command, ks) \/ IgnoreKey(command)
        \/ QuizStart(command)
        \/ RollRefused(command) \/ RollAccepted(command, ks) \/ EraseRoll(command)
        \/ BuildRefused(command) \/ BuildRadioError(command) \/ BuildBlocked(command)
        \/ HwrngFailed(command) \/ BuildDone(command)
  BY DEF CommandPress
<1>2. CASE AskClear(command) \/ ShowRolls(command) \/ TurnPage(command, ks) \/
           IgnoreKey(command) \/ RollRefused(command)
  <2>1. UNCHANGED <<mnemonic, quizPos, quizVars>>
    BY <1>2 DEF AskClear, ShowRolls, TurnPage, IgnoreKey, RollRefused, Viewing
  <2> QED BY <2>1, QuizUndisturbed
<1>3. CASE RollAccepted(command, ks) \/ EraseRoll(command)
  <2>1. UNCHANGED <<mnemonic, quizPos, quizVars>>
    BY <1>3 DEF RollAccepted, EraseRoll
  <2> QED BY <2>1, QuizUndisturbed
<1>4. CASE BuildRefused(command) \/ BuildRadioError(command) \/ BuildBlocked(command) \/
           HwrngFailed(command)
  <2>1. UNCHANGED <<mnemonic, quizPos, quizVars>>
    BY <1>4 DEF BuildRefused, BuildRadioError, BuildBlocked, HwrngFailed
  <2> QED BY <2>1, QuizUndisturbed
<1>5. CASE QuizStart(command)
  <2>1. quizStep' = 0 /\ typed' = {} /\ UNCHANGED backupVerified /\ ~backupVerified
    BY <1>5 DEF QuizStart
  <2>2. 0 .. quizStep' - 1 = {}
    BY <2>1
  <2>3. {quizPos'[s] : s \in 0 .. quizStep' - 1} = {}
    BY <2>2
  <2> QED BY <2>1, <2>3 DEF QuizProgress, BackupGate
<1>6. CASE BuildDone(command)
  BY <1>6 DEF BuildDone, FreshQuiz, QuizProgress, BackupGate
<1>7. CASE ClearEverything(command)
  BY <1>7 DEF ClearEverything, QuizProgress, BackupGate
<1> QED BY <1>1, <1>2, <1>3, <1>4, <1>5, <1>6, <1>7

LEMMA QuizProgressStep ==
  ASSUME Typed, QuizProgress, [Next]_vars
  PROVE  QuizProgress'
<1>1. CASE CardPulled \/ Release \/ UNCHANGED vars
  <2>1. UNCHANGED <<mnemonic, quizPos, quizVars>>
    BY <1>1 DEF CardPulled, Release
  <2> QED BY <2>1, QuizUndisturbed
<1>2. CASE PowerCycle
  BY <1>2 DEF PowerCycle, QuizProgress, BackupGate
<1>3. ASSUME NEW ks \in KeyStates, MenuPress(ks)
      PROVE  QuizProgress'
  <2>1. UNCHANGED <<mnemonic, quizPos, quizVars>>
    BY <1>3 DEF MenuPress, MenuMove, MenuChoose, MenuIgnore, MenuPoll, MenuFrame
  <2> QED BY <2>1, QuizUndisturbed
<1> QED BY <1>1, <1>2, <1>3, QuizProgressInQuiz, QuizProgressByCommand DEF Next

\* A verified backup of a wallet in memory means that every word the check asked
\* of that very wallet was typed in full: no rebuild, cancel, clear or retry
\* carries a verdict over.
THEOREM BackupNeedsEveryWord == Spec => []BackupGate
<1>1. Init => QuizProgress
  BY DEF Init, QuizProgress, BackupGate
<1>2. Typed /\ QuizProgress /\ [Next]_vars => QuizProgress'
  BY QuizProgressStep
<1>3. QuizProgress => BackupGate
  BY DEF QuizProgress
<1> QED BY <1>1, <1>2, <1>3, TypedCorrect, PTL DEF Spec

-----------------------------------------------------------------------------
(* The report on the card.                                                  *)

ReportUnchanged ==
  UNCHANGED <<entropyHex, address, backupVerified, hwSample, lastReportOK, report>>

\* A build that failed without a report has dropped the sample, nothing else.
SampleDropped ==
  hwSample' = NoSample /\ UNCHANGED <<entropyHex, address, backupVerified, lastReportOK, report>>

ReportStep(ks, command) ==
  \/ BuildBlocked(command) \/ BuildDone(command) \/ ClearEverything(command)

LEMMA ReportSteps ==
  ASSUME [Next]_vars
  PROVE  \/ ReportUnchanged
         \/ SampleDropped
         \/ PowerCycle
         \/ \E ks \in KeyStates : QuizPassed(ks)
         \/ \E ks \in KeyStates : CommandGate /\ \E command \in Decoded(ks) :
              ReportStep(ks, command)
<1>1. CASE CardPulled \/ Release \/ UNCHANGED vars
  BY <1>1 DEF CardPulled, Release, ReportUnchanged
<1>2. ASSUME NEW ks \in KeyStates, MenuPress(ks)
      PROVE  ReportUnchanged
  BY <1>2 DEF MenuPress, MenuMove, MenuChoose, MenuIgnore, MenuPoll, MenuFrame, ReportUnchanged
<1>3. ASSUME NEW ks \in KeyStates, QuizPress(ks), ~QuizPassed(ks)
      PROVE  ReportUnchanged
  BY <1>3 DEF QuizPress, QuizWrong, QuizNext, QuizErase, QuizCancel, QuizLetter, QuizChord,
     QuizIgnore, QuizPoll, ReportUnchanged
<1>4. ASSUME NEW ks \in KeyStates, CommandGate, NEW command \in Decoded(ks),
             \/ AskClear(command) \/ ShowRolls(command) \/ TurnPage(command, ks)
             \/ IgnoreKey(command) \/ QuizStart(command)
             \/ RollRefused(command) \/ RollAccepted(command, ks) \/ EraseRoll(command)
             \/ BuildRefused(command)
      PROVE  ReportUnchanged
  <2>1. CASE AskClear(command) \/ ShowRolls(command) \/ TurnPage(command, ks) \/
             IgnoreKey(command) \/ RollRefused(command)
    BY <2>1 DEF AskClear, ShowRolls, TurnPage, IgnoreKey, RollRefused, Viewing, ReportUnchanged
  <2>2. CASE QuizStart(command) \/ RollAccepted(command, ks) \/ EraseRoll(command)
    BY <2>2 DEF QuizStart, RollAccepted, EraseRoll, ReportUnchanged
  <2>3. CASE BuildRefused(command)
    BY <2>3 DEF BuildRefused, ReportUnchanged
  <2> QED BY <1>4, <2>1, <2>2, <2>3
<1>5. ASSUME NEW command, BuildRadioError(command) \/ HwrngFailed(command)
      PROVE  SampleDropped
  BY <1>5 DEF BuildRadioError, HwrngFailed, FreshSample, SampleDropped
<1>6. ASSUME NEW ks \in KeyStates, CommandPress(ks)
      PROVE  \/ ReportUnchanged \/ SampleDropped
             \/ CommandGate /\ \E command \in Decoded(ks) : ReportStep(ks, command)
  BY <1>4, <1>5, <1>6 DEF CommandPress, ReportStep
<1> QED BY <1>1, <1>2, <1>3, <1>6 DEF Next

\* What writeReport leaves on the card, and what lastReportOK says of it.
LEMMA Written ==
  ASSUME NEW sanity, NEW outcome, WriteReport(sanity, outcome)
  PROVE  /\ ReportTruthful'
         /\ \/ report' = report
            \/ /\ report' # <<>>
               /\ report'[1].fingerprint = entropyHex'
               /\ report'[1].address = AddressShown
               /\ report'[1].sample \in {hwSample', NoSample}
<1>1. CASE outcome = "unopened"
  BY <1>1 DEF WriteReport, ReportVerdict, ReportTruthful
<1>2. CASE outcome # "unopened"
  BY <1>2 DEF WriteReport, ReportTruthful, AddressShown
<1> QED BY <1>1, <1>2

\* A sample kept in memory is the one in the fingerprint beside it.
SampleOfFingerprint ==
  hwSample # NoSample => entropyHex # NoWallet /\ Head(entropyHex) = hwSample

ReportInv == ReportTruthful /\ SampleOfFingerprint /\ SampleFromThisRun

\* So a record written now holds no sample but that of its own fingerprint.
LEMMA RecordOfOneBuild ==
  ASSUME SampleFromThisRun, SampleOfFingerprint',
         NEW sanity, NEW outcome, WriteReport(sanity, outcome)
  PROVE  ReportTruthful' /\ SampleFromThisRun'
BY Written DEF SampleFromThisRun, SampleOfFingerprint

\* A build's sample is the head of the entropy it makes.
LEMMA BuildDoneSample ==
  ASSUME Typed, CommandGate, NEW command, BuildDone(command)
  PROVE  SampleOfFingerprint'
<1>1. PICK h \in HwDigests :
        /\ entropyHex' = Entropy(entropyMode, rolls, h)
        /\ hwSample' = IF entropyMode = "HYBRID" THEN h ELSE NoSample
  BY DEF BuildDone
<1>2. CASE entropyMode = "HYBRID"
  <2>1. entropyHex' = <<h>> \o rolls /\ hwSample' = h
    BY <1>1, <1>2 DEF Entropy
  <2>2. rolls \in Seq(Face) /\ Face \subseteq Nat /\ h \in Nat
    BY WalletAssumption DEF Typed, TypeOK, RollsOK, Face
  <2>3. Len(<<h>> \o rolls) = 1 + Len(rolls) /\ (<<h>> \o rolls)[1] = h /\ Len(rolls) \in Nat
    BY <2>2
  <2>4. <<h>> \o rolls # <<>> /\ Head(<<h>> \o rolls) = h
    BY <2>2, <2>3
  <2> QED BY <2>1, <2>4 DEF SampleOfFingerprint, NoWallet
<1>3. CASE entropyMode # "HYBRID"
  BY <1>1, <1>3 DEF SampleOfFingerprint
<1> QED BY <1>2, <1>3

LEMMA ReportInvStep ==
  ASSUME Typed, ReportInv, [Next]_vars
  PROVE  ReportInv'
<1>1. CASE ReportUnchanged
  BY <1>1 DEF ReportUnchanged, ReportInv, ReportTruthful, SampleOfFingerprint, SampleFromThisRun
<1>2. CASE SampleDropped
  BY <1>2 DEF SampleDropped, ReportInv, ReportTruthful, SampleOfFingerprint, SampleFromThisRun
<1>3. CASE PowerCycle
  BY <1>3 DEF PowerCycle, ReportInv, ReportTruthful, SampleOfFingerprint, SampleFromThisRun
<1>4. ASSUME NEW ks \in KeyStates, QuizPassed(ks)
      PROVE  ReportInv'
  <2>1. SampleOfFingerprint'
    BY <1>4 DEF QuizPassed, QuizPoll, ReportInv, SampleOfFingerprint
  <2>2. PICK outcome \in SdOutcomes : WriteReport(AssessmentOK, outcome)
    BY <1>4 DEF QuizPassed
  <2> QED BY <2>1, <2>2, RecordOfOneBuild DEF ReportInv
<1>5. ASSUME NEW ks \in KeyStates, CommandGate, NEW command \in Decoded(ks),
             ReportStep(ks, command)
      PROVE  ReportInv'
  <2>1. CASE BuildBlocked(command)
    <3>1. SampleOfFingerprint'
      BY <2>1 DEF BuildBlocked, FreshSample, SampleOfFingerprint
    <3>2. PICK outcome \in SdOutcomes : WriteReport(FALSE, outcome)
      BY <2>1 DEF BuildBlocked
    <3> QED BY <3>1, <3>2, RecordOfOneBuild DEF ReportInv
  <2>2. CASE BuildDone(command)
    <3>1. SampleOfFingerprint'
      BY <1>5, <2>2, BuildDoneSample
    <3>2. PICK outcome \in SdOutcomes : WriteReport(TRUE, outcome)
      BY <2>2 DEF BuildDone
    <3> QED BY <3>1, <3>2, RecordOfOneBuild DEF ReportInv
  <2>3. CASE ClearEverything(command)
    <3>1. hwSample' = NoSample /\ lastReportOK' = FALSE /\ report' \in {report, <<>>}
      BY <2>3 DEF ClearEverything, RemoveReport
    <3> QED BY <3>1 DEF ReportInv, ReportTruthful, SampleOfFingerprint, SampleFromThisRun
  <2> QED BY <1>5, <2>1, <2>2, <2>3 DEF ReportStep
<1> QED BY <1>1, <1>2, <1>3, <1>4, <1>5, ReportSteps

LEMMA ReportInvCorrect == Spec => []ReportInv
<1>1. Init => ReportInv
  BY DEF Init, ReportInv, ReportTruthful, SampleOfFingerprint, SampleFromThisRun
<1>2. Typed /\ ReportInv /\ [Next]_vars => ReportInv'
  BY ReportInvStep
<1> QED BY <1>1, <1>2, TypedCorrect, PTL DEF Spec

\* While the audit page says "report OK", the last record on the card is of the
\* wallet and the backup verdict now in memory.
THEOREM AuditPageTruthful == Spec => []ReportTruthful
<1>1. ReportInv => ReportTruthful
  BY DEF ReportInv
<1> QED BY <1>1, ReportInvCorrect, PTL

\* A HWRNG sample on the card is of the build whose fingerprint it stands with.
THEOREM SampleOfThisRun == Spec => []SampleFromThisRun
<1>1. ReportInv => SampleFromThisRun
  BY DEF ReportInv
<1> QED BY <1>1, ReportInvCorrect, PTL

\* The address reaches the card only with a record written when all the words
\* asked of that wallet had been typed back.
THEOREM AddressOnlyAfterQuiz == Spec => AddressWrittenAfterQuiz
<1> DEFINE Gated == report' \notin {report, <<>>} =>
                      \/ report'[1].address = NoWallet
                      \/ /\ report'[1].address = mnemonic'
                         /\ typed' = {quizPos'[s] : s \in Steps}
<1>1. ASSUME OneWallet', QuizProgress', NEW sanity, NEW outcome, WriteReport(sanity, outcome)
      PROVE  Gated
  <2>1. CASE backupVerified' /\ mnemonic' # NoWallet
    <3>1. AddressShown = mnemonic' /\ typed' = {quizPos'[s] : s \in Steps}
      BY <1>1, <2>1 DEF AddressShown, OneWallet, QuizProgress, BackupGate, Challenged
    <3> QED BY <1>1, <3>1, Written
  <2>2. CASE ~(backupVerified' /\ mnemonic' # NoWallet)
    <3>1. AddressShown = NoWallet
      BY <1>1, <2>2 DEF AddressShown, OneWallet
    <3> QED BY <1>1, <3>1, Written
  <2> QED BY <2>1, <2>2
<1>2. ASSUME Typed, OneWallet', QuizProgress', [Next]_vars
      PROVE  Gated
  <2>1. CASE ReportUnchanged \/ SampleDropped \/ PowerCycle
    <3>1. report' = report
      BY <2>1 DEF ReportUnchanged, SampleDropped, PowerCycle
    <3> QED BY <3>1
  <2>2. ASSUME NEW ks \in KeyStates, QuizPassed(ks)
        PROVE  Gated
    <3>1. PICK outcome \in SdOutcomes : WriteReport(AssessmentOK, outcome)
      BY <2>2 DEF QuizPassed
    <3> QED BY <1>1, <1>2, <3>1
  <2>3. ASSUME NEW ks \in KeyStates, NEW command \in Decoded(ks), ReportStep(ks, command)
        PROVE  Gated
    <3>1. CASE BuildBlocked(command) \/ BuildDone(command)
      <4>1. PICK sanity, outcome : WriteReport(sanity, outcome)
        BY <3>1 DEF BuildBlocked, BuildDone
      <4> QED BY <1>1, <1>2, <4>1
    <3>2. CASE ClearEverything(command)
      <4>1. report' \in {report, <<>>}
        BY <3>2 DEF ClearEverything, RemoveReport
      <4> QED BY <4>1
    <3> QED BY <2>3, <3>1, <3>2 DEF ReportStep
  <2> HIDE DEF Gated
  <2> QED BY <1>2, <2>1, <2>2, <2>3, ReportSteps
<1>3. Init => OneWallet /\ QuizProgress
  BY DEF Init, OneWallet, ResultsAgree, QuizProgress, BackupGate
<1>4. Typed /\ OneWallet /\ QuizProgress /\ [Next]_vars => OneWallet' /\ QuizProgress'
  BY OneWalletStep, QuizProgressStep
<1>5. Typed /\ OneWallet /\ QuizProgress /\ [Next]_vars => [Gated]_vars
  <2> SUFFICES ASSUME Typed, OneWallet, QuizProgress, [Next]_vars PROVE Gated
    OBVIOUS
  <2> HIDE DEF Gated
  <2> QED BY <1>2, <1>4
<1> QED BY <1>3, <1>4, <1>5, TypedCorrect, PTL DEF Spec, AddressWrittenAfterQuiz

-----------------------------------------------------------------------------
(* Clear-all.                                                               *)

LEMMA ClearedStep ==
  ASSUME Typed, ClearedIsTruthful, [Next]_vars
  PROVE  ClearedIsTruthful'
<1> DEFINE Kept == UNCHANGED <<statusLine, report, denied, sdOK, card, mnemonic, entropyHex, address, rolls>>
<1>1. CASE Kept
  BY <1>1 DEF ClearedIsTruthful
<1>2. CASE statusLine' # "cleared"
  BY <1>2 DEF ClearedIsTruthful
<1>3. CASE CardPulled
  BY <1>3 DEF CardPulled, ClearedIsTruthful
<1>4. CASE PowerCycle \/ Release \/ UNCHANGED vars
  BY <1>1, <1>2, <1>4 DEF PowerCycle, Release
<1>5. ASSUME NEW ks \in KeyStates, MenuPress(ks)
      PROVE  ClearedIsTruthful'
  BY <1>1, <1>2, <1>5 DEF MenuPress, MenuMove, MenuChoose, MenuIgnore, MenuPoll, MenuFrame, DrawMain
<1>6. ASSUME NEW ks \in KeyStates, QuizPress(ks)
      PROVE  ClearedIsTruthful'
  <2>1. CASE QuizWrong(ks) \/ QuizNext(ks) \/ QuizErase(ks) \/ QuizChord(ks)
    BY <1>2, <2>1 DEF QuizWrong, QuizNext, QuizErase, QuizChord, DrawQuiz
  <2>2. CASE QuizPassed(ks) \/ QuizCancel(ks)
    BY <1>2, <2>2 DEF QuizPassed, QuizCancel, DrawResult
  <2>3. CASE QuizLetter(ks) \/ QuizIgnore(ks)
    BY <1>1, <2>3 DEF QuizLetter, QuizIgnore, QuizPoll, DrawQuiz
  <2> QED BY <1>6, <2>1, <2>2, <2>3 DEF QuizPress
<1>7. ASSUME NEW ks \in KeyStates, CommandPress(ks)
      PROVE  ClearedIsTruthful'
  <2>1. PICK command \in Decoded(ks) :
          \/ AskClear(command) \/ ClearEverything(command)
          \/ ShowRolls(command) \/ TurnPage(command, ks) \/ IgnoreKey(command)
          \/ QuizStart(command)
          \/ RollRefused(command) \/ RollAccepted(command, ks) \/ EraseRoll(command)
          \/ BuildRefused(command) \/ BuildRadioError(command) \/ BuildBlocked(command)
          \/ HwrngFailed(command) \/ BuildDone(command)
    BY <1>7 DEF CommandPress
  <2>2. CASE AskClear(command) \/ ShowRolls(command) \/ QuizStart(command) \/ RollRefused(command)
             \/ RollAccepted(command, ks)
    BY <1>2, <2>2 DEF AskClear, ShowRolls, QuizStart, RollRefused, RollAccepted, DrawMain,
       DrawResult, DrawQuiz
  <2>3. CASE BuildRefused(command) \/ BuildRadioError(command) \/ BuildBlocked(command)
             \/ HwrngFailed(command) \/ BuildDone(command)
    BY <1>2, <2>3 DEF BuildRefused, BuildRadioError, BuildBlocked, HwrngFailed, BuildDone,
       DrawMain, DrawResult
  <2>4. CASE TurnPage(command, ks) \/ IgnoreKey(command)
    BY <1>1, <2>4 DEF TurnPage, IgnoreKey, Viewing, Consumed, DrawResult
  <2>5. CASE EraseRoll(command)
    BY <1>1, <1>2, <2>5 DEF EraseRoll, Consumed, DrawMain
  <2>6. CASE ClearEverything(command)
    <3>1. statusLine' = "cleared" =>
            \/ report' = <<>>
            \/ denied'
            \/ report' = report /\ ~ReportInReach
      <4>1. CASE UNCHANGED report /\ denied' = ReportInReach
        BY <4>1 DEF ReportInReach
      <4>2. ASSUME NEW removed \in BOOLEAN, NEW found \in Exists(report' # <<>>),
                   denied' = (report' # <<>> /\ ~found),
                   DrawMain(IF ReportDeleted(removed, found) THEN "cleared" ELSE "deleteFailed")
            PROVE  statusLine' = "cleared" => report' = <<>> \/ denied'
        BY <4>2 DEF DrawMain, ReportDeleted
      <4> QED BY <2>6, <4>1, <4>2 DEF ClearEverything, RemoveReport
    <3>2. /\ mnemonic' = NoWallet /\ entropyHex' = NoWallet /\ address' = NoWallet /\ rolls' = <<>>
          /\ UNCHANGED <<sdOK, card>>
      BY <2>6 DEF ClearEverything, WipeWallet
    <3> QED BY <3>1, <3>2 DEF ClearedIsTruthful, ReportInReach
  <2> QED BY <2>1, <2>2, <2>3, <2>4, <2>5, <2>6
<1> QED BY <1>3, <1>4, <1>5, <1>6, <1>7 DEF Next

\* "Cleared" on the screen means that no wallet is in memory, and that a card
\* within the firmware's reach has no report or has denied the one it has:
\* SD.remove() may fail in any way, a wrong no of SD.exists() is not survived:
\* main.cpp:613 takes it for an absent file.
THEOREM ClearedMeansGone == Spec => []ClearedIsTruthful
<1>1. Init => ClearedIsTruthful
  BY DEF Init, ClearedIsTruthful
<1>2. Typed /\ ClearedIsTruthful /\ [Next]_vars => ClearedIsTruthful'
  BY ClearedStep
<1> QED BY <1>1, <1>2, TypedCorrect, PTL DEF Spec

-----------------------------------------------------------------------------
(* The lock on a wallet.  It hangs on hasHash, which a failed rebuild drops  *)
(* although the words stay; where no radio check and no HWRNG check fails    *)
(* after boot, hasHash stands as long as the words do.                       *)

LockHolds ==
  /\ WalletOfTranscript
  /\ mnemonic # NoWallet => hasHash
  /\ hasHash => AssessmentOK

LEMMA LockHoldsStep ==
  ASSUME FALSE \notin RadioVerdicts, ~HwrngMayFail, Typed, LockHolds, [Next]_vars
  PROVE  LockHolds'
<1>1. WalletOfTranscript'
  BY WalletOfTranscriptStep DEF LockHolds
<1>2. CASE WalletUnchanged
  <2>1. UNCHANGED <<entropyMode, rolls, hasHash, mnemonic>>
    BY <1>2 DEF WalletUnchanged
  <2>2. AssessmentOK' <=> AssessmentOK
    BY <2>1 DEF AssessmentOK, EntropyReady
  <2> QED BY <1>1, <2>1, <2>2 DEF LockHolds
<1>3. CASE PowerCycle
  <2>1. mnemonic' = NoWallet /\ hasHash' = FALSE
    BY <1>3 DEF PowerCycle
  <2> QED BY <1>1, <2>1 DEF LockHolds
<1>4. ASSUME NEW ks \in KeyStates, MenuChoose(ks)
      PROVE  LockHolds'
  <2>1. ~hasHash /\ UNCHANGED <<hasHash, mnemonic>>
    BY <1>4 DEF MenuChoose, MenuPoll, MenuFrame, LockHolds, WalletOfTranscript
  <2> QED BY <1>1, <2>1 DEF LockHolds
<1>5. ASSUME NEW ks \in KeyStates, CommandGate, NEW command \in Decoded(ks),
             WalletStep(ks, command)
      PROVE  LockHolds'
  <2>1. CASE RollAccepted(command, ks)
    <3>1. ~hasHash /\ hasHash' = FALSE /\ mnemonic' = mnemonic
      BY <2>1 DEF RollAccepted, RollInputAllowed
    <3> QED BY <1>1, <3>1 DEF LockHolds
  <2>2. CASE EraseRoll(command)
    <3>1. ~hasHash /\ hasHash' = hasHash /\ mnemonic' = mnemonic
      BY <2>2, DecodedFacts DEF EraseRoll, Typed
    <3> QED BY <1>1, <3>1 DEF LockHolds
  <2>3. CASE BuildRadioError(command) \/ HwrngFailed(command)
    BY <2>3 DEF BuildRadioError, HwrngFailed
  <2>4. CASE BuildBlocked(command)
    <3>1. ~AssessmentOK /\ hasHash' = FALSE /\ mnemonic' = mnemonic
      BY <2>4 DEF BuildBlocked
    <3> QED BY <1>1, <3>1 DEF LockHolds
  <2>5. CASE BuildDone(command)
    <3>1. hasHash' = TRUE
      BY <2>5 DEF BuildDone
    <3>2. AssessmentOK /\ UNCHANGED <<entropyMode, rolls>>
      BY <2>5 DEF BuildDone, Build
    <3>3. AssessmentOK'
      BY <3>2 DEF AssessmentOK, EntropyReady
    <3> QED BY <1>1, <3>1, <3>3 DEF LockHolds
  <2>6. CASE ClearEverything(command)
    <3>1. mnemonic' = NoWallet /\ hasHash' = FALSE
      BY <2>6 DEF ClearEverything, WipeWallet
    <3> QED BY <1>1, <3>1 DEF LockHolds
  <2> QED BY <1>5, <2>1, <2>2, <2>3, <2>4, <2>5, <2>6 DEF WalletStep
<1> QED BY <1>2, <1>3, <1>4, <1>5, WalletSteps

LEMMA LockHoldsCorrect ==
  ASSUME FALSE \notin RadioVerdicts, ~HwrngMayFail
  PROVE  Spec => []LockHolds
<1>1. Init => LockHolds
  BY DEF Init, LockHolds, WalletOfTranscript, WalletMatchesTranscript
<1>2. Typed /\ LockHolds /\ [Next]_vars => LockHolds'
  BY LockHoldsStep
<1> QED BY <1>1, <1>2, TypedCorrect, PTL DEF Spec

\* On a device whose radio and HWRNG checks never fail after boot, rolls change
\* under secrets only as clear-all or power loss wipes them.
THEOREM HealthyDeviceLocksRolls ==
  ASSUME FALSE \notin RadioVerdicts, ~HwrngMayFail
  PROVE  Spec => SecretsLockRolls
<1> DEFINE Locked == mnemonic # NoWallet /\ rolls' # rolls => mnemonic' = NoWallet
<1>1. ASSUME Typed, LockHolds, [Next]_vars
      PROVE  Locked
  <2>1. CASE WalletUnchanged
    BY <2>1 DEF WalletUnchanged
  <2>2. CASE PowerCycle
    BY <2>2 DEF PowerCycle
  <2>3. ASSUME NEW ks \in KeyStates, MenuChoose(ks)
        PROVE  Locked
    BY <2>3 DEF MenuChoose, MenuPoll, MenuFrame
  <2>4. ASSUME NEW ks \in KeyStates, CommandGate, NEW command \in Decoded(ks),
               WalletStep(ks, command)
        PROVE  Locked
    <3>1. CASE RollAccepted(command, ks)
      BY <1>1, <3>1 DEF RollAccepted, RollInputAllowed, LockHolds
    <3>2. CASE EraseRoll(command)
      BY <1>1, <3>2, DecodedFacts DEF EraseRoll, Typed, LockHolds
    <3>3. CASE BuildRadioError(command) \/ BuildBlocked(command) \/ HwrngFailed(command) \/
               BuildDone(command)
      BY <3>3 DEF BuildRadioError, BuildBlocked, HwrngFailed, BuildDone, Build
    <3>4. CASE ClearEverything(command)
      BY <3>4 DEF ClearEverything, WipeWallet
    <3> HIDE DEF Locked
    <3> QED BY <2>4, <3>1, <3>2, <3>3, <3>4 DEF WalletStep
  <2> HIDE DEF Locked
  <2> QED BY <1>1, <2>1, <2>2, <2>3, <2>4, WalletSteps
<1>2. Typed /\ LockHolds /\ [Next]_vars => [Locked]_vars
  <2> HIDE DEF Locked
  <2> QED BY <1>1
<1> QED BY <1>2, TypedCorrect, LockHoldsCorrect, PTL DEF Spec, SecretsLockRolls

\* Without the hybrid mode's fresh HWRNG value, a repeated build on such a
\* device derives the same wallet, so words and address never change.
THEOREM HealthyDeviceKeepsWallet ==
  ASSUME FALSE \notin RadioVerdicts, ~HwrngMayFail, "HYBRID" \notin Modes
  PROVE  Spec => WalletImmutable
<1> DEFINE Same == mnemonic # NoWallet =>
                     mnemonic' \in {mnemonic, NoWallet} /\ address' = mnemonic'
<1>1. ASSUME Typed, LockHolds, OneWallet', [Next]_vars
      PROVE  Same
  <2>1. address' = mnemonic'
    BY <1>1 DEF OneWallet
  <2>2. CASE WalletUnchanged
    BY <2>1, <2>2 DEF WalletUnchanged
  <2>3. CASE PowerCycle
    BY <2>1, <2>3 DEF PowerCycle
  <2>4. ASSUME NEW ks \in KeyStates, MenuChoose(ks)
        PROVE  Same
    BY <2>1, <2>4 DEF MenuChoose, MenuPoll, MenuFrame
  <2>5. ASSUME NEW ks \in KeyStates, CommandGate, NEW command \in Decoded(ks),
               WalletStep(ks, command)
        PROVE  Same
    <3>1. CASE RollAccepted(command, ks) \/ EraseRoll(command)
      BY <2>1, <3>1 DEF RollAccepted, EraseRoll
    <3>2. CASE BuildRadioError(command) \/ BuildBlocked(command) \/ HwrngFailed(command)
      BY <2>1, <3>2 DEF BuildRadioError, BuildBlocked, HwrngFailed
    <3>3. CASE BuildDone(command)
      <4>1. mnemonic' = Entropy(entropyMode, rolls, hwSample')
        BY <1>1, <2>5, <3>3, BuildDoneMatches
      <4>2. entropyMode \in {"VN", "RAW"}
        BY <1>1, <2>5, WalletAssumption DEF Typed, TypeOK, MenuOK, CommandGate
      <4>3. Entropy(entropyMode, rolls, hwSample') = Entropy(entropyMode, rolls, hwSample)
        BY <4>2 DEF Entropy
      <4>4. mnemonic # NoWallet => mnemonic = Entropy(entropyMode, rolls, hwSample)
        BY <1>1 DEF LockHolds, WalletOfTranscript, WalletMatchesTranscript
      <4> QED BY <2>1, <4>1, <4>3, <4>4
    <3>4. CASE ClearEverything(command)
      BY <2>1, <3>4 DEF ClearEverything, WipeWallet
    <3> HIDE DEF Same
    <3> QED BY <2>5, <3>1, <3>2, <3>3, <3>4 DEF WalletStep
  <2> HIDE DEF Same
  <2> QED BY <1>1, <2>2, <2>3, <2>4, <2>5, WalletSteps
<1>2. Init => OneWallet
  BY DEF Init, OneWallet, ResultsAgree
<1>3. Typed /\ OneWallet /\ [Next]_vars => OneWallet'
  BY OneWalletStep
<1>4. Typed /\ LockHolds /\ OneWallet /\ [Next]_vars => [Same]_vars
  <2> HIDE DEF Same
  <2> QED BY <1>1, <1>3
<1> QED BY <1>2, <1>3, <1>4, TypedCorrect, LockHoldsCorrect, PTL DEF Spec, WalletImmutable

-----------------------------------------------------------------------------
(* The appliance seen from outside.                                         *)

Record == IF report = <<>> THEN <<>> ELSE <<report[1].address>>

Backup == backupVerified /\ mnemonic # NoWallet

\* A report that is written leaves the record as it was or gives it the address
\* of the wallet, if that is verified.
LEMMA RecordWritten ==
  ASSUME Typed', OneWallet', NEW sanity, NEW outcome, WriteReport(sanity, outcome)
  PROVE  Record' \in {Record, <<NoWallet>>, <<IF Backup' THEN mnemonic' ELSE NoWallet>>}
<1>1. CASE report' = report
  BY <1>1 DEF Record
<1>2. CASE report' # <<>> /\ report'[1].address = AddressShown
  <2>1. Record' = <<AddressShown>>
    BY <1>2 DEF Record
  <2>2. CASE Backup'
    <3>1. AddressShown = mnemonic'
      BY <2>2 DEF AddressShown, Backup, OneWallet
    <3> QED BY <2>1, <2>2, <3>1
  <2>3. CASE ~Backup'
    <3>1. AddressShown = NoWallet
      BY <2>3 DEF AddressShown, Backup, OneWallet
    <3> QED BY <2>1, <3>1
  <2> QED BY <2>2, <2>3
<1> QED BY <1>1, <1>2, Written

LEMMA LifeStep ==
  ASSUME Typed, Typed', OneWallet, OneWallet', [Next]_vars
  PROVE  [Lifecycle!Next]_(Lifecycle!vars)
<1>1. CASE ReportUnchanged \/ SampleDropped
  <2>1. UNCHANGED <<address, backupVerified, report>>
    BY <1>1 DEF ReportUnchanged, SampleDropped
  <2>2. UNCHANGED mnemonic
    BY <2>1 DEF OneWallet
  <2> QED BY <2>1, <2>2 DEF Lifecycle!vars
<1>2. CASE PowerCycle
  <2>1. mnemonic' = NoWallet /\ Backup' = FALSE /\ Record' = Record
    BY <1>2 DEF PowerCycle, Backup, Record
  <2>2. Lifecycle!PowerLoss
    BY <2>1 DEF Backup, Record, Lifecycle!PowerLoss, Lifecycle!Forgotten, Lifecycle!RecordOf
  <2> QED BY <2>2 DEF Lifecycle!Next
<1>3. ASSUME NEW ks \in KeyStates, QuizPassed(ks)
      PROVE  Lifecycle!Next
  <2>1. mnemonic' = mnemonic /\ backupVerified' = TRUE
    BY <1>3 DEF QuizPassed, QuizPoll
  <2>2. PICK sanity, outcome : WriteReport(sanity, outcome)
    BY <1>3 DEF QuizPassed
  <2>3. Record' \in {Record, <<NoWallet>>, <<IF Backup' THEN mnemonic' ELSE NoWallet>>}
    BY <2>2, RecordWritten
  <2>4. Lifecycle!MayRecord
    BY <2>3 DEF Record, Backup, Lifecycle!MayRecord, Lifecycle!RecordOf
  <2>5. CASE mnemonic # NoWallet
    <3>1. Lifecycle!Verify
      BY <2>1, <2>4, <2>5 DEF Lifecycle!Verify
    <3> QED BY <3>1 DEF Lifecycle!Next
  <2>6. CASE mnemonic = NoWallet
    <3>1. Lifecycle!Refuse
      BY <2>1, <2>4, <2>6 DEF Lifecycle!Refuse
    <3> QED BY <3>1 DEF Lifecycle!Next
  <2> QED BY <2>5, <2>6
<1>4. ASSUME NEW command, CommandGate, BuildBlocked(command)
      PROVE  Lifecycle!Next
  <2>1. UNCHANGED <<mnemonic, backupVerified>>
    BY <1>4 DEF BuildBlocked
  <2>2. PICK outcome : WriteReport(FALSE, outcome)
    BY <1>4 DEF BuildBlocked
  <2>3. Record' \in {Record, <<NoWallet>>, <<IF Backup' THEN mnemonic' ELSE NoWallet>>}
    BY <2>2, RecordWritten
  <2>4. Lifecycle!MayRecord
    BY <2>3 DEF Record, Backup, Lifecycle!MayRecord, Lifecycle!RecordOf
  <2>5. Lifecycle!Refuse
    BY <2>1, <2>4 DEF Lifecycle!Refuse
  <2> QED BY <2>5 DEF Lifecycle!Next
<1>5. ASSUME NEW command, CommandGate, BuildDone(command)
      PROVE  Lifecycle!Next
  <2>1. mnemonic' \in Entropies
    BY <1>5, BuildTyped DEF Typed
  <2>2. NoWallet \notin Entropies
    BY DEF Entropies
  <2>3. backupVerified' = FALSE
    BY <1>5 DEF BuildDone, FreshQuiz
  <2>4. PICK outcome : WriteReport(TRUE, outcome)
    BY <1>5 DEF BuildDone
  <2>5. Record' \in {Record, <<NoWallet>>, <<IF Backup' THEN mnemonic' ELSE NoWallet>>}
    BY <2>4, RecordWritten
  <2>6. Lifecycle!MayRecord
    BY <2>5 DEF Record, Backup, Lifecycle!MayRecord, Lifecycle!RecordOf
  <2>7. Lifecycle!Generate
    BY <2>1, <2>2, <2>3, <2>6 DEF Lifecycle!Generate
  <2> QED BY <2>7 DEF Lifecycle!Next
<1>6. ASSUME NEW command, ClearEverything(command)
      PROVE  Lifecycle!Next
  <2>1. mnemonic' = NoWallet /\ report' \in {report, <<>>}
    BY <1>6 DEF ClearEverything, WipeWallet, RemoveReport
  <2>2. Record' \in {Record, <<>>}
    BY <2>1 DEF Record
  <2>3. Lifecycle!Wipe
    BY <2>1, <2>2 DEF Record, Lifecycle!Wipe, Lifecycle!Forgotten
  <2> QED BY <2>3 DEF Lifecycle!Next
<1> QED BY <1>1, <1>2, <1>3, <1>4, <1>5, <1>6, ReportSteps DEF ReportStep

\* Seen from outside, the firmware is the appliance: whatever is pressed, fails
\* or loses power, a step generates an unverified wallet, verifies the one there
\* is, refuses, wipes or forgets, and writes an address only beside its verdict.
THEOREM ActsAsLifecycle == Spec => ImplementsLifecycle
<1>1. Init => OneWallet /\ Lifecycle!Init
  BY DEF Init, OneWallet, ResultsAgree, Lifecycle!Init
<1>2. Typed /\ OneWallet /\ [Next]_vars => OneWallet'
  BY OneWalletStep
<1>3. Typed /\ Typed' /\ OneWallet /\ OneWallet' /\ [Next]_vars
        => [Lifecycle!Next]_(Lifecycle!vars)
  BY LifeStep
<1> QED BY <1>1, <1>2, <1>3, TypedCorrect, PTL DEF Spec, ImplementsLifecycle, Lifecycle!Spec

-----------------------------------------------------------------------------
(* Presses.                                                                 *)

\* A press that has had its one effect is shut out until it is released: by
\* waitingRelease from the commands and the menu, by inputAwaitRelease from a
\* backup check it opened.
PressesGated ==
  /\ press \in {"rolled", "quiz opened", "quiz ended"} => waitingRelease /\ ~modeSelect
  /\ press \in {"rolled", "quiz ended"} => ~quizActive
  /\ press = "quiz opened" => inputAwaitRelease

\* Commands and menu entries are decoded only from a press without an effect yet.
LEMMA GateShut ==
  ASSUME PressesGated, CommandGate \/ MenuPoll
  PROVE  press \notin {"rolled", "quiz opened", "quiz ended"}
BY DEF PressesGated, CommandGate, MenuPoll

\* In the check, a press has at most typed.
LEMMA QuizGateShut ==
  ASSUME PressesGated, QuizGate
  PROVE  press \notin {"rolled", "quiz opened", "quiz ended"}
BY DEF PressesGated, QuizGate

LEMMA HeldPress ==
  ASSUME PressHeld, press \notin {"rolled", "quiz opened", "quiz ended"}
  PROVE  press' \notin {"rolled", "quiz opened", "quiz ended"}
BY DEF PressHeld

LEMMA PressesGatedStep ==
  ASSUME PressesGated, [Next]_vars
  PROVE  PressesGated'
<1>1. CASE PowerCycle \/ Release
  <2>1. press' = "up"
    BY <1>1 DEF PowerCycle, Release
  <2> QED BY <2>1 DEF PressesGated
<1>2. CASE CardPulled \/ UNCHANGED vars
  <2>1. UNCHANGED <<press, waitingRelease, inputAwaitRelease, modeSelect, quizActive>>
    BY <1>2 DEF CardPulled
  <2> QED BY <2>1 DEF PressesGated
<1>3. ASSUME NEW ks \in KeyStates, MenuPress(ks)
      PROVE  PressesGated'
  <2>1. MenuPoll /\ PressHeld
    BY <1>3 DEF MenuPress, MenuMove, MenuChoose, MenuIgnore, MenuPoll
  <2> QED BY <2>1, GateShut, HeldPress DEF PressesGated
<1>4. ASSUME NEW ks \in KeyStates, QuizPress(ks)
      PROVE  PressesGated'
  <2>1. QuizGate /\ ~modeSelect /\ UNCHANGED modeSelect
    BY <1>4 DEF QuizPress, QuizWrong, QuizNext, QuizPassed, QuizErase, QuizCancel, QuizLetter,
       QuizChord, QuizIgnore, QuizPoll, QuizGate
  <2>2. \/ PressHeld
        \/ press' = "quiz ended" /\ quizActive' = FALSE /\ waitingRelease' = TRUE
    BY <1>4 DEF QuizPress, QuizWrong, QuizNext, QuizPassed, QuizErase, QuizCancel, QuizLetter,
       QuizChord, QuizIgnore
  <2> QED BY <2>1, <2>2, QuizGateShut, HeldPress DEF PressesGated
<1>5. ASSUME NEW ks \in KeyStates, CommandPress(ks)
      PROVE  PressesGated'
  <2>1. PICK command \in Decoded(ks) :
          \/ AskClear(command) \/ ClearEverything(command)
          \/ ShowRolls(command) \/ TurnPage(command, ks) \/ IgnoreKey(command)
          \/ QuizStart(command)
          \/ RollRefused(command) \/ RollAccepted(command, ks) \/ EraseRoll(command)
          \/ BuildRefused(command) \/ BuildRadioError(command) \/ BuildBlocked(command)
          \/ HwrngFailed(command) \/ BuildDone(command)
    BY <1>5 DEF CommandPress
  <2>2. CommandGate /\ ~modeSelect /\ ~quizActive
    BY <1>5 DEF CommandPress, CommandGate
  <2>3. CASE PressHeld
    BY <2>2, <2>3, GateShut, HeldPress DEF PressesGated
  <2>4. CASE QuizStart(command)
    BY <2>2, <2>4 DEF QuizStart, Consumed, PressesGated
  <2>5. CASE RollAccepted(command, ks)
    BY <2>2, <2>5 DEF RollAccepted, Consumed, PressesGated
  <2>6. PressHeld \/ QuizStart(command) \/ RollAccepted(command, ks)
    BY <2>1 DEF AskClear, ClearEverything, ShowRolls, TurnPage, IgnoreKey, RollRefused, EraseRoll,
       BuildRefused, BuildRadioError, BuildBlocked, HwrngFailed, BuildDone, Build
  <2> QED BY <2>3, <2>4, <2>5, <2>6
<1> QED BY <1>1, <1>2, <1>3, <1>4, <1>5 DEF Next

LEMMA PressesGatedCorrect == Spec => []PressesGated
<1>1. Init => PressesGated
  BY DEF Init, PressesGated
<1> QED BY <1>1, PressesGatedStep, PTL DEF Spec

\* A press that had its effect neither enters a roll nor reaches the menu, the
\* check or the commands again: only the card, power and its release remain.
LEMMA SpentPress ==
  ASSUME PressesGated, [Next]_vars, press \in {"rolled", "quiz opened", "quiz ended"}
  PROVE  CardPulled \/ PowerCycle \/ Release \/ UNCHANGED vars
<1>1. ASSUME NEW ks \in KeyStates
      PROVE  ~MenuPress(ks) /\ ~QuizPress(ks) /\ ~CommandPress(ks)
  <2>1. MenuPress(ks) => MenuPoll
    BY DEF MenuPress, MenuMove, MenuChoose, MenuIgnore, MenuPoll
  <2>2. QuizPress(ks) => QuizGate
    BY DEF QuizPress, QuizWrong, QuizNext, QuizPassed, QuizErase, QuizCancel, QuizLetter,
       QuizChord, QuizIgnore, QuizPoll
  <2>3. CommandPress(ks) => CommandGate
    BY DEF CommandPress
  <2> QED BY <2>1, <2>2, <2>3, GateShut, QuizGateShut
<1> QED BY <1>1 DEF Next

\* One complete keypress is one roll at most.
THEOREM OnePressOneRoll == Spec => OneRollPerPress
<1> DEFINE Kept == press = "rolled" => Len(rolls') <= Len(rolls)
<1>1. Typed /\ PressesGated /\ [Next]_vars => [Kept]_vars
  <2> SUFFICES ASSUME Typed, PressesGated, [Next]_vars, press = "rolled"
               PROVE  Len(rolls') <= Len(rolls)
    OBVIOUS
  <2>1. rolls' = rolls \/ rolls' = <<>>
    BY SpentPress DEF CardPulled, PowerCycle, Release
  <2>2. Len(rolls) \in Nat
    BY DEF Typed, TypeOK, RollsOK
  <2> QED BY <2>1, <2>2
<1> QED BY <1>1, TypedCorrect, PressesGatedCorrect, PTL DEF Spec, OneRollPerPress

\* The press that opens a backup check types nothing in it; the press that ends
\* one gives no command.
THEOREM QuizPressesKeptApart == Spec => QuizPressesSeparate
<1> DEFINE Apart == press' = press =>
             /\ press = "quiz opened" => UNCHANGED quizVars
             /\ press = "quiz ended" => UNCHANGED <<rolls, resultVars, quizVars, pageVars>>
<1>1. PressesGated /\ [Next]_vars => [Apart]_vars
  <2> SUFFICES ASSUME PressesGated, [Next]_vars, press' = press,
                      press \in {"quiz opened", "quiz ended"}
               PROVE  UNCHANGED <<rolls, resultVars, quizVars, pageVars>>
    OBVIOUS
  <2>1. CardPulled \/ UNCHANGED vars
    BY SpentPress DEF PowerCycle, Release
  <2> QED BY <2>1 DEF CardPulled
<1> QED BY <1>1, PressesGatedCorrect, PTL DEF Spec, QuizPressesSeparate

-----------------------------------------------------------------------------
(* Screens.                                                                 *)

\* What is painted, mode by mode.
Painted(screen) ==
  /\ modeSelect => screen = "menu"
  /\ quizActive => screen = "quiz"
  /\ ~modeSelect /\ ~quizActive /\ showingResult => screen = "result"
  /\ ~modeSelect /\ ~quizActive /\ ~showingResult => screen = "main"

LEMMA PaintedScreen ==
  ASSUME ModesExclusive
  PROVE  ScreenMatchesMode <=> Painted(drawnScreen)
<1>1. ~(modeSelect /\ quizActive)
  BY DEF ModesExclusive
<1>2. CASE modeSelect
  BY <1>1, <1>2 DEF ScreenMatchesMode, Painted
<1>3. CASE quizActive
  BY <1>1, <1>3 DEF ScreenMatchesMode, Painted
<1>4. CASE ~modeSelect /\ ~quizActive
  BY <1>4 DEF ScreenMatchesMode, Painted
<1> QED BY <1>2, <1>3, <1>4

\* No rolls, no pairs.
LEMMA VnBitsEmpty == VnBits(<<>>) = 0
<1>1. 1 .. Len(<<>>) \div 2 = {}
  OBVIOUS
<1>2. {i \in 1 .. Len(<<>>) \div 2 : Unequal(RollPair(<<>>, i))} = {}
  BY <1>1
<1> QED BY <1>2, FS_EmptySet DEF VnBits

\* The screen of the mode, and the statistic of the transcript.
ScreenInv == Painted(drawnScreen) /\ StatsFresh

\* Where the mode and the rolls stay, so may the screen.
LEMMA ScreenKept ==
  ASSUME ScreenInv, UNCHANGED <<modeSelect, quizActive, showingResult, drawnScreen, rolls, vnBits>>
  PROVE  ScreenInv'
BY DEF ScreenInv, Painted, StatsFresh

\* Each drawing function paints one of the screens.
LEMMA MainDrawn ==
  ASSUME NEW status, DrawMain(status), ~modeSelect', ~quizActive'
  PROVE  ScreenInv'
BY DEF DrawMain, ScreenInv, Painted, StatsFresh

LEMMA ResultDrawn ==
  ASSUME NEW status, DrawResult(status), ~modeSelect', ~quizActive'
  PROVE  ScreenInv'
BY DEF DrawResult, ScreenInv, Painted, StatsFresh

LEMMA QuizDrawn ==
  ASSUME ScreenInv, NEW status, DrawQuiz(status), ~modeSelect', quizActive', rolls' = rolls
  PROVE  ScreenInv'
BY DEF DrawQuiz, ScreenInv, Painted, StatsFresh

LEMMA ScreenStep ==
  ASSUME Typed, ScreenInv, [Next]_vars
  PROVE  ScreenInv'
<1>1. CASE CardPulled \/ Release \/ UNCHANGED vars
  BY <1>1, ScreenKept DEF CardPulled, Release
<1>2. CASE PowerCycle
  <2>1. VnBits(<<>>) = 0
    BY VnBitsEmpty
  <2> QED BY <1>2, <2>1 DEF PowerCycle, ScreenInv, Painted, StatsFresh
<1>3. ASSUME NEW ks \in KeyStates, MenuPress(ks)
      PROVE  ScreenInv'
  <2>1. CASE MenuMove(ks) \/ MenuIgnore(ks)
    BY <2>1, ScreenKept DEF MenuMove, MenuIgnore, MenuPoll, MenuFrame
  <2>2. CASE MenuChoose(ks)
    <3>1. DrawMain("info") /\ ~modeSelect' /\ UNCHANGED quizActive /\ modeSelect
      BY <2>2 DEF MenuChoose, MenuPoll, MenuFrame
    <3>2. ~quizActive'
      BY <3>1 DEF Typed, ModesExclusive
    <3> QED BY <3>1, <3>2, MainDrawn
  <2> QED BY <1>3, <2>1, <2>2 DEF MenuPress
<1>4. ASSUME NEW ks \in KeyStates, QuizPress(ks)
      PROVE  ScreenInv'
  <2>1. ~modeSelect' /\ quizActive /\ rolls' = rolls
    <3>1. QuizPoll(ks)
      BY <1>4 DEF QuizPress, QuizWrong, QuizNext, QuizPassed, QuizErase, QuizCancel, QuizLetter,
         QuizChord, QuizIgnore
    <3> QED BY <3>1 DEF QuizPoll, QuizGate
  <2>2. CASE QuizWrong(ks) \/ QuizNext(ks) \/ QuizErase(ks) \/ QuizLetter(ks) \/ QuizChord(ks)
    <3>1. DrawQuiz("info") \/ DrawQuiz(statusLine)
      BY <2>2 DEF QuizWrong, QuizNext, QuizErase, QuizLetter, QuizChord
    <3>2. UNCHANGED quizActive
      BY <2>2 DEF QuizWrong, QuizNext, QuizErase, QuizLetter, QuizChord
    <3> QED BY <2>1, <3>1, <3>2, QuizDrawn
  <2>3. CASE QuizPassed(ks) \/ QuizCancel(ks)
    <3>1. DrawResult("info") /\ ~quizActive'
      BY <2>3 DEF QuizPassed, QuizCancel
    <3> QED BY <2>1, <3>1, ResultDrawn
  <2>4. CASE QuizIgnore(ks)
    BY <2>4, ScreenKept DEF QuizIgnore, QuizPoll
  <2> QED BY <1>4, <2>2, <2>3, <2>4 DEF QuizPress
<1>5. ASSUME NEW ks \in KeyStates, CommandPress(ks)
      PROVE  ScreenInv'
  <2>1. PICK command \in Decoded(ks) :
          \/ AskClear(command) \/ ClearEverything(command)
          \/ ShowRolls(command) \/ TurnPage(command, ks) \/ IgnoreKey(command)
          \/ QuizStart(command)
          \/ RollRefused(command) \/ RollAccepted(command, ks) \/ EraseRoll(command)
          \/ BuildRefused(command) \/ BuildRadioError(command) \/ BuildBlocked(command)
          \/ HwrngFailed(command) \/ BuildDone(command)
    BY <1>5 DEF CommandPress
  <2>2. ~modeSelect /\ ~quizActive
    BY <1>5 DEF CommandPress, CommandGate
  <2>3. CASE AskClear(command) \/ ShowRolls(command) \/ TurnPage(command, ks)
             \/ RollRefused(command)
    <3>1. ~modeSelect' /\ ~quizActive'
      BY <2>2, <2>3 DEF AskClear, ShowRolls, TurnPage, RollRefused, Viewing, Consumed
    <3>2. \/ DrawMain("info")
          \/ DrawResult("info") \/ DrawResult(statusLine)
      BY <2>3 DEF AskClear, ShowRolls, TurnPage, RollRefused
    <3> QED BY <3>1, <3>2, MainDrawn, ResultDrawn
  <2>4. CASE IgnoreKey(command)
    BY <2>4, ScreenKept DEF IgnoreKey, Viewing, Consumed
  <2>5. CASE QuizStart(command)
    BY <2>2, <2>5, QuizDrawn DEF QuizStart, Consumed
  <2>6. CASE RollAccepted(command, ks) \/ EraseRoll(command)
    <3>1. ~modeSelect' /\ ~quizActive'
      BY <2>2, <2>6 DEF RollAccepted, EraseRoll, Consumed
    <3>2. DrawMain("info") \/ DrawMain(statusLine)
      BY <2>6 DEF RollAccepted, EraseRoll
    <3> QED BY <3>1, <3>2, MainDrawn
  <2>7. CASE BuildRefused(command) \/ BuildRadioError(command) \/ HwrngFailed(command)
    <3>1. UNCHANGED <<modeSelect, quizActive>>
      BY <2>7 DEF BuildRefused, BuildRadioError, HwrngFailed, Build
    <3>2. DrawMain("info") \/ DrawMain("radio")
      BY <2>7 DEF BuildRefused, BuildRadioError, HwrngFailed
    <3> QED BY <2>2, <3>1, <3>2, MainDrawn
  <2>8. CASE BuildBlocked(command) \/ BuildDone(command)
    <3>1. UNCHANGED modeSelect /\ (UNCHANGED quizActive \/ quizActive' = FALSE)
      BY <2>8 DEF BuildBlocked, BuildDone, FreshQuiz, Build
    <3>2. DrawResult("info")
      BY <2>8 DEF BuildBlocked, BuildDone
    <3> QED BY <2>2, <3>1, <3>2, ResultDrawn
  <2>9. CASE ClearEverything(command)
    <3>1. ~modeSelect' /\ ~quizActive'
      BY <2>2, <2>9 DEF ClearEverything
    <3>2. DrawMain("cleared") \/ DrawMain("deleteFailed")
      BY <2>9 DEF ClearEverything, RemoveReport
    <3> QED BY <3>1, <3>2, MainDrawn
  <2> QED BY <2>1, <2>3, <2>4, <2>5, <2>6, <2>7, <2>8, <2>9
<1> QED BY <1>1, <1>2, <1>3, <1>4, <1>5 DEF Next

LEMMA ScreenInvCorrect == Spec => []ScreenInv
<1>1. Init => ScreenInv
  BY VnBitsEmpty DEF Init, ScreenInv, Painted, StatsFresh
<1>2. Typed /\ ScreenInv /\ [Next]_vars => ScreenInv'
  BY ScreenStep
<1> QED BY <1>1, <1>2, TypedCorrect, PTL DEF Spec

\* The painted screen is always that of the mode whose keys the next poll decodes.
THEOREM ScreenIsOfTheMode == Spec => []ScreenMatchesMode
<1>1. Typed /\ ScreenInv => ScreenMatchesMode
  BY PaintedScreen DEF Typed, ScreenInv
<1> QED BY <1>1, TypedCorrect, ScreenInvCorrect, PTL

\* The bit count entropyReady() reads is that of the rolls in the buffer.
THEOREM StatsNeverStale == Spec => []StatsFresh
<1>1. ScreenInv => StatsFresh
  BY DEF ScreenInv
<1> QED BY <1>1, ScreenInvCorrect, PTL

\* When the menu line says there are enough bits, the extractor fills its output:
\* the statistic and the extractor, two loops in two files, count the same pairs.
THEOREM GateAndExtractorAgree == Spec => []ExtractorAgrees
<1>1. Typed /\ ScreenInv => ExtractorAgrees
  <2> SUFFICES ASSUME Typed, ScreenInv, entropyMode = "VN", EntropyReady(vnBits)
               PROVE  Len(VnExtract(rolls)) = NeedBits
    BY DEF ExtractorAgrees
  <2>1. rolls \in Seq(Face)
    BY DEF Typed, TypeOK, RollsOK
  <2>2. VnBits(rolls) >= NeedBits
    BY DEF EntropyReady, ScreenInv, StatsFresh
  <2> QED BY <2>1, <2>2, VnExtractFills, VnBitsNat, DiceAssumption
<1> QED BY <1>1, TypedCorrect, ScreenInvCorrect, PTL

\* So buildWallet never leaves through "need 256 VN bits": an assessment that
\* passes leaves enough to extract.
THEOREM NeverTooFewBits == Spec => [](AssessmentOK => Extracted)
<1>1. Typed /\ AssessmentOK => Extracted
  <2> SUFFICES ASSUME Typed, AssessmentOK, entropyMode = "VN"
               PROVE  Len(VnExtract(rolls)) >= NeedBits
    BY DEF Extracted
  <2>1. rolls \in Seq(Face)
    BY DEF Typed, TypeOK, RollsOK
  <2>2. VnBits(rolls) >= NeedBits
    BY DEF AssessmentOK, EntropyReady
  <2> QED BY <2>1, <2>2, VnExtractFills, VnBitsNat, DiceAssumption
<1> QED BY <1>1, TypedCorrect, PTL
=============================================================================
