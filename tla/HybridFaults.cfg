SPECIFICATION Spec
CONSTANTS
  Faces = 2
  MaxRolls = 2
  NeedBits = 2
  NeedEntries = 2
  RawRangeSize = 3
  RawRanges = 2
  Modes = {"HYBRID"}
  Chars = {49, 50, 97, 121}
  MaxChord = 1
  HwDigests = {1, 2}
  WordCount = 3
  QuizWords = 2
  QuizBufCap = 2
  PAGE_MNEMONIC_COUNT = 1
  RadioVerdicts = {TRUE, FALSE}
  SelfTests <- MCHealthyBoot
  SdOutcomes = {"ok"}
  HwrngMayFail = TRUE
  CardRemovable = FALSE
  Word <- MCWord
  Challenge <- MCChallenge
INVARIANTS
  WalletMatchesTranscript
  ResultsAgree
  BackupGate
  SampleFromThisRun
