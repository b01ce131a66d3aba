SPECIFICATION Spec
CONSTANTS
  Faces = 2
  MaxRolls = 4
  NeedBits = 2
  NeedEntries = 3
  RawRangeSize = 3
  RawRanges = 2
  Modes = {"RAW"}
  Chars = {49, 50, 97, 110, 121}
  MaxChord = 1
  HwDigests = {1}
  WordCount = 1
  QuizWords = 1
  QuizBufCap = 1
  PAGE_MNEMONIC_COUNT = 1
  RadioVerdicts = {TRUE}
  SelfTests <- MCAnyCard
  SdOutcomes = {"unopened", "failed", "ok"}
  HwrngMayFail = FALSE
  CardRemovable = TRUE
  Word <- MCWord
  Challenge <- MCChallenge
INVARIANTS
  ReportTruthful
  ClearedIsTruthful
PROPERTIES
  ImplementsLifecycle
  AddressWrittenAfterQuiz
