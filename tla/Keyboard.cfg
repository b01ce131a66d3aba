SPECIFICATION Spec
CONSTANTS
  Faces = 2
  MaxRolls = 5
  NeedBits = 1
  NeedEntries = 2
  RawRangeSize = 3
  RawRanges = 2
  Modes = {"VN"}
  Chars = {49, 50, 115, 96, 121}
  MaxChord = 2
  HwDigests = {1}
  WordCount = 2
  QuizWords = 2
  QuizBufCap = 2
  PAGE_MNEMONIC_COUNT = 1
  RadioVerdicts = {TRUE}
  SelfTests <- MCHealthyBoot
  SdOutcomes = {"unopened"}
  HwrngMayFail = FALSE
  CardRemovable = FALSE
  Word <- MCWord
  Challenge <- MCChallenge
INVARIANTS
  TypeOK
  StatsFresh
  ExtractorAgrees
  ScreenMatchesMode
  ModesExclusive
PROPERTIES
  WalletImmutable
  SecretsLockRolls
  OneRollPerPress
  QuizPressesSeparate
