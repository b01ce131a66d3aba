SPECIFICATION Spec
CONSTANTS
  Faces = 2
  MaxRolls = 4
  NeedBits = 2
  NeedEntries = 3
  RawRangeSize = 3
  RawRanges = 2
  Modes = {"VN"}
  Chars = {49, 50, 97, 121}
  MaxChord = 1
  HwDigests = {1}
  WordCount = 3
  QuizWords = 2
  QuizBufCap = 2
  PAGE_MNEMONIC_COUNT = 1
  RadioVerdicts = {TRUE}
  SelfTests <- MCHealthyBoot
  SdOutcomes = {"ok"}
  HwrngMayFail = FALSE
  CardRemovable = FALSE
  Word <- MCWord
  Challenge <- MCChallenge
INVARIANTS
  BackupIsOfAWallet
