SPECIFICATION CreationSpec
CONSTANTS
  Byte = {0, 1}
  Blocks = 3
  BlockSize = 3
  RunLimit = 4
  CountLimit = 6
  PeriodLimit = 3
  SampleSize = 2
  Faces = 2
  None = None
  DiceEntropy = DiceEntropy
  OldEntropy = OldEntropy
  BlockBytes = 6
  LengthAt = 4
  LengthLow = 5
  MaxMessage = 14
  MaxHashes = 2
  CompressBits = 8
  StateWords = {1, 107}
  BlockWords = {0, 29, 255}
  Rounds = 4
  MnemonicLengths = {0, 107, 128, 129, 215, 239, 240}
  PassLengths = {0, 63, 64}
  SeedLengths = {0, 1, 16, 64, 128, 129}
  EntropyBytes = 2
  IndexBits = 3
  ShortestWord = 1
  LongestWord = 3
  ByteValues = {0, 27, 228}
  MaxPhrases = 2
  ByteBase = 4
  DigitBase = 3
  DataLens = {0, 1, 3, 4, 6}
  MaxLen = 5
  TmpSize = 6
  OutCaps = {1, 5, 7}
  KeyLen = 4
  AddressCap = 7
  MaxScalars = 3
  OutCapacities = {0, 6, 40}
  Samples = {97, 769, 795, 807, 836, 7689, 64257, 44032, 44033, 119134}
  Decomposition <- MCDecomposition
  Classes <- MCClasses
INVARIANTS
  VerdictExact
  LocalsWiped
  NeverMixed
  StreamSound
  AddressIsDerived
  TemporariesWiped
  PhraseSound
  Base58Sound
  NfkdSound
PROPERTIES
  KeepsLifecycle
  ImplementsFips
  NfkdReturns
CHECK_DEADLOCK FALSE
