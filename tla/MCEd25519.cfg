SPECIFICATION LibrarySpec
CONSTANTS
  Limbs = 4
  EvenBits = 4
  OddBits = 3
  FoldBy = 3
  ByteWidth = 3
  Coefficient = 5
  EvenBound = 8
  OddBound = 50
  Reg = {f, g}
  FieldInputs = {16381, 21845}
  MaxFieldOps = 3
  DigitBits = 15
  Digits = 18
  LimbsPerScalar = 4
  LimbBits = 3
  Delta <- MCDelta
  ScalarBits = 13
  DigestBits = 26
  Multiples = {0, 1, 2, 3, 5, 7, 100, 1000, 4095, 4127, 16000, 16260}
  Factors = {0, 1, 2047, 4095, 4096, 4126, 4127, 8191}
  CurvePrime = 101
  CurveD = 29
  SqrtMinusOne = 10
  BaseX = 2
  BaseY = 33
  BaseOrder = 13
  YBits = 7
  NibbleBits = 2
  Nibbles = 4
  SlideBits = 10
  SlideReach = 6
  SlideMax = 15
  KeyMultiples = {1, 5}
  KeyBits = 8
  PrefixValues = {3, 200}
  Messages = {1, 2}
  Scalars = {1, 77, 130, 255}
  DigestRange = 256
  MaxKeyCalls = 3
INVARIANTS
  FieldSound
  ScalarSound
  OperandsSound
  GroupSound
  KeysSound
PROPERTIES
  ImplementsField
CHECK_DEADLOCK FALSE
