SPECIFICATION CallsSpec
CONSTANTS
  HashLen = 4
  Byte = {0, 1, 2, 3, 5, 6}
  WordCount = 4
  QuizWords = 3
  Faces = 3
  MaxRolls = 6
  NeedBits = 3
  NeedEntries = 5
  RawRangeSize = 64
  RawRanges = 3
  Base = 8
  AccSize = 3
  Keys = {97, 98, 122}
  WordCap = 2
  BufCap = 2
INVARIANTS
  TypesOK
  PositionsSound
PROPERTIES
  Returns
  ImplementsRawCall
  TypingExplained
CHECK_DEADLOCK FALSE
