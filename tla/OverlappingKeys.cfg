SPECIFICATION KeysSpec
CONSTANTS
  Keys = {97, 98, 122}
  WordCap = 2
  BufCap = 2
PROPERTIES
  OverlapRejected
