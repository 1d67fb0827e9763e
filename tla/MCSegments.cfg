SPECIFICATION FairSpec
CONSTANTS
  NumProcs = 2
  Names = {n1, n2}
  Addresses = {0, 2}
  Sizes = {1, 3}
  PMTSizes = {1, 5}
  MaxMisuses = 1
  NoName = noName
  Page1BitNum = 1
  Page2BitNum = 1
  OffsetBitNum = 1
  WordBits = 5
INVARIANTS
  TypeOK
  Accounted
  SoundUnlessSpoiled
PROPERTIES
  PrivateKept
  JobsEnd
CHECK_DEADLOCK FALSE
CONSTRAINTS DamageBound
