SPECIFICATION FairSpec
CONSTANTS
  NumProcs = 2
  Names = {n1}
  Addresses = {0, 4}
  Sizes = {1}
  PMTSizes = {5}
  MaxMisuses = 0
  NoName = noName
  Page1BitNum = 1
  Page2BitNum = 1
  OffsetBitNum = 1
  WordBits = 5
PROPERTIES
  RollbackEnds
CHECK_DEADLOCK FALSE
