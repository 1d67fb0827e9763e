SPECIFICATION FairSpec
CONSTANTS
  Procs = {p1, p2, p3}
  VPages = {v1, v2}
  SizeInFrames = 2
  Period = 2
INVARIANT TypeOK
PROPERTIES
  WorkingSetsFit
  RoundStopsInTime
  WhoFitsRuns
  SomeoneMayRun
  LastIsWoken
