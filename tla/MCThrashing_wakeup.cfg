SPECIFICATION FairSpec
CONSTANTS
  Procs = {p1, p2}
  VPages = {v1, v2}
  SizeInFrames = 2
  Period = 2
PROPERTY ActiveProcessWakes
