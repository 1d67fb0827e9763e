SPECIFICATION Spec
CONSTANTS
  Procs = {p1, p2, p3}
  VPages = {v1}
  NumFrames = 1
  Clusters = {c1, c2}
  FDs = {d1, d2, d3, d4, d5}
  Values = {zero, one}
  Zero = zero
  Link = link
  NoFD = noFD
  NoCluster = noCluster
  WriteMayFail = TRUE
  ReadMayFail = FALSE
  SharedNames = {}
  Flags = {"READ_WRITE"}
  Accesses = {"READ", "WRITE"}
  Images = {}
  NoSlot = noSlot
  NoSegment = noSegment
  Private = private
  Unmapped = unmapped
SYMMETRY Exchange
INVARIANTS
  TypeOK
  FrameAccounting
  ClusterAccounting
  Copying
  CowIsolation
  RightsKept
  CleanMeansSaved
  InstructionCompletes
PROPERTIES
  ImplementsAddressSpaces
  FaultResolved
CONSTRAINTS NoOrphans HeapHasRoom
