SPECIFICATION Spec
CONSTANTS
  Procs = {p1, p2}
  VPages = {v1}
  NumFrames = 1
  Clusters = {c1, c2}
  FDs = {d1, d2, d3, d4}
  Values = {zero, one}
  Zero = zero
  Link = link
  NoFD = noFD
  NoCluster = noCluster
  WriteMayFail = FALSE
  ReadMayFail = FALSE
  SharedNames = {x}
  Flags = {"READ_WRITE", "EXECUTE"}
  Accesses = {"READ", "WRITE", "EXECUTE"}
  Images = {one}
  NoSlot = noSlot
  NoSegment = noSegment
  Private = private
  Unmapped = unmapped
SYMMETRY Exchange
INVARIANTS
  EntriesAgree
  DescriptorFound
  Bookkeeping
  PagesHoldData
PROPERTIES
  ImplementsAddressSpaces
CONSTRAINTS HeapHasRoom
