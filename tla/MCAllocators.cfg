SPECIFICATION Spec
CONSTANTS
  NumFrames = 4
  NumClusters = 3
INVARIANTS
  TypeOK
  FreeListSound
  StackSound
PROPERTIES
  ImplementsFrames
  ImplementsClusters
