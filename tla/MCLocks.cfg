SPECIFICATION Spec
CONSTANTS
  Threads = {t1, t2}
  NumProcs = 3
  NoCall = NoCall
SYMMETRY ThreadsSymmetry
INVARIANTS
  TypeOK
  NoCircularWait
  RoundAlone
  NoDeadProcess
