SPECIFICATION MCSpec
CONSTANTS
  Reads = {r1, r2}
  NoRead = NoRead
  MaxCopies = 2
  MaxTime = 5
  CPUs = {c1, c2}
  MaxMisses = 1
  MaxWriteTime = 4
SYMMETRY Symmetries
CHECK_DEADLOCK FALSE
INVARIANTS
  BusyInsideSpan
  PhaseInOrder
  NoInstantTwice
  WriteTimed
