SPECIFICATION Spec
CONSTANTS
  None = None
  Observations <- MCObservations
  Groupings <- FullGrouping
  Bursts = {1, 120}
  MaxAdds = 3
CHECK_DEADLOCK FALSE
INVARIANTS
  NoneInBothIsTrue
