SPECIFICATION Spec
CONSTANTS
  None = None
  Observations <- PartlyJoined
  Groupings <- FullGrouping
  Bursts = {1}
  MaxAdds = 3
CHECK_DEADLOCK FALSE
INVARIANTS
  RowsAddUp
