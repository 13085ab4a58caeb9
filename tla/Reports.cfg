SPECIFICATION MCSpec
CONSTANTS
  None = None
  Span = 2
  MaxMiss = 1
  Busies = {1, 3}
  Offsets = {5}
  Observations <- MCObservations
  Groupings <- AllGroupings
  Bursts = {1, 120}
  MaxAdds = 3
  Versions = {2, 3, 4, 5, 6}
  BufferWords = 5
  MaxRecords = 4
CHECK_DEADLOCK FALSE
INVARIANTS
  ComponentsSum
  StagesSum
  ClocksIrrelevant
  NoNegative
  UniformRowsAddUp
  RecordsAccounted
  SavedIsRead
  OnlyWholeRecords
