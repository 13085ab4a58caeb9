SPECIFICATION MCSpec
CONSTANTS
  Reqs = {1, 3}
  NoReq = 0
  Slots = {0, 1}
  SlotOf <- MCSlotOf
  Events <- MCEvents
  Parts = {"POSTED", "SEND_DONE"}
  CountedMax = 1
  TrackQueues = TRUE
  MaxCmds = 2
  MoreCmds = 3
  Classes = {"read", "success", "inline", "r2t", "failed"}
  MaxMiss = 1
INVARIANTS
  TargetTables
  TargetRecordsPure
  TargetRecordsComplete
