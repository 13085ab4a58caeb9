SPECIFICATION Spec
CONSTANTS
  Reqs = {1, 3}
  NoReq = 0
  Slots = {0, 1}
  SlotOf <- MCSlotOf
  Events <- MCEvents
  Parts = {}
  CountedMax = 2
  TrackQueues = FALSE
  MaxCmds = 2
  Classes = {"read", "success", "inline", "r2t", "failed"}
  MaxMiss = 1
INVARIANT RecordsPure
