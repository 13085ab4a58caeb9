SPECIFICATION MCSpec
CONSTANTS
  TcpReqs = {r1, r2, r3}
  RdmaReqs = {q1, q2}
  Sharing = {r1, r2}
  Reqs <- MCReqs
  NoReq = NoReq
  Slots <- MCSlots
  SlotOf <- MCSlotOf
  Events <- MCEvents
  Parts = {}
  CidSlots = {0, 1}
  OneCidSlot <- MCOneCidSlot
  GenCidSlot <- MCGenCidSlot
  Classes = {"read", "success", "inline", "r2t2"}
  FewCmds = 2
  MoreCmds = 3
  TcpTrouble = 1
  RdmaTrouble = 2
SYMMETRY Exchanges
INVARIANTS
  HostTables
  HostRecordsPure
  HostRecordsComplete
