SPECIFICATION FairReportSpec
CONSTANTS
  Cmds = {1, 2, 3}
  KeyOf <- MCKeyOf
  CmdOf <- MCCmdOf
  Times <- MCTimes
  MaxPerKey = 2
  None = None
  RingSize = 2
  Interval = 2
  HostWait = 1
  TargetExpiry = 1
  Drain = 1
  MaxTime = 3
INVARIANTS
  JoinInv
  PairsAreOneCommand
  OfflineAgrees
  OfflineJoinsNoFewer
PROPERTIES
  OnlineSpec
  DrainEnds
