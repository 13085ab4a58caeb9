SPECIFICATION MCSpec
CONSTANTS
  Ring = 2
  Halvings = 2
  Low = 4
  Cpus = {1, 2}
  MaxTime = 13
  MaxExtra = 2
  Reqs = {q1, q2}
  Posts = 1
  MaxRdmaTime = 2
  MaxSubmits = 2
  MaxGates = 2
  Cmds = {c1, c2}
  HostProcs = {h1, h2}
  TargetProcs = {t1}
  Files = {f1, f2}
  LinkThreads = 2
SYMMETRY Exchanges
CHECK_DEADLOCK FALSE
INVARIANTS
  FindIsLatest
  ArrivalOfItsRead
  SentByItsCall
  RdmaTimesReal
  HostHasTarget
  GatesRestored
  RequiredHooked
  HooksTakenBack
