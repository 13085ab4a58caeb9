SPECIFICATION MCSpec
CONSTANTS
  Rqs = {r1, r2}
  None = None
  MaxCmds = 2
  QueueRqs = {q1, q2, q3}
  NoRq = NoRq
  CountedMax = 2
  MaxDispatches = 4
  MaxTimeouts = 1
SYMMETRY Exchanges
INVARIANTS
  InflightCovers
  ExactUnlessRaced
  NoHalfClaimFound
