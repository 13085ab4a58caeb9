SPECIFICATION Spec
CONSTANTS
  Rqs = {r1, r2}
  NoRq = NoRq
  CountedMax = 2
  MaxDispatches = 2
  MaxTimeouts = 0
INVARIANT EveryDecrementMatches
