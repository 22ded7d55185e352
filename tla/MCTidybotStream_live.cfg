CONSTANTS
  c1 = c1
  c2 = c2
  Callers = {c1}
  Periods = {1, 2}
  Horizons = {1, 2}
  ChunkLengths = {2}
  MaxElapsed = 1
  Latencies = {0}
  MaxOps = 1
  NoRequest = NoRequest
  NoTarget = NoTarget
SPECIFICATION FairSpec
INVARIANTS RateConsistent
PROPERTIES KeepsSubmitting CallsReturn LoopEnds KeepsPredicting
