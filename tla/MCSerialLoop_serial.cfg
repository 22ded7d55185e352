CONSTANTS
  Callers = {c1}
  Frames = 4
  Horizons = {1, 2}
  ChunkLengths = {0, 2}
  Periods = {2, 3}
  DatasetPeriod = 2
  Durations = {0, 1, 3}
  Lates = {1}
  MaxOps = 2
SPECIFICATION FairSpec
INVARIANTS TypeOK
PROPERTIES PauseHoldsBack Chronological NoCatchUp LoopEnds
