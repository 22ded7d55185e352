CONSTANTS
  c1 = c1
  c2 = c2
  Callers = {c1, c2}
  Periods = {1}
  Horizons = {2}
  ChunkLengths = {2}
  MaxElapsed = 2
  Latencies = {0}
  MaxOps = 3
  NoRequest = NoRequest
  NoTarget = NoTarget
SPECIFICATION Spec
SYMMETRY CallerSymmetry
INVARIANTS TypeOK OneInFlight
PROPERTIES PauseHolds FreshAfterPause StoppedForGood KeepsPromise
