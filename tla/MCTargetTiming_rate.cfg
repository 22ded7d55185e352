CONSTANTS
  Periods = {2, 3}
  Horizon = 2
  ChunkLengths = {0, 4}
  Latencies = {1, 3}
  Delays = {0, 2}
  RetryDelay = 4
  MaxClock = 14
  MaxChanges = 2
  Window = 3
  NoRequest = NoRequest
  NoTarget = NoTarget
  MeasuredPose = MeasuredPose
SPECIFICATION Spec
INVARIANTS NoBurst
PROPERTIES NeverAhead
