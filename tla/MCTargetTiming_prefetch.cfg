CONSTANTS
  Periods = {4}
  Horizon = 6
  ChunkLengths = {8, 12}
  Latencies = {6, 14}
  Delays = {0, 1}
  RetryDelay = 4
  MaxClock = 84
  MaxChanges = 3
  Window = 1
  NoRequest = NoRequest
  NoTarget = NoTarget
  MeasuredPose = MeasuredPose
SPECIFICATION Spec
PROPERTIES NeverBehind NeverRunsDry
