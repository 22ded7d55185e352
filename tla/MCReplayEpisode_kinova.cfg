CONSTANTS
  Pausers = {"p1"}
  Feeds = {1, 2}
  MaxActions = 3
  MaxTwists = 2
  MaxFaults = 1
  Frames = 2
  Dt = 2
  Durations = {0, 3}
SPECIFICATION FairSpec
INVARIANTS TypeOK TracedOnce ComesToRest
PROPERTIES WaitsForCompletion KeepsDistance CallsEnd
CHECK_DEADLOCK FALSE
