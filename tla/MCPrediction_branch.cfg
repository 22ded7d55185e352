CONSTANTS
  Attempts = {1}
  Depths = {0}
  MaxFrames = 1
SPECIFICATION Spec
INVARIANTS HistoricalBranchKept
CHECK_DEADLOCK FALSE
