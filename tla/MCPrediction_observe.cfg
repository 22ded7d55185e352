CONSTANTS
  Attempts = {1, 2}
  Depths = {0, 1}
  MaxFrames = 3
SPECIFICATION Spec
INVARIANTS TypeOK LaunchFits
PROPERTIES VisionIsHistory
CHECK_DEADLOCK FALSE
