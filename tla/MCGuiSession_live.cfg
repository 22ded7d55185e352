CONSTANTS
  r1 = r1
  r2 = r2
  r3 = r3
  r4 = r4
  Requests = {r1, r2, r3, r4}
  Patient = TRUE
  Faults = TRUE
  Headless = FALSE
SPECIFICATION FairSpec
INVARIANTS TypeOK OneAwake OneRunner StartsAwake ShownIsTrue
PROPERTIES PausedMeansPaused StartingEnds PauseArrives
