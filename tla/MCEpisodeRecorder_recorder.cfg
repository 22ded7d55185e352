CONSTANTS
  b1 = b1
  b2 = b2
  v1 = v1
  v2 = v2
  Begins = {b1, b2}
  Saves = {v1, v2}
  Series = {"pose"}
  Server = Server
  None = None
SPECIFICATION Spec
SYMMETRY BeginSymmetry
INVARIANTS NeverLogsToClosed StylesFollow
PROPERTIES SavesOneEpisode
CHECK_DEADLOCK FALSE
