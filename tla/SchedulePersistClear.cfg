SPECIFICATION Spec
CONSTANTS
  RunEnds = {r1, r2}
  Attempts = {a1}
  MaySpawnFail = TRUE
CHECK_DEADLOCK FALSE
PROPERTIES
  NothingWouldWrite
