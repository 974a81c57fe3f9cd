SPECIFICATION MCSpec
CONSTANTS
  Queued = {a1}
  Direct = {b1}
  Downloads = {d1}
  Workers = 1
  Size = 1
  Readers = {q1, q2}
  Paths = {p1, p2}
  Capacity = 1
  Tries = 2
  Changes = 1
  Nobody = Nobody
  RunEnds = {r1, r2}
  Attempts = {r3}
  MaySpawnFail = TRUE
  Windows = {w1}
  LastTime = 3
CHECK_DEADLOCK FALSE
INVARIANTS
  TypesOK
  LiveThreadsCounted
  CompleteDownload
  DigestsShared
  RecordKept
  NoMarkLost
PROPERTIES
  WaitsEnd
