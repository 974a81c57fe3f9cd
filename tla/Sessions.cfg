SPECIFICATION Spec
CONSTANTS
  Ids = {s1}
  Readers = {q1, q2}
  MaxConcurrent = 1
  Scheduled = TRUE
  EventCap = 2
  MaxVersion = 2
  None = None
SYMMETRY Symmetry
CHECK_DEADLOCK FALSE
INVARIANTS
  TypeOK
  NoGhostRunning
  NoStrayAutomatic
  DownIsQuiet
PROPERTIES
  ClosedNeverReturns
  NewestStateKept
