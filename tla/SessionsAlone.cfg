SPECIFICATION Spec
CONSTANTS
  Ids = {s1, s2}
  Readers = {}
  MaxConcurrent = 2
  Scheduled = TRUE
  EventCap = 1
  MaxVersion = 0
  None = None
CHECK_DEADLOCK FALSE
PROPERTIES
  AutomaticRunsAlone
