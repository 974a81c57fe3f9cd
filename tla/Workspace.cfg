SPECIFICATION MCSpec
CONSTANTS
  Saves = {s1, s2}
  Envs = {e1, e2}
  Nothing = Nothing
  Ids = {i1, i2}
  Readers = {}
  MaxConcurrent = 2
  Scheduled = TRUE
  EventCap = 1
  MaxVersion = 0
  None = None
CHECK_DEADLOCK FALSE
PROPERTIES
  SlotReleased
  SettingsStored
