SPECIFICATION Spec
CONSTANTS
  Tools = {"audit", "find"}
  Required = {"audit"}
  Forbidden = {}
  Repeats = TRUE
  Panics = FALSE
  BatchSelects = 0
  CommandCap = 2
  EventCap = 2
  None = None
INVARIANTS
  UserChoiceKept
