SPECIFICATION Spec
CONSTANTS
  Windows = {w1, w2}
  LastTime = 2
CHECK_DEADLOCK FALSE
PROPERTIES
  NeverMovesBack
