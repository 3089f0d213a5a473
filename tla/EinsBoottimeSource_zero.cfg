CONSTANTS
  Sources = {a}
  Intervals = {0, 1}
  MaxTime = 2
  Faults = {}
SPECIFICATION Spec
PROPERTIES
  ZeroIsReady
CHECK_DEADLOCK FALSE
