CONSTANTS
  Sources = {a, b}
  Intervals = {1, 2, 3}
  MaxTime = 6
  Faults = {"read"}
SPECIFICATION Spec
INVARIANTS
  TypeOK
  NeverTooOften
CHECK_DEADLOCK FALSE
