CONSTANTS
  HeaderCells = 2
  Lengths = {1, 2}
  Limits = {10}
  MaxElements = 4
  Faults = {"remove"}
SPECIFICATION Spec
INVARIANTS
  OnlySavedIsRead
CHECK_DEADLOCK TRUE
