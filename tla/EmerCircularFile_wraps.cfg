CONSTANTS
  HeaderCells = 2
  Lengths = {1, 2, 3}
  Limits = {9}
  MaxElements = 5
  Faults = {"remove"}
SPECIFICATION Spec
INVARIANTS
  OpensAgain
CHECK_DEADLOCK TRUE
