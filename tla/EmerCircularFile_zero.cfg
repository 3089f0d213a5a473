CONSTANTS
  HeaderCells = 2
  Lengths = {1, 2}
  Limits = {0, 7}
  MaxElements = 2
  Faults = {}
SPECIFICATION Spec
INVARIANTS
  OpensAgainWithoutRoom
CHECK_DEADLOCK TRUE
