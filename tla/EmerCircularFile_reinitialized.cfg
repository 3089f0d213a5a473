CONSTANTS
  HeaderCells = 2
  Lengths = {1, 2}
  Limits = {7, 10}
  MaxElements = 4
  Faults = {"corrupt"}
SPECIFICATION Spec
INVARIANTS
  PhysicalSizeLimited
CHECK_DEADLOCK TRUE
