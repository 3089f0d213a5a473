CONSTANTS
  HeaderCells = 2
  Lengths = {1, 2}
  Limits = {7, 8}
  MaxElements = 3
  Faults = {"write", "metadata", "kill", "power"}
SPECIFICATION Spec
INVARIANTS
  TypeOK
  OnlySavedIsRead
  OpensAgain
  PhysicalSizeLimited
PROPERTIES
  IsFifo
CHECK_DEADLOCK TRUE
