CONSTANTS
  HeaderCells = 2
  Lengths = {1, 2}
  Limits = {0, 7, 10}
  MaxElements = 4
  Faults = {"write", "metadata", "remove", "kill", "corrupt"}
SPECIFICATION Spec
INVARIANTS
  HarmlessUntilDamaged
CHECK_DEADLOCK TRUE
