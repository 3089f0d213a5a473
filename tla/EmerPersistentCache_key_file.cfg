CONSTANTS
  MaxTime = 3
  MaxVariants = 2
  Skews <- MCSkews
  Versions = {4, 5}
  Faults = {"timing"}
SPECIFICATION Spec
INVARIANTS
  ResetHelps
