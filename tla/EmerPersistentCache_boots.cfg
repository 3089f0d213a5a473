CONSTANTS
  MaxTime = 4
  MaxVariants = 2
  Skews <- MCSkews
  Versions = {4, 5}
  Faults = {"read", "write", "kill", "lost", "metadata", "timing"}
SPECIFICATION Spec
INVARIANTS
  TypeOK
  OffsetExact
  OneOrigin
  OwnFormat
