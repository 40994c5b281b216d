CONSTANTS
  MaxScalarBytes = 2
  MaxPosition = 3
  Lines = {0, 1, 2, 3, 4}
  Natives <- MCNatives
SPECIFICATION Spec
INVARIANT
  NoLocationIsZero
CHECK_DEADLOCK FALSE
