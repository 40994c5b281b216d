CONSTANTS
  MaxScalarBytes = 2
  MaxPosition = 3
  Lines = {0, 1, 2, 3, 4}
  Natives <- MCNatives
SPECIFICATION Spec
INVARIANTS
  TypeOK
  NothingLeaks
  ScalarsBounded
PROPERTY
  MarksAdvance
CHECK_DEADLOCK FALSE
