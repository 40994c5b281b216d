CONSTANTS
  Max32 = 31
  Max64 = 255
  MaxLength = 4
SPECIFICATION ReleaseSpec
INVARIANT
  CanonicalOnly
CHECK_DEADLOCK FALSE
