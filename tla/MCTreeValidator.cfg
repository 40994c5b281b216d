CONSTANTS
  Scalars <- MCScalars
  MaxTree = 7
  KeyScalars = {"a", "<<"}
  Trees <- MCTrees
SPECIFICATION FairSpec
INVARIANTS
  FirstDefectReported
  WalkTracksKeys
  WalkIInv
PROPERTY
  Terminates
CHECK_DEADLOCK FALSE
