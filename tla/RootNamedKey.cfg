CONSTANTS
  Scalars <- MCScalars
  MaxTree = 7
  KeyScalars = {"a", "$"}
  Trees <- MCTrees
SPECIFICATION Spec
INVARIANT
  PathNamesOuterKey
CHECK_DEADLOCK FALSE
