CONSTANTS
  Scalars <- MCScalars
  PackageNames = {"good", "unsafe"}
  ProfileNames = {"@good", "@unsafe"}
  SafeKeys <- Fixed
  Releases = {"1"}
  Values = {"good", "unsafe"}
  Nodes <- MCNodeSet
  Documents <- MCDocuments
SPECIFICATION Spec
INVARIANTS
  ExactlyTheProtocol
  NoCoreErrorEscapes
  FailureResolves
  DeclaredInOrder
CHECK_DEADLOCK FALSE
