CONSTANTS
  Scalars <- MCScalars
  PackageNames = {"good", "unsafe"}
  ProfileNames = {"@good", "@unsafe"}
  SafeKeys = {"profiles", "members", "good"}
  Nodes <- MCNodeSet
  Documents <- MCDocuments
SPECIFICATION Spec
INVARIANTS
  ExactlyTheProtocol
  NoCoreErrorEscapes
  FirstFaultReported
  FailureResolves
CHECK_DEADLOCK FALSE
