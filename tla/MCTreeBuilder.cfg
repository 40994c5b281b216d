CONSTANTS
  Scalars <- MCScalars
  MaxDocumentBytes = 1
  MaxNodes = 4
  MaxDepth = 3
  DocumentSizes <- MCDocumentSizes
  ReaderFailures = {"syntax", "resource_limit", "bad_alloc"}
  Offered <- MCOffered
  ProviderMay <- AnyProvider
SPECIFICATION Spec
INVARIANTS
  TypeOK
  IInv
  WithinLimits
  EventBudget
  PairsComplete
  ReadsNothingAfterEnd
  TreeMirrorsEvents
  FailureLocated
  StrictIInv
  PathIInv
PROPERTY
  StrictSubset
CHECK_DEADLOCK FALSE
