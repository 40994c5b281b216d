CONSTANTS
  Scalars <- MCScalars
  MaxDocumentBytes = 1
  MaxScalarBytes = 0
  MaxNodes = 5
  MaxDepth = 2
  MaxPosition = 3
  Natives <- MCNatives
  DocumentSizes <- MCDocumentSizes
  Offered <- MCOffered
SPECIFICATION Spec
INVARIANT
  EmptyIsInvalidDocument
CHECK_DEADLOCK FALSE
