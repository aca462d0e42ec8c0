CONSTANTS
  Docs <- MCDocs
  Mains <- MCMains
  MaxReq = 7
SPECIFICATION Spec
CHECK_DEADLOCK FALSE
INVARIANT Inv
PROPERTY ImplementsDocument
PROPERTY RequestEnds
