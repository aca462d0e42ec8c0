CONSTANTS
  HeaderSize = 4
  LargeSize = 6
  LargeNum = 2
  BodySize = 2
  MaxBody = 6
  MaxRequests = 3
  Setups <- MCSetups
SPECIFICATION FairSpec
CHECK_DEADLOCK FALSE
INVARIANT Inv
INVARIANT InStep
INVARIANT NoneForgotten
INVARIANT AnswerNotCut
PROPERTY Ends
