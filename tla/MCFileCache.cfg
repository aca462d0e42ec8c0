CONSTANTS
  Setups <- MCSetups
  Requests = {1, 2, 3, 4}
SPECIFICATION Spec
INVARIANT Inv
INVARIANT Accounted
PROPERTY WaitersEnd
PROPERTY Bounded
CHECK_DEADLOCK FALSE
