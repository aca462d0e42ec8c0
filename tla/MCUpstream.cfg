CONSTANTS
  Setups <- MCSetups
  HashTries = 2
  Requests = {1, 2, 3}
SPECIFICATION Spec
INVARIANT Inv
INVARIANT AskedOnce
INVARIANT Quarantine
PROPERTY RequestsEnd
CHECK_DEADLOCK FALSE
