CONSTANTS
  ResendTimeout = 2
  Keep = 1
  TcpTimeout = 2
  TcpRoom = 1
  ResolverTimeout = 3
  MaxRecursion = 2
  MaxStart = 2
  MaxNow = 9
  Setups <- MCSetups
SPECIFICATION Spec
CHECK_DEADLOCK FALSE
INVARIANT Inv
INVARIANT ToldTrue
PROPERTY EveryoneIsTold
