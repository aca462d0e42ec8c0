CONSTANTS
  Sids = {1, 3, 5, 7}
  PushId = 2
  DefWin = 2
  MaxWin = 4
  Preread = 1
  BodyBuf = 2
  Concurrent = 3
  MaxClosed = 2
  Setups <- MCSetups
SPECIFICATION Spec
CHECK_DEADLOCK FALSE
INVARIANT Inv
INVARIANT GoodClientIsServed
INVARIANT Wakes
