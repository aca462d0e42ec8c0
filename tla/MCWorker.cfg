CONSTANTS
  w1 = w1
  w2 = w2
  Workers <- MCWorkers
  Scenarios <- MCScenarios
  N = 3
  Reserve = 1
  BatchMax = 3
SPECIFICATION Spec
CHECK_DEADLOCK FALSE
INVARIANT Inv
PROPERTY BacklogShrinks
