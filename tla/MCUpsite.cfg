SPECIFICATION Spec
CONSTANTS
  Addrs = {a1}
  Handlers = {h1, h2}
  Reqs = {r1}
  PoolSize = 1
  None = None
INVARIANT Inv
INVARIANT StatusIsTheAgents
PROPERTY StatusIsFinal
PROPERTY HangupUnregisters
