SPECIFICATION Spec
CONSTANTS
  a = a
  b = b
  c1 = c1
  c2 = c2
  c3 = c3
  c4 = c4
  Names = {a, b}
  Commands = {c1, c2, c3, c4}
  CmdOf <- MCCmdOf
  NameOf <- MCNameOf
  Https <- MCHttps
  Good <- MCGood
  None = None
  Frag = Frag
INVARIANT Inv
INVARIANT DiskIsWhatWasReported
PROPERTY ServedUnlessRefused
