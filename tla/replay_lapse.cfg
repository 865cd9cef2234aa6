SPECIFICATION Spec
CONSTANTS
  a1 = a1
  a2 = a2
  a3 = a3
  a4 = a4
  b3 = b3
  b4 = b4
  b5 = b5
  c4 = c4
  c5 = c5
  d2 = d2
  d3 = d3
  Blocks = {a1, a2, a3, a4, b3, b4, b5, c4, c5, d2, d3}
  Start = Start
  Missing = Missing
  Parent <- ParentOf
  Time <- TimeOf
  Carriers = {a1, a3, d3, b4}
  Lease = 1
  MtpWindow = 3
  Fresh = FALSE
  Reorgs = TRUE
  Refolds = {"settled"}
  CrashAt = {}
INVARIANTS StateOfChain
