SPECIFICATION Spec
CONSTANTS
  a1 = a1
  a2 = a2
  a3 = a3
  b3 = b3
  b4 = b4
  x3 = x3
  Blocks = {a1, a2, a3, b3, b4, x3}
  Start = Start
  Parent <- ParentOf
  Invalid = {x3}
  Missing = Missing
  First = a2
  Window = 2
  StageCap = 3
  BranchCap = 3
  InvCap = 1
  Budget = 2
  ForkDepth = 3
  AnnounceCap = 1
  MaxMishaps = 1

PROPERTIES Follows
CHECK_DEADLOCK FALSE
