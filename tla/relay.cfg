SPECIFICATION Spec
CONSTANTS
  t1 = t1
  t2 = t2
  t3 = t3
  t4 = t4
  i1 = i1
  i2 = i2
  i3 = i3
  Txs = {t1, t2, t3, t4}
  Nonstandard = {t4}
  Spends <- SpendsOf
  Size <- SizeOf
  NoTx = NoTx
  MaxTxs = 2
  MaxBytes = 2
  SeenRing = 4
  Expiry = 1
  a = a
  b = b
  c = c
  Worlds <- AllWorlds
  Nodes = {a, b, c}
  MaxMishaps = 1
INVARIANTS IndexInv WithinLimits NoDoubleSpend SpreadAtRest
PROPERTIES ConfirmedLeaves Quiesces PoolsEmpty
CHECK_DEADLOCK FALSE
