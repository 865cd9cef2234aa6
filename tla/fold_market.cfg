SPECIFICATION HeldSpec
CONSTANTS
  alice = alice
  bob = bob
  NoOne = NoOne
  Names = {1, 2}
  Owners = {alice, bob}
  Quantum = 1
  Billing = 2
  MaxLease = 6
  CommitExpiry = 0
  ReserveWindow = 2
  DirectWindow = 1
  ReorgBuffer = 1
  MaxAnchorAge = 1
  DustFloor = 1
  BurnBps = 2500
  PayBps = 2500
  Activation = 1
  Ops = {"SELL", "RESERVE", "SETTLE", "SELL_TO", "PAY", "TRANSFER_NAME", "RENEW_NAME", "AS", "TRADE"}
  InputLists <- TwoInputs
  OutLists <- SaleOuts
  Values = {4}
  Prices = {2, 4}
  Windows = {0, 3}
  Rates = {1}
  MaxHeight = 5
  MaxTime = 6
  MaxTxs = 1
  MaxCarriers = 2
INVARIANTS NestingInv SolvencyInv
PROPERTIES ImplementsSteps EscrowPaid
CHECK_DEADLOCK FALSE
