SPECIFICATION Spec
CONSTANTS
  alice = alice
  bob = bob
  NoOne = NoOne
  Names = {1, 2}
  Owners = {alice, bob}
  Quantum = 1
  Billing = 2
  MaxLease = 4
  CommitExpiry = 1
  ReserveWindow = 2
  DirectWindow = 1
  ReorgBuffer = 1
  MaxAnchorAge = 1
  DustFloor = 1
  BurnBps = 2500
  PayBps = 2500
  Activation = 1
  Ops = {"COMMIT", "CLAIM", "RENEW", "RENEW_NAME", "TRANSFER", "TRANSFER_NAME", "RELEASE", "RELEASE_NAME"}
  InputLists <- OneInput
  OutLists <- NoOuts
  Values = {2, 6}
  Prices = {}
  Windows = {}
  Rates = {1}
  MaxHeight = 3
  MaxTime = 3
  MaxTxs = 2
  MaxCarriers = 1
INVARIANTS LeaseInv StampInv
PROPERTIES MutationStamped Implements
SYMMETRY OwnerSymmetry
CHECK_DEADLOCK FALSE
