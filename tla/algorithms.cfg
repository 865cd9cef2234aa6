SPECIFICATION AlgSpec
CONSTANTS
  NoOne = NoOne
  Names = {1, 2, 3}
  Owners = {1}
  Quantum = 4
  Billing = 2
  MaxLease = 9
  CommitExpiry = 1
  ReserveWindow = 2
  DirectWindow = 1
  ReorgBuffer = 1
  MaxAnchorAge = 1
  DustFloor = 1
  BurnBps = 2500
  PayBps = 2500
  Activation = 1
  Ops = {}
  InputLists = {}
  OutLists = {}
  Values = {0, 1, 2, 3, 4, 5, 6, 7, 8}
  Prices = {}
  Windows = {}
  Rates = {0, 1, 3}
  MaxHeight = 1
  MaxTime = 1
  MaxTxs = 1
  MaxCarriers = 1
  Leases = {2, 3, 5, 8, 11}
  OffCurve <- MCOffCurve
  MaxIn = 3
  MaxOut = 2
  PushData = 3
  Unsigned = NoOne
  HashLen = 2
  AddrLen = 2
  PriceLen = 1
  WindowLen = 1
  AnchorLen = 1
  MaxName = 5
  MaxBody = 5
  Letters = {10}
  Hyphen = 20
  Comma = 30
  OneByte = 3
  TwoBytes = 5
  MaxPayload = 6
  TimeSpan = 3
  FeeWindow = 3
  MinSample = 2
  Subsidy = 2
  RefSize = 3
  RateFloor = 1
  RateCap = 8
  Radix = 4
  Digits = 5
  Spacing = 12
  Slowest = 18
  Fastest = 9
  Damping = 2
  ChainId = 1
  MaxDepth = 2
  Lease = 2
  Never = Never
  Lapsed = Lapsed
  Unheld = Unheld
  Uncovered = Uncovered
  Scripts <- MCScripts
  TxIns = 3
  Codes <- MCCodes
  Datas <- MCDatas
  InSamples <- MCInSamples
  OutSamples <- MCOutSamples
  Bodies <- MCBodies
  Spks <- MCSpks
  Histories <- MCHistories
  Heights <- MCHeights
  Compacts <- MCCompacts
  Limits <- MCLimits
  Times <- MCTimes
  IdLists <- MCIdLists
  Parents <- MCParents
  Proofs <- MCProofs
  Firsts <- MCFirsts
  Rests <- MCRests
  Titles = {"n"}
INVARIANTS Attributed LazyEnough OneForm RateOfChain TargetsKept RootBinds OneProof HistoryOfChain
PROPERTIES OneFill Ends
CHECK_DEADLOCK FALSE
