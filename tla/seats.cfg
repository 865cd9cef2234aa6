SPECIFICATION FairReachSpec
CONSTANTS
  a = a
  b = b
  c = c
  us = us
  n = n
  o = o
  Machines = {a, b, c, us}
  Names = {n, o}
  Nobody = Nobody
  Slots = 3
  PerHost = 2
  MeshSeats = 2
  ChainSeats = 2
  MeshInbound = 1
  BanScore = 2
  BanCap = 1
  Probes = 2
  MaxDials = 2
  Worlds <- Usual
INVARIANTS OneGossip Shares OnePerGroup LastResort
PROPERTIES BanHolds ConfiguredHeld PassesEnd
CHECK_DEADLOCK FALSE
