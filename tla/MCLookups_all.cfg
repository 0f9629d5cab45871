\* Every call with bounded arguments; octets have two bits.
SPECIFICATION Spec

CONSTANTS
  Base = 4
  Overflow = Overflow
  NoServer = NoServer
  Failed = Failed
  NoMask = NoMask
  UserConfig = UserConfig
  NoCall = NoCall
  Sizes = {1, 2, 4, 8, 16, 64, 256}
  MaxDepth = 2
  Lists <- MCLists
  Requests <- MCRequests

INVARIANTS
  GatewayIsAHost
  IncrementIsSuccessor
  ChosenIsBest
  MaskAsksForService
  SavedIsFound
