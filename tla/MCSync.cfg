SPECIFICATION MCSpec
CONSTANTS
  g = g
  m1 = m1
  m2 = m2
  f1 = f1
  NoBlock = NoBlock
  Peers = {"p1", "p2"}
  Blocks <- MCBlocks
  Genesis = g
  InitChain <- MCInitChain
  ParentOf <- MCParentOf
  PeerBlocks <- MCPeerBlocks
  PeerLfb <- MCPeerLfb
  Setups <- MCSetups
  FastsyncQuota = 2
  GossipQuota = 1
  MaxBlocksPerRequest = 2
  MaxInventorySize = 4
  CacheLimit = 1
  QueueSize = 1
  MaxInFlight = 0
  MaxFaults = 1
INVARIANTS
  MCTypeOK
  MCFinalizedIsAccepted
  SharesAreStakes
PROPERTIES
  OthersAreTried
  MCSyncCompletes
CHECK_DEADLOCK FALSE
