SPECIFICATION OneInstanceSpec
CONSTANTS
  n1 = n1
  p2 = p2
  p3 = p3
  Validators <- MCValidators
  Stake <- HalfStake
  MaxStake = 4
  Faulty = {p2, p3}
  Epochs = {1, 2, 3}
  Payloads = {"tx"}
  RootHeight = 0
  Proposer <- ChainProposer
  PeerBlocks <- ChainBlocks
  PeerVotes <- ChainVotes
  PeerCert <- ChainCert
  NoVote = NoVote
  NoBlock = NoBlock
  MaxEpoch = 2
  MaxBlocks = 3
  MaxCrashes = 1
INVARIANTS
  FinalizedAreMarked
CHECK_DEADLOCK FALSE
