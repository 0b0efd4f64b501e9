SPECIFICATION MCSpec
CONSTANTS
  n1 = n1
  p2 = p2
  p3 = p3
  Validators <- MCValidators
  Stake <- RivalStake
  MaxStake = 6
  Faulty = {p2, p3}
  Epochs = {1, 2, 3}
  Payloads = {"tx", "tx2"}
  RootHeight = 0
  Proposer <- RivalProposer
  PeerBlocks <- RivalBlocks
  PeerVotes <- RivalVotes
  PeerCert <- RivalCert
  NoVote = NoVote
  NoBlock = NoBlock
  MaxEpoch = 1
  MaxBlocks = 2
  MaxCrashes = 1
INVARIANTS
  MCIndInv
  OneVotePerHeight
  ParentIsProcessed
PROPERTIES
  StatusOnlyAdvances
  MCImplementsChainVoting
  MCEpochCatchesUp
CHECK_DEADLOCK FALSE
