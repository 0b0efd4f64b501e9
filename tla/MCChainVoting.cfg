SPECIFICATION AnySpec
CONSTANTS
  v1 = v1
  v2 = v2
  v3 = v3
  v4 = v4
  Validators <- MCValidators
  Stake <- MCStake
  MaxStake = 1
  Faulty = {v4}
  Epochs = {1, 2, 3, 4}
  Payloads = {0}
  RootHeight = 0
  Proposer <- MixedProposers
  MaxBlocks = 2
  NoVote = NoVote

SYMMETRY HonestSymmetry
INVARIANTS
  IndInv
  OneCertificatePerHeight
PROPERTIES
  FinalityRefined
CHECK_DEADLOCK FALSE
