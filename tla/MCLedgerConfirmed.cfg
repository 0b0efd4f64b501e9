SPECIFICATION LedgerSpec
CONSTANTS
  a1 = a1
  a2 = a2
  Accounts = {a1, a2}
  MaxSeq = 2
  MaxInserted = 3
  MaxRecords = 2
  MaxReap = 1
  MaxBlocks = 2
  MaxExpired = 1
  Idle = Idle
  n1 = n1
  n2 = n2
  v = v
  a = a
  ctr = ctr
  bank = bank
  NoAccount = NoAccount
  NoBlock = NoBlock
INVARIANTS
  UpdatesAreConfirmed
CHECK_DEADLOCK FALSE
