SPECIFICATION MCSpec
CONSTANTS
  o = o
  c = c
  nobody = nobody
  StackLimit = 8
  PoolLimit = 3
  WordBytes = 2
  MaxMemory = 6
  Operands = {0, 3}
  MemoryGas = 3
  QuadCoeffDiv = 2
  DataGas = 1
  BaseGas = 4
  GasLimit = 24
INVARIANTS
  MCTypeOK
  NothingIsMade
  StaticCallsDoNotWrite
  OutcomeIsTold
  MCAccessesAreCovered
  MCIntegersHaveOneOwner
  ArithmeticIsExact
  PcIsAtInstruction
CHECK_DEADLOCK FALSE
