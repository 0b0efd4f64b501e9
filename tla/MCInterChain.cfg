SPECIFICATION Spec
CONSTANTS
  n1 = n1
  n2 = n2
  Nodes = {n1, n2}
  Founders = {}
  Kinds = {"TFuel"}
  ScannedKinds = {"TFuel"}
  Targets = {"here", "other"}
  Here = "here"
  Nil = Nil
  MaxRange = 2
  MinGap = 1
  Margin = 1
  MaxHeight = 3
  MaxLocks = 2
  MaxFailures = 1
  MaxCrashes = 1
  MaxLost = 0
  MaxFaults = 1
SYMMETRY Symmetry
INVARIANTS
  IndInv
  MintedAsLocked
CHECK_DEADLOCK FALSE
