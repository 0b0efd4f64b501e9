SPECIFICATION Spec
CONSTANTS
  n1 = n1
  n2 = n2
  Nodes = {n1, n2}
  Founders = {n1, n2}
  Kinds = {"TFuel"}
  ScannedKinds = {"TFuel"}
  Targets = {"here"}
  Here = "here"
  Nil = Nil
  MaxRange = 2
  MinGap = 1
  Margin = 1
  MaxHeight = 3
  MaxLocks = 1
  MaxFailures = 1
  MaxCrashes = 0
  MaxLost = 0
  MaxFaults = 1
INVARIANTS
  NothingMissed
CHECK_DEADLOCK FALSE
