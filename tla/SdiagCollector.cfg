SPECIFICATION FairSpec
CONSTANTS
  d1 = d1
  d2 = d2
  Dev = {d1, d2}
  NChan = 3
  Kind <- MCKind
  MaxS = 6
  MaxM = 2
  Nsz = 1
  Settings <- MCSettings
  MaxRuns = 2
  MaxLost = 1
INVARIANTS ValueIsOwn WholeIsComputed
 
CHECK_DEADLOCK FALSE
