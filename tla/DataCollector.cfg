SPECIFICATION FairSpec
CONSTANTS
  d1 = d1
  r1 = r1
  Dev = {d1}
  Reg = {r1}
  Val = {0, 1}
  Zero = 0
  Configs <- MCConfigs
  MaxPosted = 1
  MaxQueue = 4
  MaxFaults = 1
  MaxStarts = 2
INVARIANTS TablesFollowMemory HistoryCovers
PROPERTIES ValuesArrive
