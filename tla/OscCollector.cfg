SPECIFICATION Spec
CONSTANTS
  d1 = d1
  d2 = d2
  d3 = d3
  d4 = d4
  Dev = {d1, d2, d3, d4}
  Thread = {t1, t2, t3}
  Conn <- MCConn
  Raw = {d4}
  Configs <- MCConfigs
INVARIANT StatusHasThread
PROPERTY Noncontradictory
