SPECIFICATION Spec
CONSTANTS
  c1 = c1
  c2 = c2
  Conns = {c1, c2}
  Threads = {t1}
  Setups <- PingSetups
  Results <- MCResults
  MaxWrites = 1
PROPERTY ClosedConnectionsEnd
CHECK_DEADLOCK FALSE
