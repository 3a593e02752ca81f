SPECIFICATION Spec
CONSTANTS
  c1 = c1
  c2 = c2
  c3 = c3
  i1 = i1
  i2 = i2
  a1 = a1
  a2 = a2
  NoConn = NoConn
  Conns = {c1, c2}
  Ids = {i1, i2}
  IPs = {a1}
  IdOf <- DistinctIds
  IPOf <- OneAddress
  MaxPerIP = 2
  MaxPendingTimeouts = 1
PROPERTY TimeoutSparesActive
CHECK_DEADLOCK FALSE
