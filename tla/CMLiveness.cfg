SPECIFICATION FairSpec
CONSTANTS
  c1 = c1
  c2 = c2
  c3 = c3
  i1 = i1
  i2 = i2
  a1 = a1
  a2 = a2
  NoConn = NoConn
  Conns = {c1, c2}
  Ids = {i1}
  IPs = {a1}
  IdOf <- SharedId
  IPOf <- OneAddress
  MaxPerIP = 2
  MaxPendingTimeouts = 1
PROPERTIES
  ClosedIsCleaned
  PingIsResolved
CHECK_DEADLOCK FALSE
