SPECIFICATION Spec
CONSTANTS
  c1 = c1
  c2 = c2
  c3 = c3
  i1 = i1
  i2 = i2
  a1 = a1
  a2 = a2
  NoConn = NoConn
  Conns = {c1, c2, c3}
  Ids = {i1, i2}
  IPs = {a1, a2}
  IdOf <- ReconnectIds
  IPOf <- MovingAddress
  MaxPerIP = 1
  MaxPendingTimeouts = 0
INVARIANTS
  TypeOK
  EntryLimit
  IpCountCovers
  EntriesAreServed
  WatchedWhileRegistered
  OpenIsRegistered
  SessionHistoryLegal
  RegisteredIsConnected
PROPERTY
  ImplementsAdmission
CHECK_DEADLOCK FALSE
