SPECIFICATION Spec
CONSTANTS
  s1 = s1
  s2 = s2
  s3 = s3
  join = join
  rejoin = rejoin
  leave = leave
  join2 = join2
  leave2 = leave2
  stray = stray
  Commands = {join, rejoin, leave, join2, leave2, stray}
  KindOf <- MCKindOf
  AggregateOf <- MCAggregateOf
  SessionOf <- MCSessionOf
  Sessions = {s1, s2, s3}
  SerialSessions = {s1, s3}
INVARIANTS
  TypeOK
  LogIsConsistent
  AnswersMatchLog
  SerialHistoryLegal
  ProjectionAgrees
PROPERTY
  ImplementsObject
CHECK_DEADLOCK FALSE
