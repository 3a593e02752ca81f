SPECIFICATION FairSpec
CONSTANTS
  v1 = v1
  v2 = v2
  i1 = i1
  i2 = i2
  r1 = r1
  r2 = r2
  s1 = s1
  s2 = s2
  s3 = s3
  NoConn = NoConn
  NoSkill = NoSkill
  Skills = {s1, s2, s3}
  Tokens <- AllTokens
  Text <- Texts
  LogWeight <- Logarithms
  Overlaps <- PartialTokens
  Threshold = 3000
  MaxResults = 2
  Conns = {v1, v2}
  Ids = {i1, i2}
  IdOf <- DistinctIds
  Requests = {r1, r2}
  MessageOf <- Messages
  Frames <- AllFrames
  Catalogs <- TwoCatalogs
  MaxAttempts = 3
  MaxReloads = 1
  Keys <- AllKeys
  Values <- AllValues
  Placeholders <- SamplePlaceholders
  Trimmed <- TrimSpace
  Lowered <- ToLower
  SystemEnvs <- Environments
  Content <- SourceContent
INVARIANTS
  TypeOK
  SkillHonoured
  ErrorsAreEarned
  LoadedSourceComplete
PROPERTIES
  RetrievedAreBest
  ImplementsRequestReply
  StartupEnds
  RequestsAnswered
CHECK_DEADLOCK FALSE
