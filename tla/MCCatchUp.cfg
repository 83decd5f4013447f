SPECIFICATION FairSpec
CONSTANTS
  a = a
  b = b
  NoRow = NoRow
  r1 = r1
  r2 = r2
  Token = {1}
  Branch <- LowBranch
  MaxHeight <- LowMaxHeight
  BlockOn <- LowBlockOn
  Log <- OneTokenLog
  LogsIn <- LowLogsIn
  Holder <- MCHolder
  BatchSize = 2
  MinBatchSize = 1
  Word = 64
  ConfigTokens = {}
  StartBlock = 0
  Confirmations = 1
  ReorgDepth = 2
  Request = {r1}
  ExecModes = {"simple"}
  ReorgMidTick = TRUE
INVARIANTS
  WalkCoversTables
PROPERTIES
  CatchesUp
