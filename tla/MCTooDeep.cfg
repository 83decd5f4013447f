SPECIFICATION Spec
CONSTANTS
  a = a
  b = b
  NoRow = NoRow
  r1 = r1
  r2 = r2
  Token = {1}
  Branch <- MCBranch
  MaxHeight <- MCMaxHeight
  BlockOn <- MCBlockOn
  Log <- OneTokenLog
  LogsIn <- OneTokenLogsIn
  Holder <- MCHolder
  BatchSize = 2
  MinBatchSize = 1
  Word = 64
  ConfigTokens = {1}
  StartBlock = 0
  Confirmations = 1
  ReorgDepth = 2
  Request = {}
  ExecModes = {"simple"}
  ReorgMidTick = FALSE
PROPERTIES
  ErrorMeansTooDeep
