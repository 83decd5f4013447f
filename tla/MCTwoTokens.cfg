SPECIFICATION Spec
CONSTANTS
  a = a
  b = b
  NoRow = NoRow
  r1 = r1
  r2 = r2
  Token = {1, 2}
  Branch <- MCBranch
  MaxHeight <- MCMaxHeight
  BlockOn <- MCBlockOn
  Log <- TwoTokenLog
  LogsIn <- TwoTokenLogsIn
  Holder <- MCHolder
  BatchSize = 2
  MinBatchSize = 2
  Word = 64
  ConfigTokens = {1, 2}
  StartBlock = 2
  Confirmations = 1
  ReorgDepth = 0
  Request = {}
  ExecModes = {"simple"}
  ReorgMidTick = FALSE
PROPERTIES
  AncestorIsHighest
  ImplementsLedger
