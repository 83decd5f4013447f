SPECIFICATION FairSpec
CONSTANTS
  Interval = 1
  MaxBackoff = 2
  Loads = 2
  Count = 2
  Reads = 0
  Settings <- MCSettings
INVARIANTS
  TypeOK
  OneBlockAtATime
  NoSendAfterClose
  AnswerComplete
  ErrorIsEarned
  SleepBounded
  PanicNeedsOne
PROPERTIES
  LoadsEnd
CHECK_DEADLOCK FALSE
