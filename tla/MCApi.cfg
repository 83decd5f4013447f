SPECIFICATION FairSpec
CONSTANTS
  Token = {t1}
  Request = {r1, r2}
  NoRow = NoRow
  Field = {name}
  PoolSize = 1
  MaxLate = 1
INVARIANTS
  TypeOK
  AnswersStayTrue
  CursorNeedsToken
  MetadataComplete
  ConnectionsAccounted
PROPERTIES
  RequestsEnd
  ShutdownEnds
