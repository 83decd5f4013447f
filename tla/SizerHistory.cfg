SPECIFICATION HistorySpec
CONSTANTS
  Token = {1, 2}
  BatchSize = 11
  MinBatchSize = 2
  Word = 32
  MaxSafe = 14
  MaxStreak = 9
INVARIANTS
  SizeInBounds
  SizeIsEarned
  RangeFollowsCursor
