SPECIFICATION FairSpec
CONSTANTS
  Holder = {h1, h2, h3}
  Amounts <- MCAmounts
  MaxHeight = 3
  BlockLog <- MCBlockLog
  Party = {"a", "b"}
  AnyParty = AnyParty
  Limits <- MCLimits
  DefaultLimit = 1
  MaxLimit = 2
  MaxOffset = 3
INVARIANTS
  TypeOK
  NothingSkipped
  OnlyTiesSkipped
PROPERTIES
  ReadEnds
