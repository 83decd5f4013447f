SPECIFICATION Spec
CONSTANTS
  Holder = {h1, h2, h3}
  Amounts <- MCAmounts
  MaxHeight = 2
  BlockLog <- MCBlockLog
  Party = {"a", "b"}
  AnyParty = AnyParty
  Limits <- MCLimits
  DefaultLimit = 1
  MaxLimit = 2
  MaxOffset = 3
INVARIANTS
  RichestFirst
