SPECIFICATION Spec
CONSTANTS
  Interval = 2
  MaxBackoff = 2
  Loads = 2
  Count = 2
  Reads = 2
  Settings <- SharedSettings
INVARIANTS
  BacklogBounded
PROPERTIES
  SlotsApart
CHECK_DEADLOCK FALSE
