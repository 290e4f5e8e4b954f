CONSTANTS
  Rows = {1, 2, 3, 4}
  Traces = {3}
  Limit = 2
  Millisecond = 2
  LastTick = 4
SPECIFICATION ListingSpec
INVARIANTS
  NoRowSkipped
CHECK_DEADLOCK FALSE
