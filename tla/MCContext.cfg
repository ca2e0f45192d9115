SPECIFICATION ContextSpec
CONSTANTS
  f = f
  Files = {f}
  Views = {"whole"}
  CallBatches <- MCCallBatches
  Short = {}
  Heavy = 3
  Capacity = 10
  HighWater = 7
  LowWater = 3
  KeepRecent = 2
  MaxVersion = 1
  MaxShown = 6
INVARIANTS
  CollapseLeavesTheNewest
CHECK_DEADLOCK FALSE
