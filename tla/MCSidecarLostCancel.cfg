SPECIFICATION Spec
CONSTANTS
  Capacity = 1
  Commands = {c1}
  Queries = {}
  MaxRequests = 2
  MaxAsks = 1
  MaxTurns = 1
  Nothing = Nothing
INVARIANTS
  AckedCancelIsSet
CHECK_DEADLOCK FALSE
