SPECIFICATION Spec
CONSTANTS
  Capacity = 1
  Commands = {c1}
  Queries = {}
  MaxRequests = 4
  MaxAsks = 2
  MaxTurns = 2
  Nothing = Nothing
INVARIANTS
  AnswersDecideTheirOwnAsk
CHECK_DEADLOCK FALSE
