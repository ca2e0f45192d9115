SPECIFICATION Spec
CONSTANTS
  Models = {m1, m2}
  Seeing = {m2}
  Workspaces = {w1, w2}
  None = None
  TheSession = TheSession
  MaxRuns = 2
  MaxOpens = 3
INVARIANTS
  RecallIsLive
CHECK_DEADLOCK FALSE
