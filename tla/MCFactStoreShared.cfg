SPECIFICATION StoreSpec
CONSTANTS
  Writers = {w1, w2}
  Dbs = {x1}
  NoWriter = NoWriter
  FactKeys = {k}
  Artifacts = {}
  Values = {v1, v2}
  Contents = {}
  NoBase = NoBase
  MaxChain = 1
  Open = Open
  MaxTime = 0
  MaxCommits = 2
  MaxDepth = 1
INVARIANTS
  OneValueHolds
CHECK_DEADLOCK FALSE
SYMMETRY Alike
