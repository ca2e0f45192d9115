SPECIFICATION MemorySpec
CONSTANTS
  MaxRuns = 2
  MaxProcesses = 2
  MaxEvents = 4
  f = f
  Files = {f}
  Views = {"whole", "slice"}
  CallBatches <- MCCallBatches
  Short = {1}
  Heavy = 3
  Capacity = 10
  HighWater = 7
  LowWater = 3
  KeepRecent = 2
  MaxVersion = 2
  MaxShown = 6
  Writers = {w1, w2}
  Dbs = {x1, x2}
  NoWriter = NoWriter
  FactKeys = {k}
  Artifacts = {a}
  Values = {v1, v2}
  Contents = {c1, c2, c3}
  NoBase = NoBase
  MaxChain = 1
  Open = Open
  MaxTime = 1
  MaxCommits = 3
  MaxDepth = 1
  Launches = 2
  MaxAsks <- AsksPerRun
  Policies = {"wait", "continue"}
  Ways <- LaunchWays
  NoFile = NoFile
  Daemons = {d1, d2}
  Launchers = {l1, l2}
  Backlog = 1
  NoOne = NoOne
INVARIANTS
  MemoryTypeOK
  ReplayIsFaithful
  EditGuardAtHome
  OlderCopyIsMarked
  EveryRevisionReads
  AskAndAnswerAgree
  OkHasNoOpenQuestion
  AtMostOnce
PROPERTIES
  ImplementsFacts
CHECK_DEADLOCK FALSE
CONSTRAINT Followed
SYMMETRY Alike
