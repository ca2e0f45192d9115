SPECIFICATION WiresFairSpec
CONSTANTS
  Values = {v1, v2}
  Empty = Empty
  Size = 2
  Wrap = 4
  PipeSize = 1
  MaxIds = 4
  Threads = {t1, t2}
  Host = t1
  NoCall = NoCall
  Workers = {w1, w2}
  NoRequest = NoRequest
  Launches = 2
  MaxAsks <- AsksPerRun
  Policies = {"wait"}
  Ways <- LaunchWays
  NoFile = NoFile
INVARIANTS
  WiresTypeOK
  SlotsNotShared
  NobodyLeftWaiting
  DrainAnswersAll
  WithheldIsUnwanted
PROPERTIES
  ImplementsQueue
  ClosedIsDrained
  ImplementsCalls
  CallsReturn
  CloseLeavesNoServer
  EveryRunTold
CHECK_DEADLOCK FALSE
