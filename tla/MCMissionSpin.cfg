SPECIFICATION MissionSpec
CONSTANTS
  Models = {m1, m2}
  Seeing = {m2}
  Workspaces = {w1, w2}
  None = None
  TheSession = TheSession
  MaxRuns = 3
  MaxOpens = 3
  Batches <- MCBatches
  Bulk = TRUE
  Nudges = 1
  MaxTurns = 4
  MaxFollowUps = 1
  Paths = {p1, p2}
  Contents = {nothing, bytes}
  nothing = nothing
  bytes = bytes
  Empty = nothing
  Large = {bytes}
  Absent = Absent
  AutoWrites = TRUE
  Destructive = TRUE
  Sections <- MCSections
  MaxOutside = 1
  Stable <- MCStable
  Live <- MCLive
  Primer <- MCPrimer
  Generated <- MCGenerated
  Chunk = 2
  MaxNew = 3
  MaxDraft = 2
  MaxDeferred = 2
  Words <- MCWords
  Bytes <- MCBytes
  GuardStates <- MCGuardStates
  Opened = "opened"
  Whole = "whole"
  Refuses = "error"
  Fed <- MCFed
  MaxCalls = 1
  ThinkCap = 1
  ToolCap = 3
  TokenBudget = 5
  DraftLength = 2
  Window = 1
  Repeats = 2
  QueueSlots = 1
  Jobs = {job}
  Shell = Shell
  PipeRoom = 2
  OutputCap = 2
  MaxWritten = 3
  Home = "root"
  Made = "made"
  Folders = {"root", "sub", "made"}
  Elsewhere = "outside"
  Files = {"file", "other"}
  Beyond = "beyond"
  Entries = {"d", "f"}
  Tree0 <- MCTree
  Moves <- MCMoves
  Asked <- MCAsked
  Fresh = Fresh
  Old = Old
  SizeLimit = 2
  MaxMoves = 2
INVARIANTS
  SpinEndsTheRun
CHECK_DEADLOCK FALSE
