SPECIFICATION RunnerFairSpec
CONSTANTS
  Jobs = {job}
  Shell = Shell
  PipeRoom = 1
  OutputCap = 1
  MaxWritten = 1
PROPERTIES
  CommandReturns
CHECK_DEADLOCK FALSE
