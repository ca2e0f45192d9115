SPECIFICATION Spec
CONSTANTS
  MaxRuns = 1
  MaxProcesses = 3
  MaxEvents = 4
INVARIANTS
  NoResumeWithEditInFlight
CHECK_DEADLOCK FALSE
