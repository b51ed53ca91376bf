SPECIFICATION Spec
CONSTANTS
  Procs = {p1, p2}
  NoProc = NoProc
  MaxConcurrent = 1
  TerminalRetries = 2
  MaxFaults = 2
INVARIANTS
  ProcessesAreAccountedFor
PROPERTIES
  EndsAreRecordedOrReported
CHECK_DEADLOCK FALSE
