SPECIFICATION Spec
CONSTANTS
  r1 = r1
  r2 = r2
  r3 = r3
  c1 = c1
  NoRun = NoRun
  Runs = {r1, r2, r3}
  Clients = {c1}
  MaxStarts = 2
  MaxAllStarts = 3
  MaxEvents = 3
  Limit = 2
  ByteLimit = 2
  TerminalLimit = 2
  Buffer = 1
SYMMETRY RunSymmetry
INVARIANTS
  ChannelsTellTheEnd
PROPERTIES
  NothingIsLostSilently
CHECK_DEADLOCK FALSE
