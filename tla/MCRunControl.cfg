SPECIFICATION FairSpec
CONSTANTS
  d1 = d1
  d2 = d2
  s1 = s1
  s2 = s2
  c1 = c1
  c2 = c2
  NoRun = NoRun
  NoCtx = NoCtx
  Direct = {d1, d2}
  Scheduled = {s1}
  Unmarked = {}
  Cancellers = {c1}
  MaxAttempts = 2
INVARIANTS
  CancelExcludesResult
  SlotIsHandedOver
  OneTerminalEvent
  ResultsAreNotRepeated
PROPERTIES
  SlotSpec
  JobsSettle
CHECK_DEADLOCK FALSE
