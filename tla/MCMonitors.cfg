SPECIFICATION MonitorSpec
CONSTANTS
  m1 = m1
  e1 = e1
  main = main
  helper = helper
  NoFire = NoFire
  Mons = {m1}
  RuntimeEvents = {e1}
  Stages = {main, helper}
  Main = main
  MaxTriggers = 2
  RateLimit = 1
  MaxPending = 1
  MaxDeliveries = 2
  MaxUserEdits = 1
  MaxFaults = 1
  MaxCrashes = 1
INVARIANTS
  FiresRunOnce
PROPERTIES
  FiresEnd
CHECK_DEADLOCK FALSE
