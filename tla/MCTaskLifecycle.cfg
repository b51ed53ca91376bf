SPECIFICATION FairSpec
CONSTANTS
  t1 = t1
  t2 = t2
  r1 = r1
  r2 = r2
  NoRunner = NoRunner
  NoTask = NoTask
  Tasks = {t1}
  Runners = {r1, r2}
  MaxCommits = 1
  MaxFaults = 1
  MaxCrashes = 1
INVARIANTS
  OneRunPerTask
  MergesAreExact
PROPERTIES
  RunsSettle
CHECK_DEADLOCK FALSE
