SPECIFICATION Spec
CONSTANTS
  p1 = p1
  p2 = p2
  a = a
  b = b
  c1 = c1
  c2 = c2
  w1 = w1
  w2 = w2
  NoPlan = NoPlan
  Plans = {p1}
  Steps = {a, b}
  Needs <- DependsOn
  Draft = {a}
  Members = {c1}
  Limit = 1
  Deciders = {w1}
  Reporters = {w2}
  MaxVersion = 4
  MaxWork = 1
  MaxTroubles = 1
INVARIANTS
  ChangesAreHeard
  RunningStepsHaveWork
PROPERTIES
  VersionedWritesLoseNothing
CHECK_DEADLOCK FALSE
