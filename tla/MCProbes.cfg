SPECIFICATION ProbeSpec
CONSTANTS
  MaxAsks = 2
  AgentAsks = {2}
  Mutations = {u1}
  Checkers = {g1, g2}
  NoMutation = NoMutation
  MaxErrors = 2
  MaxEdits = 1
  MaxFailures = 1
  u1 = u1
  u2 = u2
  g1 = g1
  g2 = g2
INVARIANTS
  ApprovalsHold
PROPERTIES
  ActiveProbesAreChecked
CHECK_DEADLOCK FALSE
