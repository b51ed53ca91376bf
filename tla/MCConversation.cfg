SPECIFICATION MCSpec
CONSTANTS
  Owner = Owner
  Karoz = Karoz
  Writers = {w1}
  Turns = {t1}
  Receipts = {r1}
  Workers = {k1, k2}
  Anyone = Anyone
  Window = 1
  Batch = 2
  MaxSeq = 3
  MaxTries = 1
  MaxFaults = 1
  MaxCrashes = 1
  a1 = a1
  a2 = a2
  PageAgents = {a1, a2}
  RunIDs = {run1, run2}
  Serves <- MCServes
  Nobody = Nobody
  Watch = 1
  MaxPosts = 1
  MaxActs = 2
  Triggers = {g1, g2}
  Reconciles = {j1}
  Nothing = Nothing
  Another = Another
  MaxAttempts = 2
  HookFaults = 1
  HookCrashes = 1
SYMMETRY MCSymmetry
INVARIANTS
  NothingFallsBetween
  LogIsTheConversation
  PageFollowsItsAgent
  RestingPageIsCurrent
  HookHasAHolder
CHECK_DEADLOCK FALSE
