SPECIFICATION FairSpec
CONSTANTS
  a1 = a1
  a2 = a2
  k1 = k1
  k2 = k2
  Jobs = {1, 2}
  Agents = {a1}
  DedupKeys = {k1, k2}
  NoKey = NoKey
  AgentOf <- MCAgentOf
  KindOf <- MCKindOf
  DedupOf <- MCDedupOf
  Created <- MCCreated
  MaxAttempts = 2
  Slots = {1, 2}
  NoJob = NoJob
  Deletable = {}
  FailingSaves = {"enqueue", "completion"}
INVARIANTS
  QueuesAreServed
  AcceptedRunsAreDurable
PROPERTIES
  ServedInArrivalOrder
  RunsSettle
