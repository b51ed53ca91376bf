SPECIFICATION Spec
CONSTANTS
  h1 = h1
  n1 = n1
  n2 = n2
  NoMsg = NoMsg
  Visitor = Visitor
  Requests = {h1}
  Answers = {n1, n2}
  MaxAttempts = 2
  MaxCrashes = 1
  MaxVisits = 1
INVARIANTS
  AnsweredOnceByItsRuns
  NobodyForgets
PROPERTIES
  SucceededMeansSettled
CHECK_DEADLOCK FALSE
