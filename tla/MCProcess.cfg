SPECIFICATION FairSpec
CONSTANTS
  NoProc = NoProc
  Procs = {p1, p2}
  Capacity <- MCCapacity
  FailingSaves = {"journal", "ledger", "authority"}
INVARIANTS
  RecordsAgree
  AcknowledgedEndsWereDelivered
PROPERTIES
  LifeSpec
  DiskIsNeverUndone
  ReservationsAreReleased
