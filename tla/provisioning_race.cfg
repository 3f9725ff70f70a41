SPECIFICATION FairSpec
CONSTANTS
  None = None
  m1 = m1
  m2 = m2
  Service = {"n1"}
  Renewal = {"r1", "r2"}
  Renews <- RenewsFirst
  Node = {m1, m2}
  Bound <- AnyOrSecond
  Dead = {}
  Caller = {a, b}
  Sweeper = worker
  Limit = 3
  MaxTrouble = 1
CHECK_DEADLOCK FALSE
INVARIANTS
  RowsHaveAccounts
  DeliveredTogether
  ToldAgainForCause
PROPERTIES
  PaidIsServed
