SPECIFICATION FairSpec
CONSTANTS
  None = None
  User = {1, 2}
  Request <- Racing
  MaxTries <- Redelivered
  Opening <- Holdings
  Tx = {t1, t2}
CHECK_DEADLOCK FALSE
INVARIANTS
  TransfersConserve
  PaidOnce
  TransferredWalletsAddUp
PROPERTIES
  RequestsEnd
