SPECIFICATION Spec
CONSTANTS
  None = None
  User = {1, 2}
  Request <- InTurn
  MaxTries <- OneTry
  Opening <- Holdings
  Tx = {t1}
CHECK_DEADLOCK FALSE
INVARIANTS
  IntegrityHolds
PROPERTY KeepsAccount
