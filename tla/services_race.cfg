SPECIFICATION Spec
CONSTANTS
  None = None
  Service = {s1}
  Ops = {"suspend", "resume", "revoke", "refund", "sync", "expire", "clean"}
  Slot = {a, worker}
  Worker = worker
  Grace = 0
  MaxTime = 1
  MaxDays = 1
  MaxQuota = 1
  MaxLink = 0
  MaxTrouble = 1
INVARIANTS
  RevokedHasNoAccount
  CreditedHasNoAccount
  GoneIsRevoked
  OffIsSuspended
