SPECIFICATION FairSpec
CONSTANTS
  None = None
  Service = {s1}
  Ops = {"suspend", "resume", "revoke", "rotate", "extend", "traffic", "reset", "settings", "refund", "renew", "sync", "expire", "clean", "stop", "restore"}
  Slot = {worker}
  Worker = worker
  Grace = 0
  MaxTime = 1
  MaxDays = 2
  MaxQuota = 2
  MaxLink = 1
  MaxTrouble = 1
INVARIANTS
  RowTellsTheAccount
PROPERTIES
  LapsedIsClosed
  RenewalIsServed
