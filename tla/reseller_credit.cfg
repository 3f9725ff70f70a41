SPECIFICATION Spec
CONSTANTS
  None = None
  Slot = {a, b}
  Topup = {p1}
  Ops = {"sell", "sellApi", "approve", "reject", "bar", "take", "trial"}
  Cost = 1
  Amount = 1
  TrialLimit = 1
  MaxGiven = 1
  MaxSold = 2
  MaxTrouble = 1
SYMMETRY Requests
INVARIANTS
  BalanceIsLedger
  SalesAreFunded
  CreditedOnce
  AccountsAreSold
