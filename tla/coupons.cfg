SPECIFICATION Spec
CONSTANTS
  o1 = o1  o2 = o2  o3 = o3  ann = ann  bob = bob  r1 = r1
  Order = {o1, o2, o3}
  Customer = {ann, bob}
  Of <- Owners
  Releaser = {r1}
  Editor = editor
  MaxUses = 1
  PerUser = 1
  MaxTrouble = 1
  MaxEdits = 1
  None = None
SYMMETRY OfAnn
CHECK_DEADLOCK FALSE
INVARIANTS
  CountIsRedemptions
  LimitHolds
  PaidOrdersAreCounted
  AbandonedAreGivenBack
