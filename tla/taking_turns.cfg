SPECIFICATION Spec
CONSTANTS
  p1 = p1
  p2 = p2
  p3 = p3
  t1 = t1
  t2 = t2
  None = None
  Payment <- Three
  Topup <- One
  Method <- EveryWay
  Price <- Quoted
  Tx = {t1}
  Sweeper = None
  Digest = {d1, d2}
  Arrivals = {1, 2, 3}
  Ceiling = 1
  MaxTopup = 2
CHECK_DEADLOCK FALSE
INVARIANTS
  RefundWithinCapture
PROPERTIES
  DecisionIsFinal
  SalesAreAtomic
