SPECIFICATION Spec
CONSTANTS
  p1 = p1
  p2 = p2
  p3 = p3
  t1 = t1
  t2 = t2
  None = None
  Payment <- Two
  Topup <- Second
  Method <- AllProof
  Price <- Quoted
  Tx = {t1, t2}
  Sweeper = None
  Digest = {d1, d2}
  Arrivals = {2}
  Ceiling = 1
  MaxTopup = 2
CHECK_DEADLOCK FALSE
INVARIANTS
  ReceiptUsedOnce
  TopupCreditedExactly
PROPERTIES
  PaidOrderStaysPaid
