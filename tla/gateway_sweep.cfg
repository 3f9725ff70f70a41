SPECIFICATION SweepSpec
CONSTANTS
  p1 = p1
  p2 = p2
  p3 = p3
  t1 = t1
  t2 = t2
  None = None
  Payment <- One
  Topup <- One
  Method <- AllGateway
  Price <- Quoted
  Tx = {t1, t2}
  Sweeper = t1
  Digest = {}
  Arrivals = {1, 2, 3}
  Ceiling = 1
  MaxTopup = 2
CHECK_DEADLOCK FALSE
PROPERTIES
  GatewayAnswerIsActedOn
