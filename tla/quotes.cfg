SPECIFICATION Spec
CONSTANTS
  None = None
  Package = {1, 2}
  Volume <- Volumes
  Asked = {2, 3, 5}
  Amount = {0, 15, 48}
  Tariff = {15}
  MaxAmount = 48
  Campaign = {1, 2}
  Urgency = 1
  Offer <- Sales
  Code = {"half", "nine"}
  Terms <- Codes
  Rules <- Policies
  Thousand = 10
  Largest = 5
INVARIANTS
  CouponNeverCosts
  FloorAndCeilingHold
  InvoiceIsTotal
  BiggerNeverCheaper
