SPECIFICATION Spec
CONSTANTS
  Amount <- MCAmount
  Couriers = {c1, c2}
  Earnings = {e1, e2}
  Payouts = {p1, p2, p3}
  Handlers = {h1, h2}
  NoCourier = NoCourier
  NoPayout = NoPayout
  MinPayout = 1
SYMMETRY PayoutSymmetry
INVARIANTS
  TypeOK
  NoStrandedEarning
  SettledRequestReleased
  OneOpenRequest
  RequestAmountIsItsEarnings
PROPERTIES
  PaidEarningStays
CHECK_DEADLOCK FALSE
