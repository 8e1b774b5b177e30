SPECIFICATION Spec
CONSTANTS
  Amount <- MCAmount
  Couriers = {c1}
  Earnings = {e1}
  Payouts = {p1}
  Handlers = {h1}
  NoCourier = NoCourier
  NoPayout = NoPayout
  MinPayout = 1
PROPERTIES
  OnlyDueIsRequested
CHECK_DEADLOCK FALSE
