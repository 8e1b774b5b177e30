SPECIFICATION Spec
CONSTANTS
  Orders = {o1, o2}
  Couriers = {c1}
  Handlers = {h1, h2}
  NoCourier = NoCourier
  ManualAssign = FALSE
  OpsStatuses = {}
  MatchingTop = 1
  FallbackMax = 2
  MaxClosed = 1
INVARIANTS
  OneActiveOrderPerCourier
