SPECIFICATION Spec
CONSTANTS
  Orders = {o1}
  Couriers = {c1, c2}
  Handlers = {h1, h2}
  NoCourier = NoCourier
  ManualAssign = TRUE
  OpsStatuses = {"CANCELLED"}
  MatchingTop = 1
  FallbackMax = 2
  MaxClosed = 2
SYMMETRY DispatchSymmetry
INVARIANTS
  TypeOK
  OpenOrderHasNoSettledOffer
  OneWinner
  DeliveredHasEarning
