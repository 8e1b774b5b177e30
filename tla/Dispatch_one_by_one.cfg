SPECIFICATION FairSpec
CONSTANTS
  Orders = {o1}
  Couriers = {c1, c2}
  Handlers = {h1}
  NoCourier = NoCourier
  ManualAssign = FALSE
  OpsStatuses = {"SEARCHING_COURIER", "CANCELLED"}
  MatchingTop = 1
  FallbackMax = 2
  MaxClosed = 1
PROPERTIES
  OpenOrderIsOffered
  CourierStepsForward
