SPECIFICATION Spec
CONSTANTS
  Orders = {o1}
  Couriers = {c1, c2}
  Handlers = {h1, h2}
  NoCourier = NoCourier
  ManualAssign = FALSE
  OpsStatuses = {"CANCELLED"}
  MatchingTop = 1
  FallbackMax = 2
  MaxClosed = 1
SYMMETRY DispatchSymmetry
PROPERTIES
  HonoursContract
