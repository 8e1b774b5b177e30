SPECIFICATION MCSpec
CONSTANTS
  None = None
  Customers = {"customer"}
  Points = {"here"}
  Km <- QuoteKm
  Unit = 100
  Tariffs <- QuoteTariffs
  DefaultTariff <- QuoteDefault
  MaxRules = 2
  MaxEdits = 1
  MaxAsked = 2
  MaxOrders = 2
  Orders = {v1, v2}
  NoOrder = None
  MaxCalls = 2
  MaxDisturbed = 1
  OpsMap = OpsMap
  MaxPosition = 1
  MaxSockets = 2
  Rows = {v1, v2}
  NoRow = None
  MaxRequests = 2
  MaxElsewhere = 1
  MaxPosts = 2
  Managers = {v1, v2}
  Files = {f1, f2, f3}
  NoLogo = NoLogo
  External = External
  Accounts = {v1, v2, stranger}
  Couriers = {v1, v2}
  NoOne = None
  MaxJobs = 2
  Slots <- SeedSlots
  CourierIds <- SeedCouriers
  Batches <- SeedBatches
  Extras <- SeedExtras
  NoCourier = None
  MaxSeedOrders = 5
  MaxRuns = 2
  MaxUses = 1
SYMMETRY ClientsSymmetry
INVARIANTS
  TypeOK
  OrderIsAsConfirmed
  PriceFollowsFormula
  DraftIsOrderedOnce
  BlockedOverlayWaits
  MapShowsItsOrder
  RefusedOnlyIfStale
  FormIsPostedOnce
  LogoExists
  SessionIsWhole
  SeedIsRepeatable
PROPERTIES
  AcceptIsNotDeclined
CHECK_DEADLOCK FALSE
