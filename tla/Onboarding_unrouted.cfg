SPECIFICATION SubmittingSpec
CONSTANTS
  Couriers = {c1}
  DocTypes = {d1, d2}
  Files = {f1, f2, f3}
  Handlers = {h1}
  NoFile = NoFile
  SubmitRouted = FALSE
  MayCrash = FALSE
PROPERTIES
  CompleteIsReviewed
CHECK_DEADLOCK FALSE
