SPECIFICATION FairSpec
CONSTANTS
  Couriers = {c1}
  DocTypes = {d1, d2}
  Files = {f1, f2, f3, f4}
  Handlers = {h1, h2}
  NoFile = NoFile
  SubmitRouted = TRUE
  MayCrash = TRUE
INVARIANTS
  TypeOK
  DocumentFileExists
  ApprovedApplicantHasDocuments
PROPERTIES
  DecisionsStay
  AllApprovedBecomesActive
CHECK_DEADLOCK FALSE
