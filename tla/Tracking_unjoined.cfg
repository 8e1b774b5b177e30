SPECIFICATION FairSpec
CONSTANTS
  Orders = {o1}
  NoOrder = NoOrder
  OpsMap = OpsMap
  MaxPosition = 0
  MaxSockets = 2
PROPERTIES
  OpenMapJoins
CHECK_DEADLOCK FALSE
