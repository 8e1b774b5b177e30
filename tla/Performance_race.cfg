SPECIFICATION Spec
CONSTANTS
  Orders = {o1, o2, o3}
  Handlers = {h1, h2}
  Stars = {1, 2, 5}
  Durations = {0, 3333, 432000}
  MaxClosed = 2
SYMMETRY PerformanceSymmetry
INVARIANTS
  TypeOK
  EveryEventCounts
  AverageNearMean
  ScoreIsCurrent
