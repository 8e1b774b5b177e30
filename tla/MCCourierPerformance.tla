------------------------ MODULE MCCourierPerformance ------------------------
EXTENDS CourierPerformance, TLC

PerformanceSymmetry == Permutations(Orders) \cup Permutations(Handlers)
=============================================================================
