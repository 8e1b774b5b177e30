-------------------------- MODULE MCOrderDispatch --------------------------
(* Instances of OrderDispatch for TLC.  Couriers and handlers are          *)
(* interchangeable: no property of the safety runs tells them apart.       *)
EXTENDS OrderDispatch, TLC

DispatchSymmetry ==
  Permutations(Orders) \cup Permutations(Couriers) \cup Permutations(Handlers)
=============================================================================
