--------------------------- MODULE MCPayoutLedger ---------------------------
EXTENDS PayoutLedger, TLC

(* Distinct amounts, so that a sum tells which of two earnings it covers;  *)
(* earnings are therefore not interchangeable.                             *)
MCAmount ==
  CHOOSE f \in [Earnings -> 1..Cardinality(Earnings)] :
    \A d, e \in Earnings : f[d] = f[e] => d = e

PayoutSymmetry ==
  Permutations(Couriers) \cup Permutations(Payouts) \cup Permutations(Handlers)
=============================================================================
