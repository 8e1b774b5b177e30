-------------------------- MODULE MCCustomerCredit --------------------------
EXTENDS CustomerCredit, TLC

(* Customers are interchangeable unless their roles differ. *)
CreditSymmetry == Permutations(Handlers)
=============================================================================
