------------------------------ MODULE MCClients ------------------------------
(* Clients for TLC.  As the programs never meet, they share their model    *)
(* values: two of them are orders, rows, managers or accounts.             *)
EXTENDS Clients, TLC

(* One tariff, and the settings used without a rule: the floor and the     *)
(* multipliers are at work, and some prices are more than 5% apart, some   *)
(* less.                                                                   *)
QuoteTariffs ==
  {[base |-> 0, perKm |-> 10, min |-> 30, night |-> 150, priority |-> 115, share |-> 33]}
QuoteDefault ==
  [base |-> 20, perKm |-> 7, min |-> 0, night |-> 100, priority |-> 100, share |-> 50]
QuoteKm(p, q) == 133

SeedSlots == <<"demo">>
SeedCouriers == <<"courier2">>
SeedBatches == <<[status |-> "SEARCHING_COURIER", assigned |-> FALSE],
                [status |-> "ACCEPTED", assigned |-> TRUE]>>
SeedExtras == <<[customer |-> "demo", amount |-> -1]>>

(* Roles with the rights of another one are left out on the largest pages: *)
(* ADMIN and OPERATIONS_MANAGER are as OPERATIONS_SPECIALIST for orders and *)
(* registrations, ADMIN as ACCOUNTING_SPECIALIST for payout requests.      *)
OrderPages == {"orders", "ordersBulk", "order", "operations", "commandMap"}

(* Of two payout requests one is settled, or both are approved.            *)
FewPayouts ==
  \/ \E r \in Rows : server[r] = "PAID"
  \/ \A r \in Rows : server[r] = "APPROVED"

MCInit ==
  /\ Init
  /\ program = "OrderQuote" => rules # <<>>   \* the default is used where it is deleted
  /\ program = "Screens" => /\ page \in OrderPages => role \in {OS, ACC}
                            /\ page = "payouts" => role \in {ACC, OM} /\ FewPayouts
                            /\ page = "registrations" => role = OS
  /\ program = "Branding" => logo = (CHOOSE f \in Files : TRUE)   \* the names are alike

MCSpec == MCInit /\ [][Next]_vars

ClientsSymmetry == Permutations(Orders)

==============================================================================
