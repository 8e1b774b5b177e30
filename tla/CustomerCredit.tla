--------------------------- MODULE CustomerCredit ---------------------------
(***************************************************************************)
(* Customer accounts: src/src/customers, src/src/finance and the debit an  *)
(* order writes (OrdersService.create).                                    *)
(*                                                                         *)
(* A positive balance is what the customer owes, a negative one is paid in *)
(* advance.  Orders and manual debits look at the balance and the credit   *)
(* settings first and increment the balance later; PostgreSQL at READ      *)
(* COMMITTED lets other requests commit in between, so a request in        *)
(* progress is a handler that remembers what it read.                      *)
(*                                                                         *)
(* The rows of customer_transactions are never changed: of them only the   *)
(* sums by type are kept.                                                  *)
(***************************************************************************)
EXTENDS Integers

CONSTANTS
  Customers,        \* users with a customer role
  Handlers,         \* requests the server works on at the same time
  Amounts,          \* prices, debits and collections, all positive
  Limits,           \* credit limits the administrator may set, all positive
  MaxTurnover       \* bound: debits and credits of an account before a new one

ASSUME CreditAssumption ==
  /\ Amounts \subseteq Nat \ {0}
  /\ Limits \subseteq Nat \ {0}
  /\ MaxTurnover \in Nat

ErpCustomerType == {"INDIVIDUAL", "CORPORATE"}
TransactionType == {"DEBIT", "CREDIT"}

VARIABLES
  registered,      \* customers with a card and an account
  type,            \* type[c]: customer.type
  creditEnabled,   \* creditEnabled[c]
  creditLimit,     \* creditLimit[c], 0 for null
  balance,         \* balance[c]: customer_account.balance
  debits,          \* debits[c]: sum of its DEBIT rows
  credits,         \* credits[c]: sum of its CREDIT rows
  ordered,         \* ordered[c]: sum of the prices of its orders
  handler,         \* handler[h]: the request in progress and what it has read
  corporateUsers,  \* customers whose role is CORPORATE_CUSTOMER; roles never change
  orderly          \* are the requests on one account served one by one?
                   \* chosen at the start, never changed

vars == <<registered, type, creditEnabled, creditLimit, balance, debits,
          credits, ordered, handler, corporateUsers, orderly>>
fixedVars   == <<corporateUsers, orderly>>
settingVars == <<registered, type, creditEnabled, creditLimit>>
ledgerVars  == <<balance, debits, credits, ordered>>

Idle == [at |-> "idle"]

Requests ==
  [at : {"idle"}]
    \cup [at : {"order.allowed"}, customer : Customers, amount : Nat, seen : Int]
    \cup [at : {"txn.read", "txn.allowed"}, customer : Customers, amount : Nat,
          seen : Int, kind : TransactionType]
    \cup [at : {"credit.read"}, customer : Customers, enabled : BOOLEAN, limit : Nat]

TypeOK ==
  /\ registered \in SUBSET Customers
  /\ type \in [Customers -> ErpCustomerType]
  /\ creditEnabled \in [Customers -> BOOLEAN]
  /\ creditLimit \in [Customers -> Nat]
  /\ balance \in [Customers -> Int]
  /\ debits \in [Customers -> Nat]
  /\ credits \in [Customers -> Nat]
  /\ ordered \in [Customers -> Nat]
  /\ handler \in [Handlers -> Requests]
  /\ corporateUsers \in SUBSET Customers
  /\ orderly \in BOOLEAN

(* Mutation: the role itself is stored. *)
TypeFromRoleName(c) ==
  IF c \in corporateUsers THEN "CORPORATE_CUSTOMER" ELSE "INDIVIDUAL_CUSTOMER"

TypeFromRole(c) == IF c \in corporateUsers THEN "CORPORATE" ELSE "INDIVIDUAL"

Init ==
  /\ corporateUsers \in SUBSET Customers
  /\ registered = {}
  /\ type = [c \in Customers |-> TypeFromRole(c)]
  /\ creditEnabled = [c \in Customers |-> FALSE]
  /\ creditLimit = [c \in Customers |-> 0]
  /\ balance = [c \in Customers |-> 0]
  /\ debits = [c \in Customers |-> 0]
  /\ credits = [c \in Customers |-> 0]
  /\ ordered = [c \in Customers |-> 0]
  /\ handler = [h \in Handlers |-> Idle]
  /\ orderly \in BOOLEAN

Goto(h, request) == handler' = [handler EXCEPT ![h] = request]

Busy(c) == \E g \in Handlers : handler[g].at # "idle" /\ handler[g].customer = c
MayServe(c) == c \in registered /\ (orderly => ~Busy(c))
MayPost(c) == debits[c] + credits[c] < MaxTurnover

-----------------------------------------------------------------------------
(* Registration creates the user, the card and the account in one          *)
(* transaction; ensureCustomerForUser in POST /orders then finds them.     *)
Register(c) ==
  /\ c \notin registered
  /\ registered' = registered \cup {c}
  /\ UNCHANGED <<type, creditEnabled, creditLimit, ledgerVars, handler, fixedVars>>

(* Mutation: the credit settings of an individual stay. *)
UpdateTypeKeepsCredit(c, t) ==
  /\ MayServe(c)
  /\ type' = [type EXCEPT ![c] = t]
  /\ UNCHANGED <<registered, creditEnabled, creditLimit, ledgerVars, handler, fixedVars>>

(* PATCH /customers/:id of a type; becoming individual ends the credit. *)
UpdateType(c, t) ==
  /\ MayServe(c)
  /\ type' = [type EXCEPT ![c] = t]
  /\ IF t = "INDIVIDUAL"
       THEN /\ creditEnabled' = [creditEnabled EXCEPT ![c] = FALSE]
            /\ creditLimit' = [creditLimit EXCEPT ![c] = 0]
       ELSE UNCHANGED <<creditEnabled, creditLimit>>
  /\ UNCHANGED <<registered, ledgerVars, handler, fixedVars>>

(* PATCH /customers/:id/credit-settings: the type is read first, the       *)
(* update is by id.                                                        *)
CreditRead(h, c, enabled, limit) ==
  /\ handler[h] = Idle
  /\ MayServe(c)
  /\ type[c] = "CORPORATE"
  /\ Goto(h, [at |-> "credit.read", customer |-> c, enabled |-> enabled, limit |-> limit])
  /\ UNCHANGED <<settingVars, ledgerVars, fixedVars>>

CreditCommit(h) ==
  /\ handler[h].at = "credit.read"
  /\ LET c == handler[h].customer
     IN  /\ creditEnabled' = [creditEnabled EXCEPT ![c] = handler[h].enabled]
         /\ creditLimit' = [creditLimit EXCEPT
                              ![c] = IF handler[h].enabled THEN handler[h].limit ELSE 0]
  /\ Goto(h, Idle)
  /\ UNCHANGED <<registered, type, ledgerVars, fixedVars>>

-----------------------------------------------------------------------------
(* The rule of assertCustomerMayOpenOrderDebt *)

MayUseCreditLine(c) ==
  c \in corporateUsers /\ type[c] = "CORPORATE" /\ creditEnabled[c]

MayOpenOrderDebt(c, projected) ==
  IF MayUseCreditLine(c)
    THEN creditLimit[c] > 0 /\ projected <= creditLimit[c]
    ELSE projected <= 0

(* Mutation: the new balance is computed from the one read before. *)
BalanceAfterSeen(h, delta) ==
  [balance EXCEPT ![handler[h].customer] = handler[h].seen + delta]

(* balance: { increment: delta } *)
BalanceAfter(h, delta) ==
  [balance EXCEPT ![handler[h].customer] = @ + delta]

(* POST /orders.  Card, account and rule are read inside the transaction   *)
(* that writes the order and its debit, without a lock.  (Card and account *)
(* are two statements, taken as one reading.)                              *)

(* Mutation: the rule is applied to the balance before the order. *)
OrderReadBeforeDebt(h, c, price) ==
  /\ handler[h] = Idle
  /\ MayServe(c)
  /\ MayPost(c)
  /\ MayOpenOrderDebt(c, balance[c])
  /\ Goto(h, [at |-> "order.allowed", customer |-> c, amount |-> price, seen |-> balance[c]])
  /\ UNCHANGED <<settingVars, ledgerVars, fixedVars>>

OrderRead(h, c, price) ==
  /\ handler[h] = Idle
  /\ MayServe(c)
  /\ MayPost(c)
  /\ MayOpenOrderDebt(c, balance[c] + price)
  /\ Goto(h, [at |-> "order.allowed", customer |-> c, amount |-> price, seen |-> balance[c]])
  /\ UNCHANGED <<settingVars, ledgerVars, fixedVars>>

OrderCommit(h) ==
  /\ handler[h].at = "order.allowed"
  /\ LET c == handler[h].customer
     IN  /\ ordered' = [ordered EXCEPT ![c] = @ + handler[h].amount]
         /\ debits' = [debits EXCEPT ![c] = @ + handler[h].amount]
  /\ balance' = BalanceAfter(h, handler[h].amount)
  /\ Goto(h, Idle)
  /\ UNCHANGED <<settingVars, credits, fixedVars>>

(* POST /finance/.../transactions: the balance is read outside the         *)
(* transaction, the settings inside, and only a debit on a credit line is  *)
(* limited.                                                                *)

TxnRead(h, c, kind, amount) ==
  /\ handler[h] = Idle
  /\ MayServe(c)
  /\ MayPost(c)
  /\ Goto(h, [at |-> "txn.read", customer |-> c, amount |-> amount,
              seen |-> balance[c], kind |-> kind])
  /\ UNCHANGED <<settingVars, ledgerVars, fixedVars>>

(* Mutation: manual debits are not limited. *)
ExceedsLimitNever(h) == FALSE

ExceedsLimit(h) ==
  LET c == handler[h].customer
  IN  /\ handler[h].kind = "DEBIT"
      /\ type[c] = "CORPORATE"
      /\ creditEnabled[c]
      /\ creditLimit[c] > 0
      /\ handler[h].seen + handler[h].amount > creditLimit[c]

TxnCheck(h) ==
  /\ handler[h].at = "txn.read"
  /\ Goto(h, IF ExceedsLimit(h) THEN Idle
             ELSE [at |-> "txn.allowed", customer |-> handler[h].customer,
                   amount |-> handler[h].amount, seen |-> handler[h].seen,
                   kind |-> handler[h].kind])
  /\ UNCHANGED <<settingVars, ledgerVars, fixedVars>>

TxnCommit(h) ==
  /\ handler[h].at = "txn.allowed"
  /\ LET c == handler[h].customer
         n == handler[h].amount
     IN  \/ /\ handler[h].kind = "DEBIT"
            /\ debits' = [debits EXCEPT ![c] = @ + n]
            /\ balance' = BalanceAfter(h, n)
            /\ UNCHANGED credits
         \/ /\ handler[h].kind = "CREDIT"
            /\ credits' = [credits EXCEPT ![c] = @ + n]
            /\ balance' = BalanceAfter(h, -n)
            /\ UNCHANGED debits
  /\ Goto(h, Idle)
  /\ UNCHANGED <<settingVars, ordered, fixedVars>>

(* The process stops or the transaction is aborted between two steps. *)
Abort(h) ==
  /\ handler[h] # Idle
  /\ Goto(h, Idle)
  /\ UNCHANGED <<settingVars, ledgerVars, fixedVars>>

Advance(h) ==
  \/ CreditCommit(h)
  \/ OrderCommit(h)
  \/ TxnCheck(h)
  \/ TxnCommit(h)
  \/ Abort(h)

Next ==
  \/ \E c \in Customers : Register(c)
  \/ \E c \in Customers, t \in ErpCustomerType : UpdateType(c, t)
  \/ \E h \in Handlers : Advance(h)
  \/ \E h \in Handlers, c \in Customers :
       \/ \E enabled \in BOOLEAN, limit \in Limits : CreditRead(h, c, enabled, limit)
       \/ \E price \in Amounts : OrderRead(h, c, price)
       \/ \E kind \in TransactionType, n \in Amounts : TxnRead(h, c, kind, n)

Spec == Init /\ [][Next]_vars

-----------------------------------------------------------------------------
(* Properties *)

(* What the rule lets a customer owe. *)
Allowance(c) == IF MayUseCreditLine(c) THEN creditLimit[c] ELSE 0

(* The stored balance is the sum of the ledger, however orders, debits and *)
(* collections of one account interleave: increment and ledger row commit  *)
(* together and the increment is the database's.                           *)
BalanceIsLedger ==
  \A c \in Customers : balance[c] = debits[c] - credits[c]

(* A credit line always has a limit, so "kredi limiti tanimli degil" is    *)
(* never the answer to a customer whose credit the administrator enabled,  *)
(* however changes of the type and of the credit settings interleave.      *)
CreditHasLimit ==
  \A c \in Customers : creditEnabled[c] = (creditLimit[c] > 0)

(* After an order its customer owes no more than the rule above            *)
(* assertCustomerMayOpenOrderDebt allows: nothing without a credit line,   *)
(* the limit with one.  It holds if the requests of an account are served  *)
(* one by one; otherwise two orders both pass on the same balance.         *)
OrderRespectsRule ==
  [][orderly =>
       \A c \in Customers :
         ordered'[c] # ordered[c] => balance'[c] <= Allowance(c)']_vars

(* Accounting's debits respect the limit of a credit line as well, under   *)
(* the same condition.                                                     *)
DebitRespectsLimit ==
  [][orderly =>
       \A c \in Customers :
         debits'[c] # debits[c] /\ MayUseCreditLine(c) => balance'[c] <= creditLimit[c]]_vars

(* Only corporate cards have credit, under the same condition:             *)
(* updateCreditSettings refuses others with "yalnizca kurumsal musteriler  *)
(* icin gecerlidir", but does so before it writes.                         *)
OnlyCorporateHasCredit ==
  orderly => \A c \in Customers : creditEnabled[c] => type[c] = "CORPORATE"

(* So type, permission and limit of a card fit each other.                 *)
CreditSettingsFit == CreditHasLimit /\ OnlyCorporateHasCredit

=============================================================================
