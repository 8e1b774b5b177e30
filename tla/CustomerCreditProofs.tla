------------------------ MODULE CustomerCreditProofs ------------------------
(***************************************************************************)
(* Theorems about CustomerCredit, for every set of customers, amounts,     *)
(* limits and concurrent requests.                                         *)
(***************************************************************************)
EXTENDS CustomerCredit, TLAPS

(* What a request remembers at each stage.                                 *)
LEMMA HandlerFields ==
  ASSUME TypeOK, NEW h \in Handlers
  PROVE  /\ handler[h] # Idle => handler[h].at # "idle" /\ handler[h].customer \in Customers
         /\ handler[h].at # "idle" => handler[h].customer \in Customers
         /\ handler[h].at = "order.allowed" => handler[h].amount \in Nat /\ handler[h].seen \in Int
         /\ handler[h].at \in {"txn.read", "txn.allowed"} =>
              /\ handler[h].amount \in Nat
              /\ handler[h].seen \in Int
              /\ handler[h].kind \in TransactionType
         /\ handler[h].at = "credit.read" =>
              /\ handler[h].enabled \in BOOLEAN
              /\ handler[h].limit \in Nat
<1>1. handler[h] \in Requests
  BY DEF TypeOK
<1>2. QED
  BY <1>1 DEF Requests, Idle

LEMMA IdleTyped == Idle \in Requests
BY DEF Idle, Requests

LEMMA HandlerWrittenTyped ==
  ASSUME TypeOK, NEW h \in Handlers, NEW r \in Requests, Goto(h, r)
  PROVE  handler' \in [Handlers -> Requests]
BY DEF TypeOK, Goto

(* A step that only moves one request preserves the types.                 *)
LEMMA GotoTyped ==
  ASSUME TypeOK, NEW h \in Handlers, NEW r \in Requests, Goto(h, r),
         UNCHANGED <<settingVars, ledgerVars, fixedVars>>
  PROVE  TypeOK'
BY HandlerWrittenTyped DEF TypeOK, settingVars, ledgerVars, fixedVars

-----------------------------------------------------------------------------
(* Type correctness *)

LEMMA TypeInit == Init => TypeOK
BY DEF Init, TypeOK, TypeFromRole, ErpCustomerType, Idle, Requests

LEMMA TypeStep == TypeOK /\ [Next]_vars => TypeOK'
<1> SUFFICES ASSUME TypeOK, [Next]_vars PROVE TypeOK'
  OBVIOUS
<1> USE CreditAssumption
<1>1. ASSUME NEW c \in Customers, Register(c) PROVE TypeOK'
  BY <1>1 DEF Register, TypeOK, ledgerVars, fixedVars
<1>2. ASSUME NEW c \in Customers, NEW t \in ErpCustomerType, UpdateType(c, t) PROVE TypeOK'
  <2>1. type' \in [Customers -> ErpCustomerType]
    BY <1>2 DEF UpdateType, TypeOK
  <2>2. CASE t = "INDIVIDUAL"
    <3>1. creditLimit' \in [Customers -> Nat]
      BY <1>2, <2>2 DEF UpdateType, TypeOK
    <3>2. creditEnabled' = [creditEnabled EXCEPT ![c] = FALSE]
      BY <1>2, <2>2 DEF UpdateType
    <3>3. creditEnabled' \in [Customers -> BOOLEAN]
      BY <3>2, Zenon DEF TypeOK
    <3>4. QED
      BY <1>2, <2>1, <3>1, <3>3 DEF UpdateType, TypeOK, ledgerVars, fixedVars
  <2>3. CASE t # "INDIVIDUAL"
    BY <1>2, <2>1, <2>3 DEF UpdateType, TypeOK, ledgerVars, fixedVars
  <2>4. QED
    BY <2>2, <2>3
<1>3. ASSUME NEW h \in Handlers, CreditCommit(h) PROVE TypeOK'
  <2>1. /\ handler[h].customer \in Customers
        /\ handler[h].enabled \in BOOLEAN
        /\ handler[h].limit \in Nat
    BY <1>3, HandlerFields DEF CreditCommit
  <2>2. handler' \in [Handlers -> Requests]
    BY <1>3, IdleTyped, HandlerWrittenTyped DEF CreditCommit
  <2>3. creditLimit' \in [Customers -> Nat] /\ creditEnabled' \in [Customers -> BOOLEAN]
    BY <1>3, <2>1 DEF CreditCommit, TypeOK
  <2>4. QED
    BY <1>3, <2>2, <2>3 DEF CreditCommit, TypeOK, ledgerVars, fixedVars
<1>4. ASSUME NEW h \in Handlers, OrderCommit(h) PROVE TypeOK'
  <2>1. handler[h].customer \in Customers /\ handler[h].amount \in Nat
    BY <1>4, HandlerFields DEF OrderCommit
  <2>2. handler' \in [Handlers -> Requests]
    BY <1>4, IdleTyped, HandlerWrittenTyped DEF OrderCommit
  <2>3. balance' \in [Customers -> Int]
    BY <1>4, <2>1 DEF OrderCommit, BalanceAfter, TypeOK
  <2>4. debits' \in [Customers -> Nat] /\ ordered' \in [Customers -> Nat]
    BY <1>4, <2>1 DEF OrderCommit, TypeOK
  <2>5. QED
    BY <1>4, <2>2, <2>3, <2>4 DEF OrderCommit, TypeOK, settingVars, fixedVars
<1>5. ASSUME NEW h \in Handlers, TxnCheck(h) PROVE TypeOK'
  BY <1>5, HandlerFields, IdleTyped, GotoTyped DEF TxnCheck, Requests
<1>6. ASSUME NEW h \in Handlers, TxnCommit(h) PROVE TypeOK'
  <2>1. handler[h].customer \in Customers /\ handler[h].amount \in Nat
    BY <1>6, HandlerFields DEF TxnCommit
  <2>2. handler' \in [Handlers -> Requests]
    BY <1>6, IdleTyped, HandlerWrittenTyped DEF TxnCommit
  <2>3. balance' \in [Customers -> Int]
    BY <1>6, <2>1 DEF TxnCommit, BalanceAfter, TypeOK
  <2>4. debits' \in [Customers -> Nat] /\ credits' \in [Customers -> Nat]
    BY <1>6, <2>1 DEF TxnCommit, TypeOK
  <2>5. QED
    BY <1>6, <2>2, <2>3, <2>4 DEF TxnCommit, TypeOK, settingVars, fixedVars
<1>7. ASSUME NEW h \in Handlers, Abort(h) PROVE TypeOK'
  BY <1>7, IdleTyped, GotoTyped DEF Abort
<1>8. ASSUME NEW h \in Handlers, NEW c \in Customers,
             NEW enabled \in BOOLEAN, NEW limit \in Limits, CreditRead(h, c, enabled, limit)
      PROVE  TypeOK'
  BY <1>8, GotoTyped DEF CreditRead, Requests
<1>9. ASSUME NEW h \in Handlers, NEW c \in Customers, NEW price \in Amounts,
             OrderRead(h, c, price)
      PROVE  TypeOK'
  <2>1. balance[c] \in Int
    BY DEF TypeOK
  <2>2. QED
    BY <1>9, <2>1, GotoTyped DEF OrderRead, Requests
<1>10. ASSUME NEW h \in Handlers, NEW c \in Customers, NEW kind \in TransactionType,
              NEW n \in Amounts, TxnRead(h, c, kind, n)
       PROVE  TypeOK'
  <2>1. balance[c] \in Int
    BY DEF TypeOK
  <2>2. QED
    BY <1>10, <2>1, GotoTyped DEF TxnRead, Requests
<1>11. CASE UNCHANGED vars
  BY <1>11 DEF vars, TypeOK
<1>12. QED
  BY <1>1, <1>2, <1>3, <1>4, <1>5, <1>6, <1>7, <1>8, <1>9, <1>10, <1>11 DEF Next, Advance

(* Every reachable state has the tables and the handlers of their types:   *)
(* no request is applied with a field its earlier step did not read.       *)
THEOREM Typing == Spec => []TypeOK
BY TypeInit, TypeStep, PTL DEF Spec

-----------------------------------------------------------------------------
(* The balance and its ledger *)

LEMMA LedgerStep == TypeOK /\ BalanceIsLedger /\ [Next]_vars => BalanceIsLedger'
<1> SUFFICES ASSUME TypeOK, BalanceIsLedger, [Next]_vars PROVE BalanceIsLedger'
  OBVIOUS
<1>1. ASSUME NEW h \in Handlers, OrderCommit(h) PROVE BalanceIsLedger'
  <2>1. handler[h].customer \in Customers /\ handler[h].amount \in Nat
    BY <1>1, HandlerFields DEF OrderCommit
  <2>2. QED
    BY <1>1, <2>1 DEF OrderCommit, BalanceAfter, BalanceIsLedger, TypeOK
<1>2. ASSUME NEW h \in Handlers, TxnCommit(h) PROVE BalanceIsLedger'
  <2>1. handler[h].customer \in Customers /\ handler[h].amount \in Nat
    BY <1>2, HandlerFields DEF TxnCommit
  <2>2. QED
    BY <1>2, <2>1 DEF TxnCommit, BalanceAfter, BalanceIsLedger, TypeOK
<1>3. CASE UNCHANGED ledgerVars
  BY <1>3 DEF ledgerVars, BalanceIsLedger
<1>4. QED
  BY <1>1, <1>2, <1>3 DEF Next, Advance, Register, UpdateType, CreditCommit, TxnCheck, Abort,
     CreditRead, OrderRead, TxnRead, vars, ledgerVars

(* The stored balance is the sum of the ledger, for any number of          *)
(* concurrent orders, debits and collections.                              *)
THEOREM BalanceIsLedgerAlways == Spec => []BalanceIsLedger
<1>1. Init => BalanceIsLedger
  <2> SUFFICES ASSUME Init, NEW c \in Customers PROVE balance[c] = debits[c] - credits[c]
    BY DEF BalanceIsLedger
  <2>1. balance[c] = 0 /\ debits[c] = 0 /\ credits[c] = 0
    BY DEF Init
  <2>2. QED
    BY <2>1
<1>2. QED
  BY <1>1, Typing, LedgerStep, PTL DEF Spec

-----------------------------------------------------------------------------
(* The limit of a credit line *)

(* A request to enable the credit carries a positive limit.                *)
LimitsAsked ==
  \A h \in Handlers : handler[h].at = "credit.read" => handler[h].limit > 0

CreditInv == CreditHasLimit /\ LimitsAsked

LEMMA CreditInit == Init => CreditInv
<1> SUFFICES ASSUME Init PROVE CreditInv
  OBVIOUS
<1>1. \A c \in Customers : creditEnabled[c] = FALSE /\ (creditLimit[c] > 0) = FALSE
  <2>1. \A c \in Customers : creditEnabled[c] = FALSE /\ creditLimit[c] = 0
    BY DEF Init
  <2>2. (0 > 0) = FALSE
    OBVIOUS
  <2>3. QED
    BY <2>1, <2>2, Zenon
<1>2. CreditHasLimit
  BY <1>1, Zenon DEF CreditHasLimit
<1>3. LimitsAsked
  BY DEF Init, LimitsAsked, Idle
<1>4. QED
  BY <1>2, <1>3 DEF CreditInv

(* Where the settings stay and one request moves on to a record that is    *)
(* not about the credit, the invariant stays.                              *)
LEMMA GotoKeepsCredit ==
  ASSUME TypeOK, CreditInv, NEW h \in Handlers, NEW r \in Requests, Goto(h, r),
         r.at = "credit.read" => r.limit > 0,
         UNCHANGED <<creditEnabled, creditLimit>>
  PROVE  CreditInv'
<1>1. \A g \in Handlers : handler'[g] = IF g = h THEN r ELSE handler[g]
  BY DEF Goto, TypeOK
<1>2. LimitsAsked'
  BY <1>1 DEF CreditInv, LimitsAsked
<1>3. QED
  BY <1>2 DEF CreditInv, CreditHasLimit

LEMMA CreditStep == TypeOK /\ CreditInv /\ [Next]_vars => CreditInv'
<1> SUFFICES ASSUME TypeOK, CreditInv, [Next]_vars PROVE CreditInv'
  OBVIOUS
<1> USE CreditAssumption
<1>i. Idle.at # "credit.read"
  BY DEF Idle
<1>1. ASSUME NEW c \in Customers, Register(c) PROVE CreditInv'
  BY <1>1 DEF Register, CreditInv, CreditHasLimit, LimitsAsked
<1>2. ASSUME NEW c \in Customers, NEW t \in ErpCustomerType, UpdateType(c, t) PROVE CreditInv'
  <2>1. CASE t = "INDIVIDUAL"
    <3>1. \A d \in Customers : /\ creditEnabled'[d] = IF d = c THEN FALSE ELSE creditEnabled[d]
                              /\ creditLimit'[d] = IF d = c THEN 0 ELSE creditLimit[d]
      BY <1>2, <2>1 DEF UpdateType, TypeOK
    <3>2. CreditHasLimit'
      <4> SUFFICES ASSUME NEW d \in Customers
                   PROVE  creditEnabled'[d] = (creditLimit'[d] > 0)
        BY DEF CreditHasLimit
      <4>1. creditEnabled[d] = (creditLimit[d] > 0)
        BY DEF CreditInv, CreditHasLimit
      <4>2. CASE d = c
        <5>1. creditEnabled'[d] = FALSE /\ creditLimit'[d] = 0
          BY <3>1, <4>2
        <5>2. (creditLimit'[d] > 0) = FALSE
          BY <5>1
        <5>3. QED
          BY <5>1, <5>2, Zenon
      <4>3. CASE d # c
        BY <3>1, <4>1, <4>3
      <4>4. QED
        BY <4>2, <4>3
    <3>3. QED
      BY <1>2, <3>2 DEF UpdateType, CreditInv, LimitsAsked
  <2>2. CASE t # "INDIVIDUAL"
    BY <1>2, <2>2 DEF UpdateType, CreditInv, CreditHasLimit, LimitsAsked
  <2>3. QED
    BY <2>1, <2>2
<1>3. ASSUME NEW h \in Handlers, CreditCommit(h) PROVE CreditInv'
  <2> DEFINE c == handler[h].customer
             e == handler[h].enabled
             n == handler[h].limit
  <2>1. c \in Customers /\ e \in BOOLEAN /\ n \in Nat /\ n > 0
    BY <1>3, HandlerFields DEF CreditCommit, CreditInv, LimitsAsked
  <2>2. \A d \in Customers :
          /\ creditEnabled'[d] = IF d = c THEN e ELSE creditEnabled[d]
          /\ creditLimit'[d] = IF d = c THEN (IF e THEN n ELSE 0) ELSE creditLimit[d]
    BY <1>3, <2>1 DEF CreditCommit, TypeOK
  <2>3. CreditHasLimit'
    <3> SUFFICES ASSUME NEW d \in Customers
                 PROVE  creditEnabled'[d] = (creditLimit'[d] > 0)
      BY DEF CreditHasLimit
    <3>1. creditEnabled[d] = (creditLimit[d] > 0)
      BY DEF CreditInv, CreditHasLimit
    <3> HIDE DEF c, e, n
    <3>2. CASE d = c
      BY <2>1, <2>2, <3>2
    <3>3. CASE d # c
      BY <2>2, <3>1, <3>3
    <3>4. QED
      BY <3>2, <3>3
  <2>4. LimitsAsked'
    BY <1>3, <1>i DEF CreditCommit, Goto, CreditInv, LimitsAsked, TypeOK
  <2>5. QED
    BY <2>3, <2>4 DEF CreditInv
<1>4. ASSUME NEW h \in Handlers, OrderCommit(h) \/ TxnCommit(h) \/ Abort(h) PROVE CreditInv'
  <2>1. Goto(h, Idle) /\ UNCHANGED <<creditEnabled, creditLimit>>
    BY <1>4 DEF OrderCommit, TxnCommit, Abort, settingVars
  <2>2. QED
    BY <1>i, <2>1, IdleTyped, GotoKeepsCredit
<1>5. ASSUME NEW h \in Handlers, TxnCheck(h) PROVE CreditInv'
  <2>1. PICK r \in Requests : Goto(h, r) /\ r.at # "credit.read"
    BY <1>5, <1>i, HandlerFields, IdleTyped DEF TxnCheck, Requests
  <2>2. QED
    BY <1>5, <2>1, GotoKeepsCredit DEF TxnCheck, settingVars
<1>6. ASSUME NEW h \in Handlers, NEW c \in Customers,
             NEW enabled \in BOOLEAN, NEW limit \in Limits, CreditRead(h, c, enabled, limit)
      PROVE  CreditInv'
  <2>1. limit \in Nat /\ limit > 0
    OBVIOUS
  <2>2. [at |-> "credit.read", customer |-> c, enabled |-> enabled, limit |-> limit] \in Requests
    BY <2>1 DEF Requests
  <2>3. QED
    BY <1>6, <2>1, <2>2, GotoKeepsCredit DEF CreditRead, settingVars
<1>7. ASSUME NEW h \in Handlers, NEW c \in Customers, NEW price \in Amounts,
             OrderRead(h, c, price)
      PROVE  CreditInv'
  <2>1. [at |-> "order.allowed", customer |-> c, amount |-> price, seen |-> balance[c]] \in Requests
    BY DEF Requests, TypeOK
  <2>2. QED
    BY <1>7, <2>1, GotoKeepsCredit DEF OrderRead, settingVars
<1>8. ASSUME NEW h \in Handlers, NEW c \in Customers, NEW kind \in TransactionType,
             NEW n \in Amounts, TxnRead(h, c, kind, n)
      PROVE  CreditInv'
  <2>1. [at |-> "txn.read", customer |-> c, amount |-> n, seen |-> balance[c],
         kind |-> kind] \in Requests
    BY DEF Requests, TypeOK
  <2>2. QED
    BY <1>8, <2>1, GotoKeepsCredit DEF TxnRead, settingVars
<1>9. CASE UNCHANGED vars
  BY <1>9 DEF vars, CreditInv, CreditHasLimit, LimitsAsked
<1>10. QED
  BY <1>1, <1>2, <1>3, <1>4, <1>5, <1>6, <1>7, <1>8, <1>9 DEF Next, Advance

(* A credit line always has a limit, however the changes of the type and   *)
(* of the credit settings of updateCreditSettings interleave.              *)
THEOREM CreditHasLimitAlways == Spec => []CreditHasLimit
<1>1. CreditInv => CreditHasLimit
  BY DEF CreditInv
<1>2. QED
  BY <1>1, CreditInit, CreditStep, Typing, PTL DEF Spec

-----------------------------------------------------------------------------
(* Requests on one account, served one by one *)

(* Two requests in progress are about two accounts.                        *)
OneEach ==
  \A g, h \in Handlers :
    g # h /\ handler[g].at # "idle" /\ handler[h].at # "idle"
      => handler[g].customer # handler[h].customer

(* What a request has read is still so.                                    *)
Fresh(h) ==
  LET c == handler[h].customer
  IN  /\ handler[h].at \in {"order.allowed", "txn.read", "txn.allowed"} =>
           handler[h].seen = balance[c]
      /\ handler[h].at = "order.allowed" => MayOpenOrderDebt(c, balance[c] + handler[h].amount)
      /\ handler[h].at = "txn.allowed" => ~ExceedsLimit(h)
      /\ handler[h].at = "credit.read" => type[c] = "CORPORATE"

CorporateCredit == \A c \in Customers : creditEnabled[c] => type[c] = "CORPORATE"

OrderlyInv ==
  orderly => /\ OneEach
             /\ \A h \in Handlers : Fresh(h)
             /\ CorporateCredit

LEMMA OrderlyInit == Init => OrderlyInv
<1> SUFFICES ASSUME Init PROVE OrderlyInv
  OBVIOUS
<1>1. \A h \in Handlers : handler[h].at = "idle"
  BY DEF Init, Idle
<1>2. OneEach /\ \A h \in Handlers : Fresh(h)
  BY <1>1 DEF OneEach, Fresh
<1>3. CorporateCredit
  BY DEF Init, CorporateCredit
<1>4. QED
  BY <1>2, <1>3 DEF OrderlyInv

(* The account c is as it was.                                             *)
SameAccount(c) ==
  /\ balance'[c] = balance[c]
  /\ type'[c] = type[c]
  /\ creditEnabled'[c] = creditEnabled[c]
  /\ creditLimit'[c] = creditLimit[c]

(* What a request has read stays so if its account is untouched.           *)
LEMMA FreshStays ==
  ASSUME NEW g \in Handlers, Fresh(g), handler'[g] = handler[g],
         UNCHANGED corporateUsers,
         handler[g].at = "idle" \/ SameAccount(handler[g].customer)
  PROVE  Fresh(g)'
BY DEF Fresh, SameAccount, MayOpenOrderDebt, MayUseCreditLine, ExceedsLimit

(* A request that ends may write its own account: the other requests are   *)
(* about other accounts.                                                   *)
LEMMA EndKeepsOrder ==
  ASSUME TypeOK, OneEach, \A g \in Handlers : Fresh(g),
         NEW h \in Handlers, handler[h].at # "idle", Goto(h, Idle),
         \A d \in Customers : d # handler[h].customer => SameAccount(d),
         UNCHANGED corporateUsers
  PROVE  OneEach' /\ \A g \in Handlers : Fresh(g)'
<1>1. \A g \in Handlers : handler'[g] = IF g = h THEN Idle ELSE handler[g]
  BY DEF Goto, TypeOK
<1>2. OneEach'
  BY <1>1 DEF OneEach, Idle
<1>3. ASSUME NEW g \in Handlers PROVE Fresh(g)'
  <2>1. CASE g = h
    BY <1>1, <2>1 DEF Fresh, Idle
  <2>2. CASE g # h
    <3>1. handler'[g] = handler[g]
      BY <1>1, <2>2
    <3>2. handler[g].at = "idle" \/ SameAccount(handler[g].customer)
      BY <2>2, HandlerFields DEF OneEach
    <3>3. QED
      BY <3>1, <3>2, FreshStays
  <2>3. QED
    BY <2>1, <2>2
<1>4. QED
  BY <1>2, <1>3

(* A request may start where none is in progress on its account.           *)
LEMMA StartKeepsOrder ==
  ASSUME TypeOK, OneEach, \A g \in Handlers : Fresh(g),
         NEW h \in Handlers, NEW r, Goto(h, r), ~Busy(r.customer), Fresh(h)',
         UNCHANGED <<settingVars, balance, corporateUsers>>
  PROVE  OneEach' /\ \A g \in Handlers : Fresh(g)'
<1>1. \A g \in Handlers : handler'[g] = IF g = h THEN r ELSE handler[g]
  BY DEF Goto, TypeOK
<1>2. OneEach'
  BY <1>1 DEF OneEach, Busy
<1>3. ASSUME NEW g \in Handlers PROVE Fresh(g)'
  <2>1. CASE g # h
    <3>1. handler'[g] = handler[g] /\ SameAccount(handler[g].customer)
      BY <1>1, <2>1 DEF SameAccount, settingVars
    <3>2. QED
      BY <3>1, FreshStays
  <2>2. QED
    BY <2>1
<1>4. QED
  BY <1>2, <1>3

LEMMA OrderlyStep == TypeOK /\ OrderlyInv /\ [Next]_vars => OrderlyInv'
<1> SUFFICES ASSUME TypeOK, OrderlyInv, [Next]_vars, orderly'
             PROVE  OneEach' /\ (\A g \in Handlers : Fresh(g)') /\ CorporateCredit'
  BY DEF OrderlyInv
<1>o. orderly' = orderly /\ corporateUsers' = corporateUsers
  BY DEF Next, Advance, Register, UpdateType, CreditCommit, OrderCommit, TxnCheck, TxnCommit,
     Abort, CreditRead, OrderRead, TxnRead, vars, fixedVars
<1>i. OneEach /\ (\A g \in Handlers : Fresh(g)) /\ CorporateCredit
  BY <1>o DEF OrderlyInv
<1>1. ASSUME NEW c \in Customers, Register(c)
      PROVE  OneEach' /\ (\A g \in Handlers : Fresh(g)') /\ CorporateCredit'
  BY <1>1, <1>i, <1>o, FreshStays
     DEF Register, ledgerVars, OneEach, CorporateCredit, SameAccount
<1>2. ASSUME NEW c \in Customers, NEW t \in ErpCustomerType, UpdateType(c, t)
      PROVE  OneEach' /\ (\A g \in Handlers : Fresh(g)') /\ CorporateCredit'
  <2>1. \A d \in Customers : d # c => SameAccount(d)
    BY <1>2 DEF UpdateType, SameAccount, ledgerVars, TypeOK
  <2>2. ASSUME NEW g \in Handlers PROVE Fresh(g)'
    <3>1. handler'[g] = handler[g]
      BY <1>2 DEF UpdateType
    <3>2. handler[g].at = "idle" \/ SameAccount(handler[g].customer)
      BY <1>2, <1>o, <2>1, HandlerFields DEF UpdateType, MayServe, Busy
    <3>3. QED
      BY <1>i, <1>o, <3>1, <3>2, FreshStays
  <2>3. OneEach'
    BY <1>2, <1>i DEF UpdateType, OneEach
  <2>4. CorporateCredit'
    <3> SUFFICES ASSUME NEW d \in Customers, creditEnabled'[d] PROVE type'[d] = "CORPORATE"
      BY DEF CorporateCredit
    <3>1. CASE d # c
      BY <1>i, <2>1, <3>1 DEF CorporateCredit, SameAccount
    <3>2. CASE d = c
      <4>1. t # "INDIVIDUAL"
        BY <1>2, <3>2 DEF UpdateType, TypeOK
      <4>2. type'[d] = t
        BY <1>2, <3>2 DEF UpdateType, TypeOK
      <4>3. QED
        BY <4>1, <4>2 DEF ErpCustomerType
    <3>3. QED
      BY <3>1, <3>2
  <2>5. QED
    BY <2>2, <2>3, <2>4
<1>3. ASSUME NEW h \in Handlers, CreditCommit(h)
      PROVE  OneEach' /\ (\A g \in Handlers : Fresh(g)') /\ CorporateCredit'
  <2>1. \A d \in Customers : d # handler[h].customer => SameAccount(d)
    BY <1>3 DEF CreditCommit, SameAccount, ledgerVars, TypeOK
  <2>2. type[handler[h].customer] = "CORPORATE"
    BY <1>3, <1>i DEF CreditCommit, Fresh
  <2>3. CorporateCredit'
    BY <1>3, <1>i, <2>1, <2>2 DEF CreditCommit, CorporateCredit, SameAccount
  <2>4. handler[h].at # "idle" /\ Goto(h, Idle)
    BY <1>3 DEF CreditCommit
  <2>5. QED
    BY <1>i, <1>o, <2>1, <2>3, <2>4, EndKeepsOrder
<1>4. ASSUME NEW h \in Handlers, OrderCommit(h) \/ TxnCommit(h) \/ Abort(h)
      PROVE  OneEach' /\ (\A g \in Handlers : Fresh(g)') /\ CorporateCredit'
  <2>1. CorporateCredit'
    BY <1>4, <1>i DEF OrderCommit, TxnCommit, Abort, settingVars, CorporateCredit
  <2>2. handler[h].at # "idle" /\ Goto(h, Idle)
    BY <1>4, HandlerFields DEF OrderCommit, TxnCommit, Abort
  <2>3. \A d \in Customers : d # handler[h].customer => SameAccount(d)
    <3>1. CASE OrderCommit(h) \/ TxnCommit(h)
      BY <3>1 DEF OrderCommit, TxnCommit, BalanceAfter, SameAccount, settingVars, TypeOK
    <3>2. CASE Abort(h)
      BY <3>2 DEF Abort, SameAccount, settingVars, ledgerVars
    <3>3. QED
      BY <1>4, <3>1, <3>2
  <2>4. QED
    BY <1>i, <1>o, <2>1, <2>2, <2>3, EndKeepsOrder
<1>5. ASSUME NEW h \in Handlers, TxnCheck(h)
      PROVE  OneEach' /\ (\A g \in Handlers : Fresh(g)') /\ CorporateCredit'
  <2>1. UNCHANGED <<balance, type, creditEnabled, creditLimit>>
    BY <1>5 DEF TxnCheck, settingVars, ledgerVars
  <2>2. CorporateCredit'
    BY <1>i, <2>1 DEF CorporateCredit
  <2>3. CASE ExceedsLimit(h)
    <3>1. handler[h].at # "idle" /\ Goto(h, Idle)
      BY <1>5, <2>3 DEF TxnCheck
    <3>2. QED
      BY <1>i, <1>o, <2>1, <2>2, <3>1, EndKeepsOrder DEF SameAccount
  <2>4. CASE ~ExceedsLimit(h)
    <3> DEFINE r == [at |-> "txn.allowed", customer |-> handler[h].customer,
                     amount |-> handler[h].amount, seen |-> handler[h].seen,
                     kind |-> handler[h].kind]
    <3>1. \A g \in Handlers : handler'[g] = IF g = h THEN r ELSE handler[g]
      BY <1>5, <2>4 DEF TxnCheck, Goto, TypeOK
    <3>2. OneEach'
      BY <1>5, <1>i, <3>1 DEF OneEach, TxnCheck
    <3>3. handler[h].seen = balance[handler[h].customer]
      BY <1>5, <1>i DEF Fresh, TxnCheck
    <3>4. Fresh(h)'
      BY <2>1, <2>4, <3>1, <3>3 DEF Fresh, ExceedsLimit
    <3>5. ASSUME NEW g \in Handlers, g # h PROVE Fresh(g)'
      BY <1>i, <1>o, <2>1, <3>1, <3>5, FreshStays DEF SameAccount
    <3>6. QED
      BY <2>2, <3>2, <3>4, <3>5
  <2>5. QED
    BY <2>3, <2>4
<1>6. ASSUME NEW h \in Handlers, NEW c \in Customers,
             NEW enabled \in BOOLEAN, NEW limit \in Limits, CreditRead(h, c, enabled, limit)
      PROVE  OneEach' /\ (\A g \in Handlers : Fresh(g)') /\ CorporateCredit'
  <2> DEFINE r == [at |-> "credit.read", customer |-> c, enabled |-> enabled, limit |-> limit]
  <2>1. Goto(h, r) /\ UNCHANGED <<settingVars, balance>>
    BY <1>6 DEF CreditRead, ledgerVars
  <2>2. r.customer = c /\ ~Busy(c) /\ type[c] = "CORPORATE"
    BY <1>6, <1>o DEF CreditRead, MayServe
  <2>3. Fresh(h)'
    BY <2>1, <2>2 DEF Fresh, Goto, TypeOK, settingVars
  <2>4. CorporateCredit'
    BY <1>i, <2>1 DEF CorporateCredit, settingVars
  <2> HIDE DEF r
  <2>5. QED
    BY <1>i, <1>o, <2>1, <2>2, <2>3, <2>4, StartKeepsOrder
<1>7. ASSUME NEW h \in Handlers, NEW c \in Customers, NEW price \in Amounts,
             OrderRead(h, c, price)
      PROVE  OneEach' /\ (\A g \in Handlers : Fresh(g)') /\ CorporateCredit'
  <2> DEFINE r == [at |-> "order.allowed", customer |-> c, amount |-> price, seen |-> balance[c]]
  <2>1. Goto(h, r) /\ UNCHANGED <<settingVars, balance>>
    BY <1>7 DEF OrderRead, ledgerVars
  <2>2. r.customer = c /\ ~Busy(c) /\ MayOpenOrderDebt(c, balance[c] + price)
    BY <1>7, <1>o DEF OrderRead, MayServe
  <2>3. handler'[h] = r
    BY <2>1 DEF Goto, TypeOK
  <2>4. Fresh(h)'
    BY <1>o, <2>1, <2>2, <2>3 DEF Fresh, settingVars, MayOpenOrderDebt, MayUseCreditLine
  <2>5. CorporateCredit'
    BY <1>i, <2>1 DEF CorporateCredit, settingVars
  <2> HIDE DEF r
  <2>6. QED
    BY <1>i, <1>o, <2>1, <2>2, <2>4, <2>5, StartKeepsOrder
<1>8. ASSUME NEW h \in Handlers, NEW c \in Customers, NEW kind \in TransactionType,
             NEW n \in Amounts, TxnRead(h, c, kind, n)
      PROVE  OneEach' /\ (\A g \in Handlers : Fresh(g)') /\ CorporateCredit'
  <2> DEFINE r == [at |-> "txn.read", customer |-> c, amount |-> n, seen |-> balance[c],
                   kind |-> kind]
  <2>1. Goto(h, r) /\ UNCHANGED <<settingVars, balance>>
    BY <1>8 DEF TxnRead, ledgerVars
  <2>2. r.customer = c /\ ~Busy(c)
    BY <1>8, <1>o DEF TxnRead, MayServe
  <2>3. handler'[h] = r
    BY <2>1 DEF Goto, TypeOK
  <2>4. Fresh(h)'
    BY <2>1, <2>3 DEF Fresh, settingVars
  <2>5. CorporateCredit'
    BY <1>i, <2>1 DEF CorporateCredit, settingVars
  <2> HIDE DEF r
  <2>6. QED
    BY <1>i, <1>o, <2>1, <2>2, <2>4, <2>5, StartKeepsOrder
<1>9. CASE UNCHANGED vars
  BY <1>9, <1>i, <1>o, FreshStays DEF vars, OneEach, CorporateCredit, SameAccount
<1>10. QED
  BY <1>1, <1>2, <1>3, <1>4, <1>5, <1>6, <1>7, <1>8, <1>9 DEF Next, Advance

LEMMA OrderlyAlways == Spec => []OrderlyInv
BY OrderlyInit, OrderlyStep, Typing, PTL DEF Spec

(* Where the requests of an account are served one by one, only corporate  *)
(* cards have credit, as updateCreditSettings demands.                     *)
THEOREM OnlyCorporateHasCreditAlways == Spec => []OnlyCorporateHasCredit
<1>1. OrderlyInv => OnlyCorporateHasCredit
  BY DEF OrderlyInv, CorporateCredit, OnlyCorporateHasCredit
<1>2. QED
  BY <1>1, OrderlyAlways, PTL

(* Type, permission and limit of every card fit each other.                *)
THEOREM CreditSettingsFitAlways == Spec => []CreditSettingsFit
BY CreditHasLimitAlways, OnlyCorporateHasCreditAlways, PTL DEF CreditSettingsFit

(* Under the same condition an order never leaves its customer with more   *)
(* debt than assertCustomerMayOpenOrderDebt allows.                        *)
THEOREM OrderRespectsRuleAlways == Spec => OrderRespectsRule
<1>1. ASSUME TypeOK, OrderlyInv, [Next]_vars
      PROVE  [orderly =>
                \A c \in Customers :
                  ordered'[c] # ordered[c] => balance'[c] <= Allowance(c)']_vars
  <2> SUFFICES ASSUME orderly, NEW c \in Customers, ordered'[c] # ordered[c]
               PROVE  balance'[c] <= Allowance(c)'
    OBVIOUS
  <2>1. PICK h \in Handlers : OrderCommit(h)
    BY <1>1 DEF Next, Advance, Register, UpdateType, CreditCommit, TxnCheck, TxnCommit,
       Abort, CreditRead, OrderRead, TxnRead, vars, ledgerVars
  <2>2. handler[h].customer = c
    BY <1>1, <2>1 DEF OrderCommit, TypeOK
  <2>3. MayOpenOrderDebt(c, balance[c] + handler[h].amount)
    BY <1>1, <2>1, <2>2 DEF OrderlyInv, Fresh, OrderCommit
  <2>4. balance'[c] = balance[c] + handler[h].amount
    BY <1>1, <2>1, <2>2 DEF OrderCommit, BalanceAfter, TypeOK
  <2>5. Allowance(c)' = Allowance(c)
    BY <2>1 DEF OrderCommit, settingVars, fixedVars, Allowance, MayUseCreditLine
  <2>6. QED
    BY <2>3, <2>4, <2>5 DEF MayOpenOrderDebt, Allowance
<1>2. QED
  BY <1>1, Typing, OrderlyAlways, PTL DEF Spec, OrderRespectsRule

(* And a manual debit never takes a credit line over its limit: the check  *)
(* of createTransaction is as strong as the rule for orders.               *)
THEOREM DebitRespectsLimitAlways == Spec => DebitRespectsLimit
<1>1. ASSUME TypeOK, CreditInv, OrderlyInv, [Next]_vars
      PROVE  [orderly =>
                \A c \in Customers :
                  debits'[c] # debits[c] /\ MayUseCreditLine(c) =>
                    balance'[c] <= creditLimit[c]]_vars
  <2> SUFFICES ASSUME orderly, NEW c \in Customers, debits'[c] # debits[c], MayUseCreditLine(c)
               PROVE  balance'[c] <= creditLimit[c]
    OBVIOUS
  <2>1. PICK h \in Handlers : OrderCommit(h) \/ TxnCommit(h)
    BY <1>1 DEF Next, Advance, Register, UpdateType, CreditCommit, TxnCheck,
       Abort, CreditRead, OrderRead, TxnRead, vars, ledgerVars
  <2>2. CASE OrderCommit(h)
    <3>1. handler[h].customer = c
      BY <1>1, <2>2 DEF OrderCommit, TypeOK
    <3>2. MayOpenOrderDebt(c, balance[c] + handler[h].amount)
      BY <1>1, <2>2, <3>1 DEF OrderlyInv, Fresh, OrderCommit
    <3>3. balance'[c] = balance[c] + handler[h].amount
      BY <1>1, <2>2, <3>1 DEF OrderCommit, BalanceAfter, TypeOK
    <3>4. QED
      BY <3>2, <3>3 DEF MayOpenOrderDebt
  <2>3. CASE TxnCommit(h)
    <3>1. handler[h].customer = c /\ handler[h].kind = "DEBIT"
      BY <1>1, <2>3 DEF TxnCommit, TypeOK
    <3>2. ~ExceedsLimit(h) /\ handler[h].seen = balance[c]
      BY <1>1, <2>3, <3>1 DEF OrderlyInv, Fresh, TxnCommit
    <3>3. balance'[c] = balance[c] + handler[h].amount
      BY <1>1, <2>3, <3>1 DEF TxnCommit, BalanceAfter, TypeOK
    <3>4. creditLimit[c] > 0
      BY <1>1 DEF CreditInv, CreditHasLimit, MayUseCreditLine
    <3>5. handler[h].amount \in Nat /\ balance[c] \in Int /\ creditLimit[c] \in Nat
      BY <1>1, <2>3, HandlerFields DEF TxnCommit, TypeOK
    <3>6. QED
      BY <3>1, <3>2, <3>3, <3>4, <3>5 DEF ExceedsLimit, MayUseCreditLine
  <2>4. QED
    BY <2>1, <2>2, <2>3
<1>2. QED
  BY <1>1, Typing, CreditInit, CreditStep, OrderlyAlways, PTL DEF Spec, DebitRespectsLimit

=============================================================================
