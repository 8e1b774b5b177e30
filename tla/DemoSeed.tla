------------------------------ MODULE DemoSeed ------------------------------
(***************************************************************************)
(* The seed of the database (prisma/seed.ts): a script of single           *)
(* statements, without a transaction around them, that developers run      *)
(* again and again on a database the programs have used in between.        *)
(* It may stop between any two statements.                                 *)
(*                                                                         *)
(* It makes users, couriers and customers, wipes the orders and the ledger *)
(* of the demo customers and makes them anew, adds two sample orders of    *)
(* the customers corporate@ and customer@ where they are missing, and      *)
(* computes the delivery counts of all couriers from the orders.  Names,   *)
(* places, times and passwords are left out.                               *)
(***************************************************************************)
EXTENDS Integers, Sequences, FiniteSetsExt, Functions

CONSTANTS
  Slots,        \* sequence of the demo customers
  CourierIds,   \* sequence of the demo couriers
  Batches,      \* sequence of [status, assigned], one order of each
  Extras,       \* sequence of [customer, amount]: collections are negative
  NoCourier,
  MaxOrders,    \* orders at any time (a bound)
  MaxRuns, MaxUses   \* runs of the script, changes by the programs (bounds)

VARIABLES
  users,     \* users, couriers, cards of customers there are
  couriers,
  cards,
  balance,   \* balance[c] of the customers with an account
  renamed,   \* demo customers whose card has another e-mail address by now
  orders,    \* [id, customer, status, price, courier]
  ledger,    \* [id, customer, amount]
  earnings,  \* orders with an earning
  counts,    \* counts[k]: deliveries in the performance row of courier k
  place,     \* where the script is: [loop, item, step]
  fresh,     \* what this run has found missing and created
  runs, uses,
  stopped    \* has a run stopped half-way?  (history)

vars == <<users, couriers, cards, balance, renamed, orders, ledger, earnings, counts,
          place, fresh, runs, uses, stopped>>
people == <<users, couriers, cards, renamed>>
commerce == <<balance, orders, ledger, earnings, counts>>
bounds == <<runs, uses, stopped>>

-----------------------------------------------------------------------------
(* The script: its loops unrolled *)

DemoCustomers == Range(Slots)
DemoCouriers == Range(CourierIds)
Samples == {"individual", "corporate"}   \* customer@ and corporate@
AllCustomers == Samples \cup DemoCustomers
AllCouriers == {"courier"} \cup DemoCouriers

(* A loop has the statements ops for each item of its list. *)
Loop(ops, list) == [ops |-> ops, list |-> list]

SampleOrder ==
  [individual |-> [customer |-> "individual", status |-> "DELIVERED", price |-> 2,
                   courier |-> "courier"],
   corporate  |-> [customer |-> "corporate", status |-> "SEARCHING_COURIER", price |-> 3,
                   courier |-> NoCourier]]

(* The customers and the couriers take turns; no two orders have one price. *)
DemoOrders ==
  [i \in DOMAIN Batches |->
     [customer |-> Slots[1 + (i % Len(Slots))], status |-> Batches[i].status, price |-> i,
      courier |-> IF Batches[i].assigned THEN CourierIds[1 + (i % Len(CourierIds))]
                                         ELSE NoCourier]]

Wiping == Loop(<<"wipeOrders", "wipeLedger", "wipeBalance">>, <<"all">>)
Ordering == Loop(<<"order", "tx", "increment">>, DemoOrders)
Posting == Loop(<<"tx", "increment">>, Extras)

CustomerUsers == <<"corporate", "individual">> \o Slots
DemoUsers == CourierIds \o Slots
CouriersThereAre == <<"courier">> \o CourierIds

Commerce == <<Wiping, Ordering, Posting>>

Script ==
  <<Loop(<<"user">>, <<"courier", "corporate", "individual">>),
    Loop(<<"courier">>, <<"courier">>),
    Loop(<<"newCard", "newAccount">>, CustomerUsers),
    Loop(<<"user">>, DemoUsers),
    Loop(<<"courier">>, CourierIds),
    Loop(<<"card">>, Slots),
    Loop(<<"account">>, Slots),
    Commerce[1], Commerce[2], Commerce[3],
    Loop(<<"look">>, <<"samples">>),
    Loop(<<"sample", "sampleTx", "sampleIncrement", "sampleEarning">>, <<"individual">>),
    Loop(<<"sample", "sampleTx", "sampleIncrement">>, <<"corporate">>),
    Loop(<<"count">>, CouriersThereAre),
    Loop(<<"end">>, <<"all">>)>>

Nowhere == [loop |-> 0, item |-> 0, step |-> 0]
Line(l, i, k) == [loop |-> l, item |-> i, step |-> k]

Running == place.loop # 0
Here == Script[place.loop]
Now(op) == Running /\ Here.ops[place.step] = op
who == Here.list[place.item]

NextLine ==
  /\ place' = CASE place.step < Len(Here.ops) ->
                     Line(place.loop, place.item, place.step + 1)
                [] place.step = Len(Here.ops) /\ place.item < Len(Here.list) ->
                     Line(place.loop, place.item + 1, 1)
                [] OTHER -> Line(place.loop + 1, 1, 1)
  /\ UNCHANGED bounds

(* Mutation: the error is printed, and the run ends like any other.        *)
StopSwallowed ==
  /\ place' = Line(Len(Script), 1, 1)
  /\ fresh' = {}
  /\ stopped' = TRUE
  /\ UNCHANGED <<runs, uses, people, commerce>>

(* findUniqueOrThrow, or an update that finds no row: the script ends. *)
Stop ==
  /\ place' = Nowhere
  /\ fresh' = {}
  /\ stopped' = TRUE
  /\ UNCHANGED <<runs, uses, people, commerce>>

-----------------------------------------------------------------------------
(* People *)

UpsertUser ==
  /\ Now("user")
  /\ users' = users \cup {who}
  /\ NextLine
  /\ UNCHANGED <<couriers, cards, renamed, commerce, fresh>>

UpsertCourier ==
  /\ Now("courier")
  /\ couriers' = couriers \cup {who}
  /\ NextLine
  /\ UNCHANGED <<users, cards, renamed, commerce, fresh>>

(* For every user with a customer's role: a card, and then its account, if *)
(* he has none.                                                            *)
CreateCard ==
  /\ Now("newCard")
  /\ IF who \in users \ cards
       THEN cards' = cards \cup {who} /\ fresh' = fresh \cup {who}
       ELSE UNCHANGED <<cards, fresh>>
  /\ NextLine
  /\ UNCHANGED <<users, couriers, renamed, commerce>>

OpenAccount(c) == balance' = [x \in DOMAIN balance \cup {c} |->
                                IF x \in DOMAIN balance THEN balance[x] ELSE 0]

CreateAccount ==
  /\ Now("newAccount")
  /\ IF who \in fresh THEN OpenAccount(who) ELSE UNCHANGED balance
  /\ fresh' = fresh \ {who}
  /\ NextLine
  /\ UNCHANGED <<people, orders, ledger, earnings, counts>>

UpsertCard ==
  /\ Now("card")
  /\ cards' = cards \cup {who}
  /\ NextLine
  /\ UNCHANGED <<users, couriers, renamed, commerce, fresh>>

UpsertAccount ==
  /\ Now("account")
  /\ OpenAccount(who)
  /\ NextLine
  /\ UNCHANGED <<people, orders, ledger, earnings, counts, fresh>>

-----------------------------------------------------------------------------
(* wipeDemoCommerce: the demo customers are found by the e-mail address on *)
(* their card.  With an order its earning goes.                            *)

Found == DemoCustomers \ renamed

WipeOrders ==
  /\ Now("wipeOrders")
  /\ orders' = {o \in orders : o.customer \notin Found}
  /\ earnings' = earnings \cap {o.id : o \in orders'}
  /\ NextLine
  /\ UNCHANGED <<people, balance, ledger, counts, fresh>>

WipeLedger ==
  /\ Now("wipeLedger")
  /\ ledger' = {t \in ledger : t.customer \notin Found}
  /\ NextLine
  /\ UNCHANGED <<people, balance, orders, earnings, counts, fresh>>

WipeBalance ==
  /\ Now("wipeBalance")
  /\ balance' = [c \in DOMAIN balance |-> IF c \in Found THEN 0 ELSE balance[c]]
  /\ NextLine
  /\ UNCHANGED <<people, orders, ledger, earnings, counts, fresh>>

-----------------------------------------------------------------------------
(* Orders and transactions *)

FreshId(rows) == Min(1 .. (Cardinality(rows) + 1) \ {r.id : r \in rows})

With(rows, row) ==
  rows \cup {[k \in DOMAIN row \cup {"id"} |-> IF k = "id" THEN FreshId(rows) ELSE row[k]]}

(* The debit of an order, or an extra transaction *)
AmountOf(entry) == IF "price" \in DOMAIN entry THEN entry.price ELSE entry.amount

Entry(c, amount) == [customer |-> c, amount |-> amount]

CreateDemoOrder ==
  /\ Now("order")
  /\ Cardinality(orders) < MaxOrders
  /\ orders' = With(orders, who)
  /\ NextLine
  /\ UNCHANGED <<people, balance, ledger, earnings, counts, fresh>>

CreateTx ==
  /\ Now("tx")
  /\ ledger' = With(ledger, Entry(who.customer, AmountOf(who)))
  /\ NextLine
  /\ UNCHANGED <<people, balance, orders, earnings, counts, fresh>>

IncrementBalance ==
  /\ Now("increment")
  /\ balance' = [balance EXCEPT ![who.customer] = @ + AmountOf(who)]
  /\ NextLine
  /\ UNCHANGED <<people, orders, ledger, earnings, counts, fresh>>

(* seedLegacyUserSamples: a sample is there if an order of its customer    *)
(* has its price and its status.                                           *)
SamplesOf(c) ==
  {o \in orders : /\ o.customer = c /\ o.price = SampleOrder[c].price
                  /\ o.status = SampleOrder[c].status}

LookForSamples ==
  /\ Now("look")
  /\ fresh' = {c \in Samples : SamplesOf(c) = {}}
  /\ NextLine
  /\ UNCHANGED <<people, commerce>>

CreateSample ==
  /\ Now("sample")
  /\ who \in fresh => Cardinality(orders) < MaxOrders
  /\ orders' = IF who \in fresh THEN With(orders, SampleOrder[who]) ELSE orders
  /\ NextLine
  /\ UNCHANGED <<people, balance, ledger, earnings, counts, fresh>>

CreateSampleTx ==
  /\ Now("sampleTx")
  /\ ledger' = IF who \in fresh THEN With(ledger, Entry(who, SampleOrder[who].price))
                                ELSE ledger
  /\ NextLine
  /\ UNCHANGED <<people, balance, orders, earnings, counts, fresh>>

(* The account is missing if an earlier run stopped before it. *)
IncrementSample ==
  /\ Now("sampleIncrement")
  /\ IF who \in fresh /\ who \notin DOMAIN balance
       THEN Stop
       ELSE /\ balance' = IF who \in fresh
                            THEN [balance EXCEPT ![who] = @ + SampleOrder[who].price]
                            ELSE balance
            /\ NextLine
            /\ UNCHANGED <<people, orders, ledger, earnings, counts, fresh>>

CreateSampleEarning ==
  /\ Now("sampleEarning")
  /\ earnings' = IF who \in fresh THEN earnings \cup {o.id : o \in SamplesOf(who)}
                                  ELSE earnings
  /\ NextLine
  /\ UNCHANGED <<people, balance, orders, ledger, counts, fresh>>

(* backfillAllCourierPerformance *)
Delivered(k) == {o \in orders : o.courier = k /\ o.status = "DELIVERED"}

CountDeliveries ==
  /\ Now("count")
  /\ counts' = [counts EXCEPT ![who] = Cardinality(Delivered(who))]
  /\ NextLine
  /\ UNCHANGED <<people, balance, orders, ledger, earnings, fresh>>

-----------------------------------------------------------------------------
(* Runs, and what the programs do between them *)

Start ==
  /\ ~Running
  /\ runs < MaxRuns
  /\ runs' = runs + 1
  /\ place' = Line(1, 1, 1)
  /\ UNCHANGED <<people, commerce, fresh, uses, stopped>>

Interrupted == Running /\ ~Now("end") /\ Stop

End ==
  /\ Now("end")
  /\ place' = Nowhere
  /\ fresh' = {}
  /\ UNCHANGED <<bounds, people, commerce>>

Use ==
  /\ ~Running
  /\ uses < MaxUses
  /\ uses' = uses + 1
  /\ UNCHANGED <<users, couriers, cards, place, fresh, runs, stopped>>

(* An order is taken by a courier and delivered, with its earning. *)
OrderDelivered(o, k) ==
  /\ Use
  /\ k \in couriers
  /\ o.status # "DELIVERED"
  /\ orders' = (orders \ {o}) \cup {[o EXCEPT !.status = "DELIVERED", !.courier = k]}
  /\ earnings' = earnings \cup {o.id}
  /\ counts' = [counts EXCEPT ![k] = @ + 1]
  /\ UNCHANGED <<renamed, balance, ledger>>

(* A customer orders, in one transaction. *)
OrderCreated(c) ==
  /\ Use
  /\ c \in DOMAIN balance
  /\ Cardinality(orders) < MaxOrders
  /\ orders' = With(orders, [customer |-> c, status |-> "SEARCHING_COURIER", price |-> 1,
                             courier |-> NoCourier])
  /\ ledger' = With(ledger, Entry(c, 1))
  /\ balance' = [balance EXCEPT ![c] = @ + 1]
  /\ UNCHANGED <<renamed, earnings, counts>>

(* Staff edit the e-mail address of a card. *)
EmailEdited(c) ==
  /\ Use
  /\ c \in cards
  /\ renamed' = renamed \cup {c}
  /\ UNCHANGED commerce

-----------------------------------------------------------------------------
Init ==
  /\ users = {} /\ couriers = {} /\ cards = {} /\ renamed = {}
  /\ balance = [c \in {} |-> 0]
  /\ orders = {} /\ ledger = {} /\ earnings = {}
  /\ counts = [k \in AllCouriers |-> 0]
  /\ place = Nowhere /\ fresh = {} /\ runs = 0 /\ uses = 0 /\ stopped = FALSE

Next ==
  \/ UpsertUser \/ UpsertCourier \/ CreateCard \/ CreateAccount \/ UpsertCard
  \/ UpsertAccount \/ WipeOrders \/ WipeLedger \/ WipeBalance \/ CreateDemoOrder
  \/ CreateTx \/ IncrementBalance \/ LookForSamples \/ CreateSample \/ CreateSampleTx
  \/ IncrementSample \/ CreateSampleEarning \/ CountDeliveries
  \/ Start \/ Interrupted \/ End
  \/ \E o \in orders, k \in AllCouriers : OrderDelivered(o, k)
  \/ \E c \in AllCustomers : OrderCreated(c)
  \/ \E c \in DemoCustomers : EmailEdited(c)

Spec == Init /\ [][Next]_vars

-----------------------------------------------------------------------------

TypeOK ==
  /\ users \subseteq AllCustomers \cup AllCouriers /\ couriers \subseteq AllCouriers
  /\ cards \subseteq AllCustomers /\ DOMAIN balance \subseteq AllCustomers
  /\ earnings \subseteq {o.id : o \in orders}
  /\ \A o \in orders : o.customer \in DOMAIN balance \cup Samples
  /\ fresh \subseteq Samples \cup AllCustomers

Owed(c) == MapThenSumSet(LAMBDA t : t.amount, {t \in ledger : t.customer = c})
Owing(c, list) == Cardinality({i \in DOMAIN list : list[i].customer = c})

(* Whatever runs stopped half-way before, and whatever the programs did in *)
(* between, a run that ends leaves the demo customers with the orders and  *)
(* the ledger of the script, every balance the sum of its ledger, and the  *)
(* couriers with the deliveries they have orders for.  Not for a demo      *)
(* customer whose e-mail address staff have edited: he is not found, and   *)
(* gets everything once more.  The samples are never repaired: their       *)
(* balance is the sum of the ledger if no run has ever stopped.            *)
SeedIsRepeatable ==
  Now("end") =>
    /\ \A c \in Found :
         /\ Cardinality({o \in orders : o.customer = c}) = Owing(c, DemoOrders)
         /\ Cardinality({t \in ledger : t.customer = c}) =
              Owing(c, DemoOrders) + Owing(c, Extras)
         /\ balance[c] = Owed(c)
    /\ ~stopped => \A c \in Samples : balance[c] = Owed(c)
    /\ \A k \in AllCouriers : counts[k] = Cardinality(Delivered(k))

=============================================================================
