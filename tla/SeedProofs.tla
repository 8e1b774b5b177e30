------------------------------ MODULE SeedProofs ------------------------------
(***************************************************************************)
(* Theorems about the seed of Clients, for any customers, couriers,        *)
(* batches of orders and entries of the ledger, any number of runs, and    *)
(* runs that stop anywhere: a run that ends leaves what the seed describes.*)
(***************************************************************************)
EXTENDS Clients, TLAPS, FiniteSetTheorems, WellFoundedInduction, NaturalsInduction

-----------------------------------------------------------------------------
(* The seed *)

(* Statement k of item i of loop l has been executed in this run.          *)
Past(l, i, k) ==
  \/ place.loop > l
  \/ place.loop = l /\ (place.item > i \/ (place.item = i /\ place.step > k))

At(l, k) == place.loop = l /\ place.step = k

Statuses ==
  {Batches[i].status : i \in DOMAIN Batches} \cup {"DELIVERED", "SEARCHING_COURIER"}

DemoOrder == [id : Nat, customer : D!AllCustomers, status : Statuses, price : Int,
              courier : D!AllCouriers \cup {NoCourier}]
DemoEntry == [id : Nat, customer : D!AllCustomers, amount : Int]

OrdersOf(c) == {o \in orders : o.customer = c}
EntriesOf(c) == {t \in ledger : t.customer = c}

(* The place is one in the script. *)
InScript ==
  \/ place = D!Nowhere
  \/ \E l \in 1 .. 15 : \E i \in DOMAIN D!Script[l].list, k \in DOMAIN D!Script[l].ops :
       place = D!Line(l, i, k)

SeedTyped ==
  /\ InScript
  /\ users \subseteq D!AllCustomers \cup D!AllCouriers /\ couriers \subseteq D!AllCouriers
  /\ cards \subseteq D!AllCustomers
  /\ balance \in [DOMAIN balance -> Int] /\ DOMAIN balance \subseteq D!AllCustomers
  /\ IsFiniteSet(orders) /\ orders \subseteq DemoOrder
  /\ IsFiniteSet(ledger) /\ ledger \subseteq DemoEntry
  /\ earnings \subseteq {o.id : o \in orders}
  /\ counts \in [D!AllCouriers -> Nat]
  /\ fresh \subseteq D!Samples \cup D!AllCustomers

(* An order of a demo customer, and so every debit, has an account.        *)
AccountsFirst ==
  /\ \A i \in DOMAIN Slots : Past(7, i, 1) => Slots[i] \in DOMAIN balance
  /\ \A o \in orders : o.customer \in DOMAIN balance \cup D!Samples

(* What the run creates is missing only where the run has looked. *)
FreshIsLookedFor ==
  /\ fresh # {} => At(3, 2) \/ place.loop > 11
  /\ At(3, 2) => fresh \subseteq {D!who}
  /\ place.loop > 11 => fresh \subseteq D!Samples

(* Before its balance is incremented, an entry is due. *)
Due(c) ==
  IF /\ At(9, 3) \/ At(10, 2)
     /\ D!who.customer = c
    THEN D!AmountOf(D!who) ELSE 0

DueSample(c) ==
  IF /\ At(12, 3) \/ At(13, 3)
     /\ D!who = c /\ c \in fresh
    THEN D!SampleOrder[c].price ELSE 0

(* The lines of customer c the run has been through *)
OrdersDue(c) == {i \in DOMAIN Batches : D!DemoOrders[i].customer = c /\ Past(9, i, 1)}
DebitsDue(c) == {i \in DOMAIN Batches : D!DemoOrders[i].customer = c /\ Past(9, i, 2)}
ExtrasDue(c) == {i \in DOMAIN Extras : Extras[i].customer = c /\ Past(10, i, 1)}

(* From the wipe on, a demo customer has what the run has made until now. *)
OrdersMade ==
  \A c \in D!Found :
    Past(8, 1, 1) => Cardinality(OrdersOf(c)) = Cardinality(OrdersDue(c))

EntriesMade ==
  \A c \in D!Found :
    Past(8, 1, 2) => Cardinality(EntriesOf(c)) =
                       Cardinality(DebitsDue(c)) + Cardinality(ExtrasDue(c))

BalancesMade ==
  \A c \in D!Found : Past(8, 1, 3) => balance[c] + Due(c) = D!Owed(c)

(* While no run has stopped, a sample's card has its account, and its      *)
(* balance is the sum of its entries.                                      *)
SamplesBalance ==
  ~stopped =>
    \A c \in D!Samples :
      /\ c \in DOMAIN balance => balance[c] + DueSample(c) = D!Owed(c)
      /\ c \notin DOMAIN balance => EntriesOf(c) = {}
      /\ c \in cards => c \in DOMAIN balance \/ (At(3, 2) /\ D!who = c /\ c \in fresh)

SamplesMade ==
  /\ \A i \in 1 .. 3 : Past(1, i, 1) => D!Script[1].list[i] \in users
  /\ \A i \in 1 .. 2 : Past(3, i, 1) => D!Script[3].list[i] \in cards

Counted ==
  \A i \in DOMAIN D!Script[14].list :
    Past(14, i, 1) =>
      LET k == D!Script[14].list[i] IN counts[k] = Cardinality(D!Delivered(k))

SeedInv ==
  /\ SeedTyped /\ AccountsFirst /\ FreshIsLookedFor
  /\ OrdersMade /\ EntriesMade /\ BalancesMade
  /\ SamplesBalance /\ SamplesMade /\ Counted

-----------------------------------------------------------------------------
(* The script *)

LEMMA Loops ==
  LET s == D!Script IN
  /\ s[1] = D!Loop(<<"user">>, <<"courier", "corporate", "individual">>)
  /\ s[2] = D!Loop(<<"courier">>, <<"courier">>)
  /\ s[3] = D!Loop(<<"newCard", "newAccount">>, D!CustomerUsers)
  /\ s[4] = D!Loop(<<"user">>, D!DemoUsers)
  /\ s[5] = D!Loop(<<"courier">>, CourierIds)
  /\ s[6] = D!Loop(<<"card">>, Slots)
  /\ s[7] = D!Loop(<<"account">>, Slots)
  /\ s[8] = D!Loop(<<"wipeOrders", "wipeLedger", "wipeBalance">>, <<"all">>)
  /\ s[9] = D!Loop(<<"order", "tx", "increment">>, D!DemoOrders)
  /\ s[10] = D!Loop(<<"tx", "increment">>, Extras)
  /\ s[11] = D!Loop(<<"look">>, <<"samples">>)
  /\ s[12] = D!Loop(<<"sample", "sampleTx", "sampleIncrement", "sampleEarning">>,
                    <<"individual">>)
  /\ s[13] = D!Loop(<<"sample", "sampleTx", "sampleIncrement">>, <<"corporate">>)
  /\ s[14] = D!Loop(<<"count">>, D!CouriersThereAre)
  /\ s[15] = D!Loop(<<"end">>, <<"all">>)
BY DEF D!Script, D!Commerce, D!Wiping, D!Ordering, D!Posting

LEMMA LoopParts ==
  ASSUME NEW ops, NEW list
  PROVE  D!Loop(ops, list).ops = ops /\ D!Loop(ops, list).list = list
BY DEF D!Loop

(* The lists of the loops *)
LEMMA ListsOf ==
  LET s == D!Script IN
  /\ s[1].list = <<"courier", "corporate", "individual">>
  /\ s[2].list = <<"courier">>
  /\ s[3].list = D!CustomerUsers
  /\ s[4].list = D!DemoUsers
  /\ s[5].list = CourierIds
  /\ s[6].list = Slots /\ s[7].list = Slots
  /\ s[8].list = <<"all">>
  /\ s[9].list = D!DemoOrders
  /\ s[10].list = Extras
  /\ s[11].list = <<"samples">>
  /\ s[12].list = <<"individual">> /\ s[13].list = <<"corporate">>
  /\ s[14].list = D!CouriersThereAre
  /\ s[15].list = <<"all">>
<1> DEFINE s == D!Script
<1>1. \A ops, list : D!Loop(ops, list).list = list
  BY LoopParts
<1>2. /\ s[1].list = <<"courier", "corporate", "individual">>
      /\ s[2].list = <<"courier">> /\ s[8].list = <<"all">>
      /\ s[11].list = <<"samples">> /\ s[12].list = <<"individual">>
      /\ s[13].list = <<"corporate">> /\ s[15].list = <<"all">>
  BY Loops, <1>1
<1>3. /\ s[3].list = D!CustomerUsers
      /\ s[4].list = D!DemoUsers /\ s[14].list = D!CouriersThereAre
  BY Loops, <1>1
<1>4. /\ s[5].list = CourierIds /\ s[6].list = Slots /\ s[7].list = Slots
      /\ s[9].list = D!DemoOrders /\ s[10].list = Extras
  BY Loops, <1>1
<1>5. QED
  BY <1>2, <1>3, <1>4

(* The statements of the loops *)
LEMMA OpsOf ==
  LET s == D!Script IN
  /\ s[1].ops = <<"user">> /\ s[4].ops = <<"user">>
  /\ s[2].ops = <<"courier">> /\ s[5].ops = <<"courier">>
  /\ s[3].ops = <<"newCard", "newAccount">>
  /\ s[6].ops = <<"card">> /\ s[7].ops = <<"account">>
  /\ s[8].ops = <<"wipeOrders", "wipeLedger", "wipeBalance">>
  /\ s[9].ops = <<"order", "tx", "increment">>
  /\ s[10].ops = <<"tx", "increment">>
  /\ s[11].ops = <<"look">>
  /\ s[12].ops = <<"sample", "sampleTx", "sampleIncrement", "sampleEarning">>
  /\ s[13].ops = <<"sample", "sampleTx", "sampleIncrement">>
  /\ s[14].ops = <<"count">> /\ s[15].ops = <<"end">>
BY Loops, LoopParts

LEMMA DemoOrderParts ==
  ASSUME ClientsAssumption, NEW i \in DOMAIN D!DemoOrders
  PROVE  /\ DOMAIN D!DemoOrders = DOMAIN Batches
         /\ D!DemoOrders[i] =
              [customer |-> D!DemoOrders[i].customer, status |-> D!DemoOrders[i].status,
               price |-> D!DemoOrders[i].price, courier |-> D!DemoOrders[i].courier]
         /\ D!DemoOrders[i].customer \in D!DemoCustomers
         /\ D!DemoOrders[i].status \in Statuses
         /\ D!DemoOrders[i].price \in Int
         /\ D!DemoOrders[i].courier \in D!AllCouriers \cup {NoCourier}
<1>1. SeedFits
  BY DEF ClientsAssumption
<1>2. 1 + (i % Len(Slots)) \in DOMAIN Slots /\ 1 + (i % Len(CourierIds)) \in DOMAIN CourierIds
  <2>1. i \in DOMAIN Batches
    BY DEF D!DemoOrders
  <2>2. i \in Nat
    BY <1>1, <2>1 DEF SeedFits
  <2>3. Len(Slots) \in Nat \ {0} /\ Len(CourierIds) \in Nat \ {0}
    BY <1>1 DEF SeedFits
  <2>4. \A n \in Nat \ {0} : i % n \in 0 .. n - 1
    BY <2>2
  <2>5. \A n \in Nat \ {0} : 1 + (i % n) \in 1 .. n
    <3> TAKE n \in Nat \ {0}
    <3> DEFINE m == i % n
    <3>1. m \in 0 .. n - 1
      BY <2>4
    <3> HIDE DEF m
    <3>2. 1 + m \in 1 .. n
      BY <3>1
    <3>3. QED
      BY <3>2 DEF m
  <2>6. DOMAIN Slots = 1 .. Len(Slots) /\ DOMAIN CourierIds = 1 .. Len(CourierIds)
    BY <1>1 DEF SeedFits
  <2>7. QED
    BY <2>3, <2>5, <2>6
<1>3. DOMAIN D!DemoOrders = DOMAIN Batches /\ i \in DOMAIN Batches
  BY DEF D!DemoOrders
<1> DEFINE c == Slots[1 + (i % Len(Slots))]
           s == Batches[i].status
           k == IF Batches[i].assigned THEN CourierIds[1 + (i % Len(CourierIds))] ELSE NoCourier
<1>4. D!DemoOrders[i] = [customer |-> c, status |-> s, price |-> i, courier |-> k]
  BY <1>3 DEF D!DemoOrders
<1>5. c \in D!DemoCustomers
  BY <1>2 DEF D!DemoCustomers, D!Range
<1>6. s \in Statuses
  BY <1>3 DEF Statuses
<1>7. k \in D!AllCouriers \cup {NoCourier}
  <2>1. CourierIds[1 + (i % Len(CourierIds))] \in D!DemoCouriers
    BY <1>2 DEF D!DemoCouriers, D!Range
  <2>2. QED
    BY <2>1 DEF D!AllCouriers
<1>8. i \in Int
  BY <1>1, <1>3 DEF SeedFits
<1> HIDE DEF c, s, k
<1>9. QED
  BY <1>3, <1>4, <1>5, <1>6, <1>7, <1>8

LEMMA ScriptIsFinite ==
  ASSUME ClientsAssumption, NEW l \in 1 .. 15
  PROVE  LET s == D!Script[l] IN
         /\ Len(s.list) \in Nat \ {0} /\ DOMAIN s.list = 1 .. Len(s.list)
         /\ Len(s.ops) \in Nat \ {0} /\ DOMAIN s.ops = 1 .. Len(s.ops)
<1>1. SeedFits
  BY DEF ClientsAssumption
<1>2. Slots \in Seq(STRING) /\ CourierIds \in Seq(STRING) /\ Slots # <<>> /\ CourierIds # <<>>
  BY <1>1 DEF SeedFits
<1>3. /\ Len(D!DemoOrders) \in Nat \ {0}
      /\ DOMAIN D!DemoOrders = 1 .. Len(D!DemoOrders)
  BY <1>1 DEF SeedFits, D!DemoOrders
<1>4. Len(Extras) \in Nat \ {0} /\ DOMAIN Extras = 1 .. Len(Extras)
  BY <1>1 DEF SeedFits
<1>5. \A a : Len(<<a>>) = 1 /\ DOMAIN <<a>> = 1 .. 1
  OBVIOUS
<1>6. \A a, b : Len(<<a, b>>) = 2 /\ DOMAIN <<a, b>> = 1 .. 2
  OBVIOUS
<1>7. \A a, b, c : Len(<<a, b, c>>) = 3 /\ DOMAIN <<a, b, c>> = 1 .. 3
  OBVIOUS
<1>8. \A a, b, c, d : Len(<<a, b, c, d>>) = 4 /\ DOMAIN <<a, b, c, d>> = 1 .. 4
  OBVIOUS
<1> DEFINE Fits(s, n) == Len(s) = n /\ DOMAIN s = 1 .. n
           o(k) == D!Script[k].ops
           t(k) == D!Script[k].list
<1>9. /\ Fits(o(1), 1) /\ Fits(o(2), 1) /\ Fits(o(3), 2) /\ Fits(o(4), 1) /\ Fits(o(5), 1)
      /\ Fits(o(6), 1) /\ Fits(o(7), 1) /\ Fits(o(8), 3) /\ Fits(o(9), 3) /\ Fits(o(10), 2)
      /\ Fits(o(11), 1) /\ Fits(o(12), 4) /\ Fits(o(13), 3) /\ Fits(o(14), 1)
      /\ Fits(o(15), 1)
  BY OpsOf
<1>10. /\ Fits(t(1), 3) /\ Fits(t(2), 1) /\ Fits(t(8), 1) /\ Fits(t(11), 1)
       /\ Fits(t(12), 1) /\ Fits(t(13), 1) /\ Fits(t(15), 1)
  BY <1>5, <1>7, ListsOf, Zenon
<1>11. Fits(t(3), 2 + Len(Slots))
  BY <1>2, ListsOf DEF D!CustomerUsers
<1>12. Fits(t(4), Len(CourierIds) + Len(Slots))
  BY <1>2, ListsOf DEF D!DemoUsers
<1>13. Fits(t(14), 1 + Len(CourierIds))
  BY <1>2, ListsOf DEF D!CouriersThereAre
<1>14. /\ Fits(t(5), Len(CourierIds)) /\ Fits(t(6), Len(Slots)) /\ Fits(t(7), Len(Slots))
       /\ Len(CourierIds) \in Nat \ {0} /\ Len(Slots) \in Nat \ {0}
  BY <1>2, ListsOf
<1>15. /\ Fits(t(9), Len(D!DemoOrders)) /\ Fits(t(10), Len(Extras))
  BY <1>3, <1>4, ListsOf
<1>16. \E n \in Nat \ {0} : Fits(o(l), n)
  <2>1. l \in {1, 2, 4, 5, 6, 7, 11, 14, 15} \/ l \in {3, 10} \/ l \in {8, 9, 13} \/ l = 12
    OBVIOUS
  <2> HIDE DEF Fits, o
  <2>2. QED
    BY <1>9, <2>1
<1>17. \E n \in Nat \ {0} : Fits(t(l), n)
  <2>1. \/ l \in {1, 2, 8, 11, 12, 13, 15} \/ l \in {5, 6, 7} \/ l \in {9, 10}
        \/ l = 3 \/ l = 4 \/ l = 14
    OBVIOUS
  <2>2. \A m, n \in Nat \ {0} : m + n \in Nat \ {0}
    OBVIOUS
  <2> HIDE DEF Fits, t
  <2>3. CASE l \in {1, 2, 8, 11, 12, 13, 15}
    BY <1>10, <2>3
  <2>4. CASE l \in {3, 4, 14}
    BY <1>11, <1>12, <1>13, <1>14, <2>2, <2>4
  <2>5. CASE l \in {5, 6, 7, 9, 10}
    BY <1>3, <1>4, <1>14, <1>15, <2>5
  <2>6. QED
    BY <2>1, <2>3, <2>4, <2>5
<1>18. QED
  BY <1>16, <1>17

LEMMA WhereNow ==
  ASSUME InScript
  PROVE  /\ D!Now("user") => At(1, 1) \/ At(4, 1)
         /\ D!Now("courier") => At(2, 1) \/ At(5, 1)
         /\ D!Now("newCard") => At(3, 1)
         /\ D!Now("newAccount") => At(3, 2)
         /\ D!Now("card") => At(6, 1)
         /\ D!Now("account") => At(7, 1)
         /\ D!Now("wipeOrders") => At(8, 1)
         /\ D!Now("wipeLedger") => At(8, 2)
         /\ D!Now("wipeBalance") => At(8, 3)
         /\ D!Now("order") => At(9, 1)
         /\ D!Now("tx") => At(9, 2) \/ At(10, 1)
         /\ D!Now("increment") => At(9, 3) \/ At(10, 2)
         /\ D!Now("look") => At(11, 1)
         /\ D!Now("sample") => At(12, 1) \/ At(13, 1)
         /\ D!Now("sampleTx") => At(12, 2) \/ At(13, 2)
         /\ D!Now("sampleIncrement") => At(12, 3) \/ At(13, 3)
         /\ D!Now("sampleEarning") => At(12, 4)
         /\ D!Now("count") => At(14, 1)
         /\ D!Now("end") => At(15, 1)
<1>1. CASE place = D!Nowhere
  BY <1>1 DEF D!Now, D!Running, D!Nowhere
<1>2. CASE \E l \in 1 .. 15 : \E i \in DOMAIN D!Script[l].list, k \in DOMAIN D!Script[l].ops :
             place = D!Line(l, i, k)
  <2>1. PICK l \in 1 .. 15 : \E i \in DOMAIN D!Script[l].list, k \in DOMAIN D!Script[l].ops :
               place = D!Line(l, i, k)
    BY <1>2
  <2>2. PICK k \in DOMAIN D!Script[l].ops :
          place.loop = l /\ place.step = k /\ D!Here.ops = D!Script[l].ops
    BY <2>1 DEF D!Line, D!Here
  <2>3. QED
    BY <2>2, OpsOf DEF D!Now, At
<1>3. QED
  BY <1>1, <1>2 DEF InScript
(* The item at hand *)
LEMMA ItemNow ==
  ASSUME InScript, NEW l \in 1 .. 15, NEW k, At(l, k)
  PROVE  \E i \in DOMAIN D!Script[l].list :
           /\ place = D!Line(l, i, k) /\ D!who = D!Script[l].list[i]
           /\ k \in DOMAIN D!Script[l].ops /\ D!Here = D!Script[l]
BY DEF InScript, At, D!Nowhere, D!Line, D!who, D!Here

(* The next line: what is past grows by the line at hand. *)
LEMMA LineMoves ==
  ASSUME ClientsAssumption, InScript, NEW l \in 1 .. 14,
         NEW i \in DOMAIN D!Script[l].list, NEW k \in DOMAIN D!Script[l].ops,
         place = D!Line(l, i, k), D!NextLine
  PROVE  /\ InScript'
         /\ k < Len(D!Script[l].ops) => place' = D!Line(l, i, k + 1)
         /\ k = Len(D!Script[l].ops) =>
              \/ i < Len(D!Script[l].list) /\ place' = D!Line(l, i + 1, 1)
              \/ i = Len(D!Script[l].list) /\ place' = D!Line(l + 1, 1, 1)
         /\ \A m \in 1 .. 15 : \A j \in DOMAIN D!Script[m].list, n \in DOMAIN D!Script[m].ops :
              Past(m, j, n)' <=> Past(m, j, n) \/ (m = l /\ j = i /\ n = k)
<1> DEFINE list == D!Script[l].list
           ops == D!Script[l].ops
<1>0. l \in 1 .. 15
  OBVIOUS
<1>1. /\ Len(list) \in Nat \ {0} /\ DOMAIN list = 1 .. Len(list)
      /\ Len(ops) \in Nat \ {0} /\ DOMAIN ops = 1 .. Len(ops)
  BY <1>0, ScriptIsFinite
<1>2. /\ place.loop = l /\ place.item = i /\ place.step = k
      /\ D!Here.list = list /\ D!Here.ops = ops
  BY DEF D!Line, D!Here
<1>3. place' = CASE k < Len(ops) -> D!Line(l, i, k + 1)
                 [] k = Len(ops) /\ i < Len(list) -> D!Line(l, i + 1, 1)
                 [] OTHER -> D!Line(l + 1, 1, 1)
  BY <1>2 DEF D!NextLine
<1>4. l \in Nat /\ i \in 1 .. Len(list) /\ k \in 1 .. Len(ops)
  BY <1>1
<1> HIDE DEF list, ops
<1>5. \/ k < Len(ops) /\ place' = D!Line(l, i, k + 1)
      \/ k = Len(ops) /\ i < Len(list) /\ place' = D!Line(l, i + 1, 1)
      \/ k = Len(ops) /\ i = Len(list) /\ place' = D!Line(l + 1, 1, 1)
  BY <1>1, <1>3, <1>4
<1>6. InScript'
  <2>1. /\ i + 1 \in DOMAIN list \/ i = Len(list)
        /\ k + 1 \in DOMAIN ops \/ k = Len(ops)
        /\ 1 \in DOMAIN ops
    BY <1>1, <1>4
  <2>2. l + 1 \in 1 .. 15 /\ 1 \in DOMAIN D!Script[l + 1].list /\ 1 \in DOMAIN D!Script[l + 1].ops
    <3>1. l + 1 \in 1 .. 15
      OBVIOUS
    <3> DEFINE next == D!Script[l + 1]
    <3>2. /\ Len(next.list) \in Nat \ {0} /\ DOMAIN next.list = 1 .. Len(next.list)
          /\ Len(next.ops) \in Nat \ {0} /\ DOMAIN next.ops = 1 .. Len(next.ops)
      BY <3>1, ScriptIsFinite
    <3> HIDE DEF next
    <3>3. 1 \in DOMAIN next.list /\ 1 \in DOMAIN next.ops
      BY <3>2
    <3>4. QED
      BY <3>1, <3>3 DEF next
  <2>3. l \in 1 .. 15 /\ i \in DOMAIN list /\ k \in DOMAIN ops
    BY DEF list, ops
  <2>4. \E m \in 1 .. 15 : \E j \in DOMAIN D!Script[m].list, n \in DOMAIN D!Script[m].ops :
          place' = D!Line(m, j, n)
    <3>1. CASE k < Len(ops) /\ place' = D!Line(l, i, k + 1)
      <4>1. k + 1 \in DOMAIN ops
        BY <1>1, <1>4, <3>1
      <4>2. QED
        BY <2>3, <3>1, <4>1 DEF list, ops
    <3>2. CASE k = Len(ops) /\ i < Len(list) /\ place' = D!Line(l, i + 1, 1)
      BY <1>4, <2>1, <2>3, <3>2 DEF list, ops
    <3>3. CASE k = Len(ops) /\ i = Len(list) /\ place' = D!Line(l + 1, 1, 1)
      BY <2>2, <3>3
    <3>4. QED
      BY <1>5, <3>1, <3>2, <3>3
  <2>5. QED
    BY <2>4 DEF InScript
<1>7. /\ k < Len(ops) => place' = D!Line(l, i, k + 1)
      /\ k = Len(ops) => \/ i < Len(list) /\ place' = D!Line(l, i + 1, 1)
                         \/ i = Len(list) /\ place' = D!Line(l + 1, 1, 1)
  BY <1>1, <1>4, <1>5
<1>8. ASSUME NEW m \in 1 .. 15,
             NEW j \in DOMAIN D!Script[m].list, NEW n \in DOMAIN D!Script[m].ops
      PROVE  Past(m, j, n)' <=> Past(m, j, n) \/ (m = l /\ j = i /\ n = k)
  <2>1. j \in Nat /\ n \in Nat /\ j >= 1 /\ n >= 1
    <3> DEFINE s == D!Script[m]
    <3>1. /\ Len(s.list) \in Nat \ {0} /\ DOMAIN s.list = 1 .. Len(s.list)
          /\ Len(s.ops) \in Nat \ {0} /\ DOMAIN s.ops = 1 .. Len(s.ops)
      BY ScriptIsFinite
    <3>2. j \in DOMAIN s.list /\ n \in DOMAIN s.ops
      OBVIOUS
    <3> HIDE DEF s
    <3>3. QED
      BY <3>1, <3>2
  <2>2. m = l => j <= Len(list) /\ n <= Len(ops)
    BY <1>1 DEF list, ops
  <2>3. Past(m, j, n) <=> l > m \/ (l = m /\ (i > j \/ (i = j /\ k > n)))
    BY <1>2 DEF Past
  <2>4. Past(m, j, n)' <=> \/ place'.loop > m
                           \/ place'.loop = m /\ (place'.item > j
                                                  \/ (place'.item = j /\ place'.step > n))
    BY DEF Past
  <2>5. CASE k < Len(ops) /\ place' = D!Line(l, i, k + 1)
    BY <1>4, <2>1, <2>2, <2>3, <2>4, <2>5 DEF D!Line
  <2>6. CASE k = Len(ops) /\ i < Len(list) /\ place' = D!Line(l, i + 1, 1)
    BY <1>4, <2>1, <2>2, <2>3, <2>4, <2>6 DEF D!Line
  <2>7. CASE k = Len(ops) /\ i = Len(list) /\ place' = D!Line(l + 1, 1, 1)
    BY <1>4, <2>1, <2>2, <2>3, <2>4, <2>7 DEF D!Line
  <2>8. QED
    BY <1>5, <2>5, <2>6, <2>7
<1>9. QED
  BY <1>6, <1>7, <1>8 DEF list, ops


-----------------------------------------------------------------------------
(* Rows of tables *)

LEMMA CardinalityIsSame ==
  ASSUME NEW X PROVE D!Cardinality(X) = Cardinality(X)
BY DEF D!Cardinality, Cardinality, D!IsFiniteSet, IsFiniteSet

LEMMA LeastNumber ==
  ASSUME NEW T \in SUBSET Nat, T # {} PROVE \E i \in T : \A j \in T : i <= j
<1> DEFINE R == OpToRel(<, Nat)
<1>1. IsWellFoundedOn(R, Nat)
  BY NatLessThanWellFounded
<1>2. \A x, y \in Nat : <<y, x>> \notin R => x <= y
  BY DEF OpToRel
<1> HIDE DEF R
<1>3. \E x \in T : \A y \in T : ~ (<<y, x>> \in R)
  BY <1>1, WFMin
<1>4. QED
  BY <1>2, <1>3

IdsOf(rows) == {r.id : r \in rows}

LEMMA FewIds ==
  ASSUME NEW rows, IsFiniteSet(rows)
  PROVE  IsFiniteSet(IdsOf(rows)) /\ Cardinality(IdsOf(rows)) <= Cardinality(rows)
<1> DEFINE f == [r \in rows |-> r.id]
<1>1. f \in Surjection(rows, IdsOf(rows))
  BY DEF Surjection, IdsOf
<1>2. QED
  BY <1>1, FS_Surjection

LEMMA FreshIdIsNew ==
  ASSUME NEW rows, IsFiniteSet(rows)
  PROVE  D!FreshId(rows) \in Nat /\ \A r \in rows : r.id # D!FreshId(rows)
<1> DEFINE n == Cardinality(rows) + 1
           T == (1 .. n) \ IdsOf(rows)
<1>1. IsFiniteSet(IdsOf(rows)) /\ Cardinality(IdsOf(rows)) < n
      /\ n \in Nat /\ Cardinality(IdsOf(rows)) \in Nat
  BY FewIds, FS_CardinalityType
<1>2. IsFiniteSet(1 .. n) /\ Cardinality(1 .. n) = n
  BY <1>1, FS_Interval
<1>3. T # {}
  <2>1. SUFFICES ASSUME T = {} PROVE FALSE
    OBVIOUS
  <2>2. 1 .. n \in SUBSET IdsOf(rows)
    BY <2>1
  <2>3. Cardinality(1 .. n) <= Cardinality(IdsOf(rows))
    BY <1>1, <2>2, FS_Subset
  <2>4. QED
    BY <1>1, <1>2, <2>3
<1>4. D!FreshId(rows) = CHOOSE x \in T : \A y \in T : x <= y
  BY CardinalityIsSame DEF D!FreshId, D!Min, IdsOf
<1>5. T \in SUBSET Nat
  BY <1>1
<1>6. \E x \in T : \A y \in T : x <= y
  BY <1>3, <1>5, LeastNumber
<1>7. D!FreshId(rows) \in T
  BY <1>4, <1>6
<1>8. QED
  BY <1>5, <1>7 DEF IdsOf

LEMMA OrderAdded ==
  ASSUME NEW rows, NEW c, NEW s, NEW p, NEW k
  PROVE  D!With(rows, [customer |-> c, status |-> s, price |-> p, courier |-> k]) =
           rows \cup {[id |-> D!FreshId(rows), customer |-> c, status |-> s, price |-> p,
                       courier |-> k]}
BY DEF D!With

LEMMA EntryAdded ==
  ASSUME NEW rows, NEW c, NEW amount
  PROVE  D!With(rows, D!Entry(c, amount)) =
           rows \cup {[id |-> D!FreshId(rows), customer |-> c, amount |-> amount]}
BY DEF D!With, D!Entry


-----------------------------------------------------------------------------
(* Sums.  Owed is a recursive function, defined by CHOOSE: that there is   *)
(* one, and what it does with one entry more, is shown for the smallest    *)
(* set for which it would not be so.                                       *)

Chosen(s) == CHOOSE t \in s : TRUE

(* g sums up the sets of Q0. *)
SumsUp(g, sets) ==
  g = [s \in sets |-> IF s = {} THEN 0 ELSE Chosen(s).amount + g[s \ {Chosen(s)}]]

Small(S0, n) == {s \in SUBSET S0 : Cardinality(s) <= n}

LEMMA SmallerByOne ==
  ASSUME NEW T, IsFiniteSet(T), NEW n \in Nat, NEW s \in Small(T, n), NEW x \in s
  PROVE  n # 0 /\ s \ {x} \in Small(T, n - 1) /\ Cardinality(s \ {x}) = Cardinality(s) - 1
<1>1. s \subseteq T /\ Cardinality(s) <= n
  BY DEF Small
<1>2. IsFiniteSet(s) /\ Cardinality(s) \in Nat /\ Cardinality(s) # 0
  BY <1>1, FS_Subset, FS_CardinalityType, FS_EmptySet
<1>3. Cardinality(s \ {x}) = Cardinality(s) - 1
  BY <1>2, FS_RemoveElement
<1>4. QED
  BY <1>1, <1>2, <1>3 DEF Small

LEMMA SumsOfSmallSets ==
  ASSUME NEW T, IsFiniteSet(T)
  PROVE  \A n \in Nat : \E g : SumsUp(g, Small(T, n))
<1> DEFINE Bad == {n \in Nat : ~\E g : SumsUp(g, Small(T, n))}
<1>1. SUFFICES ASSUME Bad # {} PROVE FALSE
  OBVIOUS
<1>2. PICK n \in Bad : \A k \in Bad : n <= k
  BY <1>1, LeastNumber
<1>3. n \in Nat /\ ~\E g : SumsUp(g, Small(T, n))
  OBVIOUS
<1>4. \A s \in Small(T, n) : s # {} => Chosen(s) \in s
  BY DEF Chosen
<1>5. CASE n = 0
  <2> DEFINE g == [s \in Small(T, n) |-> 0]
  <2>1. \A s \in Small(T, n) : s = {}
    BY <1>3, <1>4, <1>5, SmallerByOne
  <2>2. SumsUp(g, Small(T, n))
    BY <2>1 DEF SumsUp
  <2>3. QED
    BY <1>3, <2>2
<1>6. CASE n # 0
  <2>1. n - 1 \in Nat /\ ~(n <= n - 1)
    BY <1>3, <1>6
  <2>2. n - 1 \notin Bad
    BY <1>2, <2>1
  <2>3. PICK g : SumsUp(g, Small(T, n - 1))
    BY <2>1, <2>2
  <2> DEFINE f == [s \in Small(T, n) |->
                     IF s = {} THEN 0 ELSE Chosen(s).amount + g[s \ {Chosen(s)}]]
  <2>4. \A s \in Small(T, n) : s # {} => s \ {Chosen(s)} \in Small(T, n - 1)
    BY <1>3, <1>4, SmallerByOne
  <2>5. Small(T, n - 1) \subseteq Small(T, n)
    <3>1. \A s \in SUBSET T : Cardinality(s) \in Nat
      BY FS_Subset, FS_CardinalityType
    <3>2. QED
      BY <1>3, <3>1 DEF Small
  <2>6. \A s \in Small(T, n - 1) : f[s] = g[s]
    <3>1. \A s \in Small(T, n - 1) :
            g[s] = IF s = {} THEN 0 ELSE Chosen(s).amount + g[s \ {Chosen(s)}]
      BY <2>3 DEF SumsUp
    <3>2. QED
      BY <2>5, <3>1
  <2>7. f = [s \in Small(T, n) |->
               IF s = {} THEN 0 ELSE Chosen(s).amount + f[s \ {Chosen(s)}]]
    BY <2>4, <2>6
  <2>8. QED
    BY <1>3, <2>7 DEF SumsUp
<1>7. QED
  BY <1>5, <1>6

(* What g is for the sets of entries in T *)
AddsUp(g, T) ==
  \A s \in SUBSET T : g[s] = IF s = {} THEN 0 ELSE Chosen(s).amount + g[s \ {Chosen(s)}]

TakesOut(g, T) ==
  \A s \in SUBSET T : g[s] \in Int /\ \A x \in s : g[s] = x.amount + g[s \ {x}]

Summed(S0) == LET g == CHOOSE g : SumsUp(g, SUBSET S0) IN g[S0]

LEMMA OwedIsSum ==
  ASSUME NEW c PROVE D!Owed(c) = Summed(EntriesOf(c))
BY DEF D!Owed, D!MapThenSumSet, D!MapThenFoldSet, SumsUp, Chosen, EntriesOf, Summed

LEMMA SumUnfolds ==
  ASSUME NEW T, IsFiniteSet(T)
  PROVE  \E g : Summed(T) = g[T] /\ AddsUp(g, T)
<1> DEFINE sum == CHOOSE g : SumsUp(g, SUBSET T)
<1>1. Small(T, Cardinality(T)) = SUBSET T /\ Cardinality(T) \in Nat
  BY FS_Subset, FS_CardinalityType DEF Small
<1>2. \E g : SumsUp(g, SUBSET T)
  <2>1. \E g : SumsUp(g, Small(T, Cardinality(T)))
    BY <1>1, SumsOfSmallSets
  <2>2. QED
    BY <1>1, <2>1
<1>3. SumsUp(sum, SUBSET T)
  BY <1>2
<1>4. Summed(T) = sum[T]
  BY DEF Summed
<1> HIDE DEF sum
<1>5. AddsUp(sum, T)
  BY <1>3 DEF SumsUp, AddsUp
<1>6. QED
  BY <1>4, <1>5

(* Any entry may be taken out first. *)
LEMMA SumWithout ==
  ASSUME NEW T, IsFiniteSet(T), \A t \in T : t.amount \in Int,
         NEW g, AddsUp(g, T)
  PROVE  TakesOut(g, T)
<1> DEFINE Good(s) == g[s] \in Int /\ \A x \in s : g[s] = x.amount + g[s \ {x}]
           Bad == {n \in Nat : \E s \in SUBSET T : Cardinality(s) = n /\ ~Good(s)}
<1>1. \A s \in SUBSET T : IsFiniteSet(s) /\ Cardinality(s) \in Nat
  BY FS_Subset, FS_CardinalityType
<1>2. SUFFICES ASSUME Bad # {} PROVE FALSE
  BY <1>1 DEF TakesOut
<1>3. PICK n \in Bad : \A k \in Bad : n <= k
  BY <1>2, LeastNumber
<1>4. PICK s \in SUBSET T : Cardinality(s) = n /\ ~Good(s)
  OBVIOUS
<1>5. \A r \in SUBSET T : Cardinality(r) < n => Good(r)
  BY <1>1, <1>3
<1> HIDE DEF Bad
<1>6. s # {}
  <2>1. SUFFICES ASSUME s = {} PROVE FALSE
    OBVIOUS
  <2>2. g[s] = 0
    BY <2>1 DEF AddsUp
  <2>3. g[s] \in Int /\ \A x \in s : FALSE
    BY <2>1, <2>2
  <2>4. QED
    BY <1>4, <2>3
<1> DEFINE y == Chosen(s)
<1>7. y \in s /\ g[s] = y.amount + g[s \ {y}]
  BY <1>6 DEF Chosen, AddsUp
<1>8. \A x \in s : Cardinality(s \ {x}) = n - 1 /\ s \ {x} \in SUBSET T
  BY <1>1, <1>4, FS_RemoveElement
<1>9. n \in Nat /\ \A x \in s : Good(s \ {x})
  BY <1>1, <1>4, <1>5, <1>8
<1> HIDE DEF y
<1>10. y.amount \in Int /\ g[s \ {y}] \in Int
  BY <1>7, <1>9
<1>11. ASSUME NEW x \in s PROVE g[s] = x.amount + g[s \ {x}]
  <2>1. CASE x = y
    BY <1>7, <2>1
  <2>2. CASE x # y
    <3>1. x \in s \ {y} /\ y \in s \ {x}
      BY <1>7, <2>2
    <3>2. g[s \ {y}] = x.amount + g[(s \ {y}) \ {x}]
      BY <1>7, <1>9, <3>1
    <3>3. g[s \ {x}] = y.amount + g[(s \ {x}) \ {y}]
      BY <1>9, <3>1
    <3>4. (s \ {y}) \ {x} = (s \ {x}) \ {y}
      OBVIOUS
    <3>5. x.amount \in Int /\ g[(s \ {y}) \ {x}] \in Int
      <4> DEFINE r == (s \ {y}) \ {x}
      <4>1. r \in SUBSET T
        OBVIOUS
      <4>2. IsFiniteSet(s \ {y}) /\ Cardinality(s \ {y}) = n - 1
        BY <1>1, <1>7, <1>8
      <4>3. Cardinality(r) = n - 1 - 1
        <5>1. Cardinality((s \ {y}) \ {x}) = Cardinality(s \ {y}) - 1
          BY <3>1, <4>2, FS_RemoveElement
        <5>2. QED
          BY <4>2, <5>1
      <4>4. Good(r)
        <5>1. Cardinality(r) < n
          BY <1>9, <4>3
        <5> HIDE DEF r
        <5>2. QED
          BY <1>5, <4>1, <5>1
      <4>5. QED
        BY <4>4
    <3> DEFINE rest == g[(s \ {y}) \ {x}]
    <3>6. /\ g[s] = y.amount + g[s \ {y}] /\ g[s \ {y}] = x.amount + rest
          /\ g[s \ {x}] = y.amount + rest
      BY <1>7, <3>2, <3>3, <3>4
    <3>7. x.amount \in Int /\ y.amount \in Int /\ rest \in Int
      BY <1>10, <3>5
    <3> HIDE DEF rest
    <3>8. QED
      BY <3>6, <3>7
  <2>3. QED
    BY <2>1, <2>2
<1>12. g[s] \in Int
  BY <1>7, <1>10
<1>13. QED
  BY <1>4, <1>11, <1>12

LEMMA SumGoesThrough ==
  ASSUME NEW T, IsFiniteSet(T), \A t \in T : t.amount \in Int
  PROVE  \E g : Summed(T) = g[T] /\ AddsUp(g, T) /\ TakesOut(g, T)
<1>1. PICK g : Summed(T) = g[T] /\ AddsUp(g, T)
  BY SumUnfolds
<1>2. TakesOut(g, T)
  BY <1>1, SumWithout
<1>3. QED
  BY <1>1, <1>2

LEMMA SumOfNone == Summed({}) = 0
<1>1. IsFiniteSet({})
  BY FS_EmptySet
<1>2. PICK g : Summed({}) = g[{}] /\ AddsUp(g, {})
  BY <1>1, SumUnfolds
<1>3. QED
  BY <1>2 DEF AddsUp

LEMMA SumOfOneMore ==
  ASSUME NEW T, IsFiniteSet(T), NEW x, x \notin T, x.amount \in Int,
         \A t \in T : t.amount \in Int
  PROVE  Summed(T) \in Int /\ Summed(T \cup {x}) = Summed(T) + x.amount
<1> DEFINE U == T \cup {x}
<1>1. IsFiniteSet(U) /\ \A t \in U : t.amount \in Int
  BY FS_AddElement
<1> HIDE DEF U
<1>2. PICK g : Summed(T) = g[T] /\ AddsUp(g, T) /\ TakesOut(g, T)
  BY SumGoesThrough
<1>3. PICK h : Summed(U) = h[U] /\ AddsUp(h, U) /\ TakesOut(h, U)
  BY <1>1, SumGoesThrough
<1>5. h[U] = x.amount + h[T]
  <2>1. U \in SUBSET U /\ x \in U /\ U \ {x} = T
    BY DEF U
  <2>2. QED
    BY <1>3, <2>1 DEF TakesOut
<1> DEFINE Bad == {n \in Nat : \E s \in SUBSET T : Cardinality(s) = n /\ g[s] # h[s]}
<1>7. Bad = {}
  <2>1. SUFFICES ASSUME Bad # {} PROVE FALSE
    OBVIOUS
  <2>2. PICK n \in Bad : \A k \in Bad : n <= k
    BY <2>1, LeastNumber
  <2>3. PICK s \in SUBSET T : Cardinality(s) = n /\ g[s] # h[s]
    OBVIOUS
  <2>4. \A r \in SUBSET T : IsFiniteSet(r) /\ Cardinality(r) \in Nat
    BY FS_Subset, FS_CardinalityType
  <2>5. \A r \in SUBSET T : Cardinality(r) < n => g[r] = h[r]
    BY <2>2, <2>4
  <2> HIDE DEF Bad
  <2>6. s \in SUBSET U /\ s # {}
    BY <1>2, <1>3, <2>3 DEF U, AddsUp
  <2>7. Chosen(s) \in s
    BY <2>6 DEF Chosen
  <2>8. s \ {Chosen(s)} \in SUBSET T /\ Cardinality(s \ {Chosen(s)}) = n - 1 /\ n \in Nat
    BY <2>3, <2>4, <2>7, FS_RemoveElement
  <2>9. g[s \ {Chosen(s)}] = h[s \ {Chosen(s)}]
    BY <2>5, <2>8
  <2>10. QED
    BY <1>2, <1>3, <2>3, <2>6, <2>9 DEF AddsUp
<1>8. g[T] = h[T]
  <2>1. T \in SUBSET T /\ Cardinality(T) \in Nat
    BY FS_CardinalityType
  <2>2. QED
    BY <1>7, <2>1
<1>9. h[T] \in Int
  BY <1>3 DEF U, TakesOut
<1>10. QED
  BY <1>2, <1>3, <1>5, <1>8, <1>9 DEF U


-----------------------------------------------------------------------------
(* Items *)

LEMMA ListMembers ==
  ASSUME ClientsAssumption
  PROVE  /\ \A i \in DOMAIN Slots : Slots[i] \in D!DemoCustomers
         /\ \A i \in DOMAIN CourierIds : CourierIds[i] \in D!DemoCouriers
         /\ \A i \in DOMAIN D!CustomerUsers : D!CustomerUsers[i] \in D!AllCustomers
         /\ \A i \in DOMAIN D!DemoUsers : D!DemoUsers[i] \in D!AllCustomers \cup D!AllCouriers
         /\ \A i \in DOMAIN D!CouriersThereAre : D!CouriersThereAre[i] \in D!AllCouriers
<1>1. SeedFits
  BY DEF ClientsAssumption
<1>2. Slots \in Seq(STRING) /\ CourierIds \in Seq(STRING)
  BY <1>1 DEF SeedFits
<1>3. /\ \A i \in DOMAIN Slots : Slots[i] \in D!DemoCustomers
      /\ \A i \in DOMAIN CourierIds : CourierIds[i] \in D!DemoCouriers
  BY DEF D!DemoCustomers, D!DemoCouriers, D!Range
<1>4. /\ D!AllCustomers = {"individual", "corporate"} \cup D!DemoCustomers
      /\ D!AllCouriers = {"courier"} \cup D!DemoCouriers
  BY DEF D!AllCustomers, D!Samples, D!AllCouriers
<1>5. ASSUME NEW i \in DOMAIN D!CustomerUsers PROVE D!CustomerUsers[i] \in D!AllCustomers
  <2>1. i = 1 \/ i = 2 \/ i - 2 \in DOMAIN Slots
    BY <1>2 DEF D!CustomerUsers
  <2>2. CASE i - 2 \in DOMAIN Slots
    <3>1. D!CustomerUsers[i] = Slots[i - 2]
      BY <1>2, <2>2 DEF D!CustomerUsers
    <3>2. QED
      BY <1>3, <1>4, <2>2, <3>1
  <2>3. CASE i = 1 \/ i = 2
    <3>1. D!CustomerUsers[i] \in {"corporate", "individual"}
      BY <1>2, <2>3 DEF D!CustomerUsers
    <3>2. QED
      BY <1>4, <3>1
  <2>4. QED
    BY <2>1, <2>2, <2>3
<1>6. ASSUME NEW i \in DOMAIN D!DemoUsers
      PROVE  D!DemoUsers[i] \in D!AllCustomers \cup D!AllCouriers
  <2>1. i \in DOMAIN CourierIds \/ i - Len(CourierIds) \in DOMAIN Slots
    BY <1>2 DEF D!DemoUsers
  <2>2. CASE i \in DOMAIN CourierIds
    <3>1. D!DemoUsers[i] = CourierIds[i]
      BY <1>2, <2>2 DEF D!DemoUsers
    <3>2. QED
      BY <1>3, <1>4, <2>2, <3>1
  <2>3. CASE i - Len(CourierIds) \in DOMAIN Slots
    <3>1. D!DemoUsers[i] = Slots[i - Len(CourierIds)]
      BY <1>2, <2>3 DEF D!DemoUsers
    <3>2. QED
      BY <1>3, <1>4, <2>3, <3>1
  <2>4. QED
    BY <2>1, <2>2, <2>3
<1>7. ASSUME NEW i \in DOMAIN D!CouriersThereAre PROVE D!CouriersThereAre[i] \in D!AllCouriers
  <2>1. i = 1 \/ i - 1 \in DOMAIN CourierIds
    BY <1>2 DEF D!CouriersThereAre
  <2>2. CASE i - 1 \in DOMAIN CourierIds
    <3>1. D!CouriersThereAre[i] = CourierIds[i - 1]
      BY <1>2, <2>2 DEF D!CouriersThereAre
    <3>2. QED
      BY <1>3, <1>4, <2>2, <3>1
  <2>3. CASE i = 1
    <3>1. D!CouriersThereAre[i] = "courier"
      BY <1>2, <2>3 DEF D!CouriersThereAre
    <3>2. QED
      BY <1>4, <3>1
  <2>4. QED
    BY <2>1, <2>2, <2>3
<1>8. QED
  BY <1>3, <1>5, <1>6, <1>7

(* The samples and the demo customers are not the same people. *)
LEMMA SamplesAreNoDemo ==
  ASSUME ClientsAssumption PROVE D!Samples \cap D!DemoCustomers = {}
BY DEF ClientsAssumption, SeedFits, D!Samples, D!DemoCustomers, D!Range

LEMMA ExtraParts ==
  ASSUME ClientsAssumption, NEW i \in DOMAIN Extras
  PROVE  /\ Extras[i].customer \in D!DemoCustomers /\ Extras[i].amount \in Int
         /\ D!AmountOf(Extras[i]) = Extras[i].amount
<1> DEFINE Extra == [customer : {Slots[j] : j \in DOMAIN Slots}, amount : Int]
<1>1. Extras \in Seq(Extra)
  BY DEF ClientsAssumption, SeedFits
<1> HIDE DEF Extra
<1>2. Extras[i] \in Extra
  BY <1>1
<1>3. Extras[i] \in [customer : {Slots[j] : j \in DOMAIN Slots}, amount : Int]
  BY <1>2 DEF Extra
<1>4. DOMAIN Extras[i] = {"customer", "amount"}
  BY <1>3
<1>5. QED
  BY <1>3, <1>4 DEF D!DemoCustomers, D!Range, D!AmountOf

LEMMA DemoOrderAmount ==
  ASSUME ClientsAssumption, NEW i \in DOMAIN D!DemoOrders
  PROVE  D!AmountOf(D!DemoOrders[i]) = D!DemoOrders[i].price
<1>1. "price" \in DOMAIN D!DemoOrders[i]
  BY DemoOrderParts
<1>2. QED
  BY <1>1 DEF D!AmountOf

LEMMA SampleParts ==
  ASSUME ClientsAssumption, NEW c \in D!Samples
  PROVE  LET o == D!SampleOrder[c] IN
         /\ o = [customer |-> c, status |-> o.status, price |-> o.price, courier |-> o.courier]
         /\ o.status \in Statuses /\ o.price \in Int
         /\ o.courier \in D!AllCouriers \cup {NoCourier}
BY DEF D!Samples, D!SampleOrder, Statuses, D!AllCouriers

(* Whom a statement is about *)
LEMMA WhoNow ==
  ASSUME ClientsAssumption, InScript
  PROVE  /\ D!Now("user") => D!who \in D!AllCustomers \cup D!AllCouriers
         /\ D!Now("courier") => D!who \in D!AllCouriers
         /\ D!Now("newCard") \/ D!Now("newAccount") => D!who \in D!AllCustomers
         /\ D!Now("card") \/ D!Now("account") => D!who \in D!DemoCustomers
         /\ D!Now("order") => \E i \in DOMAIN D!DemoOrders :
                                place.item = i /\ D!who = D!DemoOrders[i]
         /\ D!Now("tx") \/ D!Now("increment") =>
              /\ D!who.customer \in D!DemoCustomers /\ D!AmountOf(D!who) \in Int
         /\ D!Now("sample") \/ D!Now("sampleTx") \/ D!Now("sampleIncrement")
              \/ D!Now("sampleEarning") => D!who \in D!Samples
         /\ D!Now("count") => D!who \in D!AllCouriers
<1> DEFINE s == D!Script
<1>1. \A l \in 1 .. 15 : \A k : At(l, k) =>
        \E i \in DOMAIN s[l].list : place.item = i /\ D!who = s[l].list[i]
  BY ItemNow DEF D!Line
<1>2. ASSUME D!Now("user") PROVE D!who \in D!AllCustomers \cup D!AllCouriers
  <2>1. CASE At(1, 1)
    <3>1. \E i \in DOMAIN s[1].list : D!who = s[1].list[i]
      BY <1>1, <2>1
    <3>2. s[1].list = <<"courier", "corporate", "individual">>
      BY ListsOf
    <3>3. D!who \in {"courier", "corporate", "individual"}
      BY <3>1, <3>2
    <3>4. QED
      BY <3>3 DEF D!AllCustomers, D!Samples, D!AllCouriers
  <2>2. CASE At(4, 1)
    BY <1>1, <2>2, ListsOf, ListMembers
  <2>3. QED
    BY <1>2, <2>1, <2>2, WhereNow
<1>3. ASSUME D!Now("courier") PROVE D!who \in D!AllCouriers
  <2>1. CASE At(2, 1)
    <3>1. \E i \in DOMAIN s[2].list : D!who = s[2].list[i]
      BY <1>1, <2>1
    <3>2. s[2].list = <<"courier">>
      BY ListsOf
    <3>3. QED
      BY <3>1, <3>2 DEF D!AllCouriers
  <2>2. CASE At(5, 1)
    BY <1>1, <2>2, ListsOf, ListMembers DEF D!AllCouriers
  <2>3. QED
    BY <1>3, <2>1, <2>2, WhereNow
<1>4. D!Now("newCard") \/ D!Now("newAccount") => D!who \in D!AllCustomers
  BY <1>1, WhereNow, ListsOf, ListMembers
<1>5. D!Now("card") \/ D!Now("account") => D!who \in D!DemoCustomers
  BY <1>1, WhereNow, ListsOf, ListMembers
<1>6. D!Now("order") => \E i \in DOMAIN D!DemoOrders :
                          place.item = i /\ D!who = D!DemoOrders[i]
  BY <1>1, WhereNow, ListsOf
<1>7. ASSUME D!Now("tx") \/ D!Now("increment")
      PROVE  D!who.customer \in D!DemoCustomers /\ D!AmountOf(D!who) \in Int
  <2>1. At(9, 2) \/ At(9, 3) => \E i \in DOMAIN D!DemoOrders : D!who = D!DemoOrders[i]
    BY <1>1, ListsOf
  <2>2. At(10, 1) \/ At(10, 2) => \E i \in DOMAIN Extras : D!who = Extras[i]
    BY <1>1, ListsOf
  <2>3. \A i \in DOMAIN D!DemoOrders : /\ D!DemoOrders[i].customer \in D!DemoCustomers
                                       /\ D!AmountOf(D!DemoOrders[i]) \in Int
    BY DemoOrderParts, DemoOrderAmount
  <2>4. \A i \in DOMAIN Extras : /\ Extras[i].customer \in D!DemoCustomers
                                 /\ D!AmountOf(Extras[i]) \in Int
    BY ExtraParts
  <2>5. At(9, 2) \/ At(9, 3) \/ At(10, 1) \/ At(10, 2)
    BY <1>7, WhereNow
  <2>6. QED
    BY <2>1, <2>2, <2>3, <2>4, <2>5
<1>8. ASSUME \/ D!Now("sample") \/ D!Now("sampleTx") \/ D!Now("sampleIncrement")
             \/ D!Now("sampleEarning")
      PROVE  D!who \in D!Samples
  <2>1. place.loop = 12 \/ place.loop = 13
    BY <1>8, WhereNow DEF At
  <2>2. \E i \in DOMAIN s[place.loop].list : D!who = s[place.loop].list[i]
    BY <1>1, <2>1 DEF At
  <2>3. s[12].list = <<"individual">> /\ s[13].list = <<"corporate">>
    BY ListsOf
  <2>4. D!who \in {"individual", "corporate"}
    BY <2>1, <2>2, <2>3
  <2>5. QED
    BY <2>4 DEF D!Samples
<1>9. D!Now("count") => D!who \in D!AllCouriers
  BY <1>1, WhereNow, ListsOf, ListMembers
<1>10. QED
  BY <1>2, <1>3, <1>4, <1>5, <1>6, <1>7, <1>8, <1>9


-----------------------------------------------------------------------------
(* Types *)

LEMMA RunningIsSomewhere ==
  ASSUME InScript, D!Running, ~D!Now("end")
  PROVE  \E l \in 1 .. 14 : \E i \in DOMAIN D!Script[l].list, k \in DOMAIN D!Script[l].ops :
           place = D!Line(l, i, k)
<1>1. PICK l \in 1 .. 15 : \E i \in DOMAIN D!Script[l].list, k \in DOMAIN D!Script[l].ops :
             place = D!Line(l, i, k)
  BY DEF InScript, D!Running, D!Nowhere
<1>2. l # 15
  <2>1. SUFFICES ASSUME l = 15 PROVE FALSE
    OBVIOUS
  <2>2. PICK k \in DOMAIN D!Script[15].ops : place.loop = 15 /\ place.step = k
    BY <1>1, <2>1 DEF D!Line
  <2>3. D!Script[15].ops = <<"end">>
    BY OpsOf
  <2>4. D!Script[15].ops[k] = "end"
    BY <2>2, <2>3
  <2>5. QED
    BY <2>2, <2>4 DEF D!Now, D!Here
<1>3. l \in 1 .. 14
  BY <1>2
<1>4. QED
  BY <1>1, <1>3

LEMMA StartIsInScript ==
  ASSUME ClientsAssumption
  PROVE  1 \in DOMAIN D!Script[1].list /\ 1 \in DOMAIN D!Script[1].ops
<1>1. 1 \in 1 .. 15
  OBVIOUS
<1>2. QED
  BY <1>1, ListsOf, OpsOf

(* Whatever a statement does, the script goes to its next line, ends or    *)
(* stops.                                                                  *)
LEMMA InScriptStep ==
  ASSUME ClientsAssumption, InScript, D!Next \/ UNCHANGED D!vars
  PROVE  InScript'
<1>1. ASSUME D!Running, ~D!Now("end"), D!NextLine PROVE InScript'
  BY <1>1, RunningIsSomewhere, LineMoves
<1>2. ASSUME place' = D!Nowhere PROVE InScript'
  BY <1>2 DEF InScript
<1>3. ASSUME place' = D!Line(1, 1, 1) PROVE InScript'
  BY <1>3, StartIsInScript DEF InScript
<1>4. ASSUME UNCHANGED place PROVE InScript'
  BY <1>4 DEF InScript
<1>5. ~(D!Now("end") /\ \/ D!Now("user") \/ D!Now("courier") \/ D!Now("newCard")
                        \/ D!Now("newAccount") \/ D!Now("card") \/ D!Now("account")
                        \/ D!Now("wipeOrders") \/ D!Now("wipeLedger") \/ D!Now("wipeBalance")
                        \/ D!Now("order") \/ D!Now("tx") \/ D!Now("increment")
                        \/ D!Now("look") \/ D!Now("sample") \/ D!Now("sampleTx")
                        \/ D!Now("sampleIncrement") \/ D!Now("sampleEarning")
                        \/ D!Now("count"))
  BY DEF D!Now
<1>6. \A op : D!Now(op) => D!Running
  BY DEF D!Now
<1>7. CASE \/ D!UpsertUser \/ D!UpsertCourier \/ D!CreateCard \/ D!CreateAccount
           \/ D!UpsertCard \/ D!UpsertAccount
  BY <1>1, <1>5, <1>6, <1>7 DEF D!UpsertUser, D!UpsertCourier, D!CreateCard, D!CreateAccount,
                               D!UpsertCard, D!UpsertAccount
<1>8. CASE \/ D!WipeOrders \/ D!WipeLedger \/ D!WipeBalance \/ D!CreateDemoOrder \/ D!CreateTx
           \/ D!IncrementBalance
  BY <1>1, <1>5, <1>6, <1>8 DEF D!WipeOrders, D!WipeLedger, D!WipeBalance,
                               D!CreateDemoOrder, D!CreateTx, D!IncrementBalance
<1>9. CASE \/ D!LookForSamples \/ D!CreateSample \/ D!CreateSampleTx \/ D!CreateSampleEarning
           \/ D!CountDeliveries
  BY <1>1, <1>5, <1>6, <1>9 DEF D!LookForSamples, D!CreateSample, D!CreateSampleTx,
                               D!CreateSampleEarning, D!CountDeliveries
<1>10. CASE D!IncrementSample
  <2>1. D!NextLine \/ D!Stop
    BY <1>10 DEF D!IncrementSample
  <2>2. D!Now("sampleIncrement")
    BY <1>10 DEF D!IncrementSample
  <2>3. QED
    BY <1>1, <1>2, <1>5, <1>6, <2>1, <2>2 DEF D!Stop
<1>11. CASE D!Interrupted \/ D!End \/ D!Start
  BY <1>2, <1>3, <1>11 DEF D!Interrupted, D!Stop, D!End, D!Start
<1>12. CASE \/ \E o \in orders, k \in D!AllCouriers : D!OrderDelivered(o, k)
            \/ \E c \in D!AllCustomers : D!OrderCreated(c)
            \/ \E c \in D!DemoCustomers : D!EmailEdited(c)
  BY <1>4, <1>12 DEF D!OrderDelivered, D!OrderCreated, D!EmailEdited, D!Use
<1>13. CASE UNCHANGED D!vars
  BY <1>4, <1>13 DEF D!vars
<1>14. QED
  BY <1>7, <1>8, <1>9, <1>10, <1>11, <1>12, <1>13 DEF D!Next

LEMMA OrderRowAdded ==
  ASSUME SeedTyped, NEW o \in DemoOrder,
         orders' = orders \cup {o}
  PROVE  /\ IsFiniteSet(orders') /\ orders' \subseteq DemoOrder
         /\ {x.id : x \in orders} \subseteq {x.id : x \in orders'}
<1>1. IsFiniteSet(orders')
  BY FS_AddElement DEF SeedTyped
<1>2. QED
  BY <1>1 DEF SeedTyped

LEMMA EntryRowAdded ==
  ASSUME SeedTyped, NEW c \in D!AllCustomers, NEW amount \in Int,
         ledger' = D!With(ledger, D!Entry(c, amount))
  PROVE  IsFiniteSet(ledger') /\ ledger' \subseteq DemoEntry
<1> DEFINE t == [id |-> D!FreshId(ledger), customer |-> c, amount |-> amount]
<1>1. ledger' = ledger \cup {t}
  BY EntryAdded
<1>2. D!FreshId(ledger) \in Nat
  BY FreshIdIsNew DEF SeedTyped
<1>3. t \in DemoEntry
  BY <1>2 DEF DemoEntry
<1> HIDE DEF t
<1>4. IsFiniteSet(ledger')
  BY <1>1, FS_AddElement DEF SeedTyped
<1>5. QED
  BY <1>1, <1>3, <1>4 DEF SeedTyped

(* The row an order becomes *)
Row(c, s, p, k) == [id |-> D!FreshId(orders), customer |-> c, status |-> s, price |-> p,
                    courier |-> k]

LEMMA RowTyped ==
  ASSUME SeedTyped, NEW c \in D!AllCustomers, NEW s \in Statuses, NEW p \in Int,
         NEW k \in D!AllCouriers \cup {NoCourier}
  PROVE  Row(c, s, p, k) \in DemoOrder
<1>1. D!FreshId(orders) \in Nat
  BY FreshIdIsNew DEF SeedTyped
<1>2. QED
  BY <1>1 DEF Row, DemoOrder

LEMMA AccountOpened ==
  ASSUME SeedTyped, NEW c \in D!AllCustomers, D!OpenAccount(c)
  PROVE  /\ balance' \in [DOMAIN balance' -> Int] /\ DOMAIN balance' = DOMAIN balance \cup {c}
         /\ \A x \in DOMAIN balance : balance'[x] = balance[x]
         /\ c \notin DOMAIN balance => balance'[c] = 0
BY DEF D!OpenAccount, SeedTyped

LEMMA IncrementTyped ==
  ASSUME SeedTyped, NEW c, NEW amount \in Int,
         balance' = [balance EXCEPT ![c] = @ + amount]
  PROVE  /\ balance' \in [DOMAIN balance' -> Int] /\ DOMAIN balance' = DOMAIN balance
         /\ \A x \in DOMAIN balance : x # c => balance'[x] = balance[x]
         /\ c \in DOMAIN balance => balance'[c] = balance[c] + amount
<1> DEFINE d == DOMAIN balance
<1>1. balance \in [d -> Int]
  BY DEF SeedTyped
<1>2. DOMAIN balance' = d
  BY <1>1
<1>3. \A x \in d : balance'[x] = IF x = c THEN balance[c] + amount ELSE balance[x]
  BY <1>1
<1>4. \A x \in d : balance[x] \in Int
  BY <1>1
<1>5. balance' = [x \in d |-> balance'[x]]
  BY <1>1
<1> HIDE DEF d
<1>6. \A x \in d : balance'[x] \in Int
  BY <1>3, <1>4
<1>7. balance' \in [d -> Int]
  BY <1>5, <1>6
<1>8. QED
  BY <1>2, <1>3, <1>7 DEF d

LEMMA SeedTypedInit == ClientsAssumption /\ D!Init => SeedTyped
<1> SUFFICES ASSUME D!Init PROVE SeedTyped
  OBVIOUS
<1>1. InScript
  BY DEF D!Init, InScript
<1>2. IsFiniteSet({})
  BY FS_EmptySet
<1>3. QED
  BY <1>1, <1>2 DEF D!Init, SeedTyped

LEMMA SeedTypedStep ==
  ASSUME ClientsAssumption, SeedTyped, D!Next \/ UNCHANGED D!vars
  PROVE  SeedTyped'
<1> USE ClientsAssumption
<1>1. InScript /\ InScript'
  BY InScriptStep DEF SeedTyped
<1>2. D!DemoCustomers \subseteq D!AllCustomers /\ D!Samples \subseteq D!AllCustomers
  BY DEF D!AllCustomers
<1>3. /\ users \subseteq D!AllCustomers \cup D!AllCouriers /\ couriers \subseteq D!AllCouriers
      /\ cards \subseteq D!AllCustomers
      /\ balance \in [DOMAIN balance -> Int] /\ DOMAIN balance \subseteq D!AllCustomers
      /\ IsFiniteSet(orders) /\ orders \subseteq DemoOrder
      /\ IsFiniteSet(ledger) /\ ledger \subseteq DemoEntry
      /\ earnings \subseteq {o.id : o \in orders}
      /\ counts \in [D!AllCouriers -> Nat]
      /\ fresh \subseteq D!Samples \cup D!AllCustomers
  BY DEF SeedTyped
<1>4. CASE D!UpsertUser
  BY <1>1, <1>3, <1>4, WhoNow DEF SeedTyped, D!UpsertUser, D!commerce
<1>5. CASE D!UpsertCourier
  BY <1>1, <1>3, <1>5, WhoNow DEF SeedTyped, D!UpsertCourier, D!commerce
<1>6. CASE D!CreateCard
  BY <1>1, <1>3, <1>6, WhoNow DEF SeedTyped, D!CreateCard, D!commerce
<1>7. CASE D!CreateAccount
  <2>1. D!who \in D!AllCustomers
    BY <1>1, <1>7, WhoNow DEF D!CreateAccount
  <2>2. balance' \in [DOMAIN balance' -> Int] /\ DOMAIN balance' \subseteq D!AllCustomers
    BY <1>3, <1>7, <2>1, AccountOpened DEF D!CreateAccount
  <2>3. QED
    BY <1>1, <1>3, <1>7, <2>2 DEF SeedTyped, D!CreateAccount, D!people
<1>8. CASE D!UpsertCard
  BY <1>1, <1>2, <1>3, <1>8, WhoNow DEF SeedTyped, D!UpsertCard, D!commerce
<1>9. CASE D!UpsertAccount
  <2>1. D!who \in D!AllCustomers
    BY <1>1, <1>2, <1>9, WhoNow DEF D!UpsertAccount
  <2>2. balance' \in [DOMAIN balance' -> Int] /\ DOMAIN balance' \subseteq D!AllCustomers
    BY <1>3, <1>9, <2>1, AccountOpened DEF D!UpsertAccount
  <2>3. QED
    BY <1>1, <1>3, <1>9, <2>2 DEF SeedTyped, D!UpsertAccount, D!people
<1>10. CASE D!WipeOrders
  <2>1. orders' \in SUBSET orders /\ earnings' \subseteq {o.id : o \in orders'}
    BY <1>10 DEF D!WipeOrders
  <2>2. IsFiniteSet(orders') /\ orders' \subseteq DemoOrder
    BY <1>3, <2>1, FS_Subset
  <2>3. QED
    BY <1>1, <1>3, <1>10, <2>1, <2>2 DEF SeedTyped, D!WipeOrders, D!people
<1>11. CASE D!WipeLedger
  <2>1. ledger' \in SUBSET ledger
    BY <1>11 DEF D!WipeLedger
  <2>2. IsFiniteSet(ledger') /\ ledger' \subseteq DemoEntry
    BY <1>3, <2>1, FS_Subset
  <2>3. QED
    BY <1>1, <1>3, <1>11, <2>2 DEF SeedTyped, D!WipeLedger, D!people
<1>12. CASE D!WipeBalance
  <2>1. balance' \in [DOMAIN balance -> Int] /\ DOMAIN balance' = DOMAIN balance
    BY <1>3, <1>12 DEF D!WipeBalance
  <2>2. QED
    BY <1>1, <1>3, <1>12, <2>1 DEF SeedTyped, D!WipeBalance, D!people
<1>13. ASSUME NEW o \in DemoOrder, orders' = orders \cup {o},
              UNCHANGED <<users, couriers, cards, balance, counts, fresh, earnings>>,
              IsFiniteSet(ledger'), ledger' \subseteq DemoEntry
       PROVE  SeedTyped'
  <2>1. /\ IsFiniteSet(orders') /\ orders' \subseteq DemoOrder
        /\ earnings' \subseteq {x.id : x \in orders'}
    BY <1>3, <1>13, OrderRowAdded
  <2>2. QED
    BY <1>1, <1>3, <1>13, <2>1 DEF SeedTyped
<1>14. CASE D!CreateDemoOrder
  <2>1. PICK i \in DOMAIN D!DemoOrders : D!who = D!DemoOrders[i]
    BY <1>1, <1>14, WhoNow DEF D!CreateDemoOrder
  <2> DEFINE q == D!DemoOrders[i]
             o == Row(q.customer, q.status, q.price, q.courier)
  <2>2. /\ q = [customer |-> q.customer, status |-> q.status, price |-> q.price,
                courier |-> q.courier]
        /\ q.customer \in D!AllCustomers /\ q.status \in Statuses /\ q.price \in Int
        /\ q.courier \in D!AllCouriers \cup {NoCourier}
    BY <1>2, DemoOrderParts
  <2>3. o \in DemoOrder
    BY <2>2, RowTyped
  <2>4. orders' = D!With(orders, q)
    BY <1>14, <2>1 DEF D!CreateDemoOrder
  <2> HIDE DEF q
  <2>5. orders' = orders \cup {o}
    BY <2>2, <2>4, OrderAdded DEF Row
  <2> HIDE DEF o
  <2>6. QED
    BY <1>3, <1>13, <1>14, <2>3, <2>5 DEF D!CreateDemoOrder, D!people
<1>15. CASE D!CreateTx
  <2>1. D!who.customer \in D!AllCustomers /\ D!AmountOf(D!who) \in Int
    BY <1>1, <1>2, <1>15, WhoNow DEF D!CreateTx
  <2>2. IsFiniteSet(ledger') /\ ledger' \subseteq DemoEntry
    BY <1>15, <2>1, EntryRowAdded DEF D!CreateTx
  <2>3. QED
    BY <1>1, <1>3, <1>15, <2>2 DEF SeedTyped, D!CreateTx, D!people
<1>16. CASE D!IncrementBalance
  <2>1. D!AmountOf(D!who) \in Int
    BY <1>1, <1>16, WhoNow DEF D!IncrementBalance
  <2>2. balance' \in [DOMAIN balance' -> Int] /\ DOMAIN balance' = DOMAIN balance
    BY <1>16, <2>1, IncrementTyped DEF D!IncrementBalance
  <2>3. QED
    BY <1>1, <1>3, <1>16, <2>2 DEF SeedTyped, D!IncrementBalance, D!people
<1>17. CASE D!LookForSamples
  BY <1>1, <1>3, <1>17 DEF SeedTyped, D!LookForSamples, D!people, D!commerce
<1>18. CASE D!CreateSample
  <2>1. D!who \in D!Samples
    BY <1>1, <1>18, WhoNow DEF D!CreateSample
  <2>2. CASE D!who \in fresh
    <3> DEFINE q == D!SampleOrder[D!who]
               o == Row(D!who, q.status, q.price, q.courier)
    <3>1. /\ q = [customer |-> D!who, status |-> q.status, price |-> q.price,
                  courier |-> q.courier]
          /\ q.status \in Statuses /\ q.price \in Int
          /\ q.courier \in D!AllCouriers \cup {NoCourier}
      BY <2>1, SampleParts
    <3>2. D!who \in D!AllCustomers
      BY <1>2, <2>1
    <3>3. orders' = D!With(orders, q)
      BY <1>18, <2>2 DEF D!CreateSample
    <3> HIDE DEF q
    <3>4. o \in DemoOrder
      BY <3>1, <3>2, RowTyped
    <3>5. orders' = orders \cup {o}
      BY <3>1, <3>3, OrderAdded DEF Row
    <3> HIDE DEF o
    <3>6. QED
      BY <1>3, <1>13, <1>18, <3>4, <3>5 DEF D!CreateSample, D!people
  <2>3. CASE D!who \notin fresh
    BY <1>1, <1>3, <1>18, <2>3 DEF SeedTyped, D!CreateSample, D!people
  <2>4. QED
    BY <2>2, <2>3
<1>19. CASE D!CreateSampleTx
  <2>1. D!who \in D!Samples /\ D!SampleOrder[D!who].price \in Int
    BY <1>1, <1>19, WhoNow, SampleParts DEF D!CreateSampleTx
  <2>2. IsFiniteSet(ledger') /\ ledger' \subseteq DemoEntry
    BY <1>2, <1>3, <1>19, <2>1, EntryRowAdded DEF D!CreateSampleTx
  <2>3. QED
    BY <1>1, <1>3, <1>19, <2>2 DEF SeedTyped, D!CreateSampleTx, D!people
<1>20. CASE D!Stop
  BY <1>1, <1>3, <1>20 DEF SeedTyped, D!Stop, D!people, D!commerce
<1>21. CASE D!IncrementSample
  <2>1. D!who \in D!Samples /\ D!SampleOrder[D!who].price \in Int
    BY <1>1, <1>21, WhoNow, SampleParts DEF D!IncrementSample
  <2>2. CASE ~D!Stop
    <3>1. balance' \in [DOMAIN balance' -> Int] /\ DOMAIN balance' = DOMAIN balance
      BY <1>3, <1>21, <2>1, <2>2, IncrementTyped DEF D!IncrementSample
    <3>2. QED
      BY <1>1, <1>3, <1>21, <2>2, <3>1 DEF SeedTyped, D!IncrementSample, D!people
  <2>3. QED
    BY <1>20, <2>2
<1>22. CASE D!CreateSampleEarning
  <2>1. {o.id : o \in D!SamplesOf(D!who)} \subseteq {o.id : o \in orders}
    BY DEF D!SamplesOf
  <2>2. earnings' \subseteq {o.id : o \in orders}
    BY <1>3, <1>22, <2>1 DEF D!CreateSampleEarning
  <2>3. QED
    BY <1>1, <1>3, <1>22, <2>2 DEF SeedTyped, D!CreateSampleEarning, D!people
<1>23. CASE D!CountDeliveries
  <2>1. D!Delivered(D!who) \in SUBSET orders
    BY DEF D!Delivered
  <2>2. D!Cardinality(D!Delivered(D!who)) \in Nat
    BY <1>3, <2>1, CardinalityIsSame, FS_Subset, FS_CardinalityType
  <2>3. counts' \in [D!AllCouriers -> Nat]
    BY <1>3, <1>23, <2>2 DEF D!CountDeliveries
  <2>4. QED
    BY <1>1, <1>3, <1>23, <2>3 DEF SeedTyped, D!CountDeliveries, D!people
<1>24. CASE D!Start
  BY <1>1, <1>3, <1>24 DEF SeedTyped, D!Start, D!people, D!commerce
<1>25. CASE D!End
  BY <1>1, <1>3, <1>25 DEF SeedTyped, D!End, D!people, D!commerce
<1>26. ASSUME NEW o \in orders, NEW k \in D!AllCouriers, D!OrderDelivered(o, k)
       PROVE  SeedTyped'
  <2> DEFINE q == [o EXCEPT !.status = "DELIVERED", !.courier = k]
  <2>1. o \in DemoOrder
    BY <1>3
  <2>2. q \in DemoOrder /\ q.id = o.id
    BY <2>1 DEF DemoOrder, Statuses
  <2>3. orders' = (orders \ {o}) \cup {q} /\ earnings' = earnings \cup {o.id}
    BY <1>26 DEF D!OrderDelivered
  <2> HIDE DEF q
  <2>4. IsFiniteSet(orders')
    BY <1>3, <2>3, FS_RemoveElement, FS_AddElement
  <2>5. orders' \subseteq DemoOrder /\ earnings' \subseteq {x.id : x \in orders'}
    <3>1. \A x \in orders : x.id \in {y.id : y \in orders'}
      <4>1. ASSUME NEW x \in orders PROVE \E y \in orders' : y.id = x.id
        BY <2>2, <2>3
      <4>2. QED
        BY <4>1
    <3>2. earnings' \subseteq {x.id : x \in orders'}
      BY <1>3, <2>3, <3>1
    <3>3. QED
      BY <1>3, <2>2, <2>3, <3>2
  <2>6. counts' \in [D!AllCouriers -> Nat]
    BY <1>3, <1>26 DEF D!OrderDelivered
  <2>7. QED
    BY <1>1, <1>3, <1>26, <2>4, <2>5, <2>6 DEF SeedTyped, D!OrderDelivered, D!Use
<1>27. ASSUME NEW c \in D!AllCustomers, D!OrderCreated(c) PROVE SeedTyped'
  <2> DEFINE o == Row(c, "SEARCHING_COURIER", 1, NoCourier)
  <2>1. o \in DemoOrder
    <3>1. "SEARCHING_COURIER" \in Statuses /\ 1 \in Int /\ NoCourier \in D!AllCouriers \cup {NoCourier}
      BY DEF Statuses
    <3>2. QED
      BY <3>1, RowTyped
  <2>2. orders' = orders \cup {o}
    BY <1>27, OrderAdded DEF D!OrderCreated, Row
  <2> HIDE DEF o
  <2>3. IsFiniteSet(ledger') /\ ledger' \subseteq DemoEntry
    BY <1>27, EntryRowAdded DEF D!OrderCreated
  <2>4. balance' \in [DOMAIN balance' -> Int] /\ DOMAIN balance' = DOMAIN balance
    <3>1. balance' = [balance EXCEPT ![c] = @ + 1] /\ 1 \in Int
      BY <1>27 DEF D!OrderCreated
    <3>2. QED
      BY <3>1, IncrementTyped
  <2>5. /\ IsFiniteSet(orders') /\ orders' \subseteq DemoOrder
        /\ earnings' \subseteq {x.id : x \in orders'}
    BY <1>3, <1>27, <2>1, <2>2, OrderRowAdded DEF D!OrderCreated
  <2>6. QED
    BY <1>1, <1>3, <1>27, <2>3, <2>4, <2>5 DEF SeedTyped, D!OrderCreated, D!Use
<1>28. ASSUME NEW c \in D!DemoCustomers, D!EmailEdited(c) PROVE SeedTyped'
  BY <1>1, <1>3, <1>28 DEF SeedTyped, D!EmailEdited, D!Use, D!commerce
<1>29. CASE UNCHANGED D!vars
  BY <1>1, <1>3, <1>29 DEF SeedTyped, D!vars, D!people, D!commerce
<1>30. CASE D!Interrupted
  BY <1>20, <1>30 DEF D!Interrupted
<1>31. QED
  BY <1>4, <1>5, <1>6, <1>7, <1>8, <1>9, <1>10, <1>11, <1>12, <1>14, <1>15, <1>16, <1>17,
     <1>18, <1>19, <1>21, <1>22, <1>23, <1>24, <1>25, <1>26, <1>27, <1>28, <1>29, <1>30
     DEF D!Next


-----------------------------------------------------------------------------
(* From line to line *)

LEMMA OpsLengths ==
  LET s == D!Script IN
  /\ Len(s[1].ops) = 1 /\ Len(s[2].ops) = 1 /\ Len(s[3].ops) = 2 /\ Len(s[4].ops) = 1
  /\ Len(s[5].ops) = 1 /\ Len(s[6].ops) = 1 /\ Len(s[7].ops) = 1 /\ Len(s[8].ops) = 3
  /\ Len(s[9].ops) = 3 /\ Len(s[10].ops) = 2 /\ Len(s[11].ops) = 1 /\ Len(s[12].ops) = 4
  /\ Len(s[13].ops) = 3 /\ Len(s[14].ops) = 1
<1> DEFINE s == D!Script
<1>1. \A a, b, c, d : /\ Len(<<a>>) = 1 /\ Len(<<a, b>>) = 2 /\ Len(<<a, b, c>>) = 3
                      /\ Len(<<a, b, c, d>>) = 4
  OBVIOUS
<1>2. /\ Len(s[1].ops) = 1 /\ Len(s[2].ops) = 1 /\ Len(s[3].ops) = 2 /\ Len(s[4].ops) = 1
      /\ Len(s[5].ops) = 1 /\ Len(s[6].ops) = 1 /\ Len(s[7].ops) = 1
  BY OpsOf
<1>3. /\ Len(s[8].ops) = 3 /\ Len(s[9].ops) = 3 /\ Len(s[10].ops) = 2 /\ Len(s[11].ops) = 1
      /\ Len(s[12].ops) = 4 /\ Len(s[13].ops) = 3 /\ Len(s[14].ops) = 1
  BY OpsOf
<1>4. QED
  BY <1>2, <1>3

(* A place of the script *)
IsLine(l, i, k) ==
  l \in 1 .. 15 /\ i \in DOMAIN D!Script[l].list /\ k \in DOMAIN D!Script[l].ops

LEMMA NextAt ==
  ASSUME ClientsAssumption, InScript, NEW l \in 1 .. 14, NEW k, At(l, k), D!NextLine
  PROVE  \E i \in DOMAIN D!Script[l].list :
           /\ place = D!Line(l, i, k) /\ D!who = D!Script[l].list[i]
           /\ IsLine(l, i, k)
           /\ k < Len(D!Script[l].ops) => place' = D!Line(l, i, k + 1) /\ D!who' = D!who
           /\ k = Len(D!Script[l].ops) =>
                \/ i < Len(D!Script[l].list) /\ place' = D!Line(l, i + 1, 1)
                \/ i = Len(D!Script[l].list) /\ place' = D!Line(l + 1, 1, 1)
           /\ \A m, j, n : IsLine(m, j, n) =>
                (Past(m, j, n)' <=> Past(m, j, n) \/ (m = l /\ j = i /\ n = k))
<1>1. l \in 1 .. 15
  OBVIOUS
<1>2. PICK i \in DOMAIN D!Script[l].list :
        /\ place = D!Line(l, i, k) /\ D!who = D!Script[l].list[i]
        /\ k \in DOMAIN D!Script[l].ops
  BY <1>1, ItemNow
<1>3. /\ k < Len(D!Script[l].ops) => place' = D!Line(l, i, k + 1)
      /\ k = Len(D!Script[l].ops) =>
           \/ i < Len(D!Script[l].list) /\ place' = D!Line(l, i + 1, 1)
           \/ i = Len(D!Script[l].list) /\ place' = D!Line(l + 1, 1, 1)
      /\ \A m \in 1 .. 15 : \A j \in DOMAIN D!Script[m].list, n \in DOMAIN D!Script[m].ops :
           Past(m, j, n)' <=> Past(m, j, n) \/ (m = l /\ j = i /\ n = k)
  BY <1>2, LineMoves
<1>4. place' = D!Line(l, i, k + 1) => D!who' = D!Script[l].list[i]
  BY DEF D!Line, D!who, D!Here
<1>5. QED
  BY <1>1, <1>2, <1>3, <1>4 DEF IsLine

(* Before the first line, and where the script does not run, nothing is    *)
(* past.                                                                   *)
LEMMA NothingPast ==
  ASSUME ClientsAssumption, NEW l, NEW i, NEW k, IsLine(l, i, k)
  PROVE  /\ place = D!Nowhere \/ place = D!Line(1, 1, 1) => ~Past(l, i, k)
         /\ place' = D!Nowhere \/ place' = D!Line(1, 1, 1) => ~Past(l, i, k)'
<1>1. l \in Nat /\ l >= 1 /\ i \in Nat /\ i >= 1 /\ k \in Nat /\ k >= 1
  <2> DEFINE s == D!Script[l]
  <2>1. l \in 1 .. 15 /\ i \in DOMAIN s.list /\ k \in DOMAIN s.ops
    BY DEF IsLine
  <2>2. /\ Len(s.list) \in Nat \ {0} /\ DOMAIN s.list = 1 .. Len(s.list)
        /\ Len(s.ops) \in Nat \ {0} /\ DOMAIN s.ops = 1 .. Len(s.ops)
    BY <2>1, ScriptIsFinite
  <2> HIDE DEF s
  <2>3. QED
    BY <2>1, <2>2
<1>2. QED
  BY <1>1 DEF Past, D!Nowhere, D!Line

LEMMA PastIsRunning ==
  ASSUME NEW l \in 1 .. 15, NEW i, NEW k, Past(l, i, k), InScript PROVE place.loop >= l
BY DEF Past, InScript, D!Nowhere, D!Line

(* The lines the invariants are about *)
LEMMA LinesNamed ==
  ASSUME ClientsAssumption
  PROVE  /\ \A i \in 1 .. 3 : IsLine(1, i, 1)
         /\ \A i \in 1 .. 2 : IsLine(3, i, 1)
         /\ \A i \in DOMAIN Slots : IsLine(7, i, 1)
         /\ \A k \in 1 .. 3 : IsLine(8, 1, k)
         /\ \A i \in DOMAIN Batches : \A k \in 1 .. 3 : IsLine(9, i, k)
         /\ \A i \in DOMAIN Extras : \A k \in 1 .. 2 : IsLine(10, i, k)
         /\ \A i \in DOMAIN D!Script[14].list : IsLine(14, i, 1)
<1>1. ASSUME NEW l \in 1 .. 15 PROVE DOMAIN D!Script[l].ops = 1 .. Len(D!Script[l].ops)
  BY ScriptIsFinite
<1>2. /\ 1 \in DOMAIN D!Script[1].ops /\ 1 \in DOMAIN D!Script[3].ops
      /\ 1 \in DOMAIN D!Script[7].ops /\ 1 \in DOMAIN D!Script[14].ops
      /\ \A k \in 1 .. 3 : k \in DOMAIN D!Script[8].ops /\ k \in DOMAIN D!Script[9].ops
      /\ \A k \in 1 .. 2 : k \in DOMAIN D!Script[10].ops
  <2>0. \A l \in {1, 3, 7, 8, 9, 10, 14} : l \in 1 .. 15
    OBVIOUS
  <2>1. /\ DOMAIN D!Script[1].ops = 1 .. 1 /\ DOMAIN D!Script[3].ops = 1 .. 2
        /\ DOMAIN D!Script[7].ops = 1 .. 1 /\ DOMAIN D!Script[14].ops = 1 .. 1
        /\ DOMAIN D!Script[8].ops = 1 .. 3 /\ DOMAIN D!Script[9].ops = 1 .. 3
        /\ DOMAIN D!Script[10].ops = 1 .. 2
    BY <1>1, <2>0, OpsLengths
  <2>2. QED
    BY <2>1
<1>3. \A i \in 1 .. 3 : i \in DOMAIN D!Script[1].list
  BY ListsOf
<1>4. \A i \in 1 .. 2 : i \in DOMAIN D!Script[3].list
  <2>1. Slots \in Seq(STRING)
    BY DEF ClientsAssumption, SeedFits
  <2>2. QED
    BY <2>1, ListsOf DEF D!CustomerUsers
<1>5. D!Script[7].list = Slots /\ D!Script[10].list = Extras
  BY ListsOf
<1>6. 1 \in DOMAIN D!Script[8].list
  BY ListsOf
<1>7. \A i \in DOMAIN Batches : i \in DOMAIN D!Script[9].list
  BY ListsOf DEF D!DemoOrders
<1>8. QED
  BY <1>2, <1>3, <1>4, <1>5, <1>6, <1>7 DEF IsLine


LEMMA NextLineIsNotStop ==
  ASSUME ClientsAssumption, InScript, D!Now("sampleIncrement"), D!NextLine PROVE ~D!Stop
<1>1. ~D!Now("end") /\ D!Running
  BY DEF D!Now
<1>2. PICK l \in 1 .. 14 : \E k : At(l, k)
  BY <1>1, RunningIsSomewhere DEF D!Line, At
<1>3. PICK k : At(l, k)
  BY <1>2
<1>4. \E i \in DOMAIN D!Script[l].list :
        /\ IsLine(l, i, k)
        /\ k < Len(D!Script[l].ops) => place' = D!Line(l, i, k + 1)
        /\ k = Len(D!Script[l].ops) =>
             \/ i < Len(D!Script[l].list) /\ place' = D!Line(l, i + 1, 1)
             \/ i = Len(D!Script[l].list) /\ place' = D!Line(l + 1, 1, 1)
  BY <1>3, NextAt
<1>5. ASSUME NEW i, IsLine(l, i, k)
      PROVE  k < Len(D!Script[l].ops) \/ k = Len(D!Script[l].ops)
  <2> DEFINE ops == D!Script[l].ops
  <2>1. l \in 1 .. 15 /\ k \in DOMAIN ops
    BY <1>5 DEF IsLine
  <2>2. Len(ops) \in Nat \ {0} /\ DOMAIN ops = 1 .. Len(ops)
    BY <2>1, ScriptIsFinite
  <2> HIDE DEF ops
  <2>3. QED
    <3>1. k < Len(ops) \/ k = Len(ops)
      BY <2>1, <2>2
    <3>2. QED
      BY <3>1 DEF ops
<1>6. \/ \E i, n : place' = D!Line(l, i, n)
      \/ \E i, n : place' = D!Line(l + 1, i, n)
  BY <1>4, <1>5
<1>7. place'.loop # 0
  BY <1>6 DEF D!Line
<1>8. QED
  BY <1>7 DEF D!Stop, D!Nowhere

-----------------------------------------------------------------------------
(* Statements *)

SettingUp == \/ D!UpsertUser \/ D!UpsertCourier \/ D!CreateCard \/ D!CreateAccount
             \/ D!UpsertCard \/ D!UpsertAccount
Remaking == \/ D!WipeOrders \/ D!WipeLedger \/ D!WipeBalance \/ D!CreateDemoOrder
            \/ D!CreateTx \/ D!IncrementBalance
Closing == \/ D!LookForSamples \/ D!CreateSample \/ D!CreateSampleTx
           \/ (D!IncrementSample /\ D!NextLine)
           \/ D!CreateSampleEarning \/ D!CountDeliveries

Statement == SettingUp \/ Remaking \/ Closing

Used == \/ \E o \in orders, k \in D!AllCouriers : D!OrderDelivered(o, k)
        \/ \E c \in D!AllCustomers : D!OrderCreated(c)
        \/ \E c \in D!DemoCustomers : D!EmailEdited(c)

(* The run starts, ends or stops, and nothing else happens. *)
Turns == D!Start \/ D!Stop \/ D!End

LEMMA TurnsKeep ==
  ASSUME Turns
  PROVE  /\ UNCHANGED <<D!people, D!commerce>>
         /\ D!Start \/ (place' = D!Nowhere /\ fresh' = {})
BY DEF Turns, D!Start, D!Stop, D!End

LEMMA HowItGoes ==
  ASSUME D!Next \/ UNCHANGED D!vars
  PROVE  Statement \/ Used \/ Turns \/ UNCHANGED D!vars
<1>1. D!IncrementSample => D!NextLine \/ D!Stop
  BY DEF D!IncrementSample
<1>2. D!Interrupted => D!Stop
  BY DEF D!Interrupted
<1>3. QED
  BY <1>1, <1>2 DEF D!Next, Statement, SettingUp, Remaking, Closing, Used, Turns

LEMMA StatementMoves ==
  ASSUME ClientsAssumption, InScript, Statement
  PROVE  /\ D!NextLine /\ UNCHANGED <<renamed, stopped>>
         /\ \E l \in 1 .. 14 : \E k : At(l, k)
<1>1. D!NextLine
  BY DEF Statement, SettingUp, Remaking, Closing, D!UpsertUser, D!UpsertCourier, D!CreateCard,
         D!CreateAccount, D!UpsertCard, D!UpsertAccount, D!WipeOrders, D!WipeLedger,
         D!WipeBalance, D!CreateDemoOrder, D!CreateTx, D!IncrementBalance,
         D!LookForSamples, D!CreateSample, D!CreateSampleTx, D!CreateSampleEarning,
         D!CountDeliveries
<1>2. UNCHANGED stopped
  BY <1>1 DEF D!NextLine, D!bounds
<1>3. SettingUp => UNCHANGED renamed /\ \E l \in 1 .. 14 : \E k : At(l, k)
  BY WhereNow DEF SettingUp, D!people, D!UpsertUser, D!UpsertCourier, D!CreateCard,
                  D!CreateAccount, D!UpsertCard, D!UpsertAccount
<1>4. Remaking => UNCHANGED renamed /\ \E l \in 1 .. 14 : \E k : At(l, k)
  BY WhereNow DEF Remaking, D!people, D!WipeOrders, D!WipeLedger,
                  D!WipeBalance, D!CreateDemoOrder, D!CreateTx, D!IncrementBalance
<1>5. Closing => UNCHANGED renamed /\ \E l \in 1 .. 14 : \E k : At(l, k)
  <2>1. D!IncrementSample /\ D!NextLine => UNCHANGED renamed
    BY NextLineIsNotStop DEF D!IncrementSample, D!people
  <2>2. QED
    BY <2>1, WhereNow DEF Closing, D!people, D!LookForSamples, D!CreateSample,
          D!CreateSampleTx, D!IncrementSample, D!CreateSampleEarning, D!CountDeliveries
<1>6. QED
  BY <1>1, <1>2, <1>3, <1>4, <1>5 DEF Statement

(* The statement of a line *)
LEMMA StatementAt ==
  ASSUME ClientsAssumption, InScript, Statement
  PROVE  /\ At(1, 1) => D!UpsertUser
         /\ At(3, 1) => D!CreateCard
         /\ At(3, 2) => D!CreateAccount
         /\ At(6, 1) => D!UpsertCard
         /\ At(7, 1) => D!UpsertAccount
         /\ At(8, 1) => D!WipeOrders
         /\ At(8, 2) => D!WipeLedger
         /\ At(8, 3) => D!WipeBalance
         /\ At(9, 1) => D!CreateDemoOrder
         /\ At(9, 2) \/ At(10, 1) => D!CreateTx
         /\ At(9, 3) \/ At(10, 2) => D!IncrementBalance
         /\ At(11, 1) => D!LookForSamples
         /\ At(12, 1) \/ At(13, 1) => D!CreateSample
         /\ At(12, 2) \/ At(13, 2) => D!CreateSampleTx
         /\ At(12, 3) \/ At(13, 3) => D!IncrementSample
         /\ At(14, 1) => D!CountDeliveries
<1>1. /\ D!UpsertUser => At(1, 1) \/ At(4, 1)
      /\ D!UpsertCourier => At(2, 1) \/ At(5, 1)
      /\ D!CreateCard => At(3, 1)
      /\ D!CreateAccount => At(3, 2)
      /\ D!UpsertCard => At(6, 1)
      /\ D!UpsertAccount => At(7, 1)
  BY WhereNow DEF D!UpsertUser, D!UpsertCourier, D!CreateCard, D!CreateAccount, D!UpsertCard,
                  D!UpsertAccount
<1>2. /\ D!WipeOrders => At(8, 1)
      /\ D!WipeLedger => At(8, 2)
      /\ D!WipeBalance => At(8, 3)
      /\ D!CreateDemoOrder => At(9, 1)
      /\ D!CreateTx => At(9, 2) \/ At(10, 1)
      /\ D!IncrementBalance => At(9, 3) \/ At(10, 2)
  BY WhereNow DEF D!WipeOrders, D!WipeLedger, D!WipeBalance, D!CreateDemoOrder, D!CreateTx,
                  D!IncrementBalance
<1>3. /\ D!LookForSamples => At(11, 1)
      /\ D!CreateSample => At(12, 1) \/ At(13, 1)
      /\ D!CreateSampleTx => At(12, 2) \/ At(13, 2)
      /\ D!IncrementSample => At(12, 3) \/ At(13, 3)
      /\ D!CreateSampleEarning => At(12, 4)
      /\ D!CountDeliveries => At(14, 1)
  BY WhereNow DEF D!LookForSamples, D!CreateSample, D!CreateSampleTx, D!IncrementSample,
                  D!CreateSampleEarning, D!CountDeliveries
<1>4. QED
  BY <1>1, <1>2, <1>3 DEF Statement, SettingUp, Remaking, Closing, At

(* Which lines change what *)
LEMMA StatementKeeps ==
  ASSUME ClientsAssumption, InScript, Statement
  PROVE  /\ UNCHANGED orders \/ At(8, 1) \/ At(9, 1) \/ At(12, 1) \/ At(13, 1)
         /\ \/ UNCHANGED ledger
            \/ At(8, 2) \/ At(9, 2) \/ At(10, 1) \/ At(12, 2) \/ At(13, 2)
         /\ \/ UNCHANGED balance
            \/ At(3, 2) \/ At(7, 1) \/ At(8, 3) \/ At(9, 3) \/ At(10, 2)
            \/ At(12, 3) \/ At(13, 3)
         /\ UNCHANGED fresh \/ At(3, 1) \/ At(3, 2) \/ At(11, 1)
         /\ UNCHANGED cards \/ At(3, 1) \/ At(6, 1)
         /\ UNCHANGED counts \/ At(14, 1)
         /\ users \subseteq users' /\ cards \subseteq cards'
<1>1. CASE SettingUp
  BY <1>1, WhereNow DEF SettingUp, D!people, D!commerce, D!UpsertUser, D!UpsertCourier,
       D!CreateCard, D!CreateAccount, D!UpsertCard, D!UpsertAccount
<1>2. CASE Remaking
  BY <1>2, WhereNow DEF Remaking, D!people, D!WipeOrders, D!WipeLedger,
       D!WipeBalance, D!CreateDemoOrder, D!CreateTx, D!IncrementBalance
<1>3. CASE D!IncrementSample /\ D!NextLine
  BY <1>3, NextLineIsNotStop, WhereNow DEF D!IncrementSample, D!people
<1>4. CASE Closing /\ ~(D!IncrementSample /\ D!NextLine)
  BY <1>4, WhereNow DEF Closing, D!people, D!commerce, D!LookForSamples, D!CreateSample,
       D!CreateSampleTx, D!CreateSampleEarning, D!CountDeliveries
<1>5. QED
  BY <1>1, <1>2, <1>3, <1>4 DEF Statement

-----------------------------------------------------------------------------
(* What the run has looked for, and accounts *)

LEMMA PlaceFromHere ==
  ASSUME ClientsAssumption, InScript, Statement, NEW l \in 1 .. 14, NEW k, At(l, k)
  PROVE  /\ place'.loop \in {l, l + 1}
         /\ k < Len(D!Script[l].ops) => At(l, k + 1)' /\ D!who' = D!who
         /\ k = Len(D!Script[l].ops) => place'.step = 1
         /\ k \in 1 .. Len(D!Script[l].ops)
<1>1. D!NextLine
  BY StatementMoves
<1>2. PICK i \in DOMAIN D!Script[l].list :
        /\ IsLine(l, i, k)
        /\ k < Len(D!Script[l].ops) => place' = D!Line(l, i, k + 1) /\ D!who' = D!who
        /\ k = Len(D!Script[l].ops) =>
             \/ i < Len(D!Script[l].list) /\ place' = D!Line(l, i + 1, 1)
             \/ i = Len(D!Script[l].list) /\ place' = D!Line(l + 1, 1, 1)
  BY <1>1, NextAt
<1>3. k \in 1 .. Len(D!Script[l].ops)
  <2> DEFINE ops == D!Script[l].ops
  <2>1. l \in 1 .. 15 /\ k \in DOMAIN ops
    BY <1>2 DEF IsLine
  <2>2. Len(ops) \in Nat \ {0} /\ DOMAIN ops = 1 .. Len(ops)
    BY <2>1, ScriptIsFinite
  <2>3. QED
    BY <2>1, <2>2
<1> DEFINE n == Len(D!Script[l].ops)
<1> HIDE DEF n
<1>4. n \in Nat /\ (k < n \/ k = n) /\ k \in 1 .. n
  <2>1. n \in Nat
    <3>1. l \in 1 .. 15
      OBVIOUS
    <3>2. QED
      BY <3>1, ScriptIsFinite DEF n
  <2>2. k \in 1 .. n
    BY <1>3 DEF n
  <2>3. QED
    BY <2>1, <2>2
<1>5. CASE k < n
  <2>1. place' = D!Line(l, place.item, k + 1) \/ \E m : place' = D!Line(l, m, k + 1)
    BY <1>2, <1>5 DEF n
  <2>2. At(l, k + 1)' /\ place'.loop = l
    BY <2>1 DEF At, D!Line
  <2>3. D!who' = D!who
    BY <1>2, <1>5 DEF n
  <2>4. k # n
    BY <1>4, <1>5
  <2>5. QED
    BY <1>3, <2>2, <2>3, <2>4 DEF n
<1>6. CASE k = n
  <2>1. \/ \E m : place' = D!Line(l, m, 1)
        \/ \E m : place' = D!Line(l + 1, m, 1)
    BY <1>2, <1>6 DEF n
  <2>2. place'.loop \in {l, l + 1} /\ place'.step = 1
    BY <2>1 DEF D!Line
  <2>3. ~(k < n)
    BY <1>4, <1>6
  <2>4. QED
    BY <1>3, <2>2, <2>3 DEF n
<1>7. QED
  BY <1>4, <1>5, <1>6

LEMMA FreshStays ==
  ASSUME ClientsAssumption, InScript, FreshIsLookedFor, Statement, UNCHANGED fresh,
         ~At(3, 1), ~At(3, 2), ~At(11, 1)
  PROVE  FreshIsLookedFor'
<1>1. PICK l \in 1 .. 14 : \E k : At(l, k)
  BY StatementMoves
<1>2. PICK k : At(l, k)
  BY <1>1
<1>3. /\ place'.loop \in {l, l + 1}
      /\ k < Len(D!Script[l].ops) => At(l, k + 1)'
      /\ k = Len(D!Script[l].ops) => place'.step = 1
      /\ k \in 1 .. Len(D!Script[l].ops)
  BY <1>2, PlaceFromHere
<1>4. l # 3
  <2>1. l = 3 => k \in 1 .. 2
    BY <1>3, OpsLengths
  <2>2. QED
    BY <1>2, <2>1
<1>5. l = 11 => k = 1
  <2>1. SUFFICES ASSUME l = 11 PROVE k = 1
    OBVIOUS
  <2>2. Len(D!Script[l].ops) = 1
    BY <2>1, OpsLengths
  <2>3. QED
    BY <1>3, <2>2
<1>6. l # 11
  BY <1>2, <1>5
<1>7. ~At(3, 2)'
  <2>1. SUFFICES ASSUME At(3, 2)' PROVE FALSE
    OBVIOUS
  <2>2. l = 2 /\ place'.step = 2
    BY <1>3, <1>4, <2>1 DEF At
  <2>3. k = 1
    BY <1>3, <2>2, OpsLengths
  <2>4. place'.step = 1
    BY <1>3, <2>2, <2>3, OpsLengths
  <2>5. QED
    BY <2>2, <2>4
<1>8. fresh # {} => place.loop > 11
  BY <1>2, <1>4 DEF FreshIsLookedFor, At
<1>9. place.loop = l
  BY <1>2 DEF At
<1>10. place'.loop > 11 => place.loop > 11
  BY <1>3, <1>6, <1>9
<1>11. place.loop > 11 => place'.loop > 11
  BY <1>3, <1>9
<1>12. QED
  BY <1>7, <1>8, <1>10, <1>11 DEF FreshIsLookedFor

LEMMA FreshIsLookedForStep ==
  ASSUME ClientsAssumption, InScript, FreshIsLookedFor, D!Next \/ UNCHANGED D!vars
  PROVE  FreshIsLookedFor'
<1>1. CASE Statement /\ ~At(3, 1) /\ ~At(3, 2) /\ ~At(11, 1)
  BY <1>1, StatementKeeps, FreshStays
<1>2. ASSUME NEW l \in 1 .. 14, NEW k, At(l, k), Statement
      PROVE  /\ place'.loop \in {l, l + 1} /\ place.loop = l
             /\ k < Len(D!Script[l].ops) => At(l, k + 1)' /\ D!who' = D!who
             /\ k = Len(D!Script[l].ops) => place'.step = 1
  BY <1>2, PlaceFromHere DEF At
<1>3. CASE Statement /\ At(3, 1)
  <2>1. D!CreateCard
    BY <1>3, StatementAt
  <2>2. At(3, 2)' /\ D!who' = D!who
    <3>1. 3 \in 1 .. 14 /\ 1 < Len(D!Script[3].ops) /\ 1 + 1 = 2
      BY OpsLengths
    <3>2. At(3, 1 + 1)' /\ D!who' = D!who
      BY <1>3, <3>1, PlaceFromHere
    <3>3. QED
      BY <3>1, <3>2
  <2>3. fresh = {}
    BY <1>3 DEF FreshIsLookedFor, At
  <2>4. fresh' \subseteq {D!who'}
    BY <2>1, <2>2, <2>3 DEF D!CreateCard
  <2>5. QED
    BY <2>2, <2>4 DEF FreshIsLookedFor, At
<1>4. CASE Statement /\ At(3, 2)
  <2>1. D!CreateAccount
    BY <1>4, StatementAt
  <2>2. fresh' = {}
    BY <1>4, <2>1 DEF FreshIsLookedFor, D!CreateAccount
  <2>3. QED
    BY <2>2 DEF FreshIsLookedFor
<1>5. CASE Statement /\ At(11, 1)
  <2>1. D!LookForSamples
    BY <1>5, StatementAt
  <2>2. fresh' \subseteq D!Samples
    BY <2>1 DEF D!LookForSamples
  <2>3. place'.loop \in {11, 12} /\ place'.step = 1
    <3>1. 11 \in 1 .. 14 /\ 1 = Len(D!Script[11].ops) /\ 11 + 1 = 12
      BY OpsLengths
    <3>2. place'.loop \in {11, 11 + 1} /\ place'.step = 1
      BY <1>5, <3>1, PlaceFromHere
    <3>3. QED
      BY <3>1, <3>2
  <2>4. CASE place'.loop = 12
    BY <2>2, <2>4 DEF FreshIsLookedFor, At
  <2>5. place'.loop # 11
    <3>0. 11 \in 1 .. 14 /\ D!NextLine
      BY <1>5, StatementMoves
    <3>1. PICK i \in DOMAIN D!Script[11].list :
             /\ place = D!Line(11, i, 1)
             /\ 1 = Len(D!Script[11].ops) =>
                \/ i < Len(D!Script[11].list) /\ place' = D!Line(11, i + 1, 1)
                \/ i = Len(D!Script[11].list) /\ place' = D!Line(11 + 1, 1, 1)
      BY <1>5, <3>0, NextAt
    <3>2. D!Script[11].list = <<"samples">> /\ Len(D!Script[11].ops) = 1
      BY ListsOf, OpsLengths
    <3>3. i = 1 /\ Len(D!Script[11].list) = 1
      BY <3>2
    <3>4. place' = D!Line(11 + 1, 1, 1)
      BY <3>1, <3>2, <3>3
    <3>5. QED
      BY <3>4 DEF D!Line
  <2>6. QED
    BY <2>3, <2>4, <2>5
<1>6. CASE Turns
  <2>1. CASE D!Start
    <3>1. fresh' = fresh /\ place.loop = 0 /\ place' = D!Line(1, 1, 1)
      BY <2>1 DEF D!Start, D!Running
    <3>2. fresh = {}
      BY <3>1 DEF FreshIsLookedFor, At
    <3>3. QED
      BY <3>1, <3>2 DEF FreshIsLookedFor, At, D!Line
  <2>2. CASE place' = D!Nowhere /\ fresh' = {}
    BY <2>2 DEF FreshIsLookedFor, At, D!Nowhere
  <2>3. QED
    BY <1>6, <2>1, <2>2, TurnsKeep
<1>7. CASE Used
  <2>1. fresh' = fresh /\ place' = place /\ place.loop = 0
    BY <1>7 DEF Used, D!OrderDelivered, D!OrderCreated, D!EmailEdited, D!Use, D!Running
  <2>2. QED
    BY <2>1 DEF FreshIsLookedFor, At
<1>8. CASE UNCHANGED D!vars
  <2>1. fresh' = fresh /\ place' = place
    BY <1>8 DEF D!vars
  <2>2. QED
    BY <2>1 DEF FreshIsLookedFor, At, D!who, D!Here
<1>9. QED
  BY <1>1, <1>3, <1>4, <1>5, <1>6, <1>7, <1>8, HowItGoes

LEMMA PastMoves ==
  ASSUME ClientsAssumption, InScript, Statement, NEW m, NEW j, NEW n, IsLine(m, j, n)
  PROVE  Past(m, j, n)' <=> Past(m, j, n) \/ place = D!Line(m, j, n)
<1>1. D!NextLine
  BY StatementMoves
<1>2. PICK l \in 1 .. 14 : \E k : At(l, k)
  BY StatementMoves
<1>3. PICK k : At(l, k)
  BY <1>2
<1>4. PICK i \in DOMAIN D!Script[l].list :
        /\ place = D!Line(l, i, k)
        /\ (Past(m, j, n)' <=> Past(m, j, n) \/ (m = l /\ j = i /\ n = k))
  BY <1>1, <1>3, NextAt
<1>5. place = D!Line(m, j, n) <=> m = l /\ j = i /\ n = k
  BY <1>4 DEF D!Line
<1>6. QED
  BY <1>4, <1>5

(* Where the script does not run, or has just begun, nothing is past. *)
LEMMA NothingPastInTurns ==
  ASSUME ClientsAssumption, InScript, Turns \/ Used, NEW m, NEW j, NEW n, IsLine(m, j, n)
  PROVE  ~Past(m, j, n)'
<1>1. CASE Turns
  <2>1. place' = D!Nowhere \/ place' = D!Line(1, 1, 1)
    BY <1>1, TurnsKeep DEF D!Start
  <2>2. QED
    BY <2>1, NothingPast
<1>2. CASE Used
  <2>1. place' = place /\ place.loop = 0
    BY <1>2 DEF Used, D!OrderDelivered, D!OrderCreated, D!EmailEdited, D!Use, D!Running
  <2>2. place' = D!Nowhere
    BY <2>1 DEF InScript, D!Line
  <2>3. QED
    BY <2>2, NothingPast
<1>3. QED
  BY <1>1, <1>2

LEMMA LoopsOver ==
  ASSUME NEW l, NEW i, NEW k, place.loop > l PROVE Past(l, i, k)
BY DEF Past

LEMMA NewOrder ==
  ASSUME ClientsAssumption, SeedTyped, D!CreateDemoOrder
  PROVE  \E i \in DOMAIN Batches :
           LET q == D!DemoOrders[i] IN
           /\ place.item = i /\ D!who = q
           /\ Row(q.customer, q.status, q.price, q.courier) \notin orders
           /\ orders' = orders \cup {Row(q.customer, q.status, q.price, q.courier)}
<1>1. InScript
  BY DEF SeedTyped
<1>2. PICK i \in DOMAIN D!DemoOrders : place.item = i /\ D!who = D!DemoOrders[i]
  BY <1>1, WhoNow DEF D!CreateDemoOrder
<1> DEFINE q == D!DemoOrders[i]
           o == Row(q.customer, q.status, q.price, q.courier)
<1>3. /\ i \in DOMAIN Batches
      /\ q = [customer |-> q.customer, status |-> q.status, price |-> q.price,
              courier |-> q.courier]
  BY DemoOrderParts
<1>4. orders' = D!With(orders, q)
  BY <1>2 DEF D!CreateDemoOrder
<1>5. o.id = D!FreshId(orders)
  BY DEF Row
<1> HIDE DEF q
<1>6. orders' = orders \cup {o}
  BY <1>3, <1>4, OrderAdded DEF Row
<1>7. o \notin orders
  BY <1>5, FreshIdIsNew DEF SeedTyped
<1>8. QED
  BY <1>2, <1>3, <1>6, <1>7 DEF q

LEMMA NewSample ==
  ASSUME ClientsAssumption, SeedTyped, D!CreateSample
  PROVE  /\ D!who \in D!Samples
         /\ \/ orders' = orders
            \/ \E s, p, k : orders' = orders \cup {Row(D!who, s, p, k)}
<1>1. D!who \in D!Samples
  BY WhoNow DEF SeedTyped, D!CreateSample
<1> DEFINE q == D!SampleOrder[D!who]
<1>2. q = [customer |-> D!who, status |-> q.status, price |-> q.price, courier |-> q.courier]
  BY <1>1, SampleParts
<1>3. orders' = orders \/ orders' = D!With(orders, q)
  BY DEF D!CreateSample
<1> HIDE DEF q
<1>4. D!With(orders, q) = orders \cup {Row(D!who, q.status, q.price, q.courier)}
  BY <1>2, OrderAdded DEF Row
<1>5. QED
  BY <1>1, <1>3, <1>4

LEMMA NewUse ==
  ASSUME NEW c, D!OrderCreated(c)
  PROVE  orders' = orders \cup {Row(c, "SEARCHING_COURIER", 1, NoCourier)}
BY OrderAdded DEF D!OrderCreated, Row

LEMMA DomainGrows ==
  ASSUME ClientsAssumption, SeedTyped, D!Next \/ UNCHANGED D!vars
  PROVE  DOMAIN balance \subseteq DOMAIN balance'
<1>1. D!UpsertAccount \/ D!CreateAccount => DOMAIN balance \subseteq DOMAIN balance'
  BY DEF D!UpsertAccount, D!CreateAccount, D!OpenAccount
<1>2. D!WipeBalance \/ D!IncrementBalance => DOMAIN balance \subseteq DOMAIN balance'
  BY DEF D!WipeBalance, D!IncrementBalance, SeedTyped
<1>3. D!IncrementSample => DOMAIN balance \subseteq DOMAIN balance'
  BY DEF D!IncrementSample, SeedTyped, D!Stop, D!commerce
<1>4. CASE Statement
  <2>1. InScript
    BY DEF SeedTyped
  <2>2. QED
    BY <1>1, <1>2, <1>3, <1>4, <2>1, StatementKeeps, StatementAt
<1>5. CASE Turns \/ Used \/ UNCHANGED D!vars
  BY <1>5, TurnsKeep DEF Used, D!commerce, D!OrderDelivered, D!OrderCreated,
              D!EmailEdited, D!vars, SeedTyped
<1>6. QED
  BY <1>4, <1>5, HowItGoes

LEMMA AccountsFirstStep ==
  ASSUME ClientsAssumption, SeedTyped, AccountsFirst, D!Next \/ UNCHANGED D!vars
  PROVE  AccountsFirst'
<1>1. InScript /\ DOMAIN balance \subseteq DOMAIN balance'
  BY DomainGrows DEF SeedTyped
<1>2. ASSUME NEW i \in DOMAIN Slots, Past(7, i, 1)' PROVE Slots[i] \in DOMAIN balance'
  <2>0. IsLine(7, i, 1)
    BY LinesNamed
  <2>1. CASE Past(7, i, 1)
    BY <1>1, <2>1 DEF AccountsFirst
  <2>2. CASE Statement /\ place = D!Line(7, i, 1)
    <3>1. At(7, 1) /\ D!who = Slots[i]
      BY <2>2, ListsOf DEF At, D!Line, D!who, D!Here
    <3>2. D!UpsertAccount
      BY <1>1, <2>2, <3>1, StatementAt
    <3>3. QED
      BY <3>1, <3>2 DEF D!UpsertAccount, D!OpenAccount
  <2>3. Statement => Past(7, i, 1) \/ place = D!Line(7, i, 1)
    BY <1>1, <1>2, <2>0, PastMoves
  <2>4. ~(Turns \/ Used)
    BY <1>1, <1>2, <2>0, NothingPastInTurns
  <2>5. UNCHANGED D!vars => Past(7, i, 1)
    BY <1>2 DEF D!vars, Past
  <2>6. QED
    BY <2>1, <2>2, <2>3, <2>4, <2>5, HowItGoes
<1>3. ASSUME NEW o \in orders' PROVE o.customer \in DOMAIN balance' \cup D!Samples
  <2>1. SUFFICES ASSUME o \notin orders PROVE o.customer \in DOMAIN balance' \cup D!Samples
    BY <1>1 DEF AccountsFirst
  <2>2. CASE Statement
    <3>1. At(8, 1) => FALSE
      <4>1. SUFFICES ASSUME At(8, 1) PROVE FALSE
        OBVIOUS
      <4>2. D!WipeOrders
        BY <1>1, <2>2, <4>1, StatementAt
      <4>3. QED
        BY <2>1, <4>2 DEF D!WipeOrders
    <3>2. CASE At(9, 1)
      <4>1. D!CreateDemoOrder
        BY <1>1, <2>2, <3>2, StatementAt
      <4>2. PICK i \in DOMAIN Batches :
              orders' = orders \cup {Row(D!DemoOrders[i].customer, D!DemoOrders[i].status,
                                         D!DemoOrders[i].price, D!DemoOrders[i].courier)}
        BY <4>1, NewOrder
      <4>3. o.customer = D!DemoOrders[i].customer
        BY <2>1, <4>2 DEF Row
      <4>4. D!DemoOrders[i].customer \in D!DemoCustomers
        BY DemoOrderParts DEF D!DemoOrders
      <4>5. PICK j \in DOMAIN Slots : o.customer = Slots[j]
        BY <4>3, <4>4 DEF D!DemoCustomers, D!Range
      <4>6. Past(7, j, 1)
        BY <3>2 DEF At, Past
      <4>7. QED
        BY <1>1, <4>5, <4>6 DEF AccountsFirst
    <3>3. CASE At(12, 1) \/ At(13, 1)
      <4>1. D!CreateSample
        BY <1>1, <2>2, <3>3, StatementAt
      <4>2. D!who \in D!Samples /\ \E s, p, k : orders' = orders \cup {Row(D!who, s, p, k)}
        BY <2>1, <4>1, NewSample
      <4>3. o.customer = D!who
        BY <2>1, <4>2 DEF Row
      <4>4. QED
        BY <4>2, <4>3
    <3>4. QED
      BY <1>1, <2>1, <2>2, <3>1, <3>2, <3>3, StatementKeeps
  <2>3. CASE Turns \/ UNCHANGED D!vars
    BY <2>1, <2>3, TurnsKeep DEF D!commerce, D!vars
  <2>4. CASE Used
    <3>1. ASSUME NEW x \in orders, NEW k, D!OrderDelivered(x, k)
          PROVE  o.customer \in DOMAIN balance \cup D!Samples
      <4>1. x \in DemoOrder
        BY DEF SeedTyped
      <4>2. o = [x EXCEPT !.status = "DELIVERED", !.courier = k]
        BY <2>1, <3>1 DEF D!OrderDelivered
      <4>3. o.customer = x.customer
        BY <4>1, <4>2 DEF DemoOrder
      <4>4. QED
        BY <4>3 DEF AccountsFirst
    <3>2. ASSUME NEW c, D!OrderCreated(c) PROVE o.customer \in DOMAIN balance
      <4>1. o.customer = c
        BY <2>1, <3>2, NewUse DEF Row
      <4>2. QED
        BY <3>2, <4>1 DEF D!OrderCreated
    <3>3. ASSUME NEW c, D!EmailEdited(c) PROVE FALSE
      BY <2>1, <3>3 DEF D!EmailEdited, D!commerce
    <3>4. QED
      BY <1>1, <2>4, <3>1, <3>2, <3>3 DEF Used
  <2>5. QED
    BY <2>2, <2>3, <2>4, HowItGoes
<1>4. QED
  BY <1>2, <1>3 DEF AccountsFirst

-----------------------------------------------------------------------------
(* What the run has made *)

LEMMA OneMore ==
  ASSUME NEW T, IsFiniteSet(T), NEW x, x \notin T
  PROVE  Cardinality(T) \in Nat /\ Cardinality(T \cup {x}) = Cardinality(T) + 1
BY FS_AddElement, FS_CardinalityType

LEMMA DueIsFinite ==
  ASSUME ClientsAssumption, NEW c
  PROVE  /\ IsFiniteSet(OrdersDue(c)) /\ IsFiniteSet(DebitsDue(c))
         /\ IsFiniteSet(ExtrasDue(c))
<1>1. DOMAIN Batches = 1 .. Len(Batches) /\ Len(Batches) \in Nat
      /\ DOMAIN Extras = 1 .. Len(Extras) /\ Len(Extras) \in Nat
  BY DEF ClientsAssumption, SeedFits
<1>2. IsFiniteSet(DOMAIN Batches) /\ IsFiniteSet(DOMAIN Extras)
  BY <1>1, FS_Interval
<1>3. /\ OrdersDue(c) \in SUBSET DOMAIN Batches /\ DebitsDue(c) \in SUBSET DOMAIN Batches
      /\ ExtrasDue(c) \in SUBSET DOMAIN Extras
  BY DEF OrdersDue, DebitsDue, ExtrasDue
<1>4. QED
  BY <1>2, <1>3, FS_Subset

(* What is due grows by the line at hand. *)
LEMMA DueGrows ==
  ASSUME ClientsAssumption, InScript, Statement, NEW c
  PROVE  /\ OrdersDue(c)' = OrdersDue(c) \cup
              {i \in DOMAIN Batches : D!DemoOrders[i].customer = c /\ place = D!Line(9, i, 1)}
         /\ DebitsDue(c)' = DebitsDue(c) \cup
              {i \in DOMAIN Batches : D!DemoOrders[i].customer = c /\ place = D!Line(9, i, 2)}
         /\ ExtrasDue(c)' = ExtrasDue(c) \cup
              {i \in DOMAIN Extras : Extras[i].customer = c /\ place = D!Line(10, i, 1)}
<1>1. \A i \in DOMAIN Batches :
        /\ Past(9, i, 1)' <=> Past(9, i, 1) \/ place = D!Line(9, i, 1)
        /\ Past(9, i, 2)' <=> Past(9, i, 2) \/ place = D!Line(9, i, 2)
  BY LinesNamed, PastMoves
<1>2. \A i \in DOMAIN Extras : Past(10, i, 1)' <=> Past(10, i, 1) \/ place = D!Line(10, i, 1)
  BY LinesNamed, PastMoves
<1>3. /\ OrdersDue(c)' = {i \in DOMAIN Batches : D!DemoOrders[i].customer = c /\ Past(9, i, 1)'}
      /\ DebitsDue(c)' = {i \in DOMAIN Batches : D!DemoOrders[i].customer = c /\ Past(9, i, 2)'}
      /\ ExtrasDue(c)' = {i \in DOMAIN Extras : Extras[i].customer = c /\ Past(10, i, 1)'}
  BY DEF OrdersDue, DebitsDue, ExtrasDue
<1>4. QED
  BY <1>1, <1>2, <1>3 DEF OrdersDue, DebitsDue, ExtrasDue

(* Before the wipe is over nothing is due. *)
LEMMA NothingDue ==
  ASSUME NEW c, place.loop = 8
  PROVE  OrdersDue(c) = {} /\ DebitsDue(c) = {} /\ ExtrasDue(c) = {}
BY DEF OrdersDue, DebitsDue, ExtrasDue, Past

LEMMA OrdersMadeStep ==
  ASSUME ClientsAssumption, SeedTyped, OrdersMade, D!Next \/ UNCHANGED D!vars
  PROVE  OrdersMade'
<1>0. InScript /\ IsFiniteSet(orders) /\ IsLine(8, 1, 1)
  BY LinesNamed DEF SeedTyped
<1>1. CASE Turns \/ Used
  BY <1>0, <1>1, NothingPastInTurns DEF OrdersMade
<1>2. CASE UNCHANGED D!vars
  BY <1>2 DEF D!vars, D!people, D!commerce, OrdersMade, D!Found, Past, OrdersOf, OrdersDue
<1>3. CASE Statement
  <2> SUFFICES ASSUME NEW c \in D!Found, Past(8, 1, 1)'
               PROVE  Cardinality(OrdersOf(c)') = Cardinality(OrdersDue(c)')
    BY <1>0, <1>3, StatementMoves DEF OrdersMade, D!Found
  <2>1. Past(8, 1, 1) \/ place = D!Line(8, 1, 1)
    BY <1>0, <1>3, PastMoves
  <2>2. c \in D!DemoCustomers /\ c \notin D!Samples
    BY SamplesAreNoDemo DEF D!Found
  <2>3. OrdersDue(c)' = OrdersDue(c) \cup
          {i \in DOMAIN Batches : D!DemoOrders[i].customer = c /\ place = D!Line(9, i, 1)}
    BY <1>0, <1>3, DueGrows
  <2>4. OrdersOf(c)' = {o \in orders' : o.customer = c}
    BY DEF OrdersOf
  <2>5. CASE At(8, 1)
    <3>1. orders' = {o \in orders : o.customer \notin D!Found}
      BY <1>0, <1>3, <2>5, StatementAt DEF D!WipeOrders
    <3>2. OrdersOf(c)' = {}
      BY <2>4, <3>1
    <3>3. OrdersDue(c)' = {}
      BY <2>3, <2>5, NothingDue DEF At, D!Line
    <3>4. QED
      BY <3>2, <3>3
  <2>6. ASSUME ~At(8, 1) PROVE Cardinality(OrdersOf(c)) = Cardinality(OrdersDue(c))
    <3>1. Past(8, 1, 1)
      BY <2>1, <2>6 DEF At, D!Line
    <3>2. QED
      BY <3>1 DEF OrdersMade
  <2>7. CASE At(9, 1)
    <3>1. D!CreateDemoOrder
      BY <1>0, <1>3, <2>7, StatementAt
    <3>2. PICK i \in DOMAIN Batches :
            LET q == D!DemoOrders[i] IN
            /\ place.item = i /\ D!who = q
            /\ Row(q.customer, q.status, q.price, q.courier) \notin orders
            /\ orders' = orders \cup {Row(q.customer, q.status, q.price, q.courier)}
      BY <3>1, NewOrder
    <3> DEFINE q == D!DemoOrders[i]
               o == Row(q.customer, q.status, q.price, q.courier)
    <3>3. o.customer = q.customer /\ o \notin orders /\ orders' = orders \cup {o}
      BY <3>2 DEF Row
    <3>4. \A j \in DOMAIN Batches : place = D!Line(9, j, 1) <=> j = i
      <4>1. \E j : place = D!Line(9, j, 1)
        BY <1>0, <2>7, ItemNow
      <4>2. QED
        BY <3>2, <4>1 DEF D!Line
    <3>5. i \notin OrdersDue(c)
      <4>1. i \in Nat
        BY DEF ClientsAssumption, SeedFits
      <4>2. ~Past(9, i, 1)
        BY <2>7, <3>2, <4>1 DEF Past, At
      <4>3. QED
        BY <4>2 DEF OrdersDue
    <3> HIDE DEF o
    <3>6. CASE q.customer = c
      <4>1. OrdersOf(c)' = OrdersOf(c) \cup {o} /\ o \notin OrdersOf(c)
        BY <2>4, <3>3, <3>6 DEF OrdersOf
      <4>2. OrdersDue(c)' = OrdersDue(c) \cup {i}
        BY <2>3, <3>4, <3>6
      <4>3. OrdersOf(c) \in SUBSET orders
        BY DEF OrdersOf
      <4>4. IsFiniteSet(OrdersOf(c)) /\ IsFiniteSet(OrdersDue(c))
        BY <1>0, <4>3, FS_Subset, DueIsFinite
      <4>5. Cardinality(OrdersOf(c)) = Cardinality(OrdersDue(c))
        BY <2>6, <2>7 DEF At
      <4>6. /\ Cardinality(OrdersOf(c) \cup {o}) = Cardinality(OrdersOf(c)) + 1
            /\ Cardinality(OrdersDue(c) \cup {i}) = Cardinality(OrdersDue(c)) + 1
        BY <3>5, <4>1, <4>4, OneMore
      <4>7. QED
        BY <4>1, <4>2, <4>5, <4>6
    <3>7. CASE q.customer # c
      <4>1. OrdersOf(c)' = OrdersOf(c)
        BY <2>4, <3>3, <3>7 DEF OrdersOf
      <4>2. OrdersDue(c)' = OrdersDue(c)
        BY <2>3, <3>4, <3>7
      <4>3. QED
        BY <2>6, <2>7, <4>1, <4>2 DEF At
    <3>8. QED
      BY <3>6, <3>7
  <2>8. CASE ~At(8, 1) /\ ~At(9, 1)
    <3>1. OrdersDue(c)' = OrdersDue(c)
      <4>1. \A i : place # D!Line(9, i, 1)
        BY <2>8 DEF At, D!Line
      <4>2. QED
        BY <2>3, <4>1
    <3>2. OrdersOf(c)' = OrdersOf(c)
      <4>1. CASE UNCHANGED orders
        BY <4>1 DEF OrdersOf
      <4>2. CASE At(12, 1) \/ At(13, 1)
        <5>1. D!who \in D!Samples
              /\ (orders' = orders \/ \E s, p, k : orders' = orders \cup {Row(D!who, s, p, k)})
          BY <1>0, <1>3, <4>2, StatementAt, NewSample
        <5>2. \A s, p, k : Row(D!who, s, p, k).customer # c
          BY <2>2, <5>1 DEF Row
        <5>3. QED
          BY <2>4, <5>1, <5>2 DEF OrdersOf
      <4>3. QED
        BY <1>0, <1>3, <2>8, <4>1, <4>2, StatementKeeps
    <3>3. QED
      BY <2>6, <2>8, <3>1, <3>2
  <2>9. QED
    BY <2>5, <2>7, <2>8
<1>4. QED
  BY <1>1, <1>2, <1>3, HowItGoes

(* The row of the ledger an entry becomes *)
Posted(c, amount) == [id |-> D!FreshId(ledger), customer |-> c, amount |-> amount]

LEMMA PostedIsNew ==
  ASSUME SeedTyped, NEW c, NEW amount
  PROVE  /\ Posted(c, amount).customer = c /\ Posted(c, amount).amount = amount
         /\ Posted(c, amount) \notin ledger
         /\ D!With(ledger, D!Entry(c, amount)) = ledger \cup {Posted(c, amount)}
<1>1. D!With(ledger, D!Entry(c, amount)) = ledger \cup {Posted(c, amount)}
  BY EntryAdded DEF Posted
<1>2. Posted(c, amount).id = D!FreshId(ledger)
  BY DEF Posted
<1>3. \A t \in ledger : t.id # D!FreshId(ledger)
  BY FreshIdIsNew DEF SeedTyped
<1>4. Posted(c, amount) \notin ledger
  BY <1>2, <1>3
<1>5. QED
  BY <1>1, <1>4 DEF Posted

LEMMA NewEntry ==
  ASSUME SeedTyped, D!CreateTx
  PROVE  ledger' = ledger \cup {Posted(D!who.customer, D!AmountOf(D!who))}
BY PostedIsNew DEF D!CreateTx

LEMMA NewSampleEntry ==
  ASSUME ClientsAssumption, SeedTyped, D!CreateSampleTx
  PROVE  /\ D!who \in D!Samples /\ D!SampleOrder[D!who].price \in Int
         /\ ledger' = IF D!who \in fresh
                        THEN ledger \cup {Posted(D!who, D!SampleOrder[D!who].price)}
                        ELSE ledger
<1>1. D!who \in D!Samples
  BY WhoNow DEF SeedTyped, D!CreateSampleTx
<1>2. D!SampleOrder[D!who].price \in Int
  BY <1>1, SampleParts
<1>3. D!With(ledger, D!Entry(D!who, D!SampleOrder[D!who].price)) =
        ledger \cup {Posted(D!who, D!SampleOrder[D!who].price)}
  BY PostedIsNew
<1>4. QED
  BY <1>1, <1>2, <1>3 DEF D!CreateSampleTx

(* The line of a demo order, or of an extra transaction *)
LEMMA ItemOfLine ==
  ASSUME ClientsAssumption, InScript
  PROVE  /\ \A k : At(9, k) => \E i \in DOMAIN Batches :
                                 place = D!Line(9, i, k) /\ D!who = D!DemoOrders[i]
         /\ \A k : At(10, k) => \E i \in DOMAIN Extras :
                                  place = D!Line(10, i, k) /\ D!who = Extras[i]
<1>1. 9 \in 1 .. 15 /\ 10 \in 1 .. 15
  OBVIOUS
<1>2. D!Script[9].list = D!DemoOrders /\ D!Script[10].list = Extras
  BY ListsOf
<1>3. DOMAIN D!DemoOrders = DOMAIN Batches
  BY DEF D!DemoOrders
<1>4. QED
  BY <1>1, <1>2, <1>3, ItemNow

LEMMA EntriesOfOneMore ==
  ASSUME SeedTyped, NEW c, NEW t, t \notin ledger, ledger' = ledger \cup {t}
  PROVE  /\ IsFiniteSet(EntriesOf(c))
         /\ t.customer = c => EntriesOf(c)' = EntriesOf(c) \cup {t} /\ t \notin EntriesOf(c)
         /\ t.customer # c => EntriesOf(c)' = EntriesOf(c)
<1>1. EntriesOf(c) \in SUBSET ledger
  BY DEF EntriesOf
<1>2. IsFiniteSet(EntriesOf(c))
  BY <1>1, FS_Subset DEF SeedTyped
<1>3. QED
  BY <1>2 DEF EntriesOf

LEMMA EntriesMadeStep ==
  ASSUME ClientsAssumption, SeedTyped, EntriesMade, D!Next \/ UNCHANGED D!vars
  PROVE  EntriesMade'
<1>0. InScript /\ IsFiniteSet(ledger) /\ IsLine(8, 1, 2)
  BY LinesNamed DEF SeedTyped
<1>1. CASE Turns \/ Used
  BY <1>0, <1>1, NothingPastInTurns DEF EntriesMade
<1>2. CASE UNCHANGED D!vars
  BY <1>2 DEF D!vars, D!people, D!commerce, EntriesMade, D!Found, Past, EntriesOf, DebitsDue,
              ExtrasDue
<1>3. CASE Statement
  <2> SUFFICES ASSUME NEW c \in D!Found, Past(8, 1, 2)'
               PROVE  Cardinality(EntriesOf(c)') =
                        Cardinality(DebitsDue(c)') + Cardinality(ExtrasDue(c)')
    BY <1>0, <1>3, StatementMoves DEF EntriesMade, D!Found
  <2>1. Past(8, 1, 2) \/ place = D!Line(8, 1, 2)
    BY <1>0, <1>3, PastMoves
  <2>2. c \in D!DemoCustomers /\ c \notin D!Samples
    BY SamplesAreNoDemo DEF D!Found
  <2>3. /\ DebitsDue(c)' = DebitsDue(c) \cup
             {i \in DOMAIN Batches : D!DemoOrders[i].customer = c /\ place = D!Line(9, i, 2)}
        /\ ExtrasDue(c)' = ExtrasDue(c) \cup
             {i \in DOMAIN Extras : Extras[i].customer = c /\ place = D!Line(10, i, 1)}
    BY <1>0, <1>3, DueGrows
  <2>4. EntriesOf(c)' = {t \in ledger' : t.customer = c}
    BY DEF EntriesOf
  <2>5. /\ IsFiniteSet(DebitsDue(c)) /\ IsFiniteSet(ExtrasDue(c))
        /\ Cardinality(DebitsDue(c)) \in Nat /\ Cardinality(ExtrasDue(c)) \in Nat
    BY DueIsFinite, FS_CardinalityType
  <2>6. CASE At(8, 2)
    <3>1. ledger' = {t \in ledger : t.customer \notin D!Found}
      BY <1>0, <1>3, <2>6, StatementAt DEF D!WipeLedger
    <3>2. EntriesOf(c)' = {}
      BY <2>4, <3>1
    <3>3. DebitsDue(c)' = {} /\ ExtrasDue(c)' = {}
      BY <2>3, <2>6, NothingDue DEF At, D!Line
    <3>4. Cardinality({}) = 0
      BY FS_EmptySet
    <3>5. QED
      BY <3>2, <3>3, <3>4
  <2>7. ASSUME ~At(8, 2)
        PROVE  Cardinality(EntriesOf(c)) =
                 Cardinality(DebitsDue(c)) + Cardinality(ExtrasDue(c))
    <3>1. Past(8, 1, 2)
      BY <2>1, <2>7 DEF At, D!Line
    <3>2. QED
      BY <3>1 DEF EntriesMade
  <2>8. CASE At(9, 2)
    <3>1. PICK i \in DOMAIN Batches : place = D!Line(9, i, 2) /\ D!who = D!DemoOrders[i]
      BY <1>0, <2>8, ItemOfLine
    <3>2. \A j : /\ place = D!Line(9, j, 2) <=> j = i
                 /\ place # D!Line(10, j, 1)
      BY <3>1 DEF D!Line
    <3> DEFINE t == Posted(D!who.customer, D!AmountOf(D!who))
    <3>3. ledger' = ledger \cup {t} /\ t \notin ledger /\ t.customer = D!DemoOrders[i].customer
      BY <1>0, <1>3, <2>8, <3>1, StatementAt, NewEntry, PostedIsNew
    <3> HIDE DEF t
    <3>4. i \notin DebitsDue(c)
      <4>1. i \in Nat
        BY DEF ClientsAssumption, SeedFits
      <4>2. ~Past(9, i, 2)
        BY <3>1, <4>1 DEF Past, D!Line
      <4>3. QED
        BY <4>2 DEF DebitsDue
    <3>5. ExtrasDue(c)' = ExtrasDue(c)
      BY <2>3, <3>2
    <3>6. CASE D!DemoOrders[i].customer = c
      <4>1. /\ EntriesOf(c)' = EntriesOf(c) \cup {t} /\ t \notin EntriesOf(c)
            /\ IsFiniteSet(EntriesOf(c))
        BY <3>3, <3>6, EntriesOfOneMore
      <4>2. DebitsDue(c)' = DebitsDue(c) \cup {i}
        BY <2>3, <3>2, <3>6
      <4>3. /\ Cardinality(EntriesOf(c) \cup {t}) = Cardinality(EntriesOf(c)) + 1
            /\ Cardinality(DebitsDue(c) \cup {i}) = Cardinality(DebitsDue(c)) + 1
        BY <2>5, <3>4, <4>1, OneMore
      <4>4. Cardinality(EntriesOf(c)) = Cardinality(DebitsDue(c)) + Cardinality(ExtrasDue(c))
        BY <2>7, <2>8 DEF At
      <4>5. QED
        BY <2>5, <3>5, <4>1, <4>2, <4>3, <4>4
    <3>7. CASE D!DemoOrders[i].customer # c
      <4>1. EntriesOf(c)' = EntriesOf(c)
        BY <3>3, <3>7, EntriesOfOneMore
      <4>2. DebitsDue(c)' = DebitsDue(c)
        BY <2>3, <3>2, <3>7
      <4>3. QED
        BY <2>7, <2>8, <3>5, <4>1, <4>2 DEF At
    <3>8. QED
      BY <3>6, <3>7
  <2>9. CASE At(10, 1)
    <3>1. PICK i \in DOMAIN Extras : place = D!Line(10, i, 1) /\ D!who = Extras[i]
      BY <1>0, <2>9, ItemOfLine
    <3>2. \A j : /\ place = D!Line(10, j, 1) <=> j = i
                 /\ place # D!Line(9, j, 2)
      BY <3>1 DEF D!Line
    <3> DEFINE t == Posted(D!who.customer, D!AmountOf(D!who))
    <3>3. ledger' = ledger \cup {t} /\ t \notin ledger /\ t.customer = Extras[i].customer
      BY <1>0, <1>3, <2>9, <3>1, StatementAt, NewEntry, PostedIsNew
    <3> HIDE DEF t
    <3>4. i \notin ExtrasDue(c)
      <4>1. i \in Nat
        BY DEF ClientsAssumption, SeedFits
      <4>2. ~Past(10, i, 1)
        BY <3>1, <4>1 DEF Past, D!Line
      <4>3. QED
        BY <4>2 DEF ExtrasDue
    <3>5. DebitsDue(c)' = DebitsDue(c)
      BY <2>3, <3>2
    <3>6. CASE Extras[i].customer = c
      <4>1. /\ EntriesOf(c)' = EntriesOf(c) \cup {t} /\ t \notin EntriesOf(c)
            /\ IsFiniteSet(EntriesOf(c))
        BY <3>3, <3>6, EntriesOfOneMore
      <4>2. ExtrasDue(c)' = ExtrasDue(c) \cup {i}
        BY <2>3, <3>2, <3>6
      <4>3. /\ Cardinality(EntriesOf(c) \cup {t}) = Cardinality(EntriesOf(c)) + 1
            /\ Cardinality(ExtrasDue(c) \cup {i}) = Cardinality(ExtrasDue(c)) + 1
        BY <2>5, <3>4, <4>1, OneMore
      <4>4. Cardinality(EntriesOf(c)) = Cardinality(DebitsDue(c)) + Cardinality(ExtrasDue(c))
        BY <2>7, <2>9 DEF At
      <4>5. QED
        BY <2>5, <3>5, <4>1, <4>2, <4>3, <4>4
    <3>7. CASE Extras[i].customer # c
      <4>1. EntriesOf(c)' = EntriesOf(c)
        BY <3>3, <3>7, EntriesOfOneMore
      <4>2. ExtrasDue(c)' = ExtrasDue(c)
        BY <2>3, <3>2, <3>7
      <4>3. QED
        BY <2>7, <2>9, <3>5, <4>1, <4>2 DEF At
    <3>8. QED
      BY <3>6, <3>7
  <2>10. CASE ~At(8, 2) /\ ~At(9, 2) /\ ~At(10, 1)
    <3>1. DebitsDue(c)' = DebitsDue(c) /\ ExtrasDue(c)' = ExtrasDue(c)
      <4>1. \A i : place # D!Line(9, i, 2) /\ place # D!Line(10, i, 1)
        BY <2>10 DEF At, D!Line
      <4>2. QED
        BY <2>3, <4>1
    <3>2. EntriesOf(c)' = EntriesOf(c)
      <4>1. CASE UNCHANGED ledger
        BY <4>1 DEF EntriesOf
      <4>2. CASE At(12, 2) \/ At(13, 2)
        <5>1. D!who \in D!Samples
              /\ \/ ledger' = ledger
                 \/ ledger' = ledger \cup {Posted(D!who, D!SampleOrder[D!who].price)}
          BY <1>0, <1>3, <4>2, StatementAt, NewSampleEntry
        <5>2. Posted(D!who, D!SampleOrder[D!who].price).customer # c
          BY <2>2, <5>1 DEF Posted
        <5>3. QED
          BY <2>4, <5>1, <5>2 DEF EntriesOf
      <4>3. QED
        BY <1>0, <1>3, <2>10, <4>1, <4>2, StatementKeeps
    <3>3. QED
      BY <2>7, <2>10, <3>1, <3>2
  <2>11. QED
    BY <2>6, <2>8, <2>9, <2>10
<1>4. QED
  BY <1>1, <1>2, <1>3, HowItGoes

LEMMA OwedThen ==
  ASSUME NEW c PROVE D!Owed(c)' = Summed(EntriesOf(c)')
BY DEF D!Owed, D!MapThenSumSet, D!MapThenFoldSet, SumsUp, Chosen, EntriesOf, Summed

LEMMA FoundHasAccount ==
  ASSUME SeedTyped, AccountsFirst, NEW c \in D!DemoCustomers, place.loop > 7
  PROVE  c \in DOMAIN balance /\ balance[c] \in Int
<1>1. PICK j \in DOMAIN Slots : c = Slots[j]
  BY DEF D!DemoCustomers, D!Range
<1>2. Past(7, j, 1)
  BY LoopsOver
<1>3. QED
  BY <1>1, <1>2 DEF AccountsFirst, SeedTyped

(* An entry becomes due only where it is posted. *)
LEMMA DueThen ==
  ASSUME ClientsAssumption, InScript, Statement, NEW c
  PROVE  /\ ~At(9, 2) /\ ~At(10, 1) => Due(c)' = 0
         /\ At(9, 2) \/ At(10, 1) =>
              Due(c)' = IF D!who.customer = c THEN D!AmountOf(D!who) ELSE 0
<1>1. PICK l \in 1 .. 14 : \E k : At(l, k)
  BY StatementMoves
<1>2. PICK k : At(l, k)
  BY <1>1
<1>3. /\ place'.loop \in {l, l + 1}
      /\ k < Len(D!Script[l].ops) => At(l, k + 1)' /\ D!who' = D!who
      /\ k = Len(D!Script[l].ops) => place'.step = 1
      /\ k \in 1 .. Len(D!Script[l].ops)
  BY <1>2, PlaceFromHere
<1>4. CASE At(9, 2) \/ At(10, 1)
  <2>1. (l = 9 /\ k = 2) \/ (l = 10 /\ k = 1)
    BY <1>2, <1>4 DEF At
  <2>2. k < Len(D!Script[l].ops)
    <3>1. CASE l = 9
      <4>1. Len(D!Script[l].ops) = 3 /\ k = 2
        BY <2>1, <3>1, OpsLengths
      <4>2. QED
        BY <4>1
    <3>2. CASE l = 10
      <4>1. Len(D!Script[l].ops) = 2 /\ k = 1
        BY <2>1, <3>2, OpsLengths
      <4>2. QED
        BY <4>1
    <3>3. QED
      BY <2>1, <3>1, <3>2
  <2>3. (At(9, 3) \/ At(10, 2))' /\ D!who' = D!who
    BY <1>3, <2>1, <2>2
  <2>4. QED
    BY <1>4, <2>3 DEF Due
<1>5. CASE ~At(9, 2) /\ ~At(10, 1)
  <2>1. SUFFICES ASSUME (At(9, 3) \/ At(10, 2))' PROVE FALSE
    BY <1>5 DEF Due
  <2> DEFINE n == Len(D!Script[l].ops)
  <2>2. place'.step # 1
    BY <2>1 DEF At
  <2>3. n \in Nat
    <3>1. l \in 1 .. 15
      OBVIOUS
    <3>2. QED
      BY <3>1, ScriptIsFinite
  <2>4. k < n /\ At(l, k + 1)'
    <3>1. k \in 1 .. n /\ k # n
      BY <1>3, <2>2
    <3> HIDE DEF n
    <3>2. k < n
      BY <2>3, <3>1
    <3>3. QED
      BY <1>3, <3>2 DEF n
  <2>5. (l = 9 /\ k + 1 = 3) \/ (l = 10 /\ k + 1 = 2)
    BY <2>1, <2>4 DEF At
  <2>6. k \in Nat
    BY <1>3
  <2>7. (l = 9 /\ k = 2) \/ (l = 10 /\ k = 1)
    BY <2>5, <2>6
  <2>8. QED
    BY <1>2, <1>5, <2>7
<1>6. QED
  BY <1>4, <1>5

LEMMA SumOfOnePosted ==
  ASSUME SeedTyped, NEW c, NEW t, t \notin ledger, ledger' = ledger \cup {t}, t.amount \in Int
  PROVE  /\ D!Owed(c) \in Int
         /\ D!Owed(c)' = D!Owed(c) + (IF t.customer = c THEN t.amount ELSE 0)
<1>1. /\ IsFiniteSet(EntriesOf(c)) /\ t \notin EntriesOf(c)
      /\ t.customer = c => EntriesOf(c)' = EntriesOf(c) \cup {t}
      /\ t.customer # c => EntriesOf(c)' = EntriesOf(c)
  BY EntriesOfOneMore DEF EntriesOf
<1>2. \A x \in EntriesOf(c) : x.amount \in Int
  BY DEF EntriesOf, SeedTyped, DemoEntry
<1> DEFINE sum == Summed(EntriesOf(c))
<1>3. sum \in Int /\ Summed(EntriesOf(c) \cup {t}) = sum + t.amount
  BY <1>1, <1>2, SumOfOneMore
<1>4. D!Owed(c) = sum /\ D!Owed(c)' = Summed(EntriesOf(c)')
  BY OwedIsSum, OwedThen
<1>5. t.customer = c => D!Owed(c)' = sum + t.amount
  BY <1>1, <1>3, <1>4
<1>6. t.customer # c => D!Owed(c)' = sum
  BY <1>1, <1>4
<1> HIDE DEF sum
<1>7. QED
  BY <1>3, <1>4, <1>5, <1>6

LEMMA BalancesMadeStep ==
  ASSUME ClientsAssumption, SeedTyped, AccountsFirst, EntriesMade, BalancesMade,
         D!Next \/ UNCHANGED D!vars
  PROVE  BalancesMade'
<1>0. InScript /\ IsLine(8, 1, 3)
  BY LinesNamed DEF SeedTyped
<1>1. CASE Turns \/ Used
  BY <1>0, <1>1, NothingPastInTurns DEF BalancesMade
<1>2. CASE UNCHANGED D!vars
  <2>1. \A c : /\ D!Owed(c)' = D!Owed(c) /\ Due(c)' = Due(c)
               /\ balance' = balance /\ renamed' = renamed /\ place' = place
    BY <1>2, OwedIsSum, OwedThen DEF D!vars, D!people, D!commerce, EntriesOf, Due, At,
                                     D!who, D!Here
  <2>2. QED
    BY <2>1 DEF BalancesMade, D!Found, Past
<1>3. CASE Statement
  <2> SUFFICES ASSUME NEW c \in D!Found, Past(8, 1, 3)'
               PROVE  balance'[c] + Due(c)' = D!Owed(c)'
    BY <1>0, <1>3, StatementMoves DEF BalancesMade, D!Found
  <2>1. Past(8, 1, 3) \/ place = D!Line(8, 1, 3)
    BY <1>0, <1>3, PastMoves
  <2>2. c \in D!DemoCustomers /\ c \notin D!Samples
    BY SamplesAreNoDemo DEF D!Found
  <2>3. place.loop > 7 /\ ~At(8, 2)
    <3>1. CASE place = D!Line(8, 1, 3)
      BY <3>1 DEF D!Line, At
    <3>2. CASE Past(8, 1, 3)
      <4>1. place.loop >= 8
        BY <1>0, <3>2, PastIsRunning
      <4>2. At(8, 2) => place.item = 1
        BY <1>0, ItemNow, ListsOf DEF D!Line
      <4>3. place.loop \in Nat
        BY <1>0 DEF InScript, D!Nowhere, D!Line
      <4>4. QED
        BY <3>2, <4>1, <4>2, <4>3 DEF Past, At
    <3>3. QED
      BY <2>1, <3>1, <3>2
  <2>4. c \in DOMAIN balance /\ balance[c] \in Int
    BY <2>2, <2>3, FoundHasAccount
  <2>5. ASSUME ~At(8, 3) PROVE balance[c] + Due(c) = D!Owed(c)
    BY <2>1, <2>5 DEF BalancesMade, At, D!Line
  <2>6. ~At(9, 3) /\ ~At(10, 2) => Due(c) = 0
    BY DEF Due
  <2>7. /\ ~At(9, 2) /\ ~At(10, 1) => Due(c)' = 0
        /\ At(9, 2) \/ At(10, 1) =>
             Due(c)' = IF D!who.customer = c THEN D!AmountOf(D!who) ELSE 0
    BY <1>0, <1>3, DueThen
  <2>8. UNCHANGED ledger => D!Owed(c)' = D!Owed(c)
    BY OwedIsSum, OwedThen DEF EntriesOf
  <2>9. CASE At(8, 3)
    <3>1. D!WipeBalance /\ place = D!Line(8, 1, 3)
      BY <1>0, <1>3, <2>1, <2>9, StatementAt, ItemNow, ListsOf DEF D!Line
    <3>2. balance'[c] = 0
      BY <2>4, <3>1 DEF D!WipeBalance
    <3>3. Due(c)' = 0
      BY <2>7, <2>9 DEF At
    <3>4. D!Owed(c)' = 0
      <4>1. Past(8, 1, 2)
        BY <3>1 DEF Past, D!Line
      <4>2. DebitsDue(c) = {} /\ ExtrasDue(c) = {}
        BY <2>9, NothingDue DEF At
      <4>3. Cardinality(EntriesOf(c)) = 0
        BY <4>1, <4>2, FS_EmptySet DEF EntriesMade
      <4>4. EntriesOf(c) \in SUBSET ledger
        BY DEF EntriesOf
      <4>5. EntriesOf(c) = {}
        BY <4>3, <4>4, FS_Subset, FS_EmptySet DEF SeedTyped
      <4>6. EntriesOf(c)' = {}
        BY <3>1, <4>5 DEF D!WipeBalance, EntriesOf
      <4>7. QED
        BY <4>6, OwedThen, SumOfNone
    <3>5. QED
      BY <3>2, <3>3, <3>4
  <2>10. CASE At(9, 2) \/ At(10, 1)
    <3>1. D!CreateTx /\ D!Now("tx")
      BY <1>0, <1>3, <2>10, StatementAt DEF D!CreateTx
    <3> DEFINE t == Posted(D!who.customer, D!AmountOf(D!who))
    <3>2. /\ ledger' = ledger \cup {t} /\ t \notin ledger
          /\ t.customer = D!who.customer /\ t.amount = D!AmountOf(D!who)
      BY <3>1, NewEntry, PostedIsNew
    <3>3. D!AmountOf(D!who) \in Int
      BY <1>0, <3>1, WhoNow
    <3> HIDE DEF t
    <3>4. /\ D!Owed(c) \in Int
          /\ D!Owed(c)' = D!Owed(c) + (IF t.customer = c THEN t.amount ELSE 0)
      BY <3>2, <3>3, SumOfOnePosted
    <3>5. balance' = balance
      BY <3>1 DEF D!CreateTx
    <3>6. balance[c] = D!Owed(c)
      BY <2>4, <2>5, <2>6, <2>10 DEF At
    <3>7. Due(c)' = IF D!who.customer = c THEN D!AmountOf(D!who) ELSE 0
      BY <2>7, <2>10
    <3>8. QED
      BY <3>2, <3>3, <3>4, <3>5, <3>6, <3>7
  <2>11. CASE At(9, 3) \/ At(10, 2)
    <3>1. D!IncrementBalance /\ D!Now("increment")
      BY <1>0, <1>3, <2>11, StatementAt DEF D!IncrementBalance
    <3> DEFINE a == D!AmountOf(D!who)
               w == D!who.customer
    <3>2. a \in Int
      BY <1>0, <3>1, WhoNow
    <3>3. balance' = [balance EXCEPT ![w] = @ + a] /\ ledger' = ledger
      BY <3>1 DEF D!IncrementBalance
    <3>4. Due(c) = IF w = c THEN a ELSE 0
      BY <2>11 DEF Due
    <3> HIDE DEF a, w
    <3>5. balance'[c] = balance[c] + (IF w = c THEN a ELSE 0)
      BY <2>4, <3>2, <3>3, IncrementTyped
    <3>6. balance[c] + Due(c) = D!Owed(c)
      BY <2>5, <2>11 DEF At
    <3>7. Due(c)' = 0
      BY <2>7, <2>11 DEF At
    <3>8. balance'[c] + 0 = balance'[c]
      BY <2>4, <3>2, <3>5
    <3>9. QED
      BY <2>8, <3>3, <3>4, <3>5, <3>6, <3>7, <3>8
  <2>12. CASE /\ ~At(8, 3) /\ ~At(9, 2) /\ ~At(10, 1) /\ ~At(9, 3) /\ ~At(10, 2)
    <3>1. balance'[c] = balance[c]
      <4>1. CASE UNCHANGED balance
        BY <4>1
      <4>2. CASE At(12, 3) \/ At(13, 3)
        <5>1. D!IncrementSample /\ D!Now("sampleIncrement") /\ D!NextLine
          BY <1>0, <1>3, <4>2, StatementAt, StatementMoves DEF D!IncrementSample
        <5>2. D!who # c
          BY <1>0, <2>2, <5>1, WhoNow
        <5>3. ~D!Stop
          BY <1>0, <5>1, NextLineIsNotStop
        <5>4. QED
          BY <2>4, <5>1, <5>2, <5>3 DEF D!IncrementSample, SeedTyped
      <4>3. ~At(3, 2) /\ ~At(7, 1)
        BY <2>3 DEF At
      <4>4. QED
        BY <1>0, <1>3, <2>12, <4>1, <4>2, <4>3, StatementKeeps
    <3>2. D!Owed(c)' = D!Owed(c)
      <4>1. CASE UNCHANGED ledger
        BY <2>8, <4>1
      <4>2. CASE At(12, 2) \/ At(13, 2)
        <5> DEFINE t == Posted(D!who, D!SampleOrder[D!who].price)
        <5>1. /\ D!who \in D!Samples
              /\ ledger' = ledger \/ ledger' = ledger \cup {t}
          BY <1>0, <1>3, <4>2, StatementAt, NewSampleEntry
        <5>2. t.customer # c
          BY <2>2, <5>1 DEF Posted
        <5> HIDE DEF t
        <5>3. EntriesOf(c)' = EntriesOf(c)
          BY <5>1, <5>2 DEF EntriesOf
        <5>4. QED
          BY <5>3, OwedIsSum, OwedThen
      <4>3. QED
        BY <1>0, <1>3, <2>3, <2>12, <4>1, <4>2, StatementKeeps
    <3>3. QED
      BY <2>5, <2>6, <2>7, <2>12, <3>1, <3>2
  <2>13. QED
    BY <2>9, <2>10, <2>11, <2>12
<1>4. QED
  BY <1>1, <1>2, <1>3, HowItGoes

-----------------------------------------------------------------------------
(* Samples *)

(* The first three users, and the first two cards, are those of the        *)
(* samples.                                                                *)
LEMMA SamplesMadeStep ==
  ASSUME ClientsAssumption, SeedTyped, SamplesMade, D!Next \/ UNCHANGED D!vars
  PROVE  SamplesMade'
<1>0. InScript /\ (\A i \in 1 .. 3 : IsLine(1, i, 1)) /\ (\A i \in 1 .. 2 : IsLine(3, i, 1))
  BY LinesNamed DEF SeedTyped
<1>1. CASE Turns \/ Used
  BY <1>0, <1>1, NothingPastInTurns DEF SamplesMade
<1>2. CASE UNCHANGED D!vars
  BY <1>2 DEF D!vars, D!people, SamplesMade, Past
<1>3. CASE Statement
  <2>1. users \subseteq users' /\ cards \subseteq cards'
    BY <1>0, <1>3, StatementKeeps
  <2>2. ASSUME NEW i \in 1 .. 3, Past(1, i, 1)' PROVE D!Script[1].list[i] \in users'
    <3>1. CASE Past(1, i, 1)
      BY <2>1, <3>1 DEF SamplesMade
    <3>2. CASE place = D!Line(1, i, 1)
      <4>1. At(1, 1) /\ D!who = D!Script[1].list[i]
        BY <3>2 DEF At, D!Line, D!who, D!Here
      <4>2. D!UpsertUser
        BY <1>0, <1>3, <4>1, StatementAt
      <4>3. QED
        BY <4>1, <4>2 DEF D!UpsertUser
    <3>3. QED
      BY <1>0, <1>3, <2>2, <3>1, <3>2, PastMoves
  <2>3. ASSUME NEW i \in 1 .. 2, Past(3, i, 1)' PROVE D!Script[3].list[i] \in cards'
    <3>1. CASE Past(3, i, 1)
      BY <2>1, <3>1 DEF SamplesMade
    <3>2. CASE place = D!Line(3, i, 1)
      <4>1. At(3, 1) /\ D!who = D!Script[3].list[i]
        BY <3>2 DEF At, D!Line, D!who, D!Here
      <4>2. D!CreateCard
        BY <1>0, <1>3, <4>1, StatementAt
      <4>3. D!who \in users
        <5>1. \E j \in 1 .. 3 : D!Script[3].list[i] = D!Script[1].list[j]
          <6>1. D!Script[3].list = <<"corporate", "individual">> \o Slots
                /\ D!Script[1].list = <<"courier", "corporate", "individual">>
            BY ListsOf DEF D!CustomerUsers
          <6>2. Slots \in Seq(STRING)
            BY DEF ClientsAssumption, SeedFits
          <6>3. /\ i = 1 => D!Script[3].list[i] = "corporate"
                /\ i = 2 => D!Script[3].list[i] = "individual"
            BY <6>1, <6>2
          <6>4. D!Script[1].list[2] = "corporate" /\ D!Script[1].list[3] = "individual"
            BY <6>1
          <6>5. (i = 1 \/ i = 2) /\ 2 \in 1 .. 3 /\ 3 \in 1 .. 3
            OBVIOUS
          <6>6. QED
            BY <6>3, <6>4, <6>5
        <5>2. \A j \in 1 .. 3 : Past(1, j, 1)
          BY <4>1 DEF At, Past
        <5>3. QED
          BY <4>1, <5>1, <5>2 DEF SamplesMade
      <4>4. QED
        BY <4>1, <4>2, <4>3 DEF D!CreateCard
    <3>3. QED
      BY <1>0, <1>3, <2>3, <3>1, <3>2, PastMoves
  <2>4. QED
    BY <2>2, <2>3 DEF SamplesMade
<1>4. QED
  BY <1>1, <1>2, <1>3, HowItGoes

(* After the users' loop the samples have cards. *)
LEMMA SamplesHaveCards ==
  ASSUME ClientsAssumption, SamplesMade, place.loop > 3, NEW c \in D!Samples
  PROVE  c \in cards
<1>1. \A i \in 1 .. 2 : D!Script[3].list[i] \in cards
  <2>1. \A i \in 1 .. 2 : Past(3, i, 1)
    BY DEF Past
  <2>2. QED
    BY <2>1 DEF SamplesMade
<1>2. D!Script[3].list[1] = "corporate" /\ D!Script[3].list[2] = "individual"
  <2>1. D!Script[3].list = <<"corporate", "individual">> \o Slots /\ Slots \in Seq(STRING)
    BY ListsOf DEF D!CustomerUsers, ClientsAssumption, SeedFits
  <2>2. QED
    BY <2>1
<1>3. 1 \in 1 .. 2 /\ 2 \in 1 .. 2 /\ c \in {"individual", "corporate"}
  BY DEF D!Samples
<1>4. QED
  BY <1>1, <1>2, <1>3

LEMMA CountedStep ==
  ASSUME ClientsAssumption, SeedTyped, Counted, D!Next \/ UNCHANGED D!vars
  PROVE  Counted'
<1>0. InScript /\ counts \in [D!AllCouriers -> Nat]
      /\ \A i \in DOMAIN D!Script[14].list : IsLine(14, i, 1)
  BY LinesNamed DEF SeedTyped
<1>1. CASE Turns \/ Used
  BY <1>0, <1>1, NothingPastInTurns DEF Counted
<1>2. CASE UNCHANGED D!vars
  BY <1>2 DEF D!vars, D!commerce, Counted, Past, D!Delivered
<1>3. CASE Statement
  <2> SUFFICES ASSUME NEW i \in DOMAIN D!Script[14].list, Past(14, i, 1)'
               PROVE  LET k == D!Script[14].list[i] IN
                      counts'[k] = Cardinality(D!Delivered(k)')
    BY DEF Counted
  <2> DEFINE k == D!Script[14].list[i]
  <2>1. Past(14, i, 1) \/ place = D!Line(14, i, 1)
    BY <1>0, <1>3, PastMoves
  <2>2. PICK l \in 1 .. 14 : \E n : At(l, n)
    BY <1>0, <1>3, StatementMoves
  <2>3. place.loop = 14
    <3>1. CASE place = D!Line(14, i, 1)
      BY <3>1 DEF D!Line
    <3>2. CASE Past(14, i, 1)
      <4>1. place.loop >= 14
        BY <1>0, <3>2, PastIsRunning
      <4>2. QED
        BY <2>2, <4>1 DEF At
    <3>3. QED
      BY <2>1, <3>1, <3>2
  <2>4. At(14, 1)
    <3>1. PICK n : At(14, n)
      BY <2>2, <2>3 DEF At
    <3>2. n \in 1 .. Len(D!Script[14].ops)
      <4>1. 14 \in 1 .. 14
        OBVIOUS
      <4>2. QED
        BY <1>0, <1>3, <3>1, <4>1, PlaceFromHere
    <3>3. n = 1
      BY <3>2, OpsLengths
    <3>4. QED
      BY <3>1, <3>3
  <2>5. D!CountDeliveries
    BY <1>0, <1>3, <2>4, StatementAt
  <2>6. counts' = [counts EXCEPT ![D!who] = D!Cardinality(D!Delivered(D!who))]
        /\ orders' = orders
    BY <2>5 DEF D!CountDeliveries
  <2>7. D!who \in D!AllCouriers
    BY <1>0, <2>5, WhoNow DEF D!CountDeliveries
  <2>8. D!Delivered(k)' = D!Delivered(k)
    BY <2>6 DEF D!Delivered
  <2>9. k \in D!AllCouriers
    BY ListsOf, ListMembers
  <2>10. CASE D!who = k
    <3>1. counts'[k] = D!Cardinality(D!Delivered(k))
      BY <1>0, <2>6, <2>9, <2>10
    <3>2. QED
      BY <2>8, <3>1, CardinalityIsSame
  <2>11. CASE D!who # k
    <3>1. place # D!Line(14, i, 1)
      BY <2>11 DEF D!Line, D!who, D!Here
    <3>2. counts[k] = Cardinality(D!Delivered(k))
      BY <2>1, <3>1 DEF Counted
    <3>3. counts'[k] = counts[k]
      BY <1>0, <2>6, <2>9, <2>11
    <3>4. QED
      BY <2>8, <3>2, <3>3
  <2>12. QED
    BY <2>10, <2>11
<1>4. QED
  BY <1>1, <1>2, <1>3, HowItGoes

LEMMA SampleDueThen ==
  ASSUME ClientsAssumption, InScript, Statement, NEW c
  PROVE  /\ ~At(12, 2) /\ ~At(13, 2) => DueSample(c)' = 0
         /\ At(12, 2) \/ At(13, 2) =>
              DueSample(c)' = IF D!who = c /\ c \in fresh' THEN D!SampleOrder[c].price ELSE 0
<1>1. PICK l \in 1 .. 14 : \E k : At(l, k)
  BY StatementMoves
<1>2. PICK k : At(l, k)
  BY <1>1
<1>3. /\ place'.loop \in {l, l + 1}
      /\ k < Len(D!Script[l].ops) => At(l, k + 1)' /\ D!who' = D!who
      /\ k = Len(D!Script[l].ops) => place'.step = 1
      /\ k \in 1 .. Len(D!Script[l].ops)
  BY <1>2, PlaceFromHere
<1>4. CASE At(12, 2) \/ At(13, 2)
  <2>1. (l = 12 /\ k = 2) \/ (l = 13 /\ k = 2)
    BY <1>2, <1>4 DEF At
  <2>2. k < Len(D!Script[l].ops)
    <3>1. CASE l = 12
      <4>1. Len(D!Script[l].ops) = 4 /\ k = 2
        BY <2>1, <3>1, OpsLengths
      <4>2. QED
        BY <4>1
    <3>2. CASE l = 13
      <4>1. Len(D!Script[l].ops) = 3 /\ k = 2
        BY <2>1, <3>2, OpsLengths
      <4>2. QED
        BY <4>1
    <3>3. QED
      BY <2>1, <3>1, <3>2
  <2>3. (At(12, 3) \/ At(13, 3))' /\ D!who' = D!who
    BY <1>3, <2>1, <2>2
  <2>4. QED
    BY <1>4, <2>3 DEF DueSample
<1>5. CASE ~At(12, 2) /\ ~At(13, 2)
  <2>1. SUFFICES ASSUME (At(12, 3) \/ At(13, 3))' PROVE FALSE
    BY <1>5 DEF DueSample
  <2> DEFINE n == Len(D!Script[l].ops)
  <2>2. place'.step # 1
    BY <2>1 DEF At
  <2>3. n \in Nat
    <3>1. l \in 1 .. 15
      OBVIOUS
    <3>2. QED
      BY <3>1, ScriptIsFinite
  <2>4. k < n /\ At(l, k + 1)'
    <3>1. k \in 1 .. n /\ k # n
      BY <1>3, <2>2
    <3> HIDE DEF n
    <3>2. k < n
      BY <2>3, <3>1
    <3>3. QED
      BY <1>3, <3>2 DEF n
  <2>5. (l = 12 /\ k + 1 = 3) \/ (l = 13 /\ k + 1 = 3)
    BY <2>1, <2>4 DEF At
  <2>6. k \in Nat
    BY <1>3
  <2>7. (l = 12 /\ k = 2) \/ (l = 13 /\ k = 2)
    BY <2>5, <2>6
  <2>8. QED
    BY <1>2, <1>5, <2>7
<1>6. QED
  BY <1>4, <1>5

LEMMA AccountAfterCard ==
  ASSUME ClientsAssumption, InScript, Statement, At(3, 1)
  PROVE  At(3, 2)' /\ D!who' = D!who
<1>1. 3 \in 1 .. 14 /\ 1 < Len(D!Script[3].ops) /\ 1 + 1 = 2
  BY OpsLengths
<1>2. At(3, 1 + 1)' /\ D!who' = D!who
  BY <1>1, PlaceFromHere
<1>3. QED
  BY <1>1, <1>2

(* What holds of one sample *)
SampleBalances(c) ==
  /\ c \in DOMAIN balance => balance[c] + DueSample(c) = D!Owed(c)
  /\ c \notin DOMAIN balance => EntriesOf(c) = {}
  /\ c \in cards => c \in DOMAIN balance \/ (At(3, 2) /\ D!who = c /\ c \in fresh)

(* Where no sample is touched *)
LEMMA SampleStays ==
  ASSUME NEW c, SampleBalances(c), EntriesOf(c)' = EntriesOf(c),
         c \in DOMAIN balance' <=> c \in DOMAIN balance,
         c \in DOMAIN balance => balance'[c] = balance[c],
         c \in cards' => c \in cards,
         DueSample(c)' = DueSample(c), ~At(3, 2)
  PROVE  SampleBalances(c)'
<1>1. D!Owed(c)' = D!Owed(c)
  BY OwedIsSum, OwedThen
<1>2. QED
  BY <1>1 DEF SampleBalances

LEMMA SamplesBetweenRuns ==
  ASSUME ClientsAssumption, SeedTyped, SamplesBalance, Used
  PROVE  SamplesBalance'
<1>1. place' = place /\ fresh' = fresh /\ stopped' = stopped /\ cards' = cards /\ place.loop = 0
  BY DEF Used, D!OrderDelivered, D!OrderCreated, D!EmailEdited, D!Use, D!Running
<1>2. SUFFICES ASSUME NEW c \in D!Samples, SampleBalances(c) PROVE SampleBalances(c)'
  BY <1>1 DEF SamplesBalance, SampleBalances
<1>3. DueSample(c) = 0 /\ DueSample(c)' = 0 /\ ~At(3, 2)
  BY <1>1 DEF DueSample, At
<1>4. ASSUME UNCHANGED <<balance, ledger>> PROVE SampleBalances(c)'
  <2>1. EntriesOf(c)' = EntriesOf(c)
    BY <1>4 DEF EntriesOf
  <2>2. QED
    BY <1>1, <1>2, <1>3, <1>4, <2>1, SampleStays
<1>5. ASSUME NEW d \in D!AllCustomers, D!OrderCreated(d) PROVE SampleBalances(c)'
  <2> DEFINE t == Posted(d, 1)
  <2>1. /\ balance' = [balance EXCEPT ![d] = @ + 1] /\ d \in DOMAIN balance
        /\ ledger' = ledger \cup {t} /\ t \notin ledger /\ t.customer = d /\ t.amount = 1
    BY <1>5, PostedIsNew DEF D!OrderCreated
  <2>2. 1 \in Int
    OBVIOUS
  <2> HIDE DEF t
  <2>3. /\ D!Owed(c) \in Int
        /\ D!Owed(c)' = D!Owed(c) + (IF d = c THEN 1 ELSE 0)
    BY <2>1, <2>2, SumOfOnePosted
  <2>4. /\ DOMAIN balance' = DOMAIN balance
        /\ \A x \in DOMAIN balance : x # d => balance'[x] = balance[x]
        /\ balance'[d] = balance[d] + 1
    BY <2>1, <2>2, IncrementTyped
  <2>5. CASE c = d
    <3>1. balance[c] \in Int /\ balance[c] + 0 = D!Owed(c)
      BY <1>2, <1>3, <2>1, <2>5 DEF SampleBalances, SeedTyped
    <3>2. balance'[c] + 0 = D!Owed(c)'
      BY <2>3, <2>4, <2>5, <3>1
    <3>3. QED
      BY <1>3, <2>1, <2>4, <2>5, <3>2 DEF SampleBalances
  <2>6. CASE c # d
    <3>1. EntriesOf(c)' = EntriesOf(c)
      BY <2>1, <2>6, EntriesOfOneMore
    <3>2. /\ c \in DOMAIN balance' <=> c \in DOMAIN balance
          /\ c \in DOMAIN balance => balance'[c] = balance[c]
      BY <2>4, <2>6
    <3>3. QED
      BY <1>1, <1>2, <1>3, <3>1, <3>2, SampleStays
  <2>7. QED
    BY <2>5, <2>6
<1>6. QED
  BY <1>4, <1>5 DEF Used, D!OrderDelivered, D!EmailEdited, D!commerce

LEMMA DemoIsNoSample ==
  ASSUME ClientsAssumption, NEW c \in D!Samples
  PROVE  c \notin D!DemoCustomers /\ c \notin D!Found
BY SamplesAreNoDemo DEF D!Found

(* Statements about the demo customers leave the samples alone. *)
LEMMA SampleUntouched ==
  ASSUME ClientsAssumption, SeedTyped, Statement, NEW c \in D!Samples,
         ~At(3, 1), ~At(3, 2), ~At(12, 2), ~At(13, 2), ~At(12, 3), ~At(13, 3)
  PROVE  /\ EntriesOf(c)' = EntriesOf(c)
         /\ c \in DOMAIN balance' <=> c \in DOMAIN balance
         /\ c \in DOMAIN balance => balance'[c] = balance[c]
         /\ c \in cards' => c \in cards
<1>0. InScript /\ c \notin D!DemoCustomers /\ c \notin D!Found
  BY DemoIsNoSample DEF SeedTyped
<1>1. EntriesOf(c)' = EntriesOf(c)
  <2>1. CASE UNCHANGED ledger
    BY <2>1 DEF EntriesOf
  <2>2. CASE At(8, 2)
    <3>1. ledger' = {t \in ledger : t.customer \notin D!Found}
      BY <1>0, <2>2, StatementAt DEF D!WipeLedger
    <3>2. QED
      BY <1>0, <3>1 DEF EntriesOf
  <2>3. CASE At(9, 2) \/ At(10, 1)
    <3>1. D!CreateTx /\ D!Now("tx")
      BY <1>0, <2>3, StatementAt DEF D!CreateTx
    <3>2. D!who.customer # c
      BY <1>0, <3>1, WhoNow
    <3> DEFINE t == Posted(D!who.customer, D!AmountOf(D!who))
    <3>3. ledger' = ledger \cup {t} /\ t \notin ledger /\ t.customer = D!who.customer
      BY <3>1, NewEntry, PostedIsNew
    <3> HIDE DEF t
    <3>4. QED
      BY <3>2, <3>3, EntriesOfOneMore
  <2>4. QED
    BY <1>0, <2>1, <2>2, <2>3, StatementKeeps
<1>2. /\ c \in DOMAIN balance' <=> c \in DOMAIN balance
      /\ c \in DOMAIN balance => balance'[c] = balance[c]
  <2>1. CASE UNCHANGED balance
    BY <2>1
  <2>2. CASE At(7, 1)
    <3>1. D!UpsertAccount /\ D!Now("account")
      BY <1>0, <2>2, StatementAt DEF D!UpsertAccount
    <3>2. D!who \in D!DemoCustomers /\ D!who \in D!AllCustomers
      BY <1>0, <3>1, WhoNow DEF D!AllCustomers
    <3>3. D!OpenAccount(D!who)
      BY <3>1 DEF D!UpsertAccount
    <3>4. /\ DOMAIN balance' = DOMAIN balance \cup {D!who}
          /\ \A x \in DOMAIN balance : balance'[x] = balance[x]
      BY <3>2, <3>3, AccountOpened
    <3>5. QED
      BY <1>0, <3>2, <3>4
  <2>3. CASE At(8, 3)
    <3>1. balance' = [x \in DOMAIN balance |-> IF x \in D!Found THEN 0 ELSE balance[x]]
      BY <1>0, <2>3, StatementAt DEF D!WipeBalance
    <3>2. QED
      BY <1>0, <3>1
  <2>4. CASE At(9, 3) \/ At(10, 2)
    <3>1. D!IncrementBalance /\ D!Now("increment")
      BY <1>0, <2>4, StatementAt DEF D!IncrementBalance
    <3>2. D!who.customer # c /\ D!AmountOf(D!who) \in Int
      BY <1>0, <3>1, WhoNow
    <3>3. balance' = [balance EXCEPT ![D!who.customer] = @ + D!AmountOf(D!who)]
      BY <3>1 DEF D!IncrementBalance
    <3>4. QED
      BY <3>2, <3>3, IncrementTyped
  <2>5. QED
    BY <1>0, <2>1, <2>2, <2>3, <2>4, StatementKeeps
<1>3. c \in cards' => c \in cards
  <2>1. CASE UNCHANGED cards
    BY <2>1
  <2>2. CASE ~UNCHANGED cards
    <3>1. At(6, 1) /\ ~At(3, 1)
      BY <1>0, <2>2, StatementKeeps
    <3>2. D!UpsertCard
      BY <1>0, <3>1, StatementAt
    <3>3. D!who \in D!DemoCustomers /\ cards' = cards \cup {D!who}
      BY <1>0, <3>2, WhoNow DEF D!UpsertCard
    <3>4. QED
      BY <1>0, <3>3
  <2>3. QED
    BY <2>1, <2>2
<1>4. QED
  BY <1>1, <1>2, <1>3

LEMMA SamplesInRun ==
  ASSUME ClientsAssumption, SeedTyped, FreshIsLookedFor, SamplesBalance, SamplesMade, Statement
  PROVE  SamplesBalance'
<1>0. InScript /\ stopped' = stopped
  BY StatementMoves DEF SeedTyped
<1>1. SUFFICES ASSUME NEW c \in D!Samples, SampleBalances(c) PROVE SampleBalances(c)'
  BY <1>0 DEF SamplesBalance, SampleBalances
<1>2. /\ ~At(12, 3) /\ ~At(13, 3) => DueSample(c) = 0
      /\ ~At(12, 2) /\ ~At(13, 2) => DueSample(c)' = 0
  BY <1>0, SampleDueThen DEF DueSample
<1>3. c \in D!AllCustomers
  BY DEF D!AllCustomers
<1>4. CASE At(3, 1)
  <2>1. D!CreateCard /\ At(3, 2)' /\ D!who' = D!who
    BY <1>0, <1>4, StatementAt, AccountAfterCard
  <2>2. balance' = balance /\ ledger' = ledger
    BY <2>1 DEF D!CreateCard, D!commerce
  <2>3. D!Owed(c)' = D!Owed(c) /\ EntriesOf(c)' = EntriesOf(c)
    BY <2>2, OwedIsSum, OwedThen DEF EntriesOf
  <2>4. DueSample(c) = 0 /\ DueSample(c)' = 0
    BY <1>2, <1>4 DEF At
  <2>5. c \in cards => c \in DOMAIN balance
    BY <1>1, <1>4 DEF SampleBalances, At
  <2>6. c \in cards' => c \in cards \/ (D!who = c /\ c \in fresh')
    BY <2>1 DEF D!CreateCard
  <2>7. QED
    BY <1>1, <2>1, <2>2, <2>3, <2>4, <2>5, <2>6 DEF SampleBalances
<1>5. CASE At(3, 2)
  <2>1. D!CreateAccount /\ D!Now("newAccount")
    BY <1>0, <1>5, StatementAt DEF D!CreateAccount
  <2>2. cards' = cards /\ ledger' = ledger
    BY <2>1 DEF D!CreateAccount, D!people
  <2>3. D!Owed(c)' = D!Owed(c) /\ EntriesOf(c)' = EntriesOf(c)
    BY <2>2, OwedIsSum, OwedThen DEF EntriesOf
  <2>4. DueSample(c) = 0 /\ DueSample(c)' = 0
    BY <1>2, <1>5 DEF At
  <2>5. D!who \in D!AllCustomers
    BY <1>0, <2>1, WhoNow
  <2>6. CASE D!who \in fresh
    <3>1. D!OpenAccount(D!who)
      BY <2>1, <2>6 DEF D!CreateAccount
    <3>2. /\ DOMAIN balance' = DOMAIN balance \cup {D!who}
          /\ \A x \in DOMAIN balance : balance'[x] = balance[x]
          /\ D!who \notin DOMAIN balance => balance'[D!who] = 0
      BY <2>5, <3>1, AccountOpened
    <3>3. CASE c \in DOMAIN balance
      BY <1>1, <2>3, <2>4, <3>2, <3>3 DEF SampleBalances
    <3>4. CASE c \notin DOMAIN balance /\ c = D!who
      <4>1. D!Owed(c) = 0
        BY <1>1, <3>4, OwedIsSum, SumOfNone DEF SampleBalances
      <4>2. balance'[c] = 0 /\ c \in DOMAIN balance'
        BY <3>2, <3>4
      <4>3. QED
        BY <2>3, <2>4, <4>1, <4>2 DEF SampleBalances
    <3>5. CASE c \notin DOMAIN balance /\ c # D!who
      <4>1. c \notin DOMAIN balance' /\ c \notin cards'
        BY <1>1, <2>2, <3>2, <3>5 DEF SampleBalances
      <4>2. QED
        BY <1>1, <2>3, <3>5, <4>1 DEF SampleBalances
    <3>6. QED
      BY <3>3, <3>4, <3>5
  <2>7. CASE D!who \notin fresh
    <3>1. balance' = balance
      BY <2>1, <2>7 DEF D!CreateAccount
    <3>2. c \in cards => c \in DOMAIN balance
      BY <1>1, <2>7 DEF SampleBalances
    <3>3. QED
      BY <1>1, <2>2, <2>3, <2>4, <3>1, <3>2 DEF SampleBalances
  <2>8. QED
    BY <2>6, <2>7
<1>6. ASSUME At(12, 2) \/ At(13, 2) \/ At(12, 3) \/ At(13, 3)
      PROVE  c \in cards /\ c \in DOMAIN balance /\ balance[c] \in Int /\ ~At(3, 2)
  <2>1. c \in cards /\ ~At(3, 2)
    BY <1>6, SamplesHaveCards DEF At
  <2>2. QED
    BY <1>1, <2>1 DEF SampleBalances, SeedTyped
<1>7. CASE At(12, 2) \/ At(13, 2)
  <2>1. D!CreateSampleTx
    BY <1>0, <1>7, StatementAt
  <2>2. balance' = balance /\ cards' = cards /\ fresh' = fresh
    BY <2>1 DEF D!CreateSampleTx, D!people
  <2> DEFINE p == D!SampleOrder[D!who].price
             t == Posted(D!who, p)
  <2>3. /\ p \in Int
        /\ ledger' = IF D!who \in fresh THEN ledger \cup {t} ELSE ledger
        /\ t \notin ledger /\ t.customer = D!who /\ t.amount = p
    BY <2>1, NewSampleEntry, PostedIsNew
  <2>4. DueSample(c) = 0
    BY <1>2, <1>7 DEF At
  <2>5. balance[c] = D!Owed(c)
    <3>1. balance[c] + 0 = D!Owed(c)
      BY <1>1, <1>6, <1>7, <2>4 DEF SampleBalances
    <3>2. QED
      BY <1>6, <1>7, <3>1
  <2>6. DueSample(c)' = IF D!who = c /\ c \in fresh' THEN D!SampleOrder[c].price ELSE 0
    BY <1>0, <1>7, SampleDueThen
  <2>7. D!who = c => D!SampleOrder[c].price = p
    OBVIOUS
  <2> HIDE DEF p, t
  <2>8. D!Owed(c)' = D!Owed(c) + DueSample(c)'
    <3>1. CASE D!who \in fresh
      <4>1. D!Owed(c)' = D!Owed(c) + (IF D!who = c THEN p ELSE 0)
        BY <2>3, <3>1, SumOfOnePosted
      <4>2. DueSample(c)' = IF D!who = c THEN p ELSE 0
        BY <2>2, <2>6, <2>7, <3>1
      <4>3. QED
        BY <4>1, <4>2
    <3>2. CASE D!who \notin fresh
      <4>1. D!Owed(c)' = D!Owed(c)
        BY <2>3, <3>2, OwedIsSum, OwedThen DEF EntriesOf
      <4>2. DueSample(c)' = 0
        BY <2>2, <2>6, <3>2
      <4>3. QED
        BY <1>6, <1>7, <2>5, <4>1, <4>2
    <3>3. QED
      BY <3>1, <3>2
  <2>9. QED
    BY <1>6, <1>7, <2>2, <2>5, <2>8 DEF SampleBalances
<1>8. CASE At(12, 3) \/ At(13, 3)
  <2>1. D!IncrementSample /\ D!Now("sampleIncrement") /\ ~D!Stop
    BY <1>0, <1>8, StatementAt, StatementMoves, NextLineIsNotStop DEF D!IncrementSample
  <2> DEFINE p == D!SampleOrder[D!who].price
  <2>2. p \in Int
    BY <1>0, <2>1, WhoNow, SampleParts
  <2>3. /\ balance' = IF D!who \in fresh THEN [balance EXCEPT ![D!who] = @ + p] ELSE balance
        /\ ledger' = ledger /\ cards' = cards
    BY <2>1 DEF D!IncrementSample, D!people
  <2>4. DueSample(c)' = 0
    BY <1>2, <1>8 DEF At
  <2>5. DueSample(c) = IF D!who = c /\ c \in fresh THEN p ELSE 0
    BY <1>8 DEF DueSample
  <2>6. D!Owed(c)' = D!Owed(c)
    BY <2>3, OwedIsSum, OwedThen DEF EntriesOf
  <2>7. balance[c] + DueSample(c) = D!Owed(c)
    BY <1>1, <1>6, <1>8 DEF SampleBalances
  <2> HIDE DEF p
  <2>8. c \in DOMAIN balance' /\ balance'[c] = balance[c] + DueSample(c)
    <3>1. CASE D!who \in fresh
      <4>1. balance' = [balance EXCEPT ![D!who] = @ + p]
        BY <2>3, <3>1
      <4>2. /\ DOMAIN balance' = DOMAIN balance
            /\ \A x \in DOMAIN balance : x # D!who => balance'[x] = balance[x]
            /\ D!who \in DOMAIN balance => balance'[D!who] = balance[D!who] + p
        BY <2>2, <4>1, IncrementTyped
      <4>3. QED
        BY <1>6, <1>8, <2>5, <3>1, <4>2
    <3>2. CASE D!who \notin fresh
      <4>1. DueSample(c) = 0 /\ balance' = balance
        BY <2>3, <2>5, <3>2
      <4>2. QED
        BY <1>6, <1>8, <4>1
    <3>3. QED
      BY <3>1, <3>2
  <2>9. balance'[c] + 0 = D!Owed(c)'
    <3>1. balance'[c] \in Int
      BY <2>2, <2>5, <2>8, <1>6, <1>8
    <3>2. QED
      BY <2>6, <2>7, <2>8, <3>1
  <2>10. QED
    BY <2>4, <2>8, <2>9 DEF SampleBalances
<1>9. CASE /\ ~At(3, 1) /\ ~At(3, 2) /\ ~At(12, 2) /\ ~At(13, 2) /\ ~At(12, 3) /\ ~At(13, 3)
  <2>1. /\ EntriesOf(c)' = EntriesOf(c)
        /\ c \in DOMAIN balance' <=> c \in DOMAIN balance
        /\ c \in DOMAIN balance => balance'[c] = balance[c]
        /\ c \in cards' => c \in cards
    BY <1>9, SampleUntouched
  <2>2. DueSample(c)' = DueSample(c)
    BY <1>2, <1>9
  <2>3. QED
    BY <1>1, <1>9, <2>1, <2>2, SampleStays
<1>10. QED
  BY <1>4, <1>5, <1>7, <1>8, <1>9

LEMMA SamplesBalanceStep ==
  ASSUME ClientsAssumption, SeedTyped, FreshIsLookedFor, SamplesBalance, SamplesMade,
         D!Next \/ UNCHANGED D!vars
  PROVE  SamplesBalance'
<1>1. CASE Turns
  <2>1. SUFFICES ASSUME ~stopped', NEW c \in D!Samples PROVE SampleBalances(c)'
    BY DEF SamplesBalance, SampleBalances
  <2>2. D!Start \/ D!End
    BY <1>1, <2>1 DEF Turns, D!Stop
  <2>3. place.loop = 0 \/ At(15, 1)
    BY <2>2, WhereNow DEF D!Start, D!Running, D!End, SeedTyped
  <2>4. ~stopped
    BY <2>1, <2>2 DEF D!Start, D!End, D!bounds
  <2>5. SampleBalances(c)
    BY <2>4 DEF SamplesBalance, SampleBalances
  <2>6. DueSample(c) = 0 /\ ~At(3, 2)
    BY <2>3 DEF DueSample, At
  <2>7. DueSample(c)' = 0
    BY <2>2 DEF DueSample, At, D!Start, D!End, D!Line, D!Nowhere
  <2>8. balance' = balance /\ ledger' = ledger /\ cards' = cards
    BY <1>1, TurnsKeep DEF D!people, D!commerce
  <2>9. EntriesOf(c)' = EntriesOf(c)
    BY <2>8 DEF EntriesOf
  <2>10. QED
    BY <2>5, <2>6, <2>7, <2>8, <2>9, SampleStays
<1>2. CASE UNCHANGED D!vars
  <2>1. \A c : /\ D!Owed(c)' = D!Owed(c) /\ DueSample(c)' = DueSample(c)
               /\ balance' = balance /\ cards' = cards /\ stopped' = stopped
               /\ EntriesOf(c)' = EntriesOf(c)
               /\ D!who' = D!who /\ fresh' = fresh /\ place' = place
    BY <1>2, OwedIsSum, OwedThen DEF D!vars, D!people, D!commerce, D!bounds, EntriesOf,
                                     DueSample, At, D!who, D!Here
  <2>2. QED
    BY <2>1 DEF SamplesBalance, At
<1>3. QED
  BY <1>1, <1>2, HowItGoes, SamplesInRun, SamplesBetweenRuns

-----------------------------------------------------------------------------
(* The seed as a whole *)

LEMMA SeedInvInit == ClientsAssumption /\ D!Init => SeedInv
<1> SUFFICES ASSUME ClientsAssumption, D!Init PROVE SeedInv
  OBVIOUS
<1>1. place = D!Nowhere /\ orders = {} /\ fresh = {}
      /\ balance = [c \in {} |-> 0] /\ ledger = {} /\ cards = {}
  BY DEF D!Init
<1>2. \A l, i, k : IsLine(l, i, k) => ~Past(l, i, k)
  BY <1>1, NothingPast
<1>3. SeedTyped
  BY SeedTypedInit
<1>4. AccountsFirst /\ FreshIsLookedFor
  BY <1>1, <1>2, LinesNamed DEF AccountsFirst, FreshIsLookedFor, At, D!Nowhere
<1>5. OrdersMade /\ EntriesMade /\ BalancesMade /\ SamplesMade /\ Counted
  BY <1>2, LinesNamed DEF OrdersMade, EntriesMade, BalancesMade, SamplesMade, Counted
<1>6. SamplesBalance
  BY <1>1 DEF SamplesBalance, EntriesOf
<1>7. QED
  BY <1>3, <1>4, <1>5, <1>6 DEF SeedInv

LEMMA SeedInvStep ==
  ASSUME ClientsAssumption, SeedInv, D!Next \/ UNCHANGED D!vars
  PROVE  SeedInv'
<1>1. /\ SeedTyped /\ AccountsFirst /\ FreshIsLookedFor /\ OrdersMade /\ EntriesMade
      /\ BalancesMade /\ SamplesBalance /\ SamplesMade /\ Counted /\ InScript
  BY DEF SeedInv, SeedTyped
<1>2. SeedTyped' /\ AccountsFirst' /\ FreshIsLookedFor'
  BY <1>1, SeedTypedStep, AccountsFirstStep, FreshIsLookedForStep
<1>3. OrdersMade' /\ EntriesMade' /\ BalancesMade'
  BY <1>1, OrdersMadeStep, EntriesMadeStep, BalancesMadeStep
<1>4. SamplesBalance' /\ SamplesMade' /\ Counted'
  BY <1>1, SamplesBalanceStep, SamplesMadeStep, CountedStep
<1>5. QED
  BY <1>2, <1>3, <1>4 DEF SeedInv

LEMMA SeedIsTyped ==
  ASSUME SeedInv PROVE D!TypeOK
BY DEF SeedInv, SeedTyped, AccountsFirst, D!TypeOK

(* Every courier has his turn in the last loop. *)
LEMMA CouriersHaveTurns ==
  ASSUME ClientsAssumption, NEW k \in D!AllCouriers
  PROVE  \E i \in DOMAIN D!Script[14].list : D!Script[14].list[i] = k
<1>1. CourierIds \in Seq(STRING)
  BY DEF ClientsAssumption, SeedFits
<1>2. D!Script[14].list = <<"courier">> \o CourierIds
  BY ListsOf DEF D!CouriersThereAre
<1>3. CASE k = "courier"
  <2>1. 1 \in DOMAIN D!Script[14].list /\ D!Script[14].list[1] = "courier"
    BY <1>1, <1>2
  <2>2. QED
    BY <1>3, <2>1
<1>4. CASE k # "courier"
  <2>1. PICK j \in DOMAIN CourierIds : CourierIds[j] = k
    BY <1>4 DEF D!AllCouriers, D!DemoCouriers, D!Range
  <2>2. j + 1 \in DOMAIN D!Script[14].list /\ D!Script[14].list[j + 1] = CourierIds[j]
    BY <1>1, <1>2, <2>1
  <2>3. QED
    BY <2>1, <2>2
<1>5. QED
  BY <1>3, <1>4

LEMMA SeedRepeats ==
  ASSUME ClientsAssumption, SeedInv PROVE D!SeedIsRepeatable
<1> SUFFICES ASSUME D!Now("end") PROVE D!SeedIsRepeatable
  BY DEF D!SeedIsRepeatable
<1>1. place.loop = 15 /\ place.step = 1
  BY WhereNow DEF SeedInv, SeedTyped, At
<1>2. \A l \in 1 .. 14 : \A i, k : Past(l, i, k)
  BY <1>1 DEF Past
<1>3. SeedTyped /\ AccountsFirst
  BY DEF SeedInv
<1>4. ASSUME NEW c \in D!Found
      PROVE  /\ D!Cardinality({o \in orders : o.customer = c}) = D!Owing(c, D!DemoOrders)
             /\ D!Cardinality({t \in ledger : t.customer = c}) =
                  D!Owing(c, D!DemoOrders) + D!Owing(c, Extras)
             /\ balance[c] = D!Owed(c)
  <2>1. DOMAIN D!DemoOrders = DOMAIN Batches
    BY DEF D!DemoOrders
  <2>2. /\ OrdersDue(c) = {i \in DOMAIN D!DemoOrders : D!DemoOrders[i].customer = c}
        /\ DebitsDue(c) = {i \in DOMAIN D!DemoOrders : D!DemoOrders[i].customer = c}
        /\ ExtrasDue(c) = {i \in DOMAIN Extras : Extras[i].customer = c}
    BY <1>2, <2>1 DEF OrdersDue, DebitsDue, ExtrasDue
  <2>3. /\ Cardinality(OrdersDue(c)) = D!Owing(c, D!DemoOrders)
        /\ Cardinality(DebitsDue(c)) = D!Owing(c, D!DemoOrders)
        /\ Cardinality(ExtrasDue(c)) = D!Owing(c, Extras)
    BY <2>2, CardinalityIsSame DEF D!Owing
  <2>4. Past(8, 1, 1) /\ Past(8, 1, 2) /\ Past(8, 1, 3)
    BY <1>2
  <2>5. Cardinality(OrdersOf(c)) = D!Owing(c, D!DemoOrders)
    BY <2>3, <2>4 DEF SeedInv, OrdersMade
  <2>6. Cardinality(EntriesOf(c)) = D!Owing(c, D!DemoOrders) + D!Owing(c, Extras)
    BY <2>3, <2>4 DEF SeedInv, EntriesMade
  <2>7. balance[c] \in Int
    BY <1>1, <1>3, FoundHasAccount DEF D!Found
  <2>8. Due(c) = 0
    BY <1>1 DEF Due, At
  <2>9. balance[c] = D!Owed(c)
    <3>1. balance[c] + 0 = D!Owed(c)
      BY <2>4, <2>8 DEF SeedInv, BalancesMade
    <3>2. QED
      BY <2>7, <3>1
  <2>10. QED
    BY <2>5, <2>6, <2>9, CardinalityIsSame DEF OrdersOf, EntriesOf
<1>5. ASSUME ~stopped, NEW c \in D!Samples PROVE balance[c] = D!Owed(c)
  <2>1. c \in cards
    BY <1>1, SamplesHaveCards DEF SeedInv
  <2>2. DueSample(c) = 0 /\ ~At(3, 2)
    BY <1>1 DEF DueSample, At
  <2>3. c \in DOMAIN balance /\ balance[c] + 0 = D!Owed(c)
    BY <1>5, <2>1, <2>2 DEF SeedInv, SamplesBalance
  <2>4. balance[c] \in Int
    BY <1>3, <2>3 DEF SeedTyped
  <2>5. QED
    BY <2>3, <2>4
<1>6. ASSUME NEW k \in D!AllCouriers PROVE counts[k] = D!Cardinality(D!Delivered(k))
  <2>1. PICK i \in DOMAIN D!Script[14].list : D!Script[14].list[i] = k
    BY CouriersHaveTurns
  <2>2. Past(14, i, 1)
    BY <1>2
  <2>3. counts[k] = Cardinality(D!Delivered(k))
    BY <2>1, <2>2 DEF SeedInv, Counted
  <2>4. QED
    BY <2>3, CardinalityIsSame
<1>7. QED
  BY <1>4, <1>5, <1>6 DEF D!SeedIsRepeatable

(* The place in the script, the types, the accounts the script relies on,  *)
(* and what the lines gone through have made, hold in every state of the   *)
(* seed.                                                                   *)
THEOREM SeedInvAlways == Spec => [](program = "DemoSeed" => SeedInv)
<1> DEFINE I == program = "DemoSeed" => SeedInv
<1>1. Init => I
  BY ClientsAssumption, SeedInvInit DEF Init
<1>2. I /\ [Next]_vars => I'
  <2> SUFFICES ASSUME I, [Next]_vars, program' = "DemoSeed" PROVE SeedInv'
    OBVIOUS
  <2>1. program = "DemoSeed" /\ (D!Next \/ UNCHANGED D!vars)
    BY DEF Next, vars, seedVars, D!vars, D!people, D!commerce, D!bounds
  <2>2. QED
    BY <2>1, ClientsAssumption, SeedInvStep
<1>3. QED
  BY <1>1, <1>2, PTL DEF Spec

(* A run of prisma/seed.ts that ends leaves every demo customer with the   *)
(* orders and the ledger of the script, his balance their sum, and every   *)
(* courier with a count of his deliveries, whichever runs stopped          *)
(* half-way before it and whatever the programs did between them.          *)
THEOREM SeedIsRepeatableAlways == Spec => []SeedIsRepeatable
<1>1. (program = "DemoSeed" => SeedInv) => SeedIsRepeatable
  BY ClientsAssumption, SeedRepeats DEF SeedIsRepeatable
<1>2. QED
  BY <1>1, SeedInvAlways, PTL
=============================================================================
