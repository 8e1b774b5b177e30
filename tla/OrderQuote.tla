----------------------------- MODULE OrderQuote -----------------------------
(***************************************************************************)
(* What a delivery costs: the tariff of a customer, the quote a customer   *)
(* sees, and the price of the order created from it.                       *)
(*                                                                         *)
(* The price is computed on the server twice, for the quote and again for  *)
(* POST /orders.  In between the rules are edited, the night begins or     *)
(* ends, answers come late or get lost.  Customers order from the phone    *)
(* app (customer-app/app/(main)) or from the form of the panel             *)
(* (admin-panel orders/new).                                               *)
(*                                                                         *)
(* Money is an integer number of kurus; multipliers, shares and kilometres *)
(* are integers in parts of Unit.                                          *)
(***************************************************************************)
EXTENDS Integers, Sequences, FiniteSets

CONSTANTS
  Customers,
  Points,         \* places on the map
  Km(_, _),       \* distance of two places, in parts of Unit
  Unit,           \* parts of one
  Tariffs,        \* contents a pricing rule may be given
  DefaultTariff,  \* the DEFAULT_* settings, used without any rule
  MaxRules, MaxEdits, MaxAsked, MaxOrders,   \* bounds
  None

VARIABLES
  rules,    \* pricing rules, the last updated first
  edits,    \* number of changes to rules and clock (a bound)
  night,    \* is it night in Istanbul?
  form,     \* form[c]: program, points, priority, marker of the open map
  quotes,   \* quotes[c]: quotes the program of c keeps
  asked,    \* asked[c]: quote requests in flight
  post,     \* post[c]: POST /orders in progress
  orders,   \* orders created
  lost      \* has an answer to POST /orders been lost?  (history)

vars == <<rules, edits, night, form, quotes, asked, post, orders, lost>>
tariffVars == <<rules, edits, night>>
screenVars == <<form, quotes, asked>>
orderVars  == <<post, orders, lost>>

-----------------------------------------------------------------------------
(* pricing-engine.ts *)

(* Math.round of n / d *)
Rounded(n, d) == (2 * n + d) \div (2 * d)

Larger(a, b) == IF a >= b THEN a ELSE b

(* Mutation: the floor is applied last, the multipliers to the bare price. *)
DeliveryTotalFloorLast(t, km, isNight, isPriority) ==
  LET subtotal  == t.base + Rounded(km * t.perKm, Unit)
      atNight   == IF isNight THEN Rounded(subtotal * t.night, Unit) ELSE subtotal
      withHaste == IF isPriority THEN Rounded(atNight * t.priority, Unit) ELSE atNight
  IN  Larger(withHaste, t.min)

DeliveryTotal(t, km, isNight, isPriority) ==
  LET afterMin == Larger(t.base + Rounded(km * t.perKm, Unit), t.min)
      atNight  == IF isNight THEN Rounded(afterMin * t.night, Unit) ELSE afterMin
  IN  IF isPriority THEN Rounded(atNight * t.priority, Unit) ELSE atNight

Clamped(share) == IF share < 0 THEN 0 ELSE IF share > Unit THEN Unit ELSE share

(* Mutation: commission and earning are rounded on their own. *)
SplitRoundedTwice(total, share) ==
  [courier  |-> Rounded(total * Clamped(share), Unit),
   platform |-> Rounded(total * (Unit - Clamped(share)), Unit)]

SplitCourierAndPlatform(total, share) ==
  LET courier == Rounded(total * Clamped(share), Unit)
  IN  [courier |-> courier, platform |-> total - courier]

-----------------------------------------------------------------------------
(* pricing.service.ts *)

RulesOf(scope) == {i \in DOMAIN rules : rules[i].scope = scope}

Latest(scope) == rules[CHOOSE i \in RulesOf(scope) : \A j \in RulesOf(scope) : i <= j]

(* The customer's own rule before a global one; of several the last        *)
(* updated.                                                                *)
ResolveRule(c) ==
  IF RulesOf(c) # {} THEN Latest(c)
    ELSE IF RulesOf("all") # {} THEN Latest("all")
    ELSE [id |-> None, scope |-> "all", tariff |-> DefaultTariff]

Quote(c, trip) ==
  LET rule == ResolveRule(c)
  IN  [trip |-> trip, rule |-> rule.id, tariff |-> rule.tariff, night |-> night,
       total |-> DeliveryTotal(rule.tariff, Km(trip.pickup, trip.delivery), night,
                               trip.priority)]

(* What a screen keeps of a quote. *)
OnScreen(q) == [trip |-> q.trip, total |-> q.total]

RuleIds == {rules[i].id : i \in DOMAIN rules}

Without(i) == SubSeq(rules, 1, i - 1) \o SubSeq(rules, i + 1, Len(rules))

Edited(newRules) ==
  /\ edits < MaxEdits
  /\ edits' = edits + 1
  /\ rules' = newRules
  /\ UNCHANGED <<night, screenVars, orderVars>>

CreateRule(scope, tariff) ==
  /\ Len(rules) < MaxRules
  /\ \E id \in 1..MaxRules \ RuleIds :
       Edited(<<[id |-> id, scope |-> scope, tariff |-> tariff]>> \o rules)

(* Mutation: the rule is written again and its old row stays. *)
UpdateRuleKeepsOld(i, tariff) ==
  /\ i \in DOMAIN rules
  /\ Edited(<<[rules[i] EXCEPT !.tariff = tariff]>> \o rules)

(* An update makes the rule the last updated one. *)
UpdateRule(i, tariff) ==
  /\ i \in DOMAIN rules
  /\ Edited(<<[rules[i] EXCEPT !.tariff = tariff]>> \o Without(i))

DeleteRule(i) ==
  /\ i \in DOMAIN rules
  /\ Edited(Without(i))

NightBeginsOrEnds ==
  /\ edits < MaxEdits
  /\ edits' = edits + 1
  /\ night' = ~night
  /\ UNCHANGED <<rules, screenVars, orderVars>>

-----------------------------------------------------------------------------
(* The two screens *)

TripOf(c) ==
  [pickup |-> form[c].pickup, delivery |-> form[c].delivery, priority |-> form[c].priority]

CoordsReady(c) == form[c].pickup # None /\ form[c].delivery # None

(* An empty draft in the app; the form opens with two points and asks.     *)
FirstApp ==
  [program |-> "app", pickup |-> None, delivery |-> None, priority |-> FALSE, draft |-> 1,
   field |-> "none", marker |-> None, locating |-> FALSE]

FirstForms ==
  [program : {"form"}, pickup : Points, delivery : Points, priority : {FALSE}, draft : {1},
   field : {"none"}, marker : {None}, locating : {FALSE}]

FirstAsked(f) ==
  IF f.program = "app" THEN {}
    ELSE {[trip |-> [pickup |-> f.pickup, delivery |-> f.delivery, priority |-> FALSE],
           live |-> TRUE]}

(* The form keeps one quote, which is hidden while another is on its way;  *)
(* the app keeps the quotes it has asked for by trip (React Query).        *)
Shown(c) ==
  IF form[c].program = "app"
    THEN {q \in quotes[c] : q.trip = TripOf(c)}
    ELSE {q \in quotes[c] : \A a \in asked[c] : ~a.live}

(* The trip changes: the form cancels the request for the old one and asks *)
(* at once; the app asks only for a trip it has no quote of.               *)
Ask(c, f) ==
  LET trip == [pickup |-> f.pickup, delivery |-> f.delivery, priority |-> f.priority]
      before == {[a EXCEPT !.live = (f.program = "app")] : a \in asked[c]}
      cached == f.program = "app" /\ \E q \in quotes[c] : q.trip = trip
      ready  == f.pickup # None /\ f.delivery # None
  IN  /\ Cardinality(asked[c]) < MaxAsked
      /\ form' = [form EXCEPT ![c] = f]
      /\ asked' = [asked EXCEPT ![c] =
           IF ready /\ ~cached
             THEN {a \in before : a.trip # trip \/ ~a.live}
                    \cup {[trip |-> trip, live |-> TRUE]}
             ELSE before]

(* The app's map: it opens on the old point, and a press, or a position    *)
(* that is found late, moves the marker.                                   *)
MapOpen(c, field) ==
  /\ form[c].program = "app"
  /\ form[c].field = "none"
  /\ \E p \in IF form[c][field] = None THEN Points ELSE {form[c][field]} :
       form' = [form EXCEPT ![c].field = field, ![c].marker = p, ![c].locating = TRUE]
  /\ UNCHANGED <<tariffVars, quotes, asked, orderVars>>

MapPress(c, p) ==
  /\ form[c].field # "none"
  /\ form' = [form EXCEPT ![c].marker = p]
  /\ UNCHANGED <<tariffVars, quotes, asked, orderVars>>

MapLocated(c) ==
  /\ form[c].field # "none"
  /\ form[c].locating
  /\ \E p \in Points : form' = [form EXCEPT ![c].marker = p, ![c].locating = FALSE]
  /\ UNCHANGED <<tariffVars, quotes, asked, orderVars>>

MapConfirm(c) ==
  /\ form[c].field # "none"
  /\ Ask(c, [form[c] EXCEPT ![form[c].field] = form[c].marker, !.field = "none",
                            !.locating = FALSE])
  /\ UNCHANGED <<tariffVars, quotes, orderVars>>

(* The form's fields; incomplete coordinates drop the quote. *)
EnterPoint(c, field, p) ==
  /\ form[c].program = "form"
  /\ form[c][field] # p
  /\ Ask(c, [form[c] EXCEPT ![field] = p])
  /\ quotes' = [quotes EXCEPT ![c] = IF CoordsReady(c)' THEN @ ELSE {}]
  /\ UNCHANGED <<tariffVars, orderVars>>

SetPriority(c) ==
  /\ form[c].field = "none"
  /\ Ask(c, [form[c] EXCEPT !.priority = ~@])
  /\ UNCHANGED <<tariffVars, quotes, orderVars>>

(* GET /pricing/me-quote is answered; the form ignores a cancelled one.    *)
(* Mutation: it does not.                                                  *)
QuoteAnsweredAnyway(c, a) ==
  /\ LET q == OnScreen(Quote(c, a.trip))
     IN  quotes' = [quotes EXCEPT ![c] =
           IF form[c].program = "app" THEN {o \in @ : o.trip # a.trip} \cup {q} ELSE {q}]
  /\ asked' = [asked EXCEPT ![c] = @ \ {a}]
  /\ UNCHANGED <<tariffVars, form, orderVars>>

QuoteAnswered(c, a) ==
  /\ LET q == OnScreen(Quote(c, a.trip))
     IN  quotes' = [quotes EXCEPT ![c] =
           IF form[c].program = "app" THEN {o \in @ : o.trip # a.trip} \cup {q}
             ELSE IF a.live THEN {q} ELSE @]
  /\ asked' = [asked EXCEPT ![c] = @ \ {a}]
  /\ UNCHANGED <<tariffVars, form, orderVars>>

QuoteFails(c, a) ==
  /\ quotes' = [quotes EXCEPT ![c] = IF form[c].program = "form" /\ a.live THEN {} ELSE @]
  /\ asked' = [asked EXCEPT ![c] = @ \ {a}]
  /\ UNCHANGED <<tariffVars, form, orderVars>>

(* The app refetches a quote that has become stale. *)
QuoteRefetch(c) ==
  /\ form[c].program = "app"
  /\ Cardinality(asked[c]) < MaxAsked
  /\ Shown(c) # {}
  /\ \A a \in asked[c] : a.trip # TripOf(c)
  /\ asked' = [asked EXCEPT ![c] = @ \cup {[trip |-> TripOf(c), live |-> TRUE]}]
  /\ UNCHANGED <<tariffVars, form, quotes, orderVars>>

-----------------------------------------------------------------------------
(* POST /orders *)

NoPost == [at |-> "idle"]

(* The button waits for the quote and for the answer. *)
Submit(c) ==
  /\ post[c] = NoPost
  /\ Cardinality(orders) < MaxOrders
  /\ form[c].field = "none"
  /\ CoordsReady(c)
  /\ \E q \in Shown(c) :
       post' = [post EXCEPT ![c] =
         [at |-> "sent", trip |-> TripOf(c), seen |-> q, draft |-> form[c].draft]]
  /\ UNCHANGED <<tariffVars, screenVars, orders, lost>>

(* Mutation: the server takes the price it is sent. *)
PriceAcceptedUnseen(price, total) == TRUE

PriceAccepted(price, total) ==
  total > 0 => 20 * (IF price >= total THEN price - total ELSE total - price) <= total

(* The server computes the quote again and compares. *)
CreateRead(c) ==
  /\ post[c].at = "sent"
  /\ LET q == Quote(c, post[c].trip)
     IN  post' = [post EXCEPT ![c] =
           IF PriceAccepted(@.seen.total, q.total)
             THEN [at |-> "read", trip |-> @.trip, seen |-> @.seen, draft |-> @.draft,
                   quote |-> q]
             ELSE [at |-> "refused"]]
  /\ UNCHANGED <<tariffVars, screenVars, orders, lost>>

(* The order takes its price and shares from that quote; a rule deleted    *)
(* meanwhile fails the transaction.                                        *)
Create(c) ==
  /\ post[c].at = "read"
  /\ LET q == post[c].quote
         created ==
           [number |-> Cardinality(orders) + 1, customer |-> c, program |-> form[c].program,
            draft |-> post[c].draft, trip |-> post[c].trip, seen |-> post[c].seen,
            quote |-> q, share |-> SplitCourierAndPlatform(q.total, q.tariff.share)]
     IN  IF q.rule \in RuleIds \cup {None}
           THEN /\ orders' = orders \cup {created}
                /\ post' = [post EXCEPT ![c] = [at |-> "created"]]
           ELSE post' = [post EXCEPT ![c] = [at |-> "refused"]] /\ UNCHANGED orders
  /\ UNCHANGED <<tariffVars, screenVars, lost>>

(* The app's draft holds the places; the priority is the screen's, which   *)
(* stays in its tab and keeps it.                                          *)
NewDraft(c) ==
  [form[c] EXCEPT !.pickup = None, !.delivery = None, !.draft = @ + 1, !.field = "none",
                  !.locating = FALSE]

(* The app's second button, which waits for nothing.  The bound: it is     *)
(* pressed on the first draft, while the answer to its order is under way; *)
(* at any other time it is as if the screen had just opened.               *)
ResetDraft(c) ==
  /\ form[c].program = "app"
  /\ form[c].field = "none"
  /\ form[c].draft = 1 /\ post[c].at = "created"
  /\ form' = [form EXCEPT ![c] = NewDraft(c)]
  /\ UNCHANGED <<tariffVars, quotes, asked, orderVars>>

(* The app empties the draft when it is told of the order, and leaves the  *)
(* screen at once; the form stays usable until the next page is there.     *)
(* Mutation: the app only leaves the screen.                               *)
CreatedAnswerKeepsDraft(c) ==
  /\ post[c].at = "created"
  /\ post' = [post EXCEPT ![c] = NoPost]
  /\ UNCHANGED <<tariffVars, screenVars, orders, lost>>

CreatedAnswer(c) ==
  /\ post[c].at = "created"
  /\ post' = [post EXCEPT ![c] = NoPost]
  /\ form' = [form EXCEPT ![c] = IF @.program = "app" THEN NewDraft(c) ELSE @]
  /\ UNCHANGED <<tariffVars, quotes, asked, orders, lost>>

(* An error message; everything on the screen stays. *)
RefusedAnswer(c) ==
  /\ post[c].at = "refused"
  /\ post' = [post EXCEPT ![c] = NoPost]
  /\ UNCHANGED <<tariffVars, screenVars, orders, lost>>

AnswerLost(c) ==
  /\ post[c].at \in {"sent", "created"}
  /\ lost' = (lost \/ post[c].at = "created")
  /\ post' = [post EXCEPT ![c] = NoPost]
  /\ UNCHANGED <<tariffVars, screenVars, orders>>

(* The next page is there, or the customer leaves; he may come back.       *)
LeaveForm(c) ==
  /\ form[c].program = "form"
  /\ post[c] = NoPost
  /\ form' \in {[form EXCEPT ![c] = f] : f \in FirstForms}
  /\ quotes' = [quotes EXCEPT ![c] = {}]
  /\ asked' = [asked EXCEPT ![c] = FirstAsked(form'[c])]
  /\ UNCHANGED <<tariffVars, orderVars>>

-----------------------------------------------------------------------------
Init ==
  /\ rules \in {<<>>} \cup {<<[id |-> 1, scope |-> "all", tariff |-> t]>> : t \in Tariffs}
  /\ edits = 0
  /\ night = FALSE
  /\ form \in [Customers -> {FirstApp} \cup FirstForms]
  /\ quotes = [c \in Customers |-> {}]
  /\ asked = [c \in Customers |-> FirstAsked(form[c])]
  /\ post = [c \in Customers |-> NoPost]
  /\ orders = {}
  /\ lost = FALSE

Next ==
  \/ \E s \in Customers \cup {"all"}, t \in Tariffs : CreateRule(s, t)
  \/ \E i \in 1..MaxRules, t \in Tariffs : UpdateRule(i, t)
  \/ \E i \in 1..MaxRules : DeleteRule(i)
  \/ NightBeginsOrEnds
  \/ \E c \in Customers :
       \/ MapLocated(c) \/ MapConfirm(c) \/ SetPriority(c) \/ QuoteRefetch(c)
       \/ Submit(c) \/ CreateRead(c) \/ Create(c) \/ LeaveForm(c)
       \/ CreatedAnswer(c) \/ RefusedAnswer(c) \/ AnswerLost(c) \/ ResetDraft(c)
       \/ \E f \in {"pickup", "delivery"} : MapOpen(c, f)
       \/ \E p \in Points : MapPress(c, p)
       \/ \E f \in {"pickup", "delivery"}, p \in Points \cup {None} : EnterPoint(c, f, p)
       \/ \E a \in asked[c] : QuoteAnswered(c, a) \/ QuoteFails(c, a)

Spec == Init /\ [][Next]_vars

-----------------------------------------------------------------------------
(* Properties *)

TypeOK ==
  /\ Len(rules) <= MaxRules /\ Cardinality(RuleIds) = Len(rules)
  /\ \A i \in DOMAIN rules : rules[i].tariff \in Tariffs
  /\ {night, lost} \subseteq BOOLEAN
  /\ \A c \in Customers :
       /\ post[c].at \in {"idle", "sent", "read", "created", "refused"}
       /\ \A q \in quotes[c] : q.total >= 0

(* Nobody pays more than 5% off the price he confirmed, for the trip and   *)
(* the priority he confirmed it for: whatever happens to rules and clock,  *)
(* and whatever answers come late, between the quote and the order.        *)
OrderIsAsConfirmed ==
  \A o \in orders :
    /\ o.seen.trip = o.trip
    /\ 20 * (o.quote.total - o.seen.total) <= o.quote.total
    /\ o.quote.total > 0 => 20 * (o.seen.total - o.quote.total) <= o.quote.total

(* What the courier earns and what the platform keeps add up to the price  *)
(* of the order, and neither is negative, whatever the share.              *)
SharesAddUp ==
  \A o \in orders :
    /\ o.share.courier + o.share.platform = o.quote.total
    /\ o.share.courier >= 0 /\ o.share.platform >= 0

(* The price is the one of the formula in the comment of                   *)
(* computeDeliveryTotal, max(base + km*perKm, min) x night x priority:     *)
(* rounding after every step moves it by less than half a kurus each, as   *)
(* enlarged by the multipliers that follow.  Its shares add up to it.      *)
PriceFollowsFormula ==
  /\ SharesAddUp
  /\ \A o \in orders :
       LET t == o.quote.tariff
           km == Km(o.trip.pickup, o.trip.delivery)
           n == IF o.quote.night THEN t.night ELSE Unit
           p == IF o.trip.priority THEN t.priority ELSE Unit
           exact == Larger(t.base * Unit + km * t.perKm, t.min * Unit) * n * p
           diff == 2 * (o.quote.total * Unit * Unit * Unit - exact)
           most == Unit * (n * p + p * Unit + Unit * Unit)
       IN  -most <= diff /\ diff <= most

(* A trip drafted in the app is ordered once, unless an answer was lost:   *)
(* POST /orders has no key by which the server could tell a retry, so it   *)
(* is the screen alone that prevents the second order.                     *)
DraftIsOrderedOnce ==
  ~lost =>
    \A o, p \in orders :
      (o.program = "app" /\ o.customer = p.customer /\ o.draft = p.draft) => o = p

=============================================================================
