-------------------------- MODULE OrderQuoteProofs --------------------------
(***************************************************************************)
(* Theorems about the quotes and the order form of Clients, for any        *)
(* customers, places, distances and tariffs, and any number of rules,      *)
(* quotes and orders.                                                      *)
(***************************************************************************)
EXTENDS Clients, SequenceTheorems, FiniteSetTheorems, WellFoundedInduction, TLAPS

-----------------------------------------------------------------------------
(* Rounding *)

LEMMA RoundedNat ==
  ASSUME NEW n \in Nat, NEW d \in Nat \ {0} PROVE Q!Rounded(n, d) \in Nat
BY DEF Q!Rounded

(* Math.round moves a value by half a unit at most.                        *)
LEMMA RoundedNear ==
  ASSUME NEW n \in Nat, NEW d \in Nat \ {0}
  PROVE  2 * d * Q!Rounded(n, d) - 2 * n \in -d..d
<1>1. 2 * d * Q!Rounded(n, d) <= 2 * n + d
  BY DEF Q!Rounded
<1>2. 2 * d * Q!Rounded(n, d) + 2 * d > 2 * n + d
  BY DEF Q!Rounded
<1>3. 2 * d * Q!Rounded(n, d) \in Int
  BY RoundedNat
<1>4. QED
  BY <1>1, <1>2, <1>3

(* A share of an amount, rounded, is not more than the amount.             *)
LEMMA RoundedShare ==
  ASSUME NEW t \in Nat, NEW d \in Nat \ {0}, NEW s \in 0..d
  PROVE  Q!Rounded(t * s, d) \in 0..t
<1> DEFINE k == Q!Rounded(t * s, d)
<1>1. t * s \in Nat /\ t * d \in Nat /\ t * s <= t * d
  OBVIOUS
<1>2. k \in Nat
  BY <1>1, RoundedNat
<1>3. 2 * d * k <= 2 * (t * s) + d
  BY <1>1 DEF Q!Rounded
<1>4. k < t + 1
  <2>1. SUFFICES ASSUME k >= t + 1 PROVE FALSE
    BY <1>2
  <2>2. 2 * d * k >= 2 * d * (t + 1)
    BY <1>2, <2>1
  <2>3. 2 * d * (t + 1) = 2 * (t * d) + 2 * d
    OBVIOUS
  <2>4. 2 * (t * s) + d >= 2 * (t * d) + 2 * d
    <3> DEFINE left == 2 * d * k
               right == 2 * d * (t + 1)
    <3>1. left \in Int /\ right \in Int
      BY <1>2
    <3>2. left >= right /\ left <= 2 * (t * s) + d
      BY <2>2, <1>3
    <3> HIDE DEF left
    <3>3. QED
      BY <3>1, <3>2, <2>3, <1>1
  <2>5. QED
    BY <2>4, <1>1
<1>5. QED
  BY <1>2, <1>4

(* What splitCourierAndPlatform returns: two shares of the amount, for any *)
(* share in the tariff.                                                    *)
LEMMA SplitAddsUp ==
  ASSUME NumbersFit, NEW total \in Nat, NEW share \in Int
  PROVE  LET split == Q!SplitCourierAndPlatform(total, share)
         IN  /\ split.courier \in Nat /\ split.platform \in Nat
             /\ split.courier + split.platform = total
<1>1. Q!Clamped(share) \in 0..Unit
  BY DEF Q!Clamped, NumbersFit
<1>2. Q!Rounded(total * Q!Clamped(share), Unit) \in 0..total
  BY <1>1, RoundedShare DEF NumbersFit
<1>3. QED
  BY <1>2 DEF Q!SplitCourierAndPlatform

-----------------------------------------------------------------------------
(* The formula: what each of the three roundings can do to the price *)

LEMMA Scaled ==
  ASSUME NEW a \in Nat, NEW b \in Nat, NEW e \in Int, -b <= e, e <= b
  PROVE  a * e \in Int /\ -(a * b) <= a * e /\ a * e <= a * b
<1>1. a * (b - e) >= 0 /\ a * (b + e) >= 0
  OBVIOUS
<1>2. a * (b - e) = a * b - a * e /\ a * (b + e) = a * b + a * e
  OBVIOUS
<1>3. a * b \in Int /\ a * e \in Int
  OBVIOUS
<1>4. QED
  BY <1>1, <1>2, <1>3

(* m, N and p stand for the price after the floor, at night and with       *)
(* priority, x for the floor of the exact price.                           *)
LEMMA ErrorsAddUp ==
  ASSUME NEW u \in Nat, NEW n \in Nat, NEW h \in Nat,
         NEW x \in Int, NEW m \in Int, NEW N \in Int, NEW p \in Int
  PROVE  2 * (p * u * u * u - x * n * h) =
           (u * u) * (2 * u * p - 2 * N * h) + (u * h) * (2 * u * N - 2 * m * n)
             + (n * h) * (2 * u * m - 2 * x)
<1>1. (u * u) * (2 * u * p - 2 * N * h) = 2 * (p * u * u * u) - 2 * (u * u * N * h)
  OBVIOUS
<1>2. (u * h) * (2 * u * N - 2 * m * n) = 2 * (u * u * N * h) - 2 * (u * h * m * n)
  OBVIOUS
<1>3. (n * h) * (2 * u * m - 2 * x) = 2 * (u * h * m * n) - 2 * (x * n * h)
  OBVIOUS
<1>4. /\ p * u * u * u \in Int /\ x * n * h \in Int
      /\ u * u * N * h \in Int /\ u * h * m * n \in Int
  OBVIOUS
<1>5. QED
  BY <1>1, <1>2, <1>3, <1>4

LEMMA ErrorsAreBounded ==
  ASSUME NEW u \in Nat, NEW n \in Nat, NEW h \in Nat,
         NEW x \in Int, NEW m \in Int, NEW N \in Int, NEW p \in Int,
         2 * u * m - 2 * x \in -u..u, 2 * u * N - 2 * m * n \in -u..u,
         2 * u * p - 2 * N * h \in -u..u
  PROVE  LET diff == 2 * (p * u * u * u - x * n * h)
             most == u * (n * h + h * u + u * u)
         IN  -most <= diff /\ diff <= most
<1> DEFINE e1 == 2 * u * m - 2 * x
           e2 == 2 * u * N - 2 * m * n
           e3 == 2 * u * p - 2 * N * h
<1>1. e1 \in Int /\ e2 \in Int /\ e3 \in Int /\ u * u \in Nat /\ u * h \in Nat /\ n * h \in Nat
  OBVIOUS
<1>2. /\ -u <= e1 /\ e1 <= u /\ -u <= e2 /\ e2 <= u /\ -u <= e3 /\ e3 <= u
  OBVIOUS
<1>3. 2 * (p * u * u * u - x * n * h) = (u * u) * e3 + (u * h) * e2 + (n * h) * e1
  BY ErrorsAddUp
<1> HIDE DEF e1, e2, e3
<1>4. /\ -((u * u) * u) <= (u * u) * e3 /\ (u * u) * e3 <= (u * u) * u
      /\ (u * u) * e3 \in Int
  BY <1>1, <1>2, Scaled
<1>5. /\ -((u * h) * u) <= (u * h) * e2 /\ (u * h) * e2 <= (u * h) * u
      /\ (u * h) * e2 \in Int
  BY <1>1, <1>2, Scaled
<1>6. /\ -((n * h) * u) <= (n * h) * e1 /\ (n * h) * e1 <= (n * h) * u
      /\ (n * h) * e1 \in Int
  BY <1>1, <1>2, Scaled
<1>7. u * (n * h + h * u + u * u) = (n * h) * u + (u * h) * u + (u * u) * u
  OBVIOUS
<1>8. (n * h) * u \in Int /\ (u * h) * u \in Int /\ (u * u) * u \in Int
  OBVIOUS
<1>9. QED
  BY <1>3, <1>4, <1>5, <1>6, <1>7, <1>8

(* The floor: the larger of two amounts is as near as the first.           *)
LEMMA FloorNear ==
  ASSUME NEW u \in Nat \ {0}, NEW base \in Nat, NEW x \in Nat, NEW min \in Nat
  PROVE  2 * u * Q!Larger(base + Q!Rounded(x, u), min) - 2 * Q!Larger(base * u + x, min * u) \in -u..u
<1> DEFINE r == Q!Rounded(x, u)
           a == base + r
<1>1. r \in Nat /\ 2 * u * r - 2 * x \in -u..u
  BY RoundedNat, RoundedNear
<1> HIDE DEF r
<1>2. u * a \in Int /\ u * r \in Int /\ base * u \in Int /\ min * u \in Int /\ a \in Int
  BY <1>1
<1>3. u * a = base * u + u * r
  BY <1>1
<1>4. (a >= min => u * a >= min * u) /\ (a <= min => u * a <= min * u)
  BY <1>1
<1>5. 2 * (u * r) - 2 * x \in -u..u
  BY <1>1
<1>6. 2 * u * a = 2 * (u * a) /\ 2 * u * min = 2 * (min * u)
  BY <1>1
<1> HIDE DEF a
<1>7. 2 * u * Q!Larger(a, min) - 2 * Q!Larger(base * u + x, min * u) \in -u..u
  BY <1>2, <1>3, <1>4, <1>5, <1>6 DEF Q!Larger
<1>8. QED
  BY <1>7 DEF a, r

(* A multiplier that does not apply changes nothing.                       *)
LEMMA MultiplierNear ==
  ASSUME NEW u \in Nat \ {0}, NEW m \in Nat, NEW k \in Nat, NEW applies \in BOOLEAN
  PROVE  LET after  == IF applies THEN Q!Rounded(m * k, u) ELSE m
             factor == IF applies THEN k ELSE u
         IN  after \in Nat /\ factor \in Nat /\ 2 * u * after - 2 * m * factor \in -u..u
<1>1. m * k \in Nat
  OBVIOUS
<1>2. CASE applies
  <2>1. 2 * u * Q!Rounded(m * k, u) - 2 * (m * k) \in -u..u /\ Q!Rounded(m * k, u) \in Nat
    BY <1>1, RoundedNat, RoundedNear
  <2>2. 2 * m * k = 2 * (m * k)
    OBVIOUS
  <2>3. QED
    BY <1>2, <2>1, <2>2
<1>3. CASE ~applies
  <2>1. 2 * u * m - 2 * m * u = 0
    OBVIOUS
  <2>2. QED
    BY <1>3, <2>1
<1>4. QED
  BY <1>2, <1>3

(* What computeDeliveryTotal returns.                                      *)
LEMMA TotalNearFormula ==
  ASSUME NumbersFit, NEW t \in Tariff, NEW km \in Nat,
         NEW isNight \in BOOLEAN, NEW isPriority \in BOOLEAN
  PROVE  LET total == Q!DeliveryTotal(t, km, isNight, isPriority)
             n == IF isNight THEN t.night ELSE Unit
             p == IF isPriority THEN t.priority ELSE Unit
             exact == Q!Larger(t.base * Unit + km * t.perKm, t.min * Unit) * n * p
             diff == 2 * (total * Unit * Unit * Unit - exact)
             most == Unit * (n * p + p * Unit + Unit * Unit)
         IN  total \in Nat /\ -most <= diff /\ diff <= most
<1> DEFINE n == IF isNight THEN t.night ELSE Unit
           h == IF isPriority THEN t.priority ELSE Unit
           x == Q!Larger(t.base * Unit + km * t.perKm, t.min * Unit)
           m == Q!Larger(t.base + Q!Rounded(km * t.perKm, Unit), t.min)
           N == IF isNight THEN Q!Rounded(m * t.night, Unit) ELSE m
           P == IF isPriority THEN Q!Rounded(N * t.priority, Unit) ELSE N
<1>1. /\ t.base \in Nat /\ t.perKm \in Nat /\ t.min \in Nat /\ t.night \in Nat
      /\ t.priority \in Nat /\ Unit \in Nat \ {0}
  BY DEF Tariff, NumbersFit
<1>2. km * t.perKm \in Nat
  BY <1>1
<1>3. 2 * Unit * m - 2 * x \in -Unit..Unit
  BY <1>1, <1>2, FloorNear
<1>4. m \in Nat /\ x \in Nat
  <2>1. Q!Rounded(km * t.perKm, Unit) \in Nat
    BY <1>1, <1>2, RoundedNat
  <2>2. t.base * Unit \in Nat /\ t.min * Unit \in Nat
    BY <1>1
  <2>3. QED
    BY <1>1, <1>2, <2>1, <2>2 DEF Q!Larger
<1> HIDE DEF m, x
<1>5. N \in Nat /\ n \in Nat /\ 2 * Unit * N - 2 * m * n \in -Unit..Unit
  BY <1>1, <1>4, MultiplierNear
<1> HIDE DEF n, N
<1>6. P \in Nat /\ h \in Nat /\ 2 * Unit * P - 2 * N * h \in -Unit..Unit
  BY <1>1, <1>5, MultiplierNear
<1> HIDE DEF h, P
<1>7. LET diff == 2 * (P * Unit * Unit * Unit - x * n * h)
          most == Unit * (n * h + h * Unit + Unit * Unit)
      IN  -most <= diff /\ diff <= most
  BY <1>1, <1>3, <1>4, <1>5, <1>6, ErrorsAreBounded
<1>8. Q!DeliveryTotal(t, km, isNight, isPriority) = P
  BY DEF Q!DeliveryTotal, P, N, m
<1>9. QED
  BY <1>6, <1>7, <1>8 DEF n, h, x

-----------------------------------------------------------------------------
(* The tariff of a customer *)

LEMMA Least ==
  ASSUME NEW T \in SUBSET Nat, T # {} PROVE \E i \in T : \A j \in T : i <= j
<1> DEFINE R == OpToRel(<, Nat)
<1>1. IsWellFoundedOn(R, Nat)
  BY NatLessThanWellFounded
<1>2. \A x, y \in Nat : <<y, x>> \notin R => x <= y
  BY DEF OpToRel
<1> HIDE DEF R
<1>3. \E x \in T : \A y \in T : ~ (<<y, x>> \in R)
  BY <1>1, WFMin
<1>4. QED
  BY <1>2, <1>3

Rule == [id : 1..MaxRules, scope : Customers \cup {"all"}, tariff : Tariffs]

LEMMA LatestIsRule ==
  ASSUME rules \in Seq(Rule), NEW scope, Q!RulesOf(scope) # {}
  PROVE  Q!Latest(scope) \in Rule
<1>1. Q!RulesOf(scope) \in SUBSET Nat
  BY DEF Q!RulesOf
<1>2. \E i \in Q!RulesOf(scope) : \A j \in Q!RulesOf(scope) : i <= j
  BY <1>1, Least
<1> DEFINE first == CHOOSE i \in Q!RulesOf(scope) : \A j \in Q!RulesOf(scope) : i <= j
<1>3. first \in Q!RulesOf(scope)
  BY <1>2
<1> HIDE DEF first
<1>4. first \in DOMAIN rules
  BY <1>3 DEF Q!RulesOf
<1>5. rules[first] \in Rule
  BY <1>4, ElementOfSeq
<1>6. QED
  BY <1>5 DEF Q!Latest, first

LEMMA RuleTyped ==
  ASSUME NumbersFit, rules \in Seq(Rule), NEW c
  PROVE  Q!ResolveRule(c).tariff \in Tariff
<1>1. \A scope : Q!RulesOf(scope) # {} => Q!Latest(scope).tariff \in Tariff
  BY LatestIsRule DEF Rule, NumbersFit
<1>2. CASE Q!RulesOf(c) # {}
  <2>1. Q!ResolveRule(c) = Q!Latest(c)
    BY <1>2, Zenon DEF Q!ResolveRule
  <2>2. QED
    BY <1>1, <1>2, <2>1
<1>3. CASE Q!RulesOf(c) = {} /\ Q!RulesOf("all") # {}
  BY <1>1, <1>3 DEF Q!ResolveRule
<1>4. CASE Q!RulesOf(c) = {} /\ Q!RulesOf("all") = {}
  BY <1>4 DEF Q!ResolveRule, NumbersFit
<1>5. QED
  BY <1>2, <1>3, <1>4

-----------------------------------------------------------------------------
(* The invariant *)

Place == Points \cup {None}
Trip == [pickup : Points, delivery : Points, priority : BOOLEAN]
Form ==
  [program : {"app", "form"}, pickup : Place, delivery : Place, priority : BOOLEAN,
   draft : Nat, field : {"none", "pickup", "delivery"}, marker : Place, locating : BOOLEAN]
Request == [trip : Trip, live : BOOLEAN]
Seen == [trip : Trip, total : Nat]

TariffFits == rules \in Seq(Rule) /\ night \in BOOLEAN

ScreensTyped ==
  /\ form \in [Customers -> Form]
  /\ quotes \in [Customers -> SUBSET Seen]
  /\ asked \in [Customers -> SUBSET Request]

(* A request of the panel's form that was not cancelled is for the trip on *)
(* the screen; without one, so is the quote the form keeps.  It has no map *)
(* to open.                                                                *)
FormFits(c) ==
  form[c].program = "form" =>
    /\ form[c].field = "none"
    /\ \A a \in asked[c] : a.live => a.trip = Q!TripOf(c)
    /\ (\A a \in asked[c] : ~a.live) => \A q \in quotes[c] : q.trip = Q!TripOf(c)

ScreensFit == ScreensTyped /\ \A c \in Customers : FormFits(c)

IsQuote(q, trip) ==
  /\ trip \in Trip /\ q.tariff \in Tariff /\ q.night \in BOOLEAN
  /\ q.total = Q!DeliveryTotal(q.tariff, Km(trip.pickup, trip.delivery), q.night, trip.priority)

(* What is posted was seen for the same trip, and was near the price the   *)
(* server has read.                                                        *)
Confirmed(x) == x.seen \in Seen /\ x.seen.trip = x.trip
Priced(x) == IsQuote(x.quote, x.trip) /\ Q!PriceAccepted(x.seen.total, x.quote.total)

PostFits(c) ==
  /\ post[c].at \in {"sent", "read"} => Confirmed(post[c])
  /\ post[c].at = "read" => Priced(post[c])
  /\ (post[c].at \in {"sent", "read"} /\ form[c].program = "app") =>
       post[c].draft = form[c].draft

OrderFits(o) ==
  /\ o.customer \in Customers /\ o.program = form[o.customer].program
  /\ Confirmed(o) /\ Priced(o)
  /\ o.share = Q!SplitCourierAndPlatform(o.quote.total, o.quote.tariff.share)

(* The draft on the screen has been ordered only while the answer is under *)
(* way, or after one was lost.                                             *)
DraftFits(o) ==
  o.program = "app" =>
    /\ o.draft \in Nat /\ o.draft <= form[o.customer].draft
    /\ o.draft = form[o.customer].draft => lost \/ post[o.customer].at = "created"

OrdersFit ==
  /\ DOMAIN post = Customers /\ lost \in BOOLEAN
  /\ \A c \in Customers : PostFits(c)
  /\ \A o \in orders : OrderFits(o) /\ DraftFits(o)
  /\ Q!DraftIsOrderedOnce

QuoteInv == TariffFits /\ ScreensFit /\ OrdersFit

-----------------------------------------------------------------------------
(* The rules *)

LEMMA QuoteIsQuote ==
  ASSUME NumbersFit, TariffFits, NEW c, NEW trip \in Trip
  PROVE  /\ IsQuote(Q!Quote(c, trip), trip)
         /\ Q!Quote(c, trip).total \in Nat /\ Q!OnScreen(Q!Quote(c, trip)) \in Seen
         /\ Q!OnScreen(Q!Quote(c, trip)).trip = trip
<1>1. Q!ResolveRule(c).tariff \in Tariff /\ night \in BOOLEAN
  BY RuleTyped DEF TariffFits
<1>2. trip.pickup \in Points /\ trip.delivery \in Points /\ trip.priority \in BOOLEAN
  BY DEF Trip
<1>3. Km(trip.pickup, trip.delivery) \in Nat
  BY <1>2 DEF NumbersFit
<1>4. Q!DeliveryTotal(Q!ResolveRule(c).tariff, Km(trip.pickup, trip.delivery), night, trip.priority)
        \in Nat
  BY <1>1, <1>2, <1>3, TotalNearFormula
<1>5. QED
  BY <1>1, <1>4 DEF Q!Quote, IsQuote, Q!OnScreen, Seen

(* Whatever is done to the rules, they stay a list of rules.               *)
LEMMA EditKeeps ==
  ASSUME TariffFits, NEW newRules \in Seq(Rule), Q!Edited(newRules) PROVE TariffFits'
BY DEF Q!Edited, TariffFits

LEMMA WithoutTyped ==
  ASSUME rules \in Seq(Rule), NEW i \in DOMAIN rules PROVE Q!Without(i) \in Seq(Rule)
<1>1. i \in 1..Len(rules) /\ Len(rules) \in Nat
  BY LenProperties
<1>2. SubSeq(rules, 1, i - 1) \in Seq(Rule)
  BY <1>1, SubSeqProperties
<1>3. SubSeq(rules, i + 1, Len(rules)) \in Seq(Rule)
  BY <1>1, SubSeqProperties
<1>4. QED
  BY <1>2, <1>3, ConcatProperties DEF Q!Without

LEMMA RulesKeep ==
  ASSUME TariffFits,
         \/ \E s \in Customers \cup {"all"}, t \in Tariffs : Q!CreateRule(s, t)
         \/ \E i \in 1..MaxRules, t \in Tariffs : Q!UpdateRule(i, t)
         \/ \E i \in 1..MaxRules : Q!DeleteRule(i)
         \/ Q!NightBeginsOrEnds
  PROVE  TariffFits'
<1>1. rules \in Seq(Rule)
  BY DEF TariffFits
<1>2. ASSUME NEW s \in Customers \cup {"all"}, NEW t \in Tariffs, Q!CreateRule(s, t)
      PROVE  TariffFits'
  <2>1. PICK id \in 1..MaxRules : Q!Edited(<<[id |-> id, scope |-> s, tariff |-> t]>> \o rules)
    BY <1>2 DEF Q!CreateRule
  <2>2. <<[id |-> id, scope |-> s, tariff |-> t]>> \in Seq(Rule)
    BY DEF Rule
  <2>3. QED
    BY <1>1, <2>1, <2>2, EditKeeps, ConcatProperties
<1>3. ASSUME NEW i, NEW t \in Tariffs, Q!UpdateRule(i, t) PROVE TariffFits'
  <2>1. i \in DOMAIN rules /\ rules[i] \in Rule
    BY <1>1, <1>3, ElementOfSeq DEF Q!UpdateRule
  <2>2. <<[rules[i] EXCEPT !.tariff = t]>> \in Seq(Rule)
    BY <2>1 DEF Rule
  <2>3. QED
    BY <1>1, <1>3, <2>1, <2>2, EditKeeps, WithoutTyped, ConcatProperties DEF Q!UpdateRule
<1>4. ASSUME NEW i, Q!DeleteRule(i) PROVE TariffFits'
  BY <1>1, <1>4, EditKeeps, WithoutTyped DEF Q!DeleteRule
<1>5. CASE Q!NightBeginsOrEnds
  BY <1>5 DEF Q!NightBeginsOrEnds, TariffFits
<1>6. QED
  BY <1>2, <1>3, <1>4, <1>5

-----------------------------------------------------------------------------
(* The screens *)

(* The map of the app moves a marker, not the trip.                        *)
LEMMA MapKeeps ==
  ASSUME ScreensFit, NEW c \in Customers,
         \/ \E f \in {"pickup", "delivery"} : Q!MapOpen(c, f)
         \/ \E p \in Points : Q!MapPress(c, p)
         \/ Q!MapLocated(c)
  PROVE  /\ ScreensFit'
         /\ \A d \in Customers : /\ form'[d].program = form[d].program
                                 /\ form'[d].draft = form[d].draft
<1>1. form[c] \in Form /\ UNCHANGED <<quotes, asked>>
  BY DEF ScreensFit, ScreensTyped, Q!MapOpen, Q!MapPress, Q!MapLocated
<1> DEFINE Moved ==
             /\ form' \in [Customers -> Form]
             /\ \A d \in Customers :
                  /\ form'[d].program = form[d].program /\ form'[d].draft = form[d].draft
                  /\ form'[d].pickup = form[d].pickup /\ form'[d].delivery = form[d].delivery
                  /\ form'[d].priority = form[d].priority
                  /\ FormFits(d) /\ form[d].program = "form" => form'[d].field = "none"
<1>2. Moved
  <2>1. ASSUME NEW field \in {"pickup", "delivery"}, Q!MapOpen(c, field) PROVE Moved
    <3>1. PICK p \in IF form[c][field] = None THEN Points ELSE {form[c][field]} :
            form' = [form EXCEPT ![c].field = field, ![c].marker = p, ![c].locating = TRUE]
      BY <2>1 DEF Q!MapOpen
    <3>2. form[c][field] \in Place
      BY <1>1 DEF Form
    <3>3. p \in Place
      BY <3>2 DEF Place
    <3>4. QED
      BY <1>1, <2>1, <3>1, <3>3 DEF Form, ScreensFit, ScreensTyped, FormFits, Q!MapOpen
  <2>2. ASSUME NEW p \in Points, Q!MapPress(c, p) PROVE Moved
    BY <1>1, <2>2 DEF Q!MapPress, Form, Place, ScreensFit, ScreensTyped, FormFits
  <2>3. CASE Q!MapLocated(c)
    <3>1. PICK p \in Points : form' = [form EXCEPT ![c].marker = p, ![c].locating = FALSE]
      BY <2>3 DEF Q!MapLocated
    <3>2. QED
      BY <1>1, <2>3, <3>1 DEF Form, Place, ScreensFit, ScreensTyped, FormFits, Q!MapLocated
  <2>4. QED
    BY <2>1, <2>2, <2>3
<1>3. \A d \in Customers : Q!TripOf(d)' = Q!TripOf(d)
  BY <1>2 DEF Q!TripOf
<1>4. QED
  BY <1>1, <1>2, <1>3 DEF ScreensFit, ScreensTyped, FormFits

(* While a coordinate is missing the form has no quote.                    *)
LEMMA IncompleteHasNoQuote ==
  ASSUME NumbersFit, ScreensFit, NEW c \in Customers,
         form[c].program = "form", ~Q!CoordsReady(c)
  PROVE  quotes[c] = {}
<1>1. Q!TripOf(c) \notin Trip
  BY DEF Q!CoordsReady, Q!TripOf, Trip, NumbersFit
<1>2. \A a \in asked[c] : a.trip \in Trip
  BY DEF ScreensFit, ScreensTyped, Request
<1>3. \A q \in quotes[c] : q.trip \in Trip
  BY DEF ScreensFit, ScreensTyped, Seen
<1>4. QED
  BY <1>1, <1>2, <1>3 DEF ScreensFit, FormFits

(* A changed trip cancels what was asked before, and asks at once.         *)
LEMMA AskKeeps ==
  ASSUME NumbersFit, ScreensFit, NEW c \in Customers, NEW f \in Form, Q!Ask(c, f),
         f.program = form[c].program, f.program = "form" => f.field = "none",
         quotes' \in [Customers -> SUBSET Seen],
         \A d \in Customers : d # c => quotes'[d] = quotes[d],
         (f.program = "form" /\ (f.pickup = None \/ f.delivery = None)) => quotes'[c] = {}
  PROVE  ScreensFit'
<1> DEFINE trip == [pickup |-> f.pickup, delivery |-> f.delivery, priority |-> f.priority]
           before == {[a EXCEPT !.live = (f.program = "app")] : a \in asked[c]}
           ready == f.pickup # None /\ f.delivery # None
           hasIt == f.program = "app" /\ \E q \in quotes[c] : q.trip = trip
           new == [trip |-> trip, live |-> TRUE]
           asks == IF ready /\ ~hasIt
                         THEN {a \in before : a.trip # trip \/ ~a.live} \cup {new}
                         ELSE before
<1>1. form' = [form EXCEPT ![c] = f] /\ asked' = [asked EXCEPT ![c] = asks]
  BY DEF Q!Ask
<1>2. \A a \in asked[c] : a \in Request
  BY DEF ScreensFit, ScreensTyped
<1>3. \A b \in before : b \in Request /\ b.live = (f.program = "app")
  BY <1>2 DEF Request
<1>4. ready => trip \in Trip
  BY DEF Trip, Form, Place
<1>5. new.trip = trip /\ new.live /\ (ready => new \in Request)
  BY <1>4 DEF Request
<1> HIDE DEF before, new
<1>6. asks \in SUBSET Request
  BY <1>3, <1>5
<1>7. /\ form' \in [Customers -> Form] /\ form'[c] = f
      /\ \A d \in Customers : d # c => form'[d] = form[d]
  BY <1>1 DEF ScreensFit, ScreensTyped
<1>8. f.program = "form" =>
        /\ \A a \in asks : a.live => a.trip = trip
        /\ (\A a \in asks : ~a.live) => quotes'[c] = {}
  BY <1>3, <1>5
<1> HIDE DEF asks
<1>9. /\ asked' \in [Customers -> SUBSET Request] /\ asked'[c] = asks
      /\ \A d \in Customers : d # c => asked'[d] = asked[d]
  BY <1>1, <1>6 DEF ScreensFit, ScreensTyped
<1>10. Q!TripOf(c)' = trip /\ \A d \in Customers : d # c => Q!TripOf(d)' = Q!TripOf(d)
  BY <1>7 DEF Q!TripOf
<1>11. FormFits(c)'
  BY <1>7, <1>8, <1>9, <1>10 DEF FormFits
<1>12. \A d \in Customers : d # c => FormFits(d)'
  BY <1>7, <1>9, <1>10 DEF ScreensFit, FormFits
<1>13. QED
  BY <1>7, <1>9, <1>11, <1>12 DEF ScreensFit, ScreensTyped

LEMMA TripChangesKeep ==
  ASSUME NumbersFit, ScreensFit, NEW c \in Customers,
         \/ Q!MapConfirm(c) \/ Q!SetPriority(c)
         \/ \E f \in {"pickup", "delivery"}, p \in Points \cup {None} : Q!EnterPoint(c, f, p)
  PROVE  /\ ScreensFit'
         /\ \A d \in Customers : /\ form'[d].program = form[d].program
                                 /\ form'[d].draft = form[d].draft
<1>1. form[c] \in Form /\ quotes \in [Customers -> SUBSET Seen]
      /\ form \in [Customers -> Form]
  BY DEF ScreensFit, ScreensTyped
<1>2. ASSUME NEW f \in Form, Q!Ask(c, f), f.program = form[c].program, f.draft = form[c].draft
      PROVE  \A d \in Customers : /\ form'[d].program = form[d].program
                                  /\ form'[d].draft = form[d].draft
  <2>1. form' = [form EXCEPT ![c] = f]
    BY <1>2 DEF Q!Ask
  <2>2. QED
    BY <1>1, <1>2, <2>1
<1>3. CASE Q!MapConfirm(c)
  <2> DEFINE f == [form[c] EXCEPT ![form[c].field] = form[c].marker, !.field = "none",
                                  !.locating = FALSE]
  <2>1. form[c].field \in {"pickup", "delivery"} /\ Q!Ask(c, f) /\ UNCHANGED quotes
    BY <1>1, <1>3 DEF Q!MapConfirm, Form
  <2>2. f \in Form /\ f.program = form[c].program /\ f.draft = form[c].draft
    <3>1. CASE form[c].field = "pickup"
      BY <1>1, <3>1 DEF Form
    <3>2. CASE form[c].field = "delivery"
      BY <1>1, <3>2 DEF Form
    <3>3. QED
      BY <2>1, <3>1, <3>2
  <2> HIDE DEF f
  <2>3. form[c].program = "app"
    BY <1>1, <1>3 DEF Q!MapConfirm, ScreensFit, FormFits, Form
  <2>4. QED
    BY <1>1, <1>2, <2>1, <2>2, <2>3, AskKeeps
<1>4. CASE Q!SetPriority(c)
  <2> DEFINE f == [form[c] EXCEPT !.priority = ~@]
  <2>1. Q!Ask(c, f) /\ UNCHANGED quotes
    BY <1>4 DEF Q!SetPriority
  <2>2. /\ f \in Form /\ f.program = form[c].program /\ f.draft = form[c].draft
        /\ f.pickup = form[c].pickup /\ f.delivery = form[c].delivery
        /\ f.field = "none"
    BY <1>1, <1>4 DEF Form, Q!SetPriority
  <2> HIDE DEF f
  <2>3. (f.program = "form" /\ (f.pickup = None \/ f.delivery = None)) => quotes[c] = {}
    BY <2>2, IncompleteHasNoQuote DEF Q!CoordsReady
  <2>4. QED
    BY <1>1, <1>2, <2>1, <2>2, <2>3, AskKeeps
<1>5. ASSUME NEW field \in {"pickup", "delivery"}, NEW p \in Points \cup {None},
             Q!EnterPoint(c, field, p)
      PROVE  /\ ScreensFit'
             /\ \A d \in Customers : /\ form'[d].program = form[d].program
                                     /\ form'[d].draft = form[d].draft
  <2> DEFINE f == [form[c] EXCEPT ![field] = p]
  <2>1. Q!Ask(c, f) /\ quotes' = [quotes EXCEPT ![c] = IF Q!CoordsReady(c)' THEN @ ELSE {}]
    BY <1>5 DEF Q!EnterPoint
  <2>2. f \in Form /\ f.program = form[c].program /\ f.draft = form[c].draft
    <3>1. CASE field = "pickup"
      BY <1>1, <3>1 DEF Form, Place
    <3>2. CASE field = "delivery"
      BY <1>1, <3>2 DEF Form, Place
    <3>3. QED
      BY <3>1, <3>2
  <2> HIDE DEF f
  <2>3. form'[c] = f
    BY <1>1, <2>1 DEF Q!Ask
  <2>4. Q!CoordsReady(c)' <=> (f.pickup # None /\ f.delivery # None)
    BY <2>3 DEF Q!CoordsReady
  <2>5. /\ quotes' \in [Customers -> SUBSET Seen]
        /\ \A d \in Customers : d # c => quotes'[d] = quotes[d]
        /\ (f.pickup = None \/ f.delivery = None) => quotes'[c] = {}
    BY <1>1, <2>1, <2>4
  <2>6. f.program = "form" => f.field = "none"
    BY <1>1, <2>2 DEF ScreensFit, FormFits, Form, f
  <2>7. QED
    BY <1>2, <2>1, <2>2, <2>5, <2>6, AskKeeps
<1>6. QED
  BY <1>3, <1>4, <1>5

LEMMA AnswersKeep ==
  ASSUME NumbersFit, TariffFits, ScreensFit, NEW c \in Customers, NEW a \in asked[c],
         Q!QuoteAnswered(c, a) \/ Q!QuoteFails(c, a)
  PROVE  ScreensFit' /\ UNCHANGED form
<1>1. /\ form' = form /\ asked' = [asked EXCEPT ![c] = @ \ {a}]
      /\ form \in [Customers -> Form] /\ quotes \in [Customers -> SUBSET Seen]
      /\ asked \in [Customers -> SUBSET Request]
  BY DEF Q!QuoteAnswered, Q!QuoteFails, ScreensFit, ScreensTyped
<1>2. /\ asked' \in [Customers -> SUBSET Request] /\ asked'[c] = asked[c] \ {a}
      /\ \A d \in Customers : d # c => asked'[d] = asked[d]
  BY <1>1
<1>3. a \in Request /\ a.trip \in Trip
  BY <1>1 DEF Request
<1> DEFINE q == Q!OnScreen(Q!Quote(c, a.trip))
<1>4. q \in Seen /\ q.trip = a.trip
  BY <1>3, QuoteIsQuote
<1> HIDE DEF q
<1>5. \A d \in Customers : Q!TripOf(d)' = Q!TripOf(d)
  BY <1>1 DEF Q!TripOf
<1>6. /\ quotes' \in [Customers -> SUBSET Seen]
      /\ form[c].program = "form" =>
           (quotes'[c] = quotes[c] /\ ~a.live) \/ (quotes'[c] \subseteq {q} /\ a.live)
      /\ \A d \in Customers : d # c => quotes'[d] = quotes[d]
  <2>1. CASE Q!QuoteAnswered(c, a)
    <3> DEFINE new == IF form[c].program = "app" THEN {o \in quotes[c] : o.trip # a.trip} \cup {q}
                        ELSE IF a.live THEN {q} ELSE quotes[c]
    <3>1. quotes' = [quotes EXCEPT ![c] = new]
      BY <2>1 DEF Q!QuoteAnswered, q
    <3>2. new \in SUBSET Seen
      BY <1>1, <1>4
    <3>3. form[c].program = "form" => (new = quotes[c] /\ ~a.live) \/ (new \subseteq {q} /\ a.live)
      BY <1>3 DEF Request
    <3> HIDE DEF new
    <3>4. QED
      BY <1>1, <3>1, <3>2, <3>3
  <2>2. CASE Q!QuoteFails(c, a)
    <3> DEFINE new == IF form[c].program = "form" /\ a.live THEN {} ELSE quotes[c]
    <3>1. quotes' = [quotes EXCEPT ![c] = new]
      BY <2>2 DEF Q!QuoteFails
    <3>2. new \in SUBSET Seen
      BY <1>1
    <3>3. form[c].program = "form" => (new = quotes[c] /\ ~a.live) \/ (new \subseteq {q} /\ a.live)
      BY <1>3 DEF Request
    <3> HIDE DEF new
    <3>4. QED
      BY <1>1, <3>1, <3>2, <3>3
  <2>3. QED
    BY <2>1, <2>2
<1>7. FormFits(c)'
  BY <1>1, <1>2, <1>4, <1>5, <1>6 DEF ScreensFit, FormFits
<1>8. \A d \in Customers : d # c => FormFits(d)'
  BY <1>1, <1>2, <1>5, <1>6 DEF ScreensFit, FormFits
<1>9. QED
  BY <1>1, <1>2, <1>6, <1>7, <1>8 DEF ScreensFit, ScreensTyped

LEMMA RefetchKeeps ==
  ASSUME ScreensFit, NEW c \in Customers, Q!QuoteRefetch(c)
  PROVE  ScreensFit' /\ UNCHANGED form
<1> DEFINE new == [trip |-> Q!TripOf(c), live |-> TRUE]
<1>1. form[c].program = "app" /\ UNCHANGED <<form, quotes>>
      /\ asked' = [asked EXCEPT ![c] = @ \cup {new}]
  BY DEF Q!QuoteRefetch
<1>2. PICK q \in quotes[c] : q.trip = Q!TripOf(c)
  BY <1>1 DEF Q!QuoteRefetch, Q!Shown
<1>3. new \in Request
  BY <1>2 DEF ScreensFit, ScreensTyped, Seen, Request
<1> HIDE DEF new
<1>4. /\ asked' \in [Customers -> SUBSET Request]
      /\ \A d \in Customers : d # c => asked'[d] = asked[d]
  BY <1>1, <1>3 DEF ScreensFit, ScreensTyped
<1>5. \A d \in Customers : Q!TripOf(d)' = Q!TripOf(d)
  BY <1>1 DEF Q!TripOf
<1>6. \A d \in Customers : FormFits(d)'
  BY <1>1, <1>4, <1>5 DEF ScreensFit, FormFits
<1>7. QED
  BY <1>1, <1>4, <1>6 DEF ScreensFit, ScreensTyped

(* A form that has just opened has asked for the trip it shows.            *)
LEMMA FirstFits ==
  ASSUME NEW f \in {Q!FirstApp} \cup Q!FirstForms
  PROVE  /\ f \in Form /\ Q!FirstAsked(f) \in SUBSET Request /\ f.draft = 1
         /\ f.program = "form" =>
              /\ f.field = "none" /\ Q!FirstAsked(f) # {}
              /\ \A a \in Q!FirstAsked(f) :
                   /\ a.live
                   /\ a.trip = [pickup |-> f.pickup, delivery |-> f.delivery,
                                priority |-> f.priority]
<1>1. CASE f = Q!FirstApp
  BY <1>1 DEF Q!FirstApp, Q!FirstAsked, Form, Place
<1>2. CASE f \in Q!FirstForms
  <2>1. /\ f.program = "form" /\ f.pickup \in Points /\ f.delivery \in Points
        /\ f.priority = FALSE /\ f.draft = 1 /\ f.field = "none"
    BY <1>2 DEF Q!FirstForms
  <2>2. f \in Form
    <3>1. f.marker = None /\ f.locating \in BOOLEAN /\ f.priority \in BOOLEAN
      BY <1>2 DEF Q!FirstForms
    <3>2. f = [program |-> f.program, pickup |-> f.pickup, delivery |-> f.delivery,
               priority |-> f.priority, draft |-> f.draft, field |-> f.field,
               marker |-> f.marker, locating |-> f.locating]
      BY <1>2 DEF Q!FirstForms
    <3>3. QED
      BY <2>1, <3>1, <3>2 DEF Form, Place
  <2> DEFINE a == [trip |-> [pickup |-> f.pickup, delivery |-> f.delivery, priority |-> FALSE],
                   live |-> TRUE]
  <2>3. Q!FirstAsked(f) = {a}
    BY <2>1 DEF Q!FirstAsked
  <2>4. /\ a \in Request /\ a.live
        /\ a.trip = [pickup |-> f.pickup, delivery |-> f.delivery, priority |-> f.priority]
    BY <2>1 DEF Request, Trip
  <2> HIDE DEF a
  <2>5. QED
    BY <2>1, <2>2, <2>3, <2>4
<1>3. QED
  BY <1>1, <1>2

LEMMA LeaveKeeps ==
  ASSUME ScreensFit, NEW c \in Customers, Q!LeaveForm(c)
  PROVE  /\ ScreensFit'
         /\ \A d \in Customers :
              /\ form'[d].program = form[d].program
              /\ form[d].program = "app" => form'[d].draft = form[d].draft
<1>1. PICK f \in Q!FirstForms : form' = [form EXCEPT ![c] = f]
  BY DEF Q!LeaveForm
<1>2. f.program = "form" /\ form[c].program = "form"
  BY DEF Q!FirstForms, Q!FirstApp, Q!LeaveForm
<1>3. f \in Form /\ f.field = "none" /\ Q!FirstAsked(f) \in SUBSET Request /\ Q!FirstAsked(f) # {}
      /\ \A a \in Q!FirstAsked(f) :
           a.live /\ a.trip = [pickup |-> f.pickup, delivery |-> f.delivery, priority |-> f.priority]
  BY <1>2, FirstFits
<1>4. /\ form' \in [Customers -> Form] /\ form'[c] = f
      /\ \A d \in Customers : d # c => form'[d] = form[d]
  BY <1>1, <1>3 DEF ScreensFit, ScreensTyped
<1>5. /\ asked' \in [Customers -> SUBSET Request] /\ asked'[c] = Q!FirstAsked(f)
      /\ \A d \in Customers : d # c => asked'[d] = asked[d]
  BY <1>3, <1>4 DEF Q!LeaveForm, ScreensFit, ScreensTyped
<1>6. /\ quotes' \in [Customers -> SUBSET Seen] /\ quotes'[c] = {}
      /\ \A d \in Customers : d # c => quotes'[d] = quotes[d]
  BY DEF Q!LeaveForm, ScreensFit, ScreensTyped
<1>7. \A d \in Customers : d # c => Q!TripOf(d)' = Q!TripOf(d)
  BY <1>4 DEF Q!TripOf
<1>8. Q!TripOf(c)' = [pickup |-> f.pickup, delivery |-> f.delivery, priority |-> f.priority]
  BY <1>4 DEF Q!TripOf
<1>9. FormFits(c)'
  BY <1>3, <1>4, <1>5, <1>6, <1>8 DEF FormFits
<1>10. \A d \in Customers : d # c => FormFits(d)'
  BY <1>4, <1>5, <1>6, <1>7 DEF ScreensFit, FormFits
<1>11. QED
  BY <1>2, <1>4, <1>5, <1>6, <1>9, <1>10 DEF ScreensFit, ScreensTyped

-----------------------------------------------------------------------------
(* The orders *)

(* What leaves POST /orders alone, and every draft on its screen.          *)
LEMMA OrdersKept ==
  ASSUME OrdersFit, UNCHANGED Q!orderVars,
         \A d \in Customers :
           /\ form'[d].program = form[d].program
           /\ form[d].program = "app" => form'[d].draft = form[d].draft
  PROVE  OrdersFit'
<1>1. post' = post /\ orders' = orders /\ lost' = lost
  BY DEF Q!orderVars
<1>2. \A c \in Customers : PostFits(c)'
  BY <1>1 DEF OrdersFit, PostFits, Confirmed, Priced, IsQuote
<1>3. \A o \in orders : OrderFits(o)'
  BY <1>1 DEF OrdersFit, OrderFits, Confirmed, Priced, IsQuote
<1>4. \A o \in orders : DraftFits(o)'
  BY <1>1 DEF OrdersFit, OrderFits, DraftFits
<1>5. QED
  BY <1>1, <1>2, <1>3, <1>4 DEF OrdersFit, Q!DraftIsOrderedOnce

(* A step of the one POST of c that the screens do not notice.             *)
LEMMA PostStep ==
  ASSUME OrdersFit, ScreensFit, NEW c \in Customers, UNCHANGED Q!screenVars,
         NEW new, post' = [post EXCEPT ![c] = new],
         new.at \in {"sent", "read"} =>
           Confirmed(new) /\ (form[c].program = "app" => new.draft = form[c].draft),
         new.at = "read" => Priced(new),
         lost' \in BOOLEAN, lost => lost',
         post[c].at = "created" => new.at = "created" \/ lost',
         orders' = orders
  PROVE  ScreensFit' /\ OrdersFit'
<1>1. form' = form /\ quotes' = quotes /\ asked' = asked
  BY DEF Q!screenVars
<1>2. ScreensFit'
  BY <1>1 DEF ScreensFit, ScreensTyped, FormFits, Q!TripOf
<1>3. /\ DOMAIN post' = Customers /\ post'[c] = new
      /\ \A d \in Customers : d # c => post'[d] = post[d]
  BY DEF OrdersFit
<1>4. PostFits(c)'
  BY <1>1, <1>3 DEF PostFits, Confirmed, Priced, IsQuote
<1>5. \A d \in Customers : d # c => PostFits(d)'
  BY <1>1, <1>3 DEF OrdersFit, PostFits, Confirmed, Priced, IsQuote
<1>6. \A o \in orders : OrderFits(o)'
  BY <1>1 DEF OrdersFit, OrderFits, Confirmed, Priced, IsQuote
<1>7. \A o \in orders : DraftFits(o)'
  <2> SUFFICES ASSUME NEW o \in orders PROVE DraftFits(o)'
    OBVIOUS
  <2>1. o.customer \in Customers /\ DraftFits(o)
    BY DEF OrdersFit, OrderFits
  <2>2. CASE o.customer = c
    BY <1>1, <1>3, <2>1, <2>2 DEF DraftFits
  <2>3. CASE o.customer # c
    BY <1>1, <1>3, <2>1, <2>3 DEF DraftFits
  <2>4. QED
    BY <2>2, <2>3
<1>8. Q!DraftIsOrderedOnce'
  BY DEF OrdersFit, Q!DraftIsOrderedOnce
<1>9. QED
  BY <1>2, <1>3, <1>4, <1>5, <1>6, <1>7, <1>8 DEF OrdersFit

LEMMA SubmitKeeps ==
  ASSUME OrdersFit, ScreensFit, NEW c \in Customers, Q!Submit(c)
  PROVE  ScreensFit' /\ OrdersFit'
<1>1. PICK q \in Q!Shown(c) :
        post' = [post EXCEPT ![c] =
                  [at |-> "sent", trip |-> Q!TripOf(c), seen |-> q, draft |-> form[c].draft]]
  BY DEF Q!Submit
<1>2. q \in quotes[c] /\ q \in Seen
  BY DEF Q!Shown, ScreensFit, ScreensTyped
<1>3. q.trip = Q!TripOf(c)
  <2>1. form[c].program \in {"app", "form"}
    BY DEF ScreensFit, ScreensTyped, Form
  <2>2. CASE form[c].program = "app"
    BY <2>2 DEF Q!Shown
  <2>3. CASE form[c].program = "form"
    BY <2>3, <1>2 DEF Q!Shown, ScreensFit, FormFits
  <2>4. QED
    BY <2>1, <2>2, <2>3
<1> DEFINE new == [at |-> "sent", trip |-> Q!TripOf(c), seen |-> q, draft |-> form[c].draft]
<1>4. new.at = "sent" /\ Confirmed(new) /\ new.draft = form[c].draft
  BY <1>2, <1>3 DEF Confirmed
<1>5. post' = [post EXCEPT ![c] = new] /\ UNCHANGED <<Q!screenVars, orders, lost>>
  BY <1>1 DEF Q!Submit
<1>6. post[c].at # "created"
  BY DEF Q!Submit, Q!NoPost
<1>7. lost \in BOOLEAN
  BY DEF OrdersFit
<1> HIDE DEF new
<1>8. QED
  BY <1>4, <1>5, <1>6, <1>7, PostStep

LEMMA CreateReadKeeps ==
  ASSUME NumbersFit, TariffFits, OrdersFit, ScreensFit, NEW c \in Customers, Q!CreateRead(c)
  PROVE  ScreensFit' /\ OrdersFit'
<1> DEFINE q == Q!Quote(c, post[c].trip)
           read == [at |-> "read", trip |-> post[c].trip, seen |-> post[c].seen,
                    draft |-> post[c].draft, quote |-> q]
           new == IF Q!PriceAccepted(post[c].seen.total, q.total) THEN read
                    ELSE [at |-> "refused"]
<1>1. post[c].at = "sent" /\ post' = [post EXCEPT ![c] = new]
      /\ UNCHANGED <<Q!screenVars, orders, lost>>
  BY DEF Q!CreateRead
<1>2. /\ Confirmed(post[c])
      /\ form[c].program = "app" => post[c].draft = form[c].draft
  BY <1>1 DEF OrdersFit, PostFits
<1>3. post[c].trip \in Trip
  BY <1>2 DEF Confirmed, Seen
<1>4. IsQuote(q, post[c].trip)
  BY <1>3, QuoteIsQuote
<1> HIDE DEF q
<1>5. Confirmed(read) /\ read.at = "read" /\ read.draft = post[c].draft
  BY <1>2 DEF Confirmed
<1>6. Q!PriceAccepted(post[c].seen.total, q.total) => Priced(read)
  BY <1>4 DEF Priced
<1> HIDE DEF read
<1>7. new.at = "read" \/ new.at = "refused"
  BY <1>5
<1>8. new.at = "read" => Q!PriceAccepted(post[c].seen.total, q.total) /\ new = read
  OBVIOUS
<1>9. lost \in BOOLEAN
  BY DEF OrdersFit
<1> HIDE DEF new
<1>10. QED
  BY <1>1, <1>2, <1>5, <1>6, <1>7, <1>8, <1>9, PostStep

LEMMA AnswerKeeps ==
  ASSUME OrdersFit, ScreensFit, NEW c \in Customers, Q!RefusedAnswer(c) \/ Q!AnswerLost(c)
  PROVE  ScreensFit' /\ OrdersFit'
<1>1. Q!NoPost.at = "idle"
  BY DEF Q!NoPost
<1>2. post' = [post EXCEPT ![c] = Q!NoPost] /\ UNCHANGED <<Q!screenVars, orders>>
  BY DEF Q!RefusedAnswer, Q!AnswerLost
<1>3. lost' \in BOOLEAN /\ (lost => lost') /\ (post[c].at = "created" => lost')
  BY DEF Q!RefusedAnswer, Q!AnswerLost, OrdersFit
<1>4. QED
  BY <1>1, <1>2, <1>3, PostStep

(* The order is new: while its request was read the draft was not ordered. *)
LEMMA CreateKeeps ==
  ASSUME OrdersFit, ScreensFit, NEW c \in Customers, Q!Create(c)
  PROVE  ScreensFit' /\ OrdersFit'
<1> DEFINE q == post[c].quote
           created ==
             [number |-> Q!Cardinality(orders) + 1, customer |-> c, program |-> form[c].program,
              draft |-> post[c].draft, trip |-> post[c].trip, seen |-> post[c].seen,
              quote |-> q, share |-> Q!SplitCourierAndPlatform(q.total, q.tariff.share)]
           done == [at |-> "created"]
           refused == [at |-> "refused"]
<1>1. post[c].at = "read" /\ UNCHANGED <<Q!screenVars, lost>> /\ lost \in BOOLEAN
  BY DEF Q!Create, OrdersFit
<1>2. \/ orders' = orders \cup {created} /\ post' = [post EXCEPT ![c] = done]
      \/ orders' = orders /\ post' = [post EXCEPT ![c] = refused]
  BY DEF Q!Create
<1>3. done.at = "created" /\ refused.at = "refused"
  OBVIOUS
<1> HIDE DEF refused, done
<1>4. CASE orders' = orders /\ post' = [post EXCEPT ![c] = refused]
  BY <1>1, <1>3, <1>4, PostStep
<1>5. CASE orders' = orders \cup {created} /\ post' = [post EXCEPT ![c] = done]
  <2>1. /\ Confirmed(post[c]) /\ Priced(post[c])
        /\ form[c].program = "app" => post[c].draft = form[c].draft
    BY <1>1 DEF OrdersFit, PostFits
  <2>2. form[c].draft \in Nat
    BY DEF ScreensFit, ScreensTyped, Form
  <2>3. form' = form /\ quotes' = quotes /\ asked' = asked /\ lost' = lost
    BY <1>1 DEF Q!screenVars
  <2>4. /\ DOMAIN post' = Customers /\ post'[c] = done
        /\ \A d \in Customers : d # c => post'[d] = post[d]
    BY <1>5 DEF OrdersFit
  <2>5. PICK x : x = created
    OBVIOUS
  <2>6. /\ Confirmed(x) /\ Priced(x)
        /\ x.share = Q!SplitCourierAndPlatform(x.quote.total, x.quote.tariff.share)
        /\ x.customer = c /\ x.program = form[c].program /\ x.draft = post[c].draft
    BY <2>1, <2>5 DEF Confirmed, Priced
  <2>7. orders' = orders \cup {x}
    BY <1>5, <2>5
  <2> HIDE DEF created, q
  <2>8. OrderFits(x)'
    BY <2>3, <2>6 DEF OrderFits, Confirmed, Priced, IsQuote
  <2>9. DraftFits(x)'
    BY <1>3, <2>1, <2>2, <2>3, <2>4, <2>6 DEF DraftFits
  <2>10. \A o \in orders : OrderFits(o)' /\ DraftFits(o)'
    <3> SUFFICES ASSUME NEW o \in orders PROVE OrderFits(o)' /\ DraftFits(o)'
      OBVIOUS
    <3>1. OrderFits(o) /\ DraftFits(o)
      BY DEF OrdersFit
    <3>2. OrderFits(o)'
      BY <2>3, <3>1 DEF OrderFits, Confirmed, Priced, IsQuote
    <3>3. CASE o.customer = c
      <4>1. post'[o.customer].at = "created"
        BY <1>3, <2>4, <3>3
      <4>2. form'[o.customer] = form[o.customer]
        BY <2>3
      <4>3. DraftFits(o)'
        BY <4>1, <4>2, <3>1 DEF DraftFits
      <4>4. QED
        BY <3>2, <4>3
    <3>4. CASE o.customer # c
      BY <2>3, <2>4, <3>1, <3>4 DEF DraftFits, OrderFits
    <3>5. QED
      BY <3>2, <3>3, <3>4
  <2>11. \A d \in Customers : PostFits(d)'
    BY <1>3, <2>3, <2>4 DEF OrdersFit, PostFits, Confirmed, Priced, IsQuote
  <2>12. lost \/ \A o \in orders :
           ~(o.program = "app" /\ o.customer = c /\ o.draft = x.draft)
    BY <1>1, <2>1, <2>6 DEF OrdersFit, OrderFits, DraftFits
  <2>13. \A o \in orders : o.customer = c => o.program = x.program
    BY <2>6 DEF OrdersFit, OrderFits
  <2>14. Q!DraftIsOrderedOnce'
    BY <2>3, <2>6, <2>7, <2>12, <2>13 DEF OrdersFit, Q!DraftIsOrderedOnce
  <2>15. ScreensFit'
    BY <2>3 DEF ScreensFit, ScreensTyped, FormFits, Q!TripOf
  <2>16. \A o \in orders' : OrderFits(o)' /\ DraftFits(o)'
    BY <2>7, <2>8, <2>9, <2>10
  <2>17. QED
    BY <1>1, <2>3, <2>4, <2>11, <2>14, <2>15, <2>16 DEF OrdersFit
<1>6. QED
  BY <1>2, <1>4, <1>5

(* The app goes on to a draft that nobody has ordered.                     *)
LEMMA NewDraftKeeps ==
  ASSUME OrdersFit, ScreensFit, NEW c \in Customers, NEW f \in Form,
         form[c].program = "app", f.program = "app", f.draft = form[c].draft + 1,
         form' = [form EXCEPT ![c] = f], UNCHANGED <<quotes, asked, orders, lost>>,
         DOMAIN post' = Customers, post'[c].at \notin {"sent", "read"},
         \A d \in Customers : d # c => post'[d] = post[d]
  PROVE  ScreensFit' /\ OrdersFit'
<1>1. /\ form' \in [Customers -> Form] /\ form'[c] = f
      /\ \A d \in Customers : d # c => form'[d] = form[d]
  BY DEF ScreensFit, ScreensTyped
<1>2. \A d \in Customers : d # c => Q!TripOf(d)' = Q!TripOf(d)
  BY <1>1 DEF Q!TripOf
<1>3. ScreensFit'
  BY <1>1, <1>2 DEF ScreensFit, ScreensTyped, FormFits
<1>4. \A d \in Customers : PostFits(d)'
  BY <1>1 DEF OrdersFit, PostFits, Confirmed, Priced, IsQuote
<1>5. \A o \in orders : OrderFits(o)'
  BY <1>1 DEF OrdersFit, OrderFits, Confirmed, Priced, IsQuote
<1>6. \A o \in orders : DraftFits(o)'
  <2> SUFFICES ASSUME NEW o \in orders PROVE DraftFits(o)'
    OBVIOUS
  <2>1. o.customer \in Customers /\ DraftFits(o)
    BY DEF OrdersFit, OrderFits
  <2>2. form[c].draft \in Nat
    BY DEF ScreensFit, ScreensTyped, Form
  <2>3. CASE o.customer = c
    BY <1>1, <2>1, <2>2, <2>3 DEF DraftFits
  <2>4. CASE o.customer # c
    BY <1>1, <2>1, <2>4 DEF DraftFits
  <2>5. QED
    BY <2>3, <2>4
<1>7. QED
  BY <1>3, <1>4, <1>5, <1>6 DEF OrdersFit, Q!DraftIsOrderedOnce

LEMMA DraftChangesKeep ==
  ASSUME OrdersFit, ScreensFit, NEW c \in Customers, Q!CreatedAnswer(c) \/ Q!ResetDraft(c)
  PROVE  ScreensFit' /\ OrdersFit'
<1>1. form[c] \in Form /\ DOMAIN post = Customers /\ lost \in BOOLEAN
  BY DEF OrdersFit, ScreensFit, ScreensTyped
<1>2. Q!NoPost.at = "idle" /\ post[c].at = "created"
  BY DEF Q!NoPost, Q!CreatedAnswer, Q!ResetDraft
<1>3. Q!NewDraft(c) \in Form /\ Q!NewDraft(c).program = form[c].program
      /\ Q!NewDraft(c).draft = form[c].draft + 1
  <2> DEFINE next == form[c].draft + 1
             f == [form[c] EXCEPT !.pickup = None, !.delivery = None, !.draft = next,
                                  !.field = "none", !.locating = FALSE]
  <2>1. Q!NewDraft(c) = f
    BY <1>1 DEF Q!NewDraft, Form
  <2>2. next \in Nat /\ None \in Place
    BY <1>1 DEF Form, Place
  <2> HIDE DEF next
  <2>3. f \in Form /\ f.program = form[c].program /\ f.draft = next
    BY <1>1, <2>2 DEF Form
  <2>4. QED
    BY <2>1, <2>3 DEF next
<1>4. CASE Q!CreatedAnswer(c) /\ form[c].program = "app"
  <2>1. form' = [form EXCEPT ![c] = Q!NewDraft(c)] /\ post' = [post EXCEPT ![c] = Q!NoPost]
        /\ UNCHANGED <<quotes, asked, orders, lost>>
    BY <1>4 DEF Q!CreatedAnswer
  <2>2. /\ DOMAIN post' = Customers /\ post'[c].at = "idle"
        /\ \A d \in Customers : d # c => post'[d] = post[d]
    BY <1>1, <1>2, <2>1
  <2>3. QED
    BY <1>3, <1>4, <2>1, <2>2, NewDraftKeeps
<1>5. CASE Q!CreatedAnswer(c) /\ form[c].program # "app"
  <2>1. form \in [Customers -> Form]
    BY DEF ScreensFit, ScreensTyped
  <2>2. form' = form
    BY <1>5, <2>1 DEF Q!CreatedAnswer
  <2>3. post' = [post EXCEPT ![c] = Q!NoPost] /\ UNCHANGED <<Q!screenVars, orders, lost>>
    BY <1>5, <2>2 DEF Q!CreatedAnswer, Q!screenVars
  <2>4. form[c].program = "form"
    BY <1>1, <1>5 DEF Form
  <2>5. \A o \in orders : o.customer = c => ~(o.program = "app")
    BY <2>4 DEF OrdersFit, OrderFits
  <2>6. /\ DOMAIN post' = Customers /\ post'[c] = Q!NoPost /\ quotes' = quotes /\ asked' = asked
        /\ \A d \in Customers : d # c => post'[d] = post[d]
    BY <1>1, <2>3 DEF Q!screenVars
  <2>7. ScreensFit'
    BY <2>2, <2>6 DEF ScreensFit, ScreensTyped, FormFits, Q!TripOf
  <2>8. \A d \in Customers : PostFits(d)'
    BY <1>2, <2>2, <2>6 DEF OrdersFit, PostFits, Confirmed, Priced, IsQuote
  <2>9. \A o \in orders : OrderFits(o)' /\ DraftFits(o)'
    BY <2>2, <2>3, <2>5, <2>6 DEF OrdersFit, OrderFits, DraftFits, Confirmed, Priced, IsQuote
  <2>10. QED
    BY <2>3, <2>6, <2>7, <2>8, <2>9 DEF OrdersFit, Q!DraftIsOrderedOnce
<1>6. CASE Q!ResetDraft(c)
  <2>1. form' = [form EXCEPT ![c] = Q!NewDraft(c)] /\ form[c].program = "app"
        /\ UNCHANGED <<quotes, asked, post, orders, lost>>
    BY <1>6 DEF Q!ResetDraft, Q!orderVars
  <2>2. QED
    BY <1>1, <1>2, <1>3, <2>1, NewDraftKeeps
<1>7. QED
  BY <1>4, <1>5, <1>6

-----------------------------------------------------------------------------

LEMMA QuoteInvInit == ASSUME NumbersFit, Q!Init PROVE QuoteInv
<1>1. TariffFits
  <2>1. night \in BOOLEAN
    BY Zenon DEF Q!Init
  <2>2. CASE rules = <<>>
    BY <2>1, <2>2, EmptySeq DEF TariffFits
  <2>3. ASSUME NEW t \in Tariffs, rules = <<[id |-> 1, scope |-> "all", tariff |-> t]>>
        PROVE  rules \in Seq(Rule)
    <3>1. [id |-> 1, scope |-> "all", tariff |-> t] \in Rule
      <4>1. 1 \in 1..MaxRules
        BY DEF NumbersFit
      <4>2. QED
        BY <4>1 DEF Rule
    <3>2. QED
      BY <2>3, <3>1
  <2>4. QED
    BY <2>1, <2>2, <2>3 DEF Q!Init, TariffFits
<1>2. \A c \in Customers :
        /\ form[c] \in {Q!FirstApp} \cup Q!FirstForms
        /\ asked[c] = Q!FirstAsked(form[c]) /\ quotes[c] = {}
  BY DEF Q!Init
<1>3. ScreensTyped
  <2>1. \A c \in Customers : form[c] \in Form /\ Q!FirstAsked(form[c]) \in SUBSET Request
    BY <1>2, FirstFits
  <2>2. form \in [Customers -> Form]
    BY <2>1 DEF Q!Init
  <2>3. quotes \in [Customers -> SUBSET Seen]
    BY DEF Q!Init
  <2>4. asked \in [Customers -> SUBSET Request]
    BY <2>1 DEF Q!Init
  <2>5. QED
    BY <2>2, <2>3, <2>4 DEF ScreensTyped
<1>4. ASSUME NEW c \in Customers PROVE FormFits(c)
  <2>1. form[c].program = "form" =>
          /\ form[c].field = "none"
          /\ \A a \in asked[c] : a.live /\ a.trip = Q!TripOf(c)
    BY <1>2, FirstFits DEF Q!TripOf
  <2>2. QED
    BY <1>2, <2>1 DEF FormFits
<1>5. OrdersFit
  <2>1. DOMAIN post = Customers /\ \A c \in Customers : post[c].at = "idle"
    BY DEF Q!Init, Q!NoPost
  <2>2. \A c \in Customers : PostFits(c)
    BY <2>1 DEF PostFits
  <2>3. orders = {} /\ lost = FALSE
    BY DEF Q!Init
  <2>4. QED
    BY <2>1, <2>2, <2>3 DEF OrdersFit, Q!DraftIsOrderedOnce
<1>6. QED
  BY <1>1, <1>3, <1>4, <1>5 DEF QuoteInv, ScreensFit

(* What leaves rules and clock alone.                                      *)
LEMMA TariffKept == ASSUME TariffFits, UNCHANGED Q!tariffVars PROVE TariffFits'
BY DEF TariffFits, Q!tariffVars

LEMMA RulesStep ==
  ASSUME QuoteInv,
         \/ \E s \in Customers \cup {"all"}, t \in Tariffs : Q!CreateRule(s, t)
         \/ \E i \in 1..MaxRules, t \in Tariffs : Q!UpdateRule(i, t)
         \/ \E i \in 1..MaxRules : Q!DeleteRule(i)
         \/ Q!NightBeginsOrEnds
  PROVE  QuoteInv'
<1>1. UNCHANGED Q!screenVars /\ UNCHANGED Q!orderVars
  BY DEF Q!CreateRule, Q!UpdateRule, Q!DeleteRule, Q!NightBeginsOrEnds, Q!Edited
<1>2. ScreensFit'
  BY <1>1 DEF QuoteInv, ScreensFit, ScreensTyped, FormFits, Q!TripOf, Q!screenVars
<1>3. OrdersFit'
  BY <1>1, OrdersKept DEF QuoteInv, Q!screenVars
<1>4. QED
  BY <1>2, <1>3, RulesKeep DEF QuoteInv

LEMMA ScreenStep ==
  ASSUME NumbersFit, QuoteInv, NEW c \in Customers,
         \/ \E f \in {"pickup", "delivery"} : Q!MapOpen(c, f)
         \/ \E p \in Points : Q!MapPress(c, p)
         \/ \E f \in {"pickup", "delivery"}, p \in Points \cup {None} : Q!EnterPoint(c, f, p)
         \/ \E a \in asked[c] : Q!QuoteAnswered(c, a) \/ Q!QuoteFails(c, a)
         \/ Q!MapLocated(c) \/ Q!MapConfirm(c) \/ Q!SetPriority(c) \/ Q!QuoteRefetch(c) \/ Q!LeaveForm(c)
  PROVE  QuoteInv'
<1>1. UNCHANGED Q!tariffVars /\ UNCHANGED Q!orderVars
  BY DEF Q!MapOpen, Q!MapPress, Q!EnterPoint, Q!QuoteAnswered, Q!QuoteFails, Q!MapLocated, Q!MapConfirm,
         Q!SetPriority, Q!QuoteRefetch, Q!LeaveForm, Q!orderVars
<1>2. TariffFits'
  BY <1>1, TariffKept DEF QuoteInv
<1>3. /\ ScreensFit'
      /\ \A d \in Customers :
           /\ form'[d].program = form[d].program
           /\ form[d].program = "app" => form'[d].draft = form[d].draft
  BY MapKeeps, TripChangesKeep, AnswersKeep, RefetchKeeps, LeaveKeeps DEF QuoteInv
<1>4. OrdersFit'
  BY <1>1, <1>3, OrdersKept DEF QuoteInv
<1>5. QED
  BY <1>2, <1>3, <1>4 DEF QuoteInv

LEMMA OrderStep ==
  ASSUME NumbersFit, QuoteInv, NEW c \in Customers,
         \/ Q!Submit(c) \/ Q!CreateRead(c) \/ Q!Create(c) \/ Q!RefusedAnswer(c) \/ Q!AnswerLost(c)
         \/ Q!CreatedAnswer(c) \/ Q!ResetDraft(c)
  PROVE  QuoteInv'
<1>1. UNCHANGED Q!tariffVars
  BY DEF Q!Submit, Q!CreateRead, Q!Create, Q!RefusedAnswer, Q!AnswerLost, Q!CreatedAnswer, Q!ResetDraft
<1>2. ScreensFit' /\ OrdersFit'
  BY SubmitKeeps, CreateReadKeeps, CreateKeeps, AnswerKeeps, DraftChangesKeep DEF QuoteInv
<1>3. QED
  BY <1>1, <1>2, TariffKept DEF QuoteInv

LEMMA QuoteInvStep == ASSUME NumbersFit, QuoteInv, Q!Next \/ UNCHANGED Q!vars PROVE QuoteInv'
<1>1. CASE UNCHANGED Q!vars
  <2>1. UNCHANGED Q!tariffVars /\ UNCHANGED Q!screenVars /\ UNCHANGED Q!orderVars
    BY <1>1 DEF Q!vars, Q!tariffVars, Q!screenVars, Q!orderVars
  <2>2. ScreensFit'
    BY <2>1 DEF QuoteInv, ScreensFit, ScreensTyped, FormFits, Q!TripOf, Q!screenVars
  <2>3. QED
    BY <2>1, <2>2, TariffKept, OrdersKept DEF QuoteInv, Q!screenVars
<1>2. CASE Q!Next
  BY <1>2, RulesStep, ScreenStep, OrderStep DEF Q!Next
<1>3. QED
  BY <1>1, <1>2

-----------------------------------------------------------------------------
(* The theorems *)

LEMMA QuoteInvAlways == Spec => [](program = "OrderQuote" => QuoteInv)
<1> DEFINE I == program = "OrderQuote" => QuoteInv
<1>1. Init => I
  BY ClientsAssumption, QuoteInvInit DEF Init
<1>2. I /\ [Next]_vars => I'
  <2> SUFFICES ASSUME I, [Next]_vars, program' = "OrderQuote" PROVE QuoteInv'
    OBVIOUS
  <2>1. program = "OrderQuote" /\ (Q!Next \/ UNCHANGED Q!vars)
    BY DEF Next, vars, Q!vars, quoteVars
  <2>2. QED
    BY <2>1, ClientsAssumption, QuoteInvStep
<1>3. QED
  BY <1>1, <1>2, PTL DEF Spec

(* Nobody pays more than 5% off the price he confirmed, for the trip he    *)
(* confirmed it for: the comparison in create of orders.service.ts and the *)
(* quotes both screens keep, whatever rules and clock do in between.       *)
THEOREM OrderIsAsConfirmedAlways == Spec => []OrderIsAsConfirmed
<1>1. ASSUME QuoteInv PROVE Q!OrderIsAsConfirmed
  <2> SUFFICES ASSUME NEW o \in orders
               PROVE  /\ o.seen.trip = o.trip
                      /\ 20 * (o.quote.total - o.seen.total) <= o.quote.total
                      /\ o.quote.total > 0 => 20 * (o.seen.total - o.quote.total) <= o.quote.total
    BY DEF Q!OrderIsAsConfirmed
  <2>1. Confirmed(o) /\ Priced(o)
    BY <1>1 DEF QuoteInv, OrdersFit, OrderFits
  <2>2. o.seen.trip = o.trip /\ o.seen.total \in Nat
    BY <2>1 DEF Confirmed, Seen
  <2>3. o.quote.total \in Nat
    <3>1. Km(o.trip.pickup, o.trip.delivery) \in Nat /\ o.trip.priority \in BOOLEAN
      BY <2>1, ClientsAssumption DEF Priced, IsQuote, Trip, NumbersFit
    <3>2. QED
      BY <2>1, <3>1, ClientsAssumption, TotalNearFormula DEF Priced, IsQuote
  <2>4. Q!PriceAccepted(o.seen.total, o.quote.total)
    BY <2>1 DEF Priced
  <2>5. QED
    BY <2>2, <2>3, <2>4 DEF Q!PriceAccepted
<1>2. (program = "OrderQuote" => QuoteInv) => OrderIsAsConfirmed
  BY <1>1 DEF OrderIsAsConfirmed
<1>3. QED
  BY <1>2, QuoteInvAlways, PTL

(* Every order has the price of the formula, but for the rounding, and its *)
(* two shares add up to it: computeDeliveryTotal and                       *)
(* splitCourierAndPlatform, for all tariffs, distances and multipliers.    *)
THEOREM PriceFollowsFormulaAlways == Spec => []PriceFollowsFormula
<1>1. ASSUME QuoteInv, NEW o \in orders
      PROVE  /\ o.quote.total \in Nat /\ o.quote.tariff.share \in Int
             /\ o.share = Q!SplitCourierAndPlatform(o.quote.total, o.quote.tariff.share)
             /\ LET t == o.quote.tariff
                    km == Km(o.trip.pickup, o.trip.delivery)
                    n == IF o.quote.night THEN t.night ELSE Unit
                    p == IF o.trip.priority THEN t.priority ELSE Unit
                    exact == Q!Larger(t.base * Unit + km * t.perKm, t.min * Unit) * n * p
                    diff == 2 * (o.quote.total * Unit * Unit * Unit - exact)
                    most == Unit * (n * p + p * Unit + Unit * Unit)
                IN  -most <= diff /\ diff <= most
  <2>1. /\ Priced(o)
        /\ o.share = Q!SplitCourierAndPlatform(o.quote.total, o.quote.tariff.share)
    BY <1>1 DEF QuoteInv, OrdersFit, OrderFits
  <2>2. /\ o.quote.tariff \in Tariff /\ o.quote.night \in BOOLEAN /\ o.trip.priority \in BOOLEAN
        /\ Km(o.trip.pickup, o.trip.delivery) \in Nat
        /\ o.quote.total = Q!DeliveryTotal(o.quote.tariff, Km(o.trip.pickup, o.trip.delivery),
                                         o.quote.night, o.trip.priority)
    BY <2>1, ClientsAssumption DEF Priced, IsQuote, Trip, NumbersFit
  <2>3. o.quote.tariff.share \in Int
    BY <2>2 DEF Tariff
  <2>4. QED
    BY <2>1, <2>2, <2>3, ClientsAssumption, TotalNearFormula
<1>2. ASSUME QuoteInv PROVE Q!SharesAddUp
  <2>1. ASSUME NEW o \in orders
        PROVE  /\ o.share.courier \in Nat /\ o.share.platform \in Nat
               /\ o.share.courier + o.share.platform = o.quote.total
    <3>1. /\ o.quote.total \in Nat /\ o.quote.tariff.share \in Int
          /\ o.share = Q!SplitCourierAndPlatform(o.quote.total, o.quote.tariff.share)
      BY <1>1, <1>2
    <3>2. QED
      BY <3>1, ClientsAssumption, SplitAddsUp
  <2>2. QED
    BY <2>1 DEF Q!SharesAddUp
<1>3. ASSUME QuoteInv PROVE Q!PriceFollowsFormula
  BY <1>1, <1>2, <1>3 DEF Q!PriceFollowsFormula
<1>4. (program = "OrderQuote" => QuoteInv) => PriceFollowsFormula
  BY <1>3 DEF PriceFollowsFormula
<1>5. QED
  BY <1>4, QuoteInvAlways, PTL

(* A trip drafted in the app is ordered once, unless an answer was lost:   *)
(* the buttons of create-order.tsx and the reset of the draft, whatever    *)
(* the customer presses meanwhile.                                         *)
THEOREM DraftIsOrderedOnceAlways == Spec => []DraftIsOrderedOnce
<1>1. (program = "OrderQuote" => QuoteInv) => DraftIsOrderedOnce
  BY DEF QuoteInv, OrdersFit, DraftIsOrderedOnce
<1>2. QED
  BY <1>1, QuoteInvAlways, PTL

-----------------------------------------------------------------------------
(* Types *)

(* The rules are few, and no two have the same id.                         *)
RulesDiffer ==
  /\ Len(rules) <= MaxRules
  /\ \A i, j \in DOMAIN rules : rules[i].id = rules[j].id => i = j

PostTyped ==
  \A c \in Customers : post[c].at \in {"idle", "sent", "read", "created", "refused"}

(* TypeOK, with what the rules are and which of them there are.            *)
QuoteTyped == RulesDiffer /\ PostTyped

LEMMA WithoutElements ==
  ASSUME rules \in Seq(Rule), NEW i \in DOMAIN rules
  PROVE  /\ Len(Q!Without(i)) = Len(rules) - 1
         /\ \A k \in 1 .. (Len(rules) - 1) :
              Q!Without(i)[k] = rules[IF k < i THEN k ELSE k + 1]
<1> DEFINE head == SubSeq(rules, 1, i - 1)
           tail == SubSeq(rules, i + 1, Len(rules))
<1>1. i \in 1 .. Len(rules) /\ Len(rules) \in Nat
  BY LenProperties
<1>2. /\ head \in Seq(Rule) /\ Len(head) = i - 1
      /\ \A k \in 1 .. (i - 1) : head[k] = rules[k]
  BY <1>1, SubSeqProperties
<1>3. /\ tail \in Seq(Rule) /\ Len(tail) = Len(rules) - i
      /\ \A k \in 1 .. (Len(rules) - i) : tail[k] = rules[k + i]
  BY <1>1, SubSeqProperties
<1>4. Q!Without(i) = head \o tail
  BY DEF Q!Without
<1> HIDE DEF head, tail
<1>5. Len(Q!Without(i)) = Len(rules) - 1
  BY <1>1, <1>2, <1>3, <1>4, ConcatProperties
<1>6. ASSUME NEW k \in 1 .. (Len(rules) - 1)
      PROVE  Q!Without(i)[k] = rules[IF k < i THEN k ELSE k + 1]
  <2>1. CASE k < i
    <3>1. k \in 1 .. Len(head) /\ k \in 1 .. (i - 1)
      BY <1>1, <1>2, <2>1
    <3>2. QED
      BY <1>2, <1>3, <1>4, <2>1, <3>1, ConcatProperties
  <2>2. CASE ~(k < i)
    <3>1. k - (i - 1) \in 1 .. (Len(rules) - i)
      BY <1>1, <2>2
    <3>2. Q!Without(i)[k] = tail[k - Len(head)]
      <4>1. /\ k \in 1 .. Len(head) + Len(tail)
            /\ ~(k <= Len(head))
        BY <1>1, <1>2, <1>3, <2>2
      <4>2. (head \o tail)[k] = IF k <= Len(head) THEN head[k] ELSE tail[k - Len(head)]
        BY <1>2, <1>3, <4>1, ConcatProperties
      <4>3. QED
        BY <1>4, <4>1, <4>2
    <3>3. PICK m \in 1 .. (Len(rules) - i) : m = k - (i - 1)
      BY <3>1
    <3>4. tail[m] = rules[m + i]
      BY <1>3
    <3>5. k - Len(head) = m /\ m + i = k + 1
      BY <1>1, <1>2, <3>3
    <3>6. QED
      BY <2>2, <3>2, <3>4, <3>5
  <2>3. QED
    BY <2>1, <2>2
<1>7. QED
  BY <1>5, <1>6

(* A rule in front of others: the ids differ if its own is not theirs.     *)
LEMMA InFront ==
  ASSUME NEW r \in Rule, NEW s \in Seq(Rule), Len(s) < MaxRules, MaxRules \in Nat,
         \A i, j \in DOMAIN s : s[i].id = s[j].id => i = j,
         \A i \in DOMAIN s : s[i].id # r.id, rules' = <<r>> \o s
  PROVE  RulesDiffer'
<1>1. Len(s) \in Nat /\ DOMAIN s = 1 .. Len(s)
  BY LenProperties
<1>2. <<r>> \in Seq(Rule) /\ Len(<<r>>) = 1 /\ <<r>>[1] = r
  OBVIOUS
<1>3. /\ Len(rules') = Len(s) + 1 /\ DOMAIN rules' = 1 .. (Len(s) + 1)
  BY <1>1, <1>2, ConcatProperties, LenProperties
<1>4. rules'[1] = r
  BY <1>1, <1>2, ConcatProperties
<1>5. \A k \in 2 .. (Len(s) + 1) : rules'[k] = s[k - 1] /\ k - 1 \in DOMAIN s
  BY <1>1, <1>2, ConcatProperties
<1>6. ASSUME NEW k \in DOMAIN rules', k # 1 PROVE k \in 2 .. (Len(s) + 1)
  BY <1>1, <1>3, <1>6
<1>7. ASSUME NEW k \in DOMAIN rules', NEW l \in DOMAIN rules', rules'[k].id = rules'[l].id
      PROVE  k = l
  <2>1. CASE k = 1 /\ l # 1
    BY <1>4, <1>5, <1>6, <1>7, <2>1
  <2>2. CASE k # 1 /\ l = 1
    BY <1>4, <1>5, <1>6, <1>7, <2>2
  <2>3. CASE k # 1 /\ l # 1
    <3>1. k - 1 = l - 1
      BY <1>5, <1>6, <1>7, <2>3
    <3>2. k \in Int /\ l \in Int
      BY <1>1, <1>3
    <3>3. QED
      BY <3>1, <3>2
  <2>4. QED
    BY <2>1, <2>2, <2>3
<1>8. Len(rules') <= MaxRules
  BY <1>1, <1>3
<1>9. QED
  BY <1>7, <1>8 DEF RulesDiffer

LEMMA WithoutDiffer ==
  ASSUME rules \in Seq(Rule), RulesDiffer, NEW i \in DOMAIN rules, MaxRules \in Nat
  PROVE  /\ Q!Without(i) \in Seq(Rule) /\ Len(Q!Without(i)) < MaxRules
         /\ \A k, l \in DOMAIN Q!Without(i) : Q!Without(i)[k].id = Q!Without(i)[l].id => k = l
         /\ \A k \in DOMAIN Q!Without(i) : Q!Without(i)[k].id # rules[i].id
<1> DEFINE s == Q!Without(i)
           Old(k) == IF k < i THEN k ELSE k + 1
<1>1. Len(rules) \in Nat /\ DOMAIN rules = 1 .. Len(rules) /\ Len(rules) <= MaxRules
      /\ i \in 1 .. Len(rules)
  BY LenProperties DEF RulesDiffer
<1>2. s \in Seq(Rule)
  BY WithoutTyped
<1>3. Len(s) = Len(rules) - 1 /\ \A k \in 1 .. (Len(rules) - 1) : s[k] = rules[Old(k)]
  BY WithoutElements
<1>4. DOMAIN s = 1 .. (Len(rules) - 1)
  BY <1>2, <1>3, LenProperties
<1> HIDE DEF s
<1>5. \A k \in DOMAIN s : Old(k) \in DOMAIN rules /\ Old(k) # i
  BY <1>1, <1>4
<1>6. \A k, l \in DOMAIN s : Old(k) = Old(l) => k = l
  BY <1>1, <1>4
<1> HIDE DEF Old
<1>7. \A k, l \in DOMAIN s : s[k].id = s[l].id => k = l
  BY <1>3, <1>4, <1>5, <1>6 DEF RulesDiffer
<1>8. \A k \in DOMAIN s : s[k].id # rules[i].id
  BY <1>3, <1>4, <1>5 DEF RulesDiffer
<1>9. Len(s) < MaxRules
  BY <1>1, <1>3
<1>10. QED
  BY <1>2, <1>7, <1>8, <1>9 DEF s

LEMMA RulesStayDifferent ==
  ASSUME NumbersFit, TariffFits, RulesDiffer,
         \/ \E s \in Customers \cup {"all"}, t \in Tariffs : Q!CreateRule(s, t)
         \/ \E i \in 1..MaxRules, t \in Tariffs : Q!UpdateRule(i, t)
         \/ \E i \in 1..MaxRules : Q!DeleteRule(i)
         \/ Q!NightBeginsOrEnds
  PROVE  RulesDiffer'
<1>1. rules \in Seq(Rule) /\ MaxRules \in Nat
  BY DEF TariffFits, NumbersFit
<1>2. ASSUME NEW s \in Customers \cup {"all"}, NEW t \in Tariffs, Q!CreateRule(s, t)
      PROVE  RulesDiffer'
  <2>1. PICK id \in (1..MaxRules) \ Q!RuleIds :
               Q!Edited(<<[id |-> id, scope |-> s, tariff |-> t]>> \o rules)
    BY <1>2 DEF Q!CreateRule
  <2> DEFINE r == [id |-> id, scope |-> s, tariff |-> t]
  <2>2. r \in Rule /\ r.id = id
    BY DEF Rule
  <2>3. rules' = <<r>> \o rules
    BY <2>1 DEF Q!Edited
  <2> HIDE DEF r
  <2>4. \A i \in DOMAIN rules : rules[i].id # r.id
    BY <2>1, <2>2 DEF Q!RuleIds
  <2>5. Len(rules) < MaxRules
    BY <1>2 DEF Q!CreateRule
  <2>6. QED
    BY <1>1, <2>2, <2>3, <2>4, <2>5, InFront DEF RulesDiffer
<1>3. ASSUME NEW i, NEW t \in Tariffs, Q!UpdateRule(i, t) PROVE RulesDiffer'
  <2>1. i \in DOMAIN rules /\ rules[i] \in Rule
    BY <1>1, <1>3, ElementOfSeq DEF Q!UpdateRule
  <2> DEFINE r == [rules[i] EXCEPT !.tariff = t]
  <2>2. r \in Rule /\ r.id = rules[i].id
    BY <2>1 DEF Rule
  <2>3. rules' = <<r>> \o Q!Without(i)
    BY <1>3 DEF Q!UpdateRule, Q!Edited
  <2> HIDE DEF r
  <2> DEFINE s == Q!Without(i)
  <2>4. /\ s \in Seq(Rule) /\ Len(s) < MaxRules
        /\ \A k, l \in DOMAIN s : s[k].id = s[l].id => k = l
        /\ \A k \in DOMAIN s : s[k].id # r.id
    BY <1>1, <2>1, <2>2, WithoutDiffer
  <2>5. rules' = <<r>> \o s
    BY <2>3
  <2> HIDE DEF s
  <2>6. QED
    BY <1>1, <2>2, <2>4, <2>5, InFront
<1>4. ASSUME NEW i, Q!DeleteRule(i) PROVE RulesDiffer'
  <2>1. i \in DOMAIN rules /\ rules' = Q!Without(i)
    BY <1>4 DEF Q!DeleteRule, Q!Edited
  <2>2. Len(rules') < MaxRules /\ Len(rules') \in Nat
    BY <1>1, <2>1, WithoutDiffer, LenProperties
  <2>3. \A k, l \in DOMAIN rules' : rules'[k].id = rules'[l].id => k = l
    BY <1>1, <2>1, WithoutDiffer
  <2>4. Len(rules') <= MaxRules
    BY <1>1, <2>2
  <2>5. QED
    BY <2>3, <2>4 DEF RulesDiffer
<1>5. CASE Q!NightBeginsOrEnds
  BY <1>5 DEF Q!NightBeginsOrEnds, RulesDiffer
<1>6. QED
  BY <1>2, <1>3, <1>4, <1>5

LEMMA PostStaysTyped ==
  ASSUME OrdersFit, PostTyped, NEW c \in Customers,
         \/ Q!Submit(c) \/ Q!CreateRead(c) \/ Q!Create(c) \/ Q!RefusedAnswer(c)
         \/ Q!AnswerLost(c) \/ Q!CreatedAnswer(c) \/ Q!ResetDraft(c)
  PROVE  PostTyped'
<1>1. Q!NoPost.at = "idle"
  BY DEF Q!NoPost
<1>2. CASE Q!ResetDraft(c)
  BY <1>2 DEF PostTyped, Q!ResetDraft, Q!orderVars
<1>3. \A new :
        (new.at \in {"idle", "sent", "read", "created", "refused"}
           /\ post' = [post EXCEPT ![c] = new]) => PostTyped'
  BY DEF PostTyped, OrdersFit
<1>4. CASE Q!Submit(c)
  <2>1. PICK q : post' = [post EXCEPT ![c] =
                   [at |-> "sent", trip |-> Q!TripOf(c), seen |-> q, draft |-> form[c].draft]]
    BY <1>4 DEF Q!Submit
  <2> DEFINE new == [at |-> "sent", trip |-> Q!TripOf(c), seen |-> q, draft |-> form[c].draft]
  <2>2. new.at = "sent" /\ post' = [post EXCEPT ![c] = new]
    BY <2>1
  <2> HIDE DEF new
  <2>3. QED
    BY <1>3, <2>2
<1>5. CASE Q!CreateRead(c)
  <2> DEFINE q == Q!Quote(c, post[c].trip)
             read == [at |-> "read", trip |-> post[c].trip, seen |-> post[c].seen,
                      draft |-> post[c].draft, quote |-> q]
             new == IF Q!PriceAccepted(post[c].seen.total, q.total) THEN read
                      ELSE [at |-> "refused"]
  <2>1. post' = [post EXCEPT ![c] = new]
    BY <1>5 DEF Q!CreateRead
  <2> HIDE DEF q
  <2>2. new.at \in {"read", "refused"}
    OBVIOUS
  <2> HIDE DEF new
  <2>3. QED
    BY <1>3, <2>1, <2>2
<1>6. CASE Q!Create(c)
  <2> DEFINE done == [at |-> "created"]
             refused == [at |-> "refused"]
  <2>1. \/ post' = [post EXCEPT ![c] = done]
        \/ post' = [post EXCEPT ![c] = refused]
    BY <1>6 DEF Q!Create
  <2>2. done.at = "created" /\ refused.at = "refused"
    OBVIOUS
  <2> HIDE DEF done, refused
  <2>3. QED
    BY <1>3, <2>1, <2>2
<1>7. CASE Q!RefusedAnswer(c) \/ Q!AnswerLost(c) \/ Q!CreatedAnswer(c)
  <2>1. post' = [post EXCEPT ![c] = Q!NoPost]
    BY <1>7 DEF Q!RefusedAnswer, Q!AnswerLost, Q!CreatedAnswer
  <2>2. QED
    BY <1>1, <1>3, <2>1
<1>8. QED
  BY <1>2, <1>4, <1>5, <1>6, <1>7

LEMMA QuoteTypedStep ==
  ASSUME NumbersFit, QuoteInv, QuoteTyped, Q!Next \/ UNCHANGED Q!vars PROVE QuoteTyped'
<1>1. CASE UNCHANGED Q!vars
  BY <1>1 DEF QuoteTyped, RulesDiffer, PostTyped, Q!vars
<1>2. CASE \/ \E s \in Customers \cup {"all"}, t \in Tariffs : Q!CreateRule(s, t)
           \/ \E i \in 1..MaxRules, t \in Tariffs : Q!UpdateRule(i, t)
           \/ \E i \in 1..MaxRules : Q!DeleteRule(i)
           \/ Q!NightBeginsOrEnds
  <2>1. post' = post
    BY <1>2 DEF Q!CreateRule, Q!UpdateRule, Q!DeleteRule, Q!NightBeginsOrEnds, Q!Edited,
                Q!orderVars
  <2>2. QED
    BY <1>2, <2>1, RulesStayDifferent DEF QuoteInv, QuoteTyped, PostTyped
<1>3. ASSUME NEW c \in Customers,
         \/ \E f \in {"pickup", "delivery"} : Q!MapOpen(c, f)
         \/ \E p \in Points : Q!MapPress(c, p)
         \/ \E f \in {"pickup", "delivery"}, p \in Points \cup {None} : Q!EnterPoint(c, f, p)
         \/ \E a \in asked[c] : Q!QuoteAnswered(c, a) \/ Q!QuoteFails(c, a)
         \/ Q!MapLocated(c) \/ Q!MapConfirm(c) \/ Q!SetPriority(c) \/ Q!QuoteRefetch(c)
         \/ Q!LeaveForm(c)
      PROVE  QuoteTyped'
  <2>1. rules' = rules /\ post' = post
    BY <1>3 DEF Q!MapOpen, Q!MapPress, Q!EnterPoint, Q!QuoteAnswered, Q!QuoteFails,
                Q!MapLocated, Q!MapConfirm, Q!SetPriority, Q!QuoteRefetch, Q!LeaveForm,
                Q!orderVars, Q!tariffVars
  <2>2. QED
    BY <2>1 DEF QuoteTyped, RulesDiffer, PostTyped
<1>4. ASSUME NEW c \in Customers,
         \/ Q!Submit(c) \/ Q!CreateRead(c) \/ Q!Create(c) \/ Q!RefusedAnswer(c)
         \/ Q!AnswerLost(c) \/ Q!CreatedAnswer(c) \/ Q!ResetDraft(c)
      PROVE  QuoteTyped'
  <2>1. rules' = rules
    BY <1>4 DEF Q!Submit, Q!CreateRead, Q!Create, Q!RefusedAnswer, Q!AnswerLost,
                Q!CreatedAnswer, Q!ResetDraft, Q!tariffVars
  <2>2. QED
    BY <1>4, <2>1, PostStaysTyped DEF QuoteInv, QuoteTyped, RulesDiffer
<1>5. QED
  BY <1>1, <1>2, <1>3, <1>4 DEF Q!Next

LEMMA QuoteTypedInit == ASSUME NumbersFit, Q!Init PROVE QuoteTyped
<1>1. PostTyped
  BY DEF PostTyped, Q!Init, Q!NoPost
<1>2. CASE rules = <<>>
  <2>1. Len(rules) = 0 /\ DOMAIN rules = {}
    BY <1>2
  <2>2. QED
    BY <1>1, <2>1 DEF QuoteTyped, RulesDiffer, NumbersFit
<1>3. ASSUME NEW t \in Tariffs, rules = <<[id |-> 1, scope |-> "all", tariff |-> t]>>
      PROVE  RulesDiffer
  <2>1. Len(rules) = 1 /\ DOMAIN rules = {1}
    BY <1>3
  <2>2. QED
    BY <2>1 DEF RulesDiffer, NumbersFit
<1>4. QED
  BY <1>1, <1>2, <1>3 DEF QuoteTyped, Q!Init

LEMMA QuoteTypeOK == ASSUME NumbersFit, QuoteInv, QuoteTyped PROVE Q!TypeOK
<1>1. rules \in Seq(Rule) /\ Len(rules) \in Nat /\ DOMAIN rules = 1 .. Len(rules)
  BY LenProperties DEF QuoteInv, TariffFits
<1>2. Q!Cardinality(Q!RuleIds) = Len(rules)
  <2> DEFINE f == [i \in 1 .. Len(rules) |-> rules[i].id]
  <2>1. f \in Bijection(1 .. Len(rules), Q!RuleIds)
    <3>1. f \in [1 .. Len(rules) -> Q!RuleIds]
      BY <1>1 DEF Q!RuleIds
    <3>2. \A i, j \in 1 .. Len(rules) : f[i] = f[j] => i = j
      BY <1>1 DEF QuoteTyped, RulesDiffer
    <3>3. \A x \in Q!RuleIds : \E i \in 1 .. Len(rules) : f[i] = x
      BY <1>1 DEF Q!RuleIds
    <3> HIDE DEF f
    <3>4. f \in Injection(1 .. Len(rules), Q!RuleIds)
      BY <3>1, <3>2 DEF Injection, IsInjective
    <3>5. f \in Surjection(1 .. Len(rules), Q!RuleIds)
      BY <3>1, <3>3 DEF Surjection
    <3>6. QED
      BY <3>4, <3>5 DEF Bijection
  <2>2. Cardinality(Q!RuleIds) = Len(rules)
    BY <1>1, <2>1, FS_CountingElements DEF ExistsBijection
  <2>3. Q!Cardinality(Q!RuleIds) = Cardinality(Q!RuleIds)
    BY DEF Q!Cardinality, Cardinality, Q!IsFiniteSet, IsFiniteSet
  <2>4. QED
    BY <2>2, <2>3
<1>3. \A i \in DOMAIN rules : rules[i].tariff \in Tariffs
  <2>1. \A i \in DOMAIN rules : rules[i] \in Rule
    BY <1>1, ElementOfSeq
  <2>2. QED
    BY <2>1 DEF Rule
<1>4. {night, lost} \subseteq BOOLEAN
  BY DEF QuoteInv, TariffFits, OrdersFit
<1>5. \A c \in Customers : \A q \in quotes[c] : q.total >= 0
  BY DEF QuoteInv, ScreensFit, ScreensTyped, Seen
<1>6. QED
  BY <1>2, <1>3, <1>4, <1>5 DEF Q!TypeOK, QuoteTyped, RulesDiffer, PostTyped

LEMMA QuoteTypedAlways == Spec => [](program = "OrderQuote" => Q!TypeOK)
<1> DEFINE I == program = "OrderQuote" => QuoteInv
           T == program = "OrderQuote" => QuoteTyped
<1>1. Init => T
  BY ClientsAssumption, QuoteTypedInit DEF Init
<1>2. I /\ T /\ [Next]_vars => T'
  <2> SUFFICES ASSUME I, T, [Next]_vars, program' = "OrderQuote" PROVE QuoteTyped'
    OBVIOUS
  <2>1. program = "OrderQuote" /\ (Q!Next \/ UNCHANGED Q!vars)
    BY DEF Next, vars, Q!vars, quoteVars
  <2>2. QED
    BY <2>1, ClientsAssumption, QuoteTypedStep
<1>3. I /\ T => (program = "OrderQuote" => Q!TypeOK)
  BY ClientsAssumption, QuoteTypeOK
<1>4. Spec => []I
  BY QuoteInvAlways
<1>5. QED
  BY <1>1, <1>2, <1>3, <1>4, PTL DEF Spec

=============================================================================
