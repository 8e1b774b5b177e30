------------------------------- MODULE Clients -------------------------------
(***************************************************************************)
(* The programs and services that share no state with each other: the      *)
(* quotes and the order form, the offers of the courier app, the live map, *)
(* the screens of the panel, the logo of the settings page, the session of *)
(* the apps, and the seed.  One of them is chosen at the start and runs    *)
(* alone; every other one has not been started, its variables are "off".   *)
(* As they never meet, what holds of each alone holds of all together.     *)
(*                                                                         *)
(* Constants and variables have the names, and the meaning, that they have *)
(* in the modules of the programs.                                         *)
(***************************************************************************)
EXTENDS Integers, Sequences, FiniteSets, ScreenTables

CONSTANTS
  Customers, Points, Km(_, _), Unit, Tariffs, DefaultTariff,     \* OrderQuote
  MaxRules, MaxEdits, MaxAsked, MaxOrders, None,
  Orders, NoOrder, MaxCalls, MaxDisturbed,                       \* JobOffers
  OpsMap, MaxPosition, MaxSockets,                               \* LiveTracking
  Rows, NoRow, MaxRequests, MaxElsewhere, MaxPosts,              \* Screens
  Managers, Files, NoLogo, External,                             \* Branding
  Accounts, Couriers, NoOne, MaxJobs,                            \* AppSession
  Slots, CourierIds, Batches, Extras, NoCourier,                 \* DemoSeed
  MaxSeedOrders, MaxRuns, MaxUses

(* Amounts, multipliers and distances are not negative (@Min(0) in         *)
(* create-pricing-rule.dto.ts); a rule can be written, and the settings    *)
(* have a tariff of their own.                                             *)
Tariff == [base : Nat, perKm : Nat, min : Nat, night : Nat, priority : Nat, share : Int]

NumbersFit ==
  /\ Unit \in Nat \ {0}
  /\ Tariffs \subseteq Tariff /\ DefaultTariff \in Tariff
  /\ \A p, q \in Points : Km(p, q) \in Nat
  /\ None \notin Points
  /\ MaxRules \in Nat \ {0}
  /\ MaxPosts \in Nat /\ MaxElsewhere \in Nat

(* No file, order or row has the name that stands for none. *)
NamesDiffer ==
  /\ NoLogo \notin Files /\ External \notin Files
  /\ NoOrder \notin Orders /\ NoRow \notin Rows

(* Customers and couriers are made and named by the seed, and there are    *)
(* some; none has the address of a sample or of courier@.                  *)
SeedFits ==
  /\ Slots \in Seq(STRING) \ {<<>>} /\ CourierIds \in Seq(STRING) \ {<<>>}
  /\ Batches \in Seq([status : STRING, assigned : BOOLEAN]) \ {<<>>}
  /\ Extras \in Seq([customer : {Slots[i] : i \in DOMAIN Slots}, amount : Int]) \ {<<>>}
  /\ \A i \in DOMAIN Slots : Slots[i] \notin {"individual", "corporate"}

(* Who has the role COURIER has an account. *)
CouriersAreAccounts == Couriers \subseteq Accounts

ASSUME ClientsAssumption == NumbersFit /\ NamesDiffer /\ SeedFits /\ CouriersAreAccounts

VARIABLES
  program,   \* the module that runs: stays
  rules, edits, night, form, quotes, asked, post,                \* OrderQuote
  orders,                                                        \* and DemoSeed
  lost,                                                          \* and Screens
  server, page,                                                  \* JobOffers and Screens
  disturbed, cached, checks, overlay, calls, notices, shell, overtaken,
  active, online, permit, leaked, asking, measured, reports,     \* LiveTracking
  stored, screen, socket, known, joining, inRoom, live,
  role, shown, busy, dialog, bulk, requests, spent, posts, elsewhere,   \* Screens
  logo, files, unused, work, failed,                             \* Branding
  app, device, session, hydrated, hydrate, jobs, torn,           \* AppSession
  users, couriers, cards, balance, renamed, ledger, earnings,    \* DemoSeed
  counts, place, fresh, runs, uses, stopped

(* Variables only one program has *)
quoteVars   == <<rules, edits, night, form, quotes, asked, post>>
offerVars   == <<disturbed, cached, checks, overlay, calls, notices, shell, overtaken>>
mapVars     == <<active, online, permit, leaked, asking, measured, reports, stored,
                 screen, socket, known, joining, inRoom, live>>
screenVars  == <<role, shown, busy, dialog, bulk, requests, spent, posts, elsewhere>>
logoVars    == <<logo, files, unused, work, failed>>
sessionVars == <<app, device, session, hydrated, hydrate, jobs, torn>>
seedVars    == <<users, couriers, cards, balance, renamed, ledger, earnings, counts,
                 place, fresh, runs, uses, stopped>>

vars == <<program, orders, lost, server, page, quoteVars, offerVars, mapVars, screenVars,
          logoVars, sessionVars, seedVars>>

Q == INSTANCE OrderQuote
J == INSTANCE JobOffers
L == INSTANCE LiveTracking
S == INSTANCE Screens WITH Table <- AllScreens, Endpoints <- AllEndpoints, Lists <- AllLists
B == INSTANCE Branding
A == INSTANCE AppSession
D == INSTANCE DemoSeed WITH MaxOrders <- MaxSeedOrders

QuoteOff ==
  /\ rules = "off" /\ edits = "off" /\ night = "off" /\ form = "off"
  /\ quotes = "off" /\ asked = "off" /\ post = "off"
OfferOff ==
  /\ disturbed = "off" /\ cached = "off" /\ checks = "off" /\ overlay = "off"
  /\ calls = "off" /\ notices = "off" /\ shell = "off" /\ overtaken = "off"
MapOff ==
  /\ active = "off" /\ online = "off" /\ permit = "off" /\ leaked = "off"
  /\ asking = "off" /\ measured = "off" /\ reports = "off" /\ stored = "off"
  /\ screen = "off" /\ socket = "off" /\ known = "off" /\ joining = "off"
  /\ inRoom = "off" /\ live = "off"
ScreenOff ==
  /\ role = "off" /\ shown = "off" /\ busy = "off" /\ dialog = "off"
  /\ bulk = "off" /\ requests = "off" /\ spent = "off" /\ posts = "off"
  /\ elsewhere = "off"
LogoOff ==
  /\ logo = "off" /\ files = "off" /\ unused = "off" /\ work = "off"
  /\ failed = "off"
SessionOff ==
  /\ app = "off" /\ device = "off" /\ session = "off" /\ hydrated = "off"
  /\ hydrate = "off" /\ jobs = "off" /\ torn = "off"
SeedOff ==
  /\ users = "off" /\ couriers = "off" /\ cards = "off" /\ balance = "off"
  /\ renamed = "off" /\ ledger = "off" /\ earnings = "off" /\ counts = "off"
  /\ place = "off" /\ fresh = "off" /\ runs = "off" /\ uses = "off"
  /\ stopped = "off"

-----------------------------------------------------------------------------

Init ==
  \/ /\ program = "OrderQuote" /\ Q!Init
     /\ OfferOff /\ MapOff /\ ScreenOff /\ LogoOff /\ SessionOff /\ SeedOff
     /\ server = "off" /\ page = "off"
  \/ /\ program = "JobOffers" /\ J!Init
     /\ QuoteOff /\ MapOff /\ ScreenOff /\ LogoOff /\ SessionOff /\ SeedOff
     /\ orders = "off" /\ lost = "off"
  \/ /\ program = "LiveTracking" /\ L!Init
     /\ QuoteOff /\ OfferOff /\ ScreenOff /\ LogoOff /\ SessionOff /\ SeedOff
     /\ orders = "off" /\ lost = "off" /\ server = "off" /\ page = "off"
  \/ /\ program = "Screens" /\ S!Init
     /\ QuoteOff /\ OfferOff /\ MapOff /\ LogoOff /\ SessionOff /\ SeedOff
     /\ orders = "off"
  \/ /\ program = "Branding" /\ B!Init
     /\ QuoteOff /\ OfferOff /\ MapOff /\ ScreenOff /\ SessionOff /\ SeedOff
     /\ orders = "off" /\ lost = "off" /\ server = "off" /\ page = "off"
  \/ /\ program = "AppSession" /\ A!Init
     /\ QuoteOff /\ OfferOff /\ MapOff /\ ScreenOff /\ LogoOff /\ SeedOff
     /\ orders = "off" /\ lost = "off" /\ server = "off" /\ page = "off"
  \/ /\ program = "DemoSeed" /\ D!Init
     /\ QuoteOff /\ OfferOff /\ MapOff /\ ScreenOff /\ LogoOff /\ SessionOff
     /\ lost = "off" /\ server = "off" /\ page = "off"

(* A step of the program that runs; the variables it does not have stay.   *)
Next ==
  \/ /\ program = "OrderQuote" /\ Q!Next
     /\ UNCHANGED <<program, server, page, offerVars, mapVars, screenVars, logoVars,
                    sessionVars, seedVars>>
  \/ /\ program = "JobOffers" /\ J!Next
     /\ UNCHANGED <<program, orders, lost, quoteVars, mapVars, screenVars, logoVars,
                    sessionVars, seedVars>>
  \/ /\ program = "LiveTracking" /\ L!Next
     /\ UNCHANGED <<program, orders, lost, server, page, quoteVars, offerVars, screenVars,
                    logoVars, sessionVars, seedVars>>
  \/ /\ program = "Screens" /\ S!Next
     /\ UNCHANGED <<program, orders, quoteVars, offerVars, mapVars, logoVars, sessionVars,
                    seedVars>>
  \/ /\ program = "Branding" /\ B!Next
     /\ UNCHANGED <<program, orders, lost, server, page, quoteVars, offerVars, mapVars,
                    screenVars, sessionVars, seedVars>>
  \/ /\ program = "AppSession" /\ A!Next
     /\ UNCHANGED <<program, orders, lost, server, page, quoteVars, offerVars, mapVars,
                    screenVars, logoVars, seedVars>>
  \/ /\ program = "DemoSeed" /\ D!Next
     /\ UNCHANGED <<program, lost, server, page, quoteVars, offerVars, mapVars, screenVars,
                    logoVars, sessionVars>>

Spec == Init /\ [][Next]_vars

-----------------------------------------------------------------------------

(* Nobody pays more than 5% off the price he confirmed. *)
OrderIsAsConfirmed == program = "OrderQuote" => Q!OrderIsAsConfirmed

(* The price follows the formula, its shares add up to it. *)
PriceFollowsFormula == program = "OrderQuote" => Q!PriceFollowsFormula

(* A trip drafted in the app is ordered once. *)
DraftIsOrderedOnce == program = "OrderQuote" => Q!DraftIsOrderedOnce

(* While the overlay waits for an answer it can still be left. *)
BlockedOverlayWaits == program = "JobOffers" => J!BlockedOverlayWaits

(* The overlay does not decline an order that is being accepted. *)
AcceptIsNotDeclined == [][program = "JobOffers" => J!DeclineLeavesAccept]_vars

(* A map shows positions of its own order only. *)
MapShowsItsOrder == program = "LiveTracking" => L!MapShowsItsOrder

(* What a screen offers the server accepts, unless the row has changed. *)
RefusedOnlyIfStale == program = "Screens" => S!RefusedOnlyIfStale

(* One filling of a form is entered once. *)
FormIsPostedOnce == program = "Screens" => S!FormIsPostedOnce

(* The file of the saved logo is there. *)
LogoExists == program = "Branding" => B!LogoExists

(* Token and user belong together. *)
SessionIsWhole == program = "AppSession" => A!SessionIsWhole

(* A run of the seed that ends leaves what the seed describes. *)
SeedIsRepeatable == program = "DemoSeed" => D!SeedIsRepeatable

(* Every variable of the program that runs has its type. *)
TypeOK ==
  /\ program \in {"OrderQuote", "JobOffers", "LiveTracking", "Screens", "Branding",
                  "AppSession", "DemoSeed"}
  /\ program = "OrderQuote" => Q!TypeOK
  /\ program = "JobOffers" => J!TypeOK
  /\ program = "LiveTracking" => L!TypeOK
  /\ program = "Screens" => S!TypeOK
  /\ program = "Branding" => B!TypeOK
  /\ program = "AppSession" => A!TypeOK
  /\ program = "DemoSeed" => D!TypeOK

==============================================================================
