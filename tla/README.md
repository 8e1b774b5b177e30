# Verification of the delivery platform

TLA+ models, TLC runs and TLAPS proofs for the courier delivery system of this
repository: a NestJS server (`src/src`) over PostgreSQL (`src/prisma`), used by
a customer app, a courier app and an admin panel. Paths below are relative to
the repository.

The server is one process. Every HTTP request is an `async` function that
awaits the database between its statements, so requests interleave at every
`await`; PostgreSQL runs transactions at READ COMMITTED and the code takes no
locks but those an `UPDATE` takes. Nearly all of the server's correctness
questions have the same shape: **a request reads, decides, and writes by id;
what becomes of the decision when something else committed in between?** The
server's modules answer it operation by operation. The programs of customers,
couriers and staff have the same question once more: a screen shows what was
read some time ago, keeps requests under way, and acts on both.

## 1. Inventory

| Component | State it keeps | Operations that change state | Interacts with |
|---|---|---|---|
| Order dispatch (`orders/`) | `Order.status`, `Order.courierId`, `OrderCourierOffer` (unique per order and courier), presence of couriers | create, job list (refreshes the matching of open orders), accept, decline, assign by hand, change of status | debits the customer's account, creates earnings, updates performance, notifies through the gateway |
| Earnings and payouts (`courier-earnings/`, `payout-requests/`) | `CourierEarning` (status, link to a request), `PayoutRequest` | earning of a delivery, mark earnings paid, create / approve / reject / pay a request | created by the delivery of an order |
| Customer accounts (`customers/`, `finance/`) | `Customer` (type, credit, limit), `CustomerAccount.balance`, `CustomerTransaction` | registration, type, credit settings, manual debit and collection | orders debit the account |
| Courier onboarding (`couriers/`) | `Courier.workflowStatus`, `CourierDocument`, files in `uploads/courier-documents`, `isOnline` | apply, decide, upload, submit, review a document, go online and offline | only approved couriers get offers |
| Performance (`courier-performance/`) | `CourierPerformance`, rating fields and score of `Courier`, `CourierRating` | delivery, cancellation, rating, last activity | the score ranks couriers in the matching |
| Pricing (`pricing/`) | `PricingRule`, the clock of Istanbul | rule maintenance; quotes are computed | asked by both order forms; computed again for the order, which copies total and shares |
| Realtime (`realtime/`) | sockets with their role, rooms, `Courier.lat/lng` | connect, join, location | fed by the courier app, heard by the maps of customers and panel |
| Settings (`settings/`) | one settings row, files in `uploads/branding` | name, upload and removal of the logo | the settings page |
| Courier app (`courier-app/`) | session (token and user in the device's store), overlay of an offer with its ten second countdown, lists, delivery screen, watch of the position | accept, decline, deliver, report the position, apply, ask for a payout | sends the requests above |
| Customer app (`customer-app/`) | session, draft of an order with its quotes, tracking map | draft, order, rate, track | sends the requests above |
| Admin panel (`admin-panel/`) | of every page: the list it has loaded, flags of requests under way, an open dialog | everything staff decide | sends the requests above |
| Seed (`prisma/seed.ts`) | the demo rows of the database | users, couriers, orders, ledger, counters | writes the tables of the server directly |
| Auth, users, reports | users and roles | registration; reports read | - |

What is hard, and what has to be right:

- **Dispatch.** Several couriers accept one order; one courier accepts several;
  operations assign, cancel or reopen an order at the same time; status
  requests are repeated or delayed; the process stops after the order was
  committed and before anybody was asked. One courier must win, a delivery must
  be paid once, an order must move forward, and an open order must not be
  forgotten.
- **Payouts.** Every earning must be in exactly one place: due, on one request
  that can still be settled, or paid; what accounting transfers must be the sum
  of what it settles.
- **Accounts.** The balance must be the sum of the ledger; nobody may owe more
  than the rule of `assertCustomerMayOpenOrderDebt` allows.
- **Onboarding.** An applicant who was made active has all documents approved,
  an approved document stays as it was reviewed, no row names a deleted file, and
  an application can be completed. (`POST auth/register` makes couriers without
  an application.)
- **Performance.** Every order closed is counted once, as what it was closed as,
  and every rating; the score follows.
- **Prices.** The price is computed twice and rules, clock and trip change in
  between; answers to quotes come late, answers to orders get lost. The price
  must be the confirmed one and its shares must add up.
- **Tracking.** The gateway learns the role of a client while its first messages
  arrive; connections break, screens turn from one order to another, positions
  overtake assignments.
- **Screens.** Lists are stale, buttons wait for their own answer or for none,
  dialogs outlive the row they were opened for, and two programs keep roles and
  statuses of the same operation.
- **Files, sessions, seed.** Writes that belong together (row and file, token and
  user, order and debit) are made one after the other and may be parted.

Each hazard, at its line, with the properties that watch it, is listed in
`PROJECT.json` under `hazards`.

## 2. Common form of the modules

A request in progress is an element of the constant set `Handlers`.
`handler[h]` is a record: `at` names the step it has reached, the other fields
are **what it has read and will act on**, exactly the local variables of the
source function. A step is one database statement that reads, or all statements
that commit together (a transaction's writes become visible at its commit).
Guards that the code evaluates on a *fresh* row (`updateMany ... WHERE status =
...`, which re-reads the row under its lock) are evaluated on the variables;
guards on a row read earlier are evaluated on the record. `Abort` is a request
that dies between two steps: process exit, time-out or rollback; what it
committed stays.

Unbounded identities (orders, payouts, files) are finite constant sets.
Requests whose answer is an error and that change nothing are not actions of
their own, except where they leave the handler in the middle of a request.

The programs of the users (`OrderQuote` from `form` on, `JobOffers`,
`LiveTracking`, `Screens`, `AppSession`) have a set of requests under way
instead, each with the place it has reached, and their own memory beside that of
the server. Variables marked *history* only record that something happened
which the code cannot undo (an answer was lost, a job was parted); properties
that do not survive it name it.

Four modules have a variable `orderly`. It is chosen in `Init` and never
changes: in behaviours where it is TRUE every person waits for the answer
before sending the next request (in `CustomerCredit` and `CourierPerformance`:
the requests on one account, or of one courier, are served one by one), in the
others requests overlap freely. One run explores both, and a property that
needs the discipline says `orderly => ...`. **The code enforces none of this**;
such a property shows exactly what the missing lock or condition would buy, and
without the premise TLC produces the race that breaks it (section 5).

## 3. Modules

| Module | Models | Main source |
|---|---|---|
| `OrderDispatch` | orders, offers, assignment, earning and counters of a delivery | `orders.service.ts`, `order-matching.service.ts` |
| `OrderContract` | abstract: published once, claimed by one courier or withdrawn, paid once | (what `OrderDispatch` promises) |
| `PayoutLedger` | earnings and payout requests | `payout-requests.service.ts`, `courier-earnings.service.ts` |
| `CustomerCredit` | customer cards, credit, account, debit of an order | `orders.service.ts`, `finance.service.ts`, `customers.service.ts` |
| `CourierOnboarding` | application, documents and files, review, online | `courier-documents.service.ts`, `couriers.service.ts` |
| `CourierPerformance` | counters, ratings, inputs of the dispatch score | `courier-performance.service.ts` |
| `OrderQuote` | tariffs, quotes, both order forms, the price of an order | `pricing-engine.ts`, `pricing.service.ts`, `create-order.tsx`, `orders/new/page.tsx` |
| `LiveTracking` | positions from the phone through the gateway to the maps | `realtime.gateway.ts`, `useCourierLocationSync`, `tracking/[orderId].tsx`, the panel's maps |
| `JobOffers` | the courier app: offers, overlay, lists, delivery | `JobOfferFullscreenModal.tsx`, `(main)/_layout.tsx`, `jobs.tsx`, `dashboard.tsx` |
| `Screens` | one page of any program: list, buttons, dialog, bulk action, form | the common pattern of the pages |
| `ScreenTables` | what each page offers and each endpoint accepts | every page of the panel, the remaining screens of the apps, the controllers' `@Roles` |
| `Branding` | logo, its file, two managers | `settings.service.ts`, `settings/page.tsx` |
| `AppSession` | login, logout and start of both apps | `authStore.ts` |
| `DemoSeed` | the seed, run again and again | `prisma/seed.ts` |
| `Clients` | the seven programs from `OrderQuote` on (without the tables): one is chosen at the start and runs | |
| `OrderDispatchProofs`, `PayoutLedgerProofs`, `CustomerCreditProofs`, `CourierOnboardingProofs`, `CourierPerformanceProofs` | theorems about the module of their name | |
| `OrderQuoteProofs`, `SeedProofs`, `ClientsProofs` | theorems about `Clients`: the prices, the seed, and the five other programs | |
| `MCOrderDispatch`, `MCPayoutLedger`, `MCCustomerCredit`, `MCCourierPerformance`, `MCClients` | values of the constants, symmetry sets and fewer initial states for TLC | |

### OrderDispatch

Variables: `status`, `courierId`, `offer[o][c]` (one row per pair, as the unique
key demands), `online`, `located` (couriers with coordinates), `earning[o]`
(courier of the order's earning row), `successful`, `cancelled` (counters of
`CourierPerformance`), `handler`.

| Code | Actions |
|---|---|
| `create` | `CreateRank`, `CreateCommit`, then the fallback as a transaction of its own |
| `findAllForUser` -> `refreshOpenSearchOffers` -> `ensureOffersForOpenSearchOrder` | `RefreshOpenOrder`, `MatchRank`, `MatchInsert`, `MatchCountPending`, `FallbackRead`, `FallbackInsert` |
| `acceptByCourier` | `AcceptFindOffer`, `AcceptCheckFree`, `AcceptCommit` (the conditional `updateMany` decides) |
| `declineOfferByCourier` | `Decline` |
| `assignManual` | `AssignRead`, `AssignCheckFree`, `AssignCommit` (no condition on the update) |
| `updateStatus`, `patchStatus` | `PatchByCourier` / `PatchByOps`, `PatchRead`, `PatchCommit`; a return to the search runs the matching again |
| `updateByUserId`, `onCourierLocation` | `UpdatePresence` |

The ranking by distance and score is abstracted to "any `MatchingTop` of the
candidates" (`FirstOf`): no property depends on which ones. `ManualAssign` and
`OpsStatuses` say what operations staff do; `patchStatus` lets them set any
status ("serbest durum"), and which properties survive which of their habits is
part of the result. `CreateRank` does not start twice for one order because an
order's identity is created by its own request.

### PayoutLedger

`CreateRead`, `CreateCheckOpen` and `CreateCommit` are the three stages of
`createForCourierUser`: the first two read outside the transaction of the
third, which takes the earnings by id. `ApproveRead/Commit`,
`RejectRead/Commit`, `PayRead/Commit` read the status and later update by id.
`MarkEarningsPaid` is a single conditional statement. `Amount` gives every
earning a number so that sums can be compared; money is not otherwise computed.

### CustomerCredit

`OrderRead/OrderCommit` is the account part of `POST /orders`,
`TxnRead/TxnCheck/TxnCommit` a manual debit or collection,
`CreditRead/CreditCommit` the credit settings, `UpdateType` the card's type.
Of the ledger only the sums by type are kept, since its rows never change.
`corporateUsers` is fixed at the start, since roles never change.

### CourierOnboarding

Uploads are followed through file system and database: `UploadRead`,
`UploadWrite` (file), `UploadSave` (row), `UploadUnlink` (old file);
`ApproveDocument`, `ApproveReadAll`, `ApproveCourier` are the statements of
`approveDocument`, which has no transaction. Couriers come in two ways: by an
application, or by `Register` (`POST auth/register` with the role COURIER), which
makes them APPROVED without any document; `applied` remembers who came by an
application. `SubmitRouted` says whether
`POST couriers/me/documents/submit-review` reaches `submitForReview`: FALSE is
the controller as it is (the route is declared after `me/documents/:docType`,
which takes the request), TRUE is what the service was written for, a premise
that the program does not meet today. With FALSE no applicant gets beyond his
documents, and nothing that the service does after that could be looked at.
`MayCrash` allows requests to die.

### CourierPerformance

One courier (couriers share nothing here). Averages are kept in hundredths and
rounded as `Math.round(x * 100) / 100` does. A write inside a transaction holds
its row's lock until the commit (`RowLocked`, `CourierLocked`); the score is
kept as the tuple of inputs it was computed from, since only their staleness
matters. `closed` is history: how many orders were delivered and cancelled, which
the status change says and which commits with the row; the counters of the row
are compared with it.

### OrderQuote

Money is in hundredths, multipliers, shares and kilometres in parts of `Unit`;
`Rounded` is `Math.round(x * 100) / 100`. `DeliveryTotal` and
`SplitCourierAndPlatform` are the engine, `ResolveRule` picks the rule,
`CreateRule`, `UpdateRule`, `DeleteRule` and `NightBeginsOrEnds` change what a
quote depends on. A customer fills in either the app's draft (with the map on
which a late position moves the marker; React Query keeps quotes by trip) or the
form of the panel (one quote; a request for an older trip is cancelled).
The priority stays ticked from one draft to the next: the screen remains mounted.
`Submit`, `CreateRead`, `Create` and the answers are `POST /orders`: the price
is computed again, compared within 5%, and a rule deleted meanwhile fails the
transaction (the foreign key of the order's rule).

### LiveTracking

`SwitchOnline` ... `Measure` are the location hook of the courier app: a watch
started after its effect was cleaned up is leaked and goes on reporting. A
report goes through `PatchAnswered` (`PATCH couriers/me`, tried once),
`LocationSaved`, `OrdersRead` and `Broadcast` (`onCourierLocation`).
`OpenScreen`, `CloseScreen` and `Reconnect` are any of the maps; they share one
pattern and differ only in the room. `HandleConnection` is the end of
`handleConnection`, when the role is stored; `JoinRead` and `Join` are
`onJoinOrder` and `onJoinOpsMap`.

### JobOffers

`server` is what the database says of each order *to this courier*; how the
server's requests interleave is the subject of `OrderDispatch`, so `Handle` is
one step. `cached` is what the app shows of an order (offered, or how far on its
way). `checks` are `job_request` events whose busy check is under way, `overlay`
holds the offer and the component's refs (`handledRef`, `accepting`,
`declining`, the countdown), `shell` is whether the approval gate shows the
screens. Calls outlive the component that sent them (`live`). `overtaken` is
history: an offer came up in the overlay (a new one, the same one in an overlay
mounted again, or one accepted in the list) while calls it knows nothing of were
in flight, and not all of them are answered yet.

### Screens and ScreenTables

The pages of the panel are written to one pattern, so `Screens` is that pattern
and `ScreenTables` a record for each page: which lists it loads and for whom,
which buttons a row has in which status and for which role, what each sets,
which flag it raises and waits for, whether a dialog is in between, and what the
answer does (patch the row, load again, invalidate, leave). `Endpoints` says
which roles and statuses the server accepts; the submit button of the documents
is there, and its endpoint accepts nothing. `Elsewhere` is everybody else.
Order statuses no page distinguishes are merged (PENDING with
SEARCHING_COURIER, PICKED_UP and ON_DELIVERY with ACCEPTED, DELIVERED with
CANCELLED), the ticked rows of courier earnings stand as one, and the orders
page is looked at in two parts. The payout screen's three queries are one list,
of which a part may be missing (`partial`, `View`): a payout can be requested
while the open request has not been read. A document sent back with its
application is SENT_BACK, where the check of the courier's workflow refuses.
Unguarded loads may overwrite newer rows; that is in the model.

### Branding, AppSession, DemoSeed

`Branding` runs the awaits of `saveUploadedLogo` and `update` in their order:
read the row, unlink the old file, write the new one, save the row. `AppSession`
reads and writes token and user one after the other, with the eight seconds
after which the courier app stops waiting; `Restart` kills the app at any point.
`DemoSeed` is the script as a sequence of loops: each runs its statements over a
list of customers, couriers or orders, and `place` is the loop, the item and the
statement that come next. The script may stop between any two statements; in
between two runs the programs create, deliver and rename. It is assumed to run
while they do not.

### Clients

The seven programs share no state, so `Clients` has the variables of all of
them; `program` says which one runs, and the variables of the others are "off".
What holds of each alone holds of all together. The run and the theorems about
the programs are about this module.

## 4. Runs

| Run | Instance | Shows |
|---|---|---|
| `Dispatch_race` | 1 order, 2 couriers, 2 requests; manual assignment; operations cancel | offers are settled only with the order, one winner, delivered orders have an earning |
| `Dispatch_contract` | the same without manual assignment | `OrderContract` is implemented |
| `Dispatch_one_by_one` | 1 request at a time, operations cancel and reopen, requests may die, fair | an order nobody is asked about reaches an idle courier, if job lists go on being opened; orders only move forward |
| `Dispatch_two_accepts` | 2 orders, 1 courier, 2 requests | **violation**: one courier carries two orders |
| `Payout_race` | 2 couriers, 2 earnings, 3 payouts, 2 requests, both values of `orderly` | no earning stranded, settled requests hold nothing; orderly: one open request, right amounts, nothing paid twice |
| `Payout_paid_again` | 1 of each | **violation**: a paid earning is requested again |
| `Credit_race` | 1 account of either role, 2 requests, amounts 1-2, limits 1 and 3 | balance is the ledger, type, permission and limit fit; orderly: debt rule, limit |
| `Onboarding_race` | 1 courier, 2 documents, 4 file names, 2 requests, deaths of requests, fair, route reached | no row names a deleted file; orderly: the approval of an applicant means complete documents, decisions stay; unless a request died, approved documents activate the courier |
| `Onboarding_unrouted` | routes as declared, fair | **violation**: no application is ever reviewed |
| `Performance_race` | 3 ratings, 2 closings, 2 requests, times at the 72 hour limit | every order closed is counted once, as what it was closed as; orderly: all ratings count, rounding bounded, score current |
| `Clients_race` | one of `OrderQuote`, `JobOffers`, `LiveTracking`, `Screens` (each page and role), `Branding`, `AppSession`, `DemoSeed`, chosen at the start | prices as confirmed and as the formula says, drafts ordered once; an overlay that can be left and does not decline what is being accepted; maps of one order; refusals only of stale rows (but for three named buttons), forms entered once; the logo's file; whole sessions; a repeatable seed |
| `Tracking_unjoined` | 1 order, 2 connections, fair | **violation**: an open map is in no room |

Bounds. Two overlapping requests suffice for every race in the inventory: each
decision of the code looks at one earlier reading, and one other request is
enough to spoil it. One order suffices where the property speaks of one order
and orders meet only in `HasActiveOrder`; the run about that has two. Two
couriers are a winner and a loser, or a holder and a thief. Three payouts allow
two open ones after a settled one. `MatchingTop = 1` and `FallbackMax = 2` let
the ranked courier decline and leave somebody for the fallback. `MaxClosed`,
`MaxTurnover` and the identity sets bound counters; they are guards on *new*
requests only.

`Clients_race` runs the programs of `Clients` one at a time: they have no state
in common, so their product would only multiply states, and one run keeps the
questions about the programs together (1.7 million states, of which the offers
and the screens are two thirds). `v1` and `v2` are two orders, rows, managers or
accounts: one that is acted on and one that comes in between
(the offer that replaces another, the order a map turns to, the second ticked
row, the second manager). Two calls or requests are under way, one change is made
by others (`MaxDisturbed`, `MaxElsewhere`, `MaxUses`), one position is measured
and two connections are opened. The tariffs are chosen so that the floor and
both multipliers are at work and prices differ by less and by more than 5%.
Two runs of the seed are one that stops and one that repairs, or one that ends
and one that repeats; the theorem is about any number. On the largest pages (orders,
registrations, payout requests) one of the roles with equal rights stands for
the others, two payout requests are both approved or one of them is settled, and
one of the equal file names is the first logo. The courier's lists and delivery
screen have one call under way between them, also one they have outlived.

Symmetry is declared only in runs without liveness. `CHECK_DEADLOCK FALSE`
stands in the payout, onboarding, clients and tracking runs, where everything
really can be settled (all payouts used, all applications rejected, the bound of
changes reached) and nothing is left to do.

Fairness. The only fairness assumed is that the server finishes a request it
began, since Node does not starve a promise: `WF` on `Serve(h)` in
`OrderDispatch`, on `Advance(h)` in `CourierOnboarding`, on the gateway's steps in
`LiveTracking` (nothing makes a map join again). People owe nothing.

- `OpenOrderIsOffered`: no timer looks at open orders. The app does not poll its job list, and
  the server matches an open order again only inside a courier's `GET /orders`.
  So what the property needs of people stands in the property, as conditions and
  not as fairness: if job lists go on being opened while the order is open
  (`ListsAreOpened`) and from some moment on no request dies (`DeathsEnd`), every
  idle online courier is asked. If nobody opens a list, the order waits for ever.
  It also needs `FallbackMax` to be at least the number of online couriers, as in
  the run: the fallback takes the first `FallbackMax` and then drops the busy
  ones.
- `AllApprovedBecomesActive` says "unless a request died" (`died`), since nothing
  takes up a request that stopped half-way.
- `CompleteIsReviewed` is violated even under `SubmittingSpec`, where a courier
  whose documents are complete keeps pressing the button (`SF`). It is checked in
  `Onboarding_unrouted` only: with the routes as they are it is false, and with
  the route reached it would say no more than that the button works.

## 5. Disagreements with the code's own words

Four runs are expected to fail and are listed under `findings`:

1. `Dispatch_two_accepts`: "tek seferde yalnızca biri taşınabilir", yet two
   accepts of one courier both find no active order.
2. `Payout_paid_again`: an earning that accounting marks paid while its
   courier's request is being created becomes REQUESTED and is paid again.
3. `Onboarding_unrouted`: the submit route is shadowed, so no applicant gets past
   the document stage.
4. `Tracking_unjoined`: the example above the gateway emits its join right after
   connecting; a join that arrives before the gateway has stored the role is
   refused, and no map repeats it.

Other races are the reason for a premise in a property that passes. Removing
the premise makes TLC show them:

- a manual assignment that read the status before an accept committed takes the
  order from the courier (`HonoursContract` needs `ManualAssign = FALSE`);
- a repeated status request that is delayed moves an order back
  (`CourierStepsForward` needs requests that do not overlap);
- two taps open two payout requests over the same earnings, and a late approval
  reopens a settled request (`OneOpenRequest`, `RequestAmountIsItsEarnings`);
- two orders of one customer pass the debt rule on the same balance
  (`OrderRespectsRule`), and credit settings written after a change of type
  leave an individual card with credit (`CreditSettingsFit`);
- a slow upload replaces an approved document, two decisions on one application
  both commit (`DecisionsStay`), a rejection of a document slips in before the
  approval of its courier (`ApprovedApplicantHasDocuments`), and a crash between the approval of the last
  document and that of the courier leaves the courier stuck
  (`AllApprovedBecomesActive` needs `~died`);
- of two ratings at the same time one is lost for ever (the last conjunct of
  `EveryEventCounts`; closings are counted in any case);
- an answer to `POST /orders` that is lost lets the customer order again
  (`DraftIsOrderedOnce` and `FormIsPostedOnce` need `~lost`), and the form for a
  pricing rule keeps its fields, so that a second press makes a second rule;
- the overlay declines an order whose accept is in flight in three cases
  (`AcceptIsNotDeclined` needs `~overtaken`). A new offer replaces one whose accept
  is in flight: the late failure of that accept makes the new offer look
  unhandled, and it may be declined while its own accept is under way. The
  approval gate unmounts the overlay and mounts it again: the new `handledRef`
  knows of no accept, and the countdown begins anew. The offer is accepted in the
  list of the dashboard: the overlay that comes up for it counts down all the
  same. For such reasons the hint "Süre dolunca teklif otomatik reddedilir." does
  not always hold either: a countdown that ends while an accept is failing
  declines nothing, and an offer that was replaced is never declined;
- a logo upload that fails after the old file was unlinked leaves a row without
  its file (`LogoExists` needs `~failed`);
- the app killed between its two writes keeps a token without its user
  (`SessionIsWhole` needs `~torn`);
- three buttons offer what the server refuses (`RefusedOnlyIfStale`). The panel
  shows the online switch for couriers who are not approved, and the app
  "İncelemeye gönder" for complete documents, whose route is shadowed: the two
  exceptions in the formula. The payout screen offers a request while the
  courier's requests have not been read; there the row was never in the status
  the screen took it for, so the first disjunct covers it;
- the seed repairs the demo customers and never its two samples: a run that
  stopped leaves one of those without its debit or earning
  (`SeedIsRepeatable` needs `~stopped` for them), although the comment calls
  that part idempotent; a card whose e-mail staff edited is missed by the wipe.

Seen while reading, and not checked: `touchLastActive` is started without a
`catch`; a second delivery rewrites `deliveredAt`; the ledger page of an account
computes running balances backward from a balance read by another request; the
login trims an e-mail and does not lower its case as registration does; a leaked
watch reports positions while the courier is offline; an overlay may come up
while a delivery is active; two loads race in `use-public-branding`, so an open
screen may keep the old logo although the settings page says it is refreshed at
once; the bank form of the profile is overwritten when its courier is fetched
again; the logout of a gate does not empty the query cache.

## 6. Proofs

Every theorem holds for all values of the constants that satisfy the named
assumption of its module (`DispatchAssumption`, `PayoutAssumption`,
`CreditAssumption`, `OnboardingAssumption`, `PerformanceAssumption`,
`ClientsAssumption`) and the hypotheses in its statement; the sets of orders,
couriers, customers, rows, files and concurrent requests may be of any size
(where sums or numbers of orders are compared: any finite size).
Every invariant and every action property of a passing run is a theorem; only
the two liveness properties are not (end of this section). Each proof follows
the same path: an invariant stronger than the property, true initially and
preserved by every action. The difficult part of each strengthening is a clause about requests: what one has
read and will act on.

**`OrderDispatchProofs`**

| Theorem | Under | Strengthened by |
|---|---|---|
| `Typing` | | `TypeOK` is inductive |
| `OneWinnerAlways`, `OpenOrderHasNoSettledOfferAlways` | operations never set `SEARCHING_COURIER` | `WinnerInv`: no request in progress will reopen an order, a created order has no offers yet, an absent order has none at all, an open order has no settled offer |
| `DeliveredHasEarningAlways` | operations set no active status and not `DELIVERED` | `EarningInv`: an order on its way has a courier, a request that will move an order on its way has read one, a request that has read `DELIVERED` finds the earning |
| `EarningStaysAlways` | | no other clause: the upsert never updates |
| `HonoursContractAlways` (refinement of `OrderContract`) | nobody assigns by hand, operations only cancel | `ContractInv`, with the two invariants above: an open order has no courier, a status request in progress carries an order on or cancels it |
| `CourierStepsForwardAlways` | requests do not overlap, nobody assigns by hand; operations set what they like | `ForwardInv`: an order with a courier has no open offer, whoever is matching or accepting an order works on one without a courier, a status request will set a status that follows or that operations set |

The premise of the first group is needed: an accept supersedes the *pending*
offers of an order, the accepted offer of an earlier round survives a return to
the search, and the next accept makes a second one. So is that of
`DeliveredHasEarningAlways`: operations may mark an order without a courier as
delivered, and nobody is paid. The refinement shows that every action of the
detailed module is `Publish`, `Withdraw`, `Claim`, `Pay` or a stutter of the
abstract one.

**`PayoutLedgerProofs`**

`LinkInv` holds without any discipline: an earning is linked only to a request
of its courier that exists and was not rejected, a REQUESTED one is linked, and
whatever a request in progress has read still exists. From it
`NoStrandedEarningAlways` and `SettledRequestReleasedAlways`: reads outside the
transaction cannot strand money.
`OrderlyInv` adds, for `orderly` behaviours, that a courier and the staff have
one request in progress, that what it read is still so, that open requests are
unique, that amounts match, and that a paid earning hangs on a paid request.
From it `OneOpenRequestAlways`, `RequestAmountIsItsEarningsAlways` and
`PaidEarningStaysAlways`.

`Typing` is the part of `TypeOK` that mentions no sum (`Typed`).
`TypeOKAlways` and `RequestIsPayableAlways` need that `Total` is a number: a
recursive function is a `CHOOSE`, and that the chosen function exists, and
yields numbers on finite sets, is shown by a smallest counterexample
(`NatLessThanWellFounded` and `WFMin`, in place of an induction whose rule takes
an operator). `AmountInv` then says that only finitely many earnings exist, that
what a request in progress is about to ask for is above zero and below the
limit, and that so is the amount of every request there is.

**`CustomerCreditProofs`**

`Typing` and `BalanceIsLedgerAlways` (inductive with the types);
`CreditHasLimitAlways` from `CreditInv` (a request to enable the credit carries
a positive limit). For `orderly` behaviours `OrderlyInv` says that two requests
in progress are about two accounts and that a request's reading (balance, rule,
type) is still so when it writes; from it `OnlyCorporateHasCreditAlways`,
`OrderRespectsRuleAlways` and `DebitRespectsLimitAlways`, the last one with
`CreditInv`, since the two checks of the code differ where the limit is null.
`CreditSettingsFitAlways` is the two theorems about permission and limit
together.

**`CourierOnboardingProofs`**

`Typing`. `DocumentFileExistsAlways` needs no discipline: `FileInv` says that two
rows never name one file, what an upload found at its start is still in its own
row if anywhere, the file it has written belongs to it alone, and a file it is
about to unlink is named by no row any more. `ApprovedApplicantHasDocumentsAlways`
and `DecisionsStayAlways` are about `orderly` behaviours: `OrderlyInv` says that each
of courier and staff has one request in progress, and what each step relies on
(`Current`): an upload under way means that the application is still in the
document stage and its document not approved, a review that it is in the review,
a final approval that every document is approved. Courier and staff do not wait
for each other there: the stages of the application keep them apart.

**`CourierPerformanceProofs`**

`PerformanceInv` is proved at once, as its parts need each other. In any
interleaving the types hold and the row counts what was closed (`ClosingsFit`:
whoever has saved a closing and not committed it is the only one, and what it
has saved is the row with this closing added). For
`orderly` behaviours `OrderlyFit` says that what the request under way has read
is still so, that the score was computed from the present inputs, and that the
average is near the mean of the stars: `n` roundings are off by `n(n+1)/4` in
the sum at most (`AverageStaysNear`; the stars are counted as a set of pairs, so
that a new rating adds to a cardinality and no sum is computed). From it
`TypeOKAlways`, `EveryEventCountsAlways`, `AverageNearMeanAlways`,
`ScoreIsCurrentAlways`, and `ClosingIsAddedAlways`, about the step in which a
delivery or a cancellation enters the row.

**The programs of `Clients`**

`ClientsAssumption` says that tariffs and distances are no negative numbers (the
`@Min(0)` of `create-pricing-rule.dto.ts`) and at least one rule can be written
(`NumbersFit`), that the values standing for "none" are none of the real ones
(`NamesDiffer`), that the seed has customers, couriers, orders and entries and
uses the addresses of its two samples for no demo customer (`SeedFits`), and
that couriers are accounts. Each program has an inductive invariant of its own,
which a lemma carries over to `Clients`. `TypeOKAlways` of `ClientsProofs`
collects the types of all seven.

`OrderQuoteProofs`: `OrderIsAsConfirmedAlways` (a screen shows only quotes of the
trip they were computed for, whichever requests were cancelled or cached),
`PriceFollowsFormulaAlways` (each of the three roundings is off by at most a
half, enlarged by the multipliers after it; nonlinear arithmetic, in lemmas of
its own) and `DraftIsOrderedOnceAlways` (an order of a draft that is still on the
screen has its answer under way). The types rest on rules being distinct and no
more than allowed.

`SeedProofs`: `SeedInv` says, for every place in the script, what the statements
executed so far (`Past`) have made of the database, and `SeedIsRepeatableAlways`
is what remains of it at the end of a run. Its clauses: a demo customer who was
found has, from the wipe on, one order and one debit for every batch the loop
has been through, and the entries of the extras (`OrdersMade`, `EntriesMade`); its
balance is what its entries say, but for the one that is due between the
insertion of an entry and the increment (`BalancesMade`); the samples and their
accounts exist once the loop that looks for them has passed (`SamplesMade`), and
their balances agree unless a run stopped (`SamplesBalance`); a courier the last
loop has counted has as many deliveries as orders (`Counted`). None of this can be
left out, since the script repairs only what a later statement overwrites. It
holds for any number of customers, couriers and batches, and however many runs
stop, wherever they do.

`ClientsProofs`:

| Theorem | Strengthened by |
|---|---|
| `LogoExistsAlways` | `LogoInv`: a name not given yet is nowhere, a new file belongs to one upload, and whoever unlinked the saved logo has only its writing and saving left |
| `SessionIsWholeAlways` | `SessionInv`: of two jobs under way at most one has begun to write, unless `torn` |
| `MapShowsItsOrderAlways` | `MapInv`: a join under way on the present connection is for the present map |
| `BlockedOverlayWaitsAlways`, `AcceptIsNotDeclinedAlways` (about the step that declines) | `OfferInv`: nothing sent by a screen outlives it as `live`, and unless `overtaken` every accept in flight of the offer on the overlay, wherever it was pressed, is one its refs remember |
| `RefusedOnlyIfStaleAlways`, `FormIsPostedOnceAlways` | `ScreenInv`: every request, dialog and ticked row was offered to this role for the status it saw, and one refused had changed meanwhile, was never in the status shown, or belongs to one of the two buttons excepted; on a form that is cleared one button at a time is pressed, no dialog is open for a filling that is spent, and what was entered is spent or about to be |

The proof of `ScreenInv` compares the two tables entry by entry: for every page,
button and role, what the page offers the server accepts, but for the two buttons
of section 5. It does not depend on how many rows, requests or other users there are.

**What stays with TLC.** The liveness properties `OpenOrderIsOffered` and
`AllApprovedBecomesActive` rest on fairness, and so on `ENABLED`, which the
provers do not reason about; their runs check them on the instances above. The
four runs of section 5 are counterexamples and need no
proof.

## 7. Not modelled, and why

- Passwords, token signatures and validation of request bodies: the models take
  the requests of authorised people; roles are in the tables of `Screens`.
- The migrations, the build and the tests keep no state of the running system.
- Reports and lists only read; charts, filters, layout and wording of the
  programs are left out, as are personal data, times of an order, distances and
  the score formula, which no property needs.
- `backfillPerformanceFromOrders` is called by nothing. The name of the
  application is a single write.
- Panel pages opened by customers: the tables are about staff. An update that
  leaves a field out cannot clear it in the database; which fields a form sends
  is not modelled.
- The refresh looks at the 20 newest open orders only. An instance with more is
  out of TLC's reach, and the code has no other path by which an older order
  would be offered again; `OpenOrderIsOffered` is about orders within the limit.
- What a cancelled order owes: no document says, so there is nothing to check
  the code against.
