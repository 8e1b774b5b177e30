--------------------------- MODULE OrderDispatch ---------------------------
(***************************************************************************)
(* Orders, courier offers and their assignment: src/src/orders.            *)
(*                                                                         *)
(* The server runs many HTTP requests at a time and each awaits the        *)
(* database between its statements.  PostgreSQL runs every transaction at  *)
(* READ COMMITTED, so what a request read may be out of date when it       *)
(* writes.  A request is therefore a handler that remembers what it read   *)
(* (the fields of its record) and takes one step per statement that reads  *)
(* and one step for the statements it commits together.                    *)
(*                                                                         *)
(* Couriers of this module are the ones whose registration is APPROVED     *)
(* (courierMayOperateDeliveries); how they get there is another component. *)
(***************************************************************************)
EXTENDS Naturals, FiniteSets

CONSTANTS
  Orders,            \* identities of the orders customers may create
  Couriers,          \* approved couriers
  Handlers,          \* requests the server works on at the same time
  NoCourier,         \* orders.courierId = null
  ManualAssign,      \* do operations staff assign couriers by hand?
  OpsStatuses,       \* statuses operations staff set ("serbest durum")
  MatchingTop,       \* MATCHING_TOP_COURIERS
  FallbackMax,       \* FALLBACK_ONLINE_COURIERS
  MaxClosed          \* bound: closings counted per courier before a new one

OrderStatus == {"PENDING", "SEARCHING_COURIER", "ACCEPTED", "PICKED_UP",
                "ON_DELIVERY", "DELIVERED", "CANCELLED"}

ActiveStatuses == {"ACCEPTED", "PICKED_UP", "ON_DELIVERY"}

OfferStatus == {"PENDING", "ACCEPTED", "EXPIRED", "SUPERSEDED"}

ASSUME DispatchAssumption ==
  /\ NoCourier \notin Couriers
  /\ ManualAssign \in BOOLEAN
  /\ OpsStatuses \subseteq OrderStatus
  /\ MatchingTop \in Nat \ {0}
  /\ FallbackMax \in Nat \ {0}
  /\ MaxClosed \in Nat

VARIABLES
  status,      \* status[o], or "ABSENT" before the row exists
  courierId,   \* courierId[o], or NoCourier
  offer,       \* offer[o][c]: status of the unique offer row, or "NONE"
  online,      \* couriers whose isOnline is true
  located,     \* couriers whose lat and lng are not null
  earning,     \* earning[o]: courier of the order's only earning row
  successful,  \* successful[c]: courier_performance.successfulDeliveries
  cancelled,   \* cancelled[c]: courier_performance.cancelledDeliveries
  handler      \* handler[h]: the request in progress and what it has read

vars == <<status, courierId, offer, online, located, earning, successful,
          cancelled, handler>>

Idle == [at |-> "idle"]

(* Why the server matches an order that exists: an operations user put it  *)
(* back into the search, or a courier opened the job list.                 *)
Origins == {"rematch", "refresh"}

Requests ==
  [at : {"idle"}]
    \cup [at : {"accept.offered", "accept.free"}, order : Orders, courier : Couriers]
    \cup [at : {"assign.read", "assign.free"}, order : Orders, courier : Couriers]
    \cup [at : {"patch.authorised"}, order : Orders, to : OrderStatus]
    \cup [at : {"patch.read"}, order : Orders, to : OrderStatus,
          was : OrderStatus \cup {"ABSENT"}, whose : Couriers \cup {NoCourier}]
    \cup [at : {"create.ranked"}, order : Orders, ranked : SUBSET Couriers]
    \cup [at : {"match.start"}, order : Orders, origin : Origins]
    \cup [at : {"match.ranked"}, order : Orders, origin : Origins,
          ranked : SUBSET Couriers]
    \cup [at : {"match.count", "fallback.start"}, order : Orders]
    \cup [at : {"fallback.read"}, order : Orders, ranked : SUBSET Couriers]

TypeOK ==
  /\ status \in [Orders -> OrderStatus \cup {"ABSENT"}]
  /\ courierId \in [Orders -> Couriers \cup {NoCourier}]
  /\ offer \in [Orders -> [Couriers -> OfferStatus \cup {"NONE"}]]
  /\ online \in SUBSET Couriers
  /\ located \in SUBSET Couriers
  /\ earning \in [Orders -> Couriers \cup {NoCourier}]
  /\ successful \in [Couriers -> Nat]
  /\ cancelled \in [Couriers -> Nat]
  /\ handler \in [Handlers -> Requests]

Init ==
  /\ status = [o \in Orders |-> "ABSENT"]
  /\ courierId = [o \in Orders |-> NoCourier]
  /\ offer = [o \in Orders |-> [c \in Couriers |-> "NONE"]]
  /\ online = {}
  /\ located \in SUBSET Couriers
  /\ earning = [o \in Orders |-> NoCourier]
  /\ successful = [c \in Couriers |-> 0]
  /\ cancelled = [c \in Couriers |-> 0]
  /\ handler = [h \in Handlers |-> Idle]

-----------------------------------------------------------------------------
(* Reads *)

HasActiveOrder(c) ==
  \E o \in Orders : courierId[o] = c /\ status[o] \in ActiveStatuses

BusyAmong(S) == {c \in S : HasActiveOrder(c)}

(* The first n of S in some order, or all of S when it has no more than n: *)
(* the ranking by distance and score may prefer any of them.               *)
FirstOf(S, n) ==
  {B \in SUBSET S :
     Cardinality(B) = IF Cardinality(S) < n THEN Cardinality(S) ELSE n}

RankedByPickup ==
  LET candidates == online \cap located
  IN  FirstOf(candidates \ BusyAmong(candidates), MatchingTop)

(* The fallback takes the first FallbackMax online couriers and only then  *)
(* drops the busy ones.                                                    *)
FallbackCouriers == {S \ BusyAmong(S) : S \in FirstOf(online, FallbackMax)}

IsOpen(o) == status[o] = "SEARCHING_COURIER" /\ courierId[o] = NoCourier

HasPendingOffer(o) == \E c \in Couriers : offer[o][c] = "PENDING"

(* Writes *)

(* createMany with skipDuplicates: (orderId, courierId) is unique, so a    *)
(* courier who already has a row keeps it as it is.                        *)
OffersAfterCreate(o, S) ==
  [c \in Couriers |-> IF c \in S /\ offer[o][c] = "NONE"
                        THEN "PENDING" ELSE offer[o][c]]

OffersAfterSupersede(o) ==
  [c \in Couriers |-> IF offer[o][c] = "PENDING"
                        THEN "SUPERSEDED" ELSE offer[o][c]]

OffersAfterAccept(o, winner) ==
  [c \in Couriers |-> IF offer[o][c] # "PENDING" THEN offer[o][c]
                      ELSE IF c = winner THEN "ACCEPTED" ELSE "SUPERSEDED"]

Goto(h, request) == handler' = [handler EXCEPT ![h] = request]

dispatchVars == <<status, courierId, offer>>
presenceVars == <<online, located>>
closingVars  == <<earning, successful, cancelled>>

-----------------------------------------------------------------------------
(* POST /orders.  The row, its debit and the first offers commit together; *)
(* the couriers are ranked earlier in the same transaction.  The fallback  *)
(* is a transaction of its own, after the commit.                          *)

CreateRank(h, o) ==
  /\ handler[h] = Idle
  /\ status[o] = "ABSENT"
  /\ \A g \in Handlers : ~(handler[g].at = "create.ranked" /\ handler[g].order = o)
  /\ \E S \in RankedByPickup :
       Goto(h, [at |-> "create.ranked", order |-> o, ranked |-> S])
  /\ UNCHANGED <<dispatchVars, presenceVars, closingVars>>

CreateCommit(h) ==
  /\ handler[h].at = "create.ranked"
  /\ LET o == handler[h].order
         S == handler[h].ranked
     IN  /\ status' = [status EXCEPT ![o] = "SEARCHING_COURIER"]
         /\ offer' = [offer EXCEPT ![o] = OffersAfterCreate(o, S)]
         /\ Goto(h, IF S = {} THEN [at |-> "fallback.start", order |-> o] ELSE Idle)
  /\ UNCHANGED <<courierId, presenceVars, closingVars>>

-----------------------------------------------------------------------------
(* Matching an existing order.  Nothing checks again that the order is     *)
(* still in the search when the offers are inserted.                       *)

(* GET /orders of a courier: every open order of the list is matched, one  *)
(* after the other, errors ignored; one handler stands for one of them.    *)
RefreshOpenOrder(h, o) ==
  /\ handler[h] = Idle
  /\ IsOpen(o)
  /\ Goto(h, [at |-> "match.start", order |-> o, origin |-> "refresh"])
  /\ UNCHANGED <<dispatchVars, presenceVars, closingVars>>

MatchRank(h) ==
  /\ handler[h].at = "match.start"
  /\ \E S \in RankedByPickup :
       Goto(h, [at |-> "match.ranked", order |-> handler[h].order,
                origin |-> handler[h].origin, ranked |-> S])
  /\ UNCHANGED <<dispatchVars, presenceVars, closingVars>>

MatchInsert(h) ==
  /\ handler[h].at = "match.ranked"
  /\ LET o == handler[h].order
         S == handler[h].ranked
     IN  /\ offer' = [offer EXCEPT ![o] = OffersAfterCreate(o, S)]
         /\ Goto(h, CASE handler[h].origin = "refresh" -> [at |-> "match.count", order |-> o]
                      [] handler[h].origin = "rematch" /\ S = {} ->
                           [at |-> "fallback.start", order |-> o]
                      [] OTHER -> Idle)
  /\ UNCHANGED <<status, courierId, presenceVars, closingVars>>

(* Mutation: the refresh never falls back. *)
MatchCountPendingNoFallback(h) ==
  /\ handler[h].at = "match.count"
  /\ Goto(h, Idle)
  /\ UNCHANGED <<dispatchVars, presenceVars, closingVars>>

MatchCountPending(h) ==
  /\ handler[h].at = "match.count"
  /\ LET o == handler[h].order
     IN  Goto(h, IF HasPendingOffer(o) THEN Idle
                 ELSE [at |-> "fallback.start", order |-> o])
  /\ UNCHANGED <<dispatchVars, presenceVars, closingVars>>

FallbackRead(h) ==
  /\ handler[h].at = "fallback.start"
  /\ \E S \in FallbackCouriers :
       Goto(h, IF S = {} THEN Idle
               ELSE [at |-> "fallback.read", order |-> handler[h].order, ranked |-> S])
  /\ UNCHANGED <<dispatchVars, presenceVars, closingVars>>

FallbackInsert(h) ==
  /\ handler[h].at = "fallback.read"
  /\ LET o == handler[h].order
     IN  offer' = [offer EXCEPT ![o] = OffersAfterCreate(o, handler[h].ranked)]
  /\ Goto(h, Idle)
  /\ UNCHANGED <<status, courierId, presenceVars, closingVars>>

-----------------------------------------------------------------------------
(* POST /orders/:id/accept and /decline *)

AcceptFindOffer(h, o, c) ==
  /\ handler[h] = Idle
  /\ offer[o][c] = "PENDING"
  /\ Goto(h, [at |-> "accept.offered", order |-> o, courier |-> c])
  /\ UNCHANGED <<dispatchVars, presenceVars, closingVars>>

(* Mutation: accepting does not look at the courier's other orders. *)
AcceptCheckFreeSkipped(h) ==
  /\ handler[h].at = "accept.offered"
  /\ Goto(h, [at |-> "accept.free", order |-> handler[h].order,
                   courier |-> handler[h].courier])
  /\ UNCHANGED <<dispatchVars, presenceVars, closingVars>>

AcceptCheckFree(h) ==
  /\ handler[h].at = "accept.offered"
  /\ Goto(h, IF HasActiveOrder(handler[h].courier) THEN Idle
             ELSE [at |-> "accept.free", order |-> handler[h].order,
                   courier |-> handler[h].courier])
  /\ UNCHANGED <<dispatchVars, presenceVars, closingVars>>

(* Mutation: the order is updated by id and the offer by its key, without  *)
(* the status conditions. *)
AcceptCommitUnconditional(h) ==
  /\ handler[h].at = "accept.free"
  /\ LET o == handler[h].order
         c == handler[h].courier
     IN  /\ status' = [status EXCEPT ![o] = "ACCEPTED"]
         /\ courierId' = [courierId EXCEPT ![o] = c]
         /\ offer' = [offer EXCEPT ![o] = [OffersAfterAccept(o, c) EXCEPT ![c] = "ACCEPTED"]]
  /\ Goto(h, Idle)
  /\ UNCHANGED <<presenceVars, closingVars>>

(* updateMany ... WHERE status = SEARCHING_COURIER takes the row lock and  *)
(* re-reads the status, so it and the two offer updates are one step.  The *)
(* offer read before may meanwhile be declined: then only the order is     *)
(* written.                                                                *)
AcceptCommit(h) ==
  /\ handler[h].at = "accept.free"
  /\ LET o == handler[h].order
         c == handler[h].courier
     IN  \/ /\ status[o] = "SEARCHING_COURIER"
            /\ status' = [status EXCEPT ![o] = "ACCEPTED"]
            /\ courierId' = [courierId EXCEPT ![o] = c]
            /\ offer' = [offer EXCEPT ![o] = OffersAfterAccept(o, c)]
         \/ /\ status[o] # "SEARCHING_COURIER"
            /\ UNCHANGED dispatchVars
  /\ Goto(h, Idle)
  /\ UNCHANGED <<presenceVars, closingVars>>

Decline(o, c) ==
  /\ offer[o][c] = "PENDING"
  /\ offer' = [offer EXCEPT ![o][c] = "EXPIRED"]
  /\ UNCHANGED <<status, courierId, presenceVars, closingVars, handler>>

-----------------------------------------------------------------------------
(* PATCH /orders/:id/assign.  The status is read outside the transaction   *)
(* and the final update has no condition on it.                            *)

AssignRead(h, o, c) ==
  /\ ManualAssign
  /\ handler[h] = Idle
  /\ status[o] \in {"PENDING", "SEARCHING_COURIER"}
  /\ Goto(h, [at |-> "assign.read", order |-> o, courier |-> c])
  /\ UNCHANGED <<dispatchVars, presenceVars, closingVars>>

(* Mutation: the offers are superseded before the assignment is certain. *)
AssignCheckFreeEarlySupersede(h) ==
  /\ handler[h].at = "assign.read"
  /\ offer' = [offer EXCEPT ![handler[h].order] = OffersAfterSupersede(handler[h].order)]
  /\ Goto(h, IF HasActiveOrder(handler[h].courier) THEN Idle
             ELSE [at |-> "assign.free", order |-> handler[h].order,
                   courier |-> handler[h].courier])
  /\ UNCHANGED <<status, courierId, presenceVars, closingVars>>

AssignCheckFree(h) ==
  /\ handler[h].at = "assign.read"
  /\ Goto(h, IF HasActiveOrder(handler[h].courier) THEN Idle
             ELSE [at |-> "assign.free", order |-> handler[h].order,
                   courier |-> handler[h].courier])
  /\ UNCHANGED <<dispatchVars, presenceVars, closingVars>>

AssignCommit(h) ==
  /\ handler[h].at = "assign.free"
  /\ LET o == handler[h].order
     IN  /\ offer' = [offer EXCEPT ![o] = OffersAfterSupersede(o)]
         /\ courierId' = [courierId EXCEPT ![o] = handler[h].courier]
         /\ status' = [status EXCEPT ![o] = "ACCEPTED"]
  /\ Goto(h, Idle)
  /\ UNCHANGED <<presenceVars, closingVars>>

-----------------------------------------------------------------------------
(* PATCH /orders/:id/status.  updateStatus reads the order to authorise    *)
(* the request, patchStatus reads it again, and the transaction acts on    *)
(* that second reading.                                                    *)

(* Mutation: the status names of an older client. *)
AllowedNextOldNames(s) ==
  CASE s = "ACCEPTED"    -> {"PICKED_UP"}
    [] s = "PICKED_UP"   -> {"ON_THE_WAY"}
    [] s = "ON_DELIVERY" -> {"DELIVERED"}
    [] OTHER             -> {}

AllowedNext(s) ==
  CASE s = "ACCEPTED"    -> {"PICKED_UP"}
    [] s = "PICKED_UP"   -> {"ON_DELIVERY"}
    [] s = "ON_DELIVERY" -> {"DELIVERED"}
    [] OTHER             -> {}

(* Bound: no new closing is requested once a courier's counters hold       *)
(* MaxClosed; requests under way may still pass it.                        *)
MayClose(to) ==
  to \in {"DELIVERED", "CANCELLED"} =>
    \A c \in Couriers : successful[c] + cancelled[c] < MaxClosed

(* Mutation: a courier may skip steps. *)
PatchByCourierSkipping(h, o, c) ==
  /\ handler[h] = Idle
  /\ courierId[o] = c
  /\ status[o] \in ActiveStatuses
  /\ \E to \in {"PICKED_UP", "ON_DELIVERY", "DELIVERED"} :
       /\ MayClose(to)
       /\ Goto(h, [at |-> "patch.authorised", order |-> o, to |-> to])
  /\ UNCHANGED <<dispatchVars, presenceVars, closingVars>>

PatchByCourier(h, o, c) ==
  /\ handler[h] = Idle
  /\ courierId[o] = c
  /\ \E to \in AllowedNext(status[o]) :
       /\ MayClose(to)
       /\ Goto(h, [at |-> "patch.authorised", order |-> o, to |-> to])
  /\ UNCHANGED <<dispatchVars, presenceVars, closingVars>>

PatchByOps(h, o) ==
  /\ handler[h] = Idle
  /\ status[o] # "ABSENT"
  /\ \E to \in OpsStatuses :
       /\ MayClose(to)
       /\ Goto(h, [at |-> "patch.authorised", order |-> o, to |-> to])
  /\ UNCHANGED <<dispatchVars, presenceVars, closingVars>>

(* Mutation: the order is read after its own update. *)
PatchReadAfterUpdate(h) ==
  /\ handler[h].at = "patch.authorised"
  /\ LET o == handler[h].order
     IN  Goto(h, [at |-> "patch.read", order |-> o, to |-> handler[h].to,
                  was |-> handler[h].to, whose |-> courierId[o]])
  /\ UNCHANGED <<dispatchVars, presenceVars, closingVars>>

PatchRead(h) ==
  /\ handler[h].at = "patch.authorised"
  /\ LET o == handler[h].order
     IN  Goto(h, [at |-> "patch.read", order |-> o, to |-> handler[h].to,
                  was |-> status[o], whose |-> courierId[o]])
  /\ UNCHANGED <<dispatchVars, presenceVars, closingVars>>

(* createForDeliveredOrder: one earning row per order, for the courier the *)
(* order has now.                                                          *)
EarningAfterDelivery(o) ==
  IF earning[o] # NoCourier THEN earning[o] ELSE courierId[o]

CountOne(counts, c) ==
  [k \in Couriers |-> IF k = c THEN counts[k] + 1 ELSE counts[k]]

PatchCommit(h) ==
  /\ handler[h].at = "patch.read"
  /\ LET o   == handler[h].order
         to  == handler[h].to
         delivers == to = "DELIVERED" /\ handler[h].was # "DELIVERED"
         cancels  == to = "CANCELLED" /\ handler[h].was # "CANCELLED"
         searches == /\ to = "SEARCHING_COURIER"
                     /\ handler[h].was # "SEARCHING_COURIER"
                     /\ courierId[o] = NoCourier
     IN  /\ status' = [status EXCEPT ![o] = to]
         /\ earning' = IF delivers
                         THEN [earning EXCEPT ![o] = EarningAfterDelivery(o)]
                         ELSE earning
         /\ successful' = IF delivers THEN CountOne(successful, courierId[o])
                          ELSE successful
         /\ cancelled' = IF cancels THEN CountOne(cancelled, handler[h].whose)
                         ELSE cancelled
         /\ Goto(h, IF searches
                      THEN [at |-> "match.start", order |-> o, origin |-> "rematch"]
                      ELSE Idle)
  /\ UNCHANGED <<courierId, offer, presenceVars>>

-----------------------------------------------------------------------------
(* PATCH /couriers/me (and the operations' switch, and the location event  *)
(* of the gateway): isOnline is set, coordinates once known never return   *)
(* to null.                                                                *)
UpdatePresence(c) ==
  /\ online' \in {online \cup {c}, online \ {c}}
  /\ located' \in {located, located \cup {c}}
  /\ UNCHANGED <<dispatchVars, closingVars, handler>>

(* A request dies between two steps: the process stops, the transaction    *)
(* times out or PostgreSQL aborts it.  What it committed stays.            *)
Abort(h) ==
  /\ handler[h] # Idle
  /\ Goto(h, Idle)
  /\ UNCHANGED <<dispatchVars, presenceVars, closingVars>>

Matching(h) ==
  \/ MatchRank(h)
  \/ MatchInsert(h)
  \/ MatchCountPending(h)
  \/ FallbackRead(h)
  \/ FallbackInsert(h)

(* The next statement of a request under way. *)
Serve(h) ==
  \/ CreateCommit(h)
  \/ Matching(h)
  \/ AcceptCheckFree(h)
  \/ AcceptCommit(h)
  \/ AssignCheckFree(h)
  \/ AssignCommit(h)
  \/ PatchRead(h)
  \/ PatchCommit(h)

Advance(h) == Serve(h) \/ Abort(h)

(* What people do, and the requests that arrive. *)
Arrive ==
  \/ \E h \in Handlers, o \in Orders :
       \/ CreateRank(h, o)
       \/ RefreshOpenOrder(h, o)
       \/ PatchByOps(h, o)
  \/ \E h \in Handlers, o \in Orders, c \in Couriers :
       \/ AcceptFindOffer(h, o, c)
       \/ AssignRead(h, o, c)
       \/ PatchByCourier(h, o, c)
  \/ \E o \in Orders, c \in Couriers : Decline(o, c)
  \/ \E c \in Couriers : UpdatePresence(c)

Next == (\E h \in Handlers : Advance(h)) \/ Arrive

Spec == Init /\ [][Next]_vars

-----------------------------------------------------------------------------
(* Properties *)

(* An order in the search has only offers that are still open or declined: *)
(* a courier's offer is marked won or superseded only by the transaction   *)
(* that takes the order out of the search (acceptByCourier, assignManual), *)
(* never by one that lost the race.  It holds as long as operations do not *)
(* put an order back into the search.                                      *)
OpenOrderHasNoSettledOffer ==
  \A o \in Orders :
    status[o] \in {"ABSENT", "SEARCHING_COURIER"} =>
      \A c \in Couriers : offer[o][c] \notin {"ACCEPTED", "SUPERSEDED"}

(* However many couriers accept an order at the same time, the offer of at *)
(* most one of them is ever marked ACCEPTED.  It holds as long as          *)
(* operations do not put an order back into the search.                    *)
OneWinner ==
  \A o \in Orders : \A c, d \in Couriers :
    offer[o][c] = "ACCEPTED" /\ offer[o][d] = "ACCEPTED" => c = d

(* A delivered order has an earning row, whatever double taps, manual      *)
(* assignments and cancellations ran at the same time, as long as          *)
(* operations themselves do not move orders into an active or delivered    *)
(* status.                                                                 *)
DeliveredHasEarning ==
  \A o \in Orders : status[o] = "DELIVERED" => earning[o] # NoCourier

(* At most one order of a courier is active: the comment of                *)
(* COURIER_ACTIVE_ORDER_STATUSES says only one is carried at a time.       *)
OneActiveOrderPerCourier ==
  \A c \in Couriers : \A o, p \in Orders :
    /\ courierId[o] = c /\ status[o] \in ActiveStatuses
    /\ courierId[p] = c /\ status[p] \in ActiveStatuses
    => o = p

(* An order's earning is created once and its courier never changes, even  *)
(* when the order is delivered again after operations reopened it or gave  *)
(* it to somebody else.                                                    *)
EarningStays ==
  [][\A o \in Orders :
       earning[o] # NoCourier => earning'[o] = earning[o]]_vars

(* An order with a courier only moves one step along accepted, picked up,  *)
(* on delivery, delivered, unless operations set its status: the           *)
(* controller's rule for couriers over PATCH /orders/:id/status.  It holds *)
(* if requests do not overlap: a repeated request that is delayed moves an *)
(* order back.                                                             *)
CourierStepsForward ==
  [][\A o \in Orders :
       courierId[o] # NoCourier /\ status'[o] # status[o] =>
         status'[o] \in AllowedNext(status[o]) \cup OpsStatuses]_vars

(* The promise to customers and couriers, read off the tables: an order    *)
(* with a courier is claimed by him, one without is open exactly while it  *)
(* is in the search.  Self-service couriers, with operations that only     *)
(* cancel, implement it.                                                   *)
ContractPhase ==
  [o \in Orders |->
     IF status[o] = "ABSENT" THEN "absent"
     ELSE IF courierId[o] # NoCourier THEN "claimed"
     ELSE IF status[o] = "SEARCHING_COURIER" THEN "open"
     ELSE "withdrawn"]

Contract == INSTANCE OrderContract
              WITH Nobody <- NoCourier, phase <- ContractPhase,
                   holder <- courierId, payee <- earning

HonoursContract == Contract!Spec

-----------------------------------------------------------------------------
(* The server goes on with what it began: every step of a request is       *)
(* enabled until it is taken.  Nothing is assumed of requests that may     *)
(* come, and any may die.                                                  *)
FairSpec == Spec /\ \A h \in Handlers : WF_vars(Serve(h))

(* An order nobody was asked about any more, and a courier who is online,  *)
(* carries nothing and was not asked yet. *)
Unasked(o, c) ==
  /\ IsOpen(o)
  /\ ~HasPendingOffer(o)
  /\ c \in online
  /\ ~HasActiveOrder(c)
  /\ offer[o][c] = "NONE"

(* The job list is opened again and again while the order is open: only    *)
(* GET /orders of a courier matches an open order, and neither the app nor *)
(* the server does it on a timer.                                          *)
ListsAreOpened(o) ==
  []<>(\E h \in Handlers :
         handler[h] = [at |-> "match.start", order |-> o, origin |-> "refresh"])

(* From some moment on no request dies. *)
DeathsEnd == <>[][(\E h \in Handlers : Serve(h)) \/ Arrive]_vars

(* Whatever became of the requests before, also of the one that created    *)
(* the order: if couriers, he or others, go on opening the job list, an    *)
(* open order does not pass by such a courier for ever.  A refresh asks    *)
(* somebody, through the fallback if the best ranked have all declined.    *)
(* That the list is opened is a condition, the code does not see to it;    *)
(* without it the order waits for ever.                                    *)
OpenOrderIsOffered ==
  \A o \in Orders, c \in Couriers :
    ListsAreOpened(o) /\ DeathsEnd => (Unasked(o, c) ~> ~Unasked(o, c))

=============================================================================
