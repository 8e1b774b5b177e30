------------------------ MODULE OrderDispatchProofs ------------------------
(***************************************************************************)
(* Theorems about OrderDispatch, for every set of orders, couriers and     *)
(* concurrent requests.                                                    *)
(***************************************************************************)
EXTENDS OrderDispatch, TLAPS

-----------------------------------------------------------------------------
(* What the helpers return *)

(* Whatever the offers of an order were, each of the three writes leaves   *)
(* every courier with a legal offer status.                                *)
LEMMA CreatedOffersTyped ==
  ASSUME TypeOK, NEW o \in Orders, NEW S \in SUBSET Couriers
  PROVE  OffersAfterCreate(o, S) \in [Couriers -> OfferStatus \cup {"NONE"}]
BY DEF TypeOK, OffersAfterCreate, OfferStatus

LEMMA SupersededOffersTyped ==
  ASSUME TypeOK, NEW o \in Orders
  PROVE  OffersAfterSupersede(o) \in [Couriers -> OfferStatus \cup {"NONE"}]
BY DEF TypeOK, OffersAfterSupersede, OfferStatus

LEMMA AcceptedOffersTyped ==
  ASSUME TypeOK, NEW o \in Orders, NEW c \in Couriers
  PROVE  OffersAfterAccept(o, c) \in [Couriers -> OfferStatus \cup {"NONE"}]
BY DEF TypeOK, OffersAfterAccept, OfferStatus

(* The ranking and the fallback propose couriers only.                     *)
LEMMA MatchesAreCouriers ==
  ASSUME TypeOK
  PROVE  /\ RankedByPickup \subseteq SUBSET Couriers
         /\ FallbackCouriers \subseteq SUBSET Couriers
BY DEF TypeOK, RankedByPickup, FallbackCouriers, FirstOf

(* A counter stays a number.                                               *)
LEMMA CountOneTyped ==
  ASSUME NEW counts \in [Couriers -> Nat], NEW c
  PROVE  CountOne(counts, c) \in [Couriers -> Nat]
BY DEF CountOne

(* What a handler remembers at each stage.                                 *)
LEMMA HandlerFields ==
  ASSUME TypeOK, NEW h \in Handlers
  PROVE  /\ handler[h].at \in {"accept.offered", "accept.free", "assign.read", "assign.free"} =>
              /\ handler[h].order \in Orders
              /\ handler[h].courier \in Couriers
         /\ handler[h].at \in {"patch.authorised", "patch.read"} =>
              /\ handler[h].order \in Orders
              /\ handler[h].to \in OrderStatus
         /\ handler[h].at = "patch.read" =>
              /\ handler[h].was \in OrderStatus \cup {"ABSENT"}
              /\ handler[h].whose \in Couriers \cup {NoCourier}
         /\ handler[h].at \in {"create.ranked", "match.ranked", "fallback.read"} =>
              /\ handler[h].order \in Orders
              /\ handler[h].ranked \in SUBSET Couriers
         /\ handler[h].at \in {"match.start", "match.ranked"} =>
              /\ handler[h].order \in Orders
              /\ handler[h].origin \in Origins
         /\ handler[h].at \in {"match.count", "fallback.start"} =>
              handler[h].order \in Orders
<1>1. handler[h] \in Requests
  BY DEF TypeOK
<1>2. QED
  BY <1>1 DEF Requests

-----------------------------------------------------------------------------
(* Type correctness.  Every step leaves every table and every handler with *)
(* a value of its type.                                                    *)

LEMMA TypeInit == Init => TypeOK
BY DispatchAssumption DEF Init, TypeOK, Idle, Requests, OrderStatus, OfferStatus

(* A step that only moves one handler preserves the types if the handler's *)
(* new record is a request.                                                *)
LEMMA GotoTyped ==
  ASSUME TypeOK, NEW h \in Handlers, NEW r \in Requests, Goto(h, r),
         UNCHANGED <<dispatchVars, presenceVars, closingVars>>
  PROVE  TypeOK'
BY DEF TypeOK, Goto, dispatchVars, presenceVars, closingVars

(* The three tables of the dispatch stay typed when one order's offers, and *)
(* perhaps its status and courier, are written.                            *)
LEMMA OffersWrittenTyped ==
  ASSUME TypeOK, NEW o \in Orders,
         NEW f \in [Couriers -> OfferStatus \cup {"NONE"}],
         offer' = [offer EXCEPT ![o] = f]
  PROVE  offer' \in [Orders -> [Couriers -> OfferStatus \cup {"NONE"}]]
BY DEF TypeOK

LEMMA HandlerWrittenTyped ==
  ASSUME TypeOK, NEW h \in Handlers, NEW r \in Requests, Goto(h, r)
  PROVE  handler' \in [Handlers -> Requests]
BY DEF TypeOK, Goto

LEMMA TypeStep == TypeOK /\ [Next]_vars => TypeOK'
<1> SUFFICES ASSUME TypeOK, [Next]_vars PROVE TypeOK'
  OBVIOUS
<1> USE DEF OrderStatus
<1>1. ASSUME NEW h \in Handlers, CreateCommit(h) PROVE TypeOK'
  <2> DEFINE o == handler[h].order
  <2>1. o \in Orders /\ handler[h].ranked \in SUBSET Couriers
    BY <1>1, HandlerFields DEF CreateCommit
  <2>2. offer' \in [Orders -> [Couriers -> OfferStatus \cup {"NONE"}]]
    BY <1>1, <2>1, CreatedOffersTyped, OffersWrittenTyped DEF CreateCommit
  <2>3. handler' \in [Handlers -> Requests]
    BY <1>1, <2>1, HandlerWrittenTyped DEF CreateCommit, Requests, Idle
  <2>4. QED
    BY <1>1, <2>1, <2>2, <2>3 DEF CreateCommit, TypeOK, dispatchVars, presenceVars, closingVars
<1>2. ASSUME NEW h \in Handlers, MatchRank(h) PROVE TypeOK'
  <2>1. PICK S \in RankedByPickup :
          Goto(h, [at |-> "match.ranked", order |-> handler[h].order,
                   origin |-> handler[h].origin, ranked |-> S])
    BY <1>2 DEF MatchRank
  <2>2. QED
    BY <1>2, <2>1, HandlerFields, MatchesAreCouriers, GotoTyped DEF MatchRank, Requests
<1>3. ASSUME NEW h \in Handlers, MatchInsert(h) PROVE TypeOK'
  <2> DEFINE o == handler[h].order
  <2>1. o \in Orders /\ handler[h].ranked \in SUBSET Couriers
    BY <1>3, HandlerFields DEF MatchInsert
  <2>2. offer' \in [Orders -> [Couriers -> OfferStatus \cup {"NONE"}]]
    BY <1>3, <2>1, CreatedOffersTyped, OffersWrittenTyped DEF MatchInsert
  <2>3. handler' \in [Handlers -> Requests]
    BY <1>3, <2>1, HandlerWrittenTyped DEF MatchInsert, Requests, Idle
  <2>4. QED
    BY <1>3, <2>1, <2>2, <2>3 DEF MatchInsert, TypeOK, dispatchVars, presenceVars, closingVars
<1>4. ASSUME NEW h \in Handlers, MatchCountPending(h) PROVE TypeOK'
  BY <1>4, HandlerFields, GotoTyped DEF MatchCountPending, Requests, Idle
<1>5. ASSUME NEW h \in Handlers, FallbackRead(h) PROVE TypeOK'
  <2>1. PICK S \in FallbackCouriers :
          Goto(h, IF S = {} THEN Idle
                  ELSE [at |-> "fallback.read", order |-> handler[h].order, ranked |-> S])
    BY <1>5 DEF FallbackRead
  <2>2. QED
    BY <1>5, <2>1, HandlerFields, MatchesAreCouriers, GotoTyped DEF FallbackRead, Requests, Idle
<1>6. ASSUME NEW h \in Handlers, FallbackInsert(h) PROVE TypeOK'
  <2> DEFINE o == handler[h].order
  <2>1. o \in Orders /\ handler[h].ranked \in SUBSET Couriers
    BY <1>6, HandlerFields DEF FallbackInsert
  <2>2. offer' \in [Orders -> [Couriers -> OfferStatus \cup {"NONE"}]]
    BY <1>6, <2>1, CreatedOffersTyped, OffersWrittenTyped DEF FallbackInsert
  <2>3. handler' \in [Handlers -> Requests]
    BY <1>6, <2>1, HandlerWrittenTyped DEF FallbackInsert, Requests, Idle
  <2>4. QED
    BY <1>6, <2>1, <2>2, <2>3 DEF FallbackInsert, TypeOK, dispatchVars, presenceVars, closingVars
<1>7. ASSUME NEW h \in Handlers, AcceptCheckFree(h) PROVE TypeOK'
  BY <1>7, HandlerFields, GotoTyped DEF AcceptCheckFree, Requests, Idle
<1>8. ASSUME NEW h \in Handlers, AcceptCommit(h) PROVE TypeOK'
  <2> DEFINE o == handler[h].order
  <2>1. o \in Orders /\ handler[h].courier \in Couriers
    BY <1>8, HandlerFields DEF AcceptCommit
  <2>2. offer' \in [Orders -> [Couriers -> OfferStatus \cup {"NONE"}]]
    <3>1. CASE status[o] = "SEARCHING_COURIER"
      BY <1>8, <2>1, <3>1, AcceptedOffersTyped, OffersWrittenTyped DEF AcceptCommit
    <3>2. CASE status[o] # "SEARCHING_COURIER"
      BY <1>8, <3>2 DEF AcceptCommit, TypeOK, dispatchVars
    <3>3. QED
      BY <3>1, <3>2
  <2>3. handler' \in [Handlers -> Requests]
    BY <1>8, <2>1, HandlerWrittenTyped DEF AcceptCommit, Requests, Idle
  <2>4. QED
    BY <1>8, <2>1, <2>2, <2>3 DEF AcceptCommit, TypeOK, dispatchVars, presenceVars, closingVars
<1>9. ASSUME NEW h \in Handlers, AssignCheckFree(h) PROVE TypeOK'
  BY <1>9, HandlerFields, GotoTyped DEF AssignCheckFree, Requests, Idle
<1>10. ASSUME NEW h \in Handlers, AssignCommit(h) PROVE TypeOK'
  <2> DEFINE o == handler[h].order
  <2>1. o \in Orders /\ handler[h].courier \in Couriers
    BY <1>10, HandlerFields DEF AssignCommit
  <2>2. offer' \in [Orders -> [Couriers -> OfferStatus \cup {"NONE"}]]
    BY <1>10, <2>1, SupersededOffersTyped, OffersWrittenTyped DEF AssignCommit
  <2>3. handler' \in [Handlers -> Requests]
    BY <1>10, <2>1, HandlerWrittenTyped DEF AssignCommit, Requests, Idle
  <2>4. QED
    BY <1>10, <2>1, <2>2, <2>3 DEF AssignCommit, TypeOK, dispatchVars, presenceVars, closingVars
<1>11. ASSUME NEW h \in Handlers, PatchRead(h) PROVE TypeOK'
  BY <1>11, HandlerFields, GotoTyped DEF PatchRead, Requests, Idle, TypeOK
<1>12. ASSUME NEW h \in Handlers, PatchCommit(h) PROVE TypeOK'
  BY <1>12, HandlerFields, CountOneTyped
  DEF PatchCommit, TypeOK, Goto, Requests, Idle, dispatchVars, presenceVars, closingVars, EarningAfterDelivery, Origins
<1>13. ASSUME NEW h \in Handlers, Abort(h) PROVE TypeOK'
  BY <1>13, HandlerFields, GotoTyped DEF Abort, Requests, Idle
<1>14. ASSUME NEW h \in Handlers, NEW o \in Orders, CreateRank(h, o) PROVE TypeOK'
  BY <1>14, MatchesAreCouriers, GotoTyped DEF CreateRank, Requests
<1>15. ASSUME NEW h \in Handlers, NEW o \in Orders, RefreshOpenOrder(h, o) PROVE TypeOK'
  BY <1>15, DispatchAssumption, GotoTyped DEF RefreshOpenOrder, Requests, Origins
<1>16. ASSUME NEW h \in Handlers, NEW o \in Orders, PatchByOps(h, o) PROVE TypeOK'
  BY <1>16, DispatchAssumption, GotoTyped DEF PatchByOps, Requests, Origins
<1>17. ASSUME NEW h \in Handlers, NEW o \in Orders, NEW c \in Couriers, AcceptFindOffer(h, o, c)
      PROVE TypeOK'
  BY <1>17, GotoTyped DEF AcceptFindOffer, Requests
<1>18. ASSUME NEW h \in Handlers, NEW o \in Orders, NEW c \in Couriers, AssignRead(h, o, c)
      PROVE TypeOK'
  BY <1>18, GotoTyped DEF AssignRead, Requests
<1>19. ASSUME NEW h \in Handlers, NEW o \in Orders, NEW c \in Couriers, PatchByCourier(h, o, c)
      PROVE TypeOK'
  BY <1>19, GotoTyped DEF PatchByCourier, Requests, AllowedNext
<1>20. ASSUME NEW o \in Orders, NEW c \in Couriers, Decline(o, c) PROVE TypeOK'
  BY <1>20 DEF Decline, TypeOK, OfferStatus, presenceVars, closingVars
<1>21. ASSUME NEW c \in Couriers, UpdatePresence(c) PROVE TypeOK'
  BY <1>21 DEF UpdatePresence, TypeOK, dispatchVars, closingVars
<1>22. CASE UNCHANGED vars
  BY <1>22 DEF vars, TypeOK
<1>23. QED
  BY <1>1, <1>2, <1>3, <1>4, <1>5, <1>6, <1>7, <1>8, <1>9, <1>10, <1>11, <1>12, <1>13, <1>14, <1>15, <1>16, <1>17, <1>18, <1>19, <1>20, <1>21, <1>22
  DEF Next, Arrive, Advance, Serve, Matching

(* The tables and the handlers always hold values of their types.          *)
THEOREM Typing == Spec => []TypeOK
<1>1. Init => TypeOK
  BY TypeInit
<1>2. TypeOK /\ [Next]_vars => TypeOK'
  BY TypeStep
<1>3. QED
  BY <1>1, <1>2, PTL DEF Spec

-----------------------------------------------------------------------------
(* One winner.  Offers are settled by the step that takes the order out of *)
(* the search, so the invariant must also exclude the steps that would     *)
(* bring an order with settled offers back into it: a creation of an order *)
(* that exists, and a status request for SEARCHING_COURIER.                *)

At(h, places) == handler[h].at \in places

(* Every request but a creation is about an order that exists.             *)
Working == {"accept.offered", "accept.free", "assign.read", "assign.free",
            "patch.authorised", "patch.read", "match.start", "match.ranked",
            "match.count", "fallback.start", "fallback.read"}

RequestsNameOrders ==
  \A h \in Handlers : At(h, Working) => status[handler[h].order] # "ABSENT"

CreationsAreNew ==
  \A h \in Handlers : At(h, {"create.ranked"}) =>
    /\ status[handler[h].order] = "ABSENT"
    /\ \A g \in Handlers : At(g, {"create.ranked"}) /\ handler[g].order = handler[h].order
                             => g = h

AbsentOrderHasNoOffer ==
  \A o \in Orders : status[o] = "ABSENT" => \A c \in Couriers : offer[o][c] = "NONE"

PatchesNeverReopen ==
  \A h \in Handlers :
    At(h, {"patch.authorised", "patch.read"}) => handler[h].to # "SEARCHING_COURIER"

WinnerInv ==
  /\ RequestsNameOrders
  /\ CreationsAreNew
  /\ AbsentOrderHasNoOffer
  /\ PatchesNeverReopen
  /\ OpenOrderHasNoSettledOffer
  /\ OneWinner

LEMMA WinnerInit == Init => WinnerInv
BY DEF Init, WinnerInv, RequestsNameOrders, CreationsAreNew, AbsentOrderHasNoOffer,
       PatchesNeverReopen, OpenOrderHasNoSettledOffer, OneWinner, At, Working, Idle

(* A step that only reads keeps the invariant if what the handler turns to *)
(* respects the clauses about handlers.                                    *)
LEMMA WinnerRead ==
  ASSUME TypeOK, WinnerInv, NEW h \in Handlers, NEW r \in Requests, Goto(h, r),
         UNCHANGED dispatchVars,
         r.at \in Working => status[r.order] # "ABSENT",
         r.at \in {"patch.authorised", "patch.read"} => r.to # "SEARCHING_COURIER",
         r.at # "create.ranked"
  PROVE  WinnerInv'
<1>1. handler' = [handler EXCEPT ![h] = r] /\ handler \in [Handlers -> Requests]
  BY DEF Goto, TypeOK
<1>2. RequestsNameOrders'
  BY <1>1 DEF WinnerInv, RequestsNameOrders, At, dispatchVars
<1>3. CreationsAreNew'
  BY <1>1 DEF WinnerInv, CreationsAreNew, At, dispatchVars
<1>4. PatchesNeverReopen'
  BY <1>1 DEF WinnerInv, PatchesNeverReopen, At
<1>5. AbsentOrderHasNoOffer' /\ OpenOrderHasNoSettledOffer' /\ OneWinner'
  BY DEF WinnerInv, AbsentOrderHasNoOffer, OpenOrderHasNoSettledOffer, OneWinner, dispatchVars
<1>6. QED
  BY <1>2, <1>3, <1>4, <1>5 DEF WinnerInv

(* The handler clauses survive a write to an existing order whose handler  *)
(* ends, or goes on matching, without the order disappearing.              *)
LEMMA WinnerHandlers ==
  ASSUME TypeOK, WinnerInv, NEW h \in Handlers, NEW r \in Requests, Goto(h, r),
         NEW o \in Orders, status[o] # "ABSENT",
         NEW s \in OrderStatus, status' = [status EXCEPT ![o] = s],
         r.at \in {"idle", "match.start", "match.count", "fallback.start"},
         r.at # "idle" => r.order = o
  PROVE  RequestsNameOrders' /\ CreationsAreNew' /\ PatchesNeverReopen'
<1>1. /\ handler' = [handler EXCEPT ![h] = r] /\ handler \in [Handlers -> Requests]
      /\ status \in [Orders -> OrderStatus \cup {"ABSENT"}]
  BY DEF Goto, TypeOK
<1>2. \A p \in Orders : status'[p] = "ABSENT" <=> status[p] = "ABSENT"
  BY <1>1 DEF OrderStatus
<1>3. \A g \in Handlers : At(g, Working) \/ At(g, {"create.ranked"}) => handler[g].order \in Orders
  BY HandlerFields DEF At, Working
<1>4. RequestsNameOrders'
  BY <1>1, <1>2, <1>3 DEF WinnerInv, RequestsNameOrders, At, Working
<1>5. CreationsAreNew'
  BY <1>1, <1>2, <1>3 DEF WinnerInv, CreationsAreNew, At
<1>6. PatchesNeverReopen'
  BY <1>1 DEF WinnerInv, PatchesNeverReopen, At
<1>7. QED
  BY <1>4, <1>5, <1>6

(* Writes that only insert offers, for an order that exists.               *)
LEMMA WinnerInsert ==
  ASSUME TypeOK, WinnerInv, NEW h \in Handlers, NEW r \in Requests, Goto(h, r),
         NEW o \in Orders, status[o] # "ABSENT", NEW S \in SUBSET Couriers,
         offer' = [offer EXCEPT ![o] = OffersAfterCreate(o, S)],
         UNCHANGED <<status, courierId>>,
         r.at \in {"idle", "match.count", "fallback.start"},
         r.at # "idle" => r.order = o
  PROVE  WinnerInv'
<1>1. status' = [status EXCEPT ![o] = status[o]] /\ status[o] \in OrderStatus
  BY DEF TypeOK
<1>2. RequestsNameOrders' /\ CreationsAreNew' /\ PatchesNeverReopen'
  BY <1>1, WinnerHandlers
<1>3. \A p \in Orders, c \in Couriers :
        offer'[p][c] # offer[p][c] => p = o /\ offer'[p][c] = "PENDING"
  BY DEF TypeOK, OffersAfterCreate
<1>4. AbsentOrderHasNoOffer' /\ OpenOrderHasNoSettledOffer' /\ OneWinner'
  BY <1>3 DEF WinnerInv, AbsentOrderHasNoOffer, OpenOrderHasNoSettledOffer, OneWinner
<1>5. QED
  BY <1>2, <1>4 DEF WinnerInv

LEMMA WinnerStep ==
  ASSUME "SEARCHING_COURIER" \notin OpsStatuses, TypeOK, WinnerInv, [Next]_vars
  PROVE  WinnerInv'
<1> USE DEF At, Working
<1>1. ASSUME NEW h \in Handlers, NEW o \in Orders, CreateRank(h, o) PROVE WinnerInv'
  <2>1. PICK S \in SUBSET Couriers :
          Goto(h, [at |-> "create.ranked", order |-> o, ranked |-> S])
    BY <1>1, MatchesAreCouriers DEF CreateRank
  <2>2. /\ handler' = [handler EXCEPT ![h] = [at |-> "create.ranked", order |-> o, ranked |-> S]]
        /\ handler \in [Handlers -> Requests]
        /\ UNCHANGED <<status, offer>>
    BY <1>1, <2>1 DEF CreateRank, Goto, TypeOK, dispatchVars
  <2>3. RequestsNameOrders'
    BY <2>2 DEF WinnerInv, RequestsNameOrders
  <2>4. CreationsAreNew'
    BY <1>1, <2>2 DEF WinnerInv, CreationsAreNew, CreateRank
  <2>5. PatchesNeverReopen'
    BY <2>2 DEF WinnerInv, PatchesNeverReopen
  <2>6. QED
    BY <2>2, <2>3, <2>4, <2>5
    DEF WinnerInv, AbsentOrderHasNoOffer, OpenOrderHasNoSettledOffer, OneWinner
<1>2. ASSUME NEW h \in Handlers, CreateCommit(h) PROVE WinnerInv'
  <2> DEFINE o == handler[h].order
             S == handler[h].ranked
             r == IF S = {} THEN [at |-> "fallback.start", order |-> o] ELSE Idle
  <2>1. o \in Orders /\ S \in SUBSET Couriers /\ handler[h].at = "create.ranked"
    BY <1>2, HandlerFields DEF CreateCommit
  <2>2. /\ status' = [status EXCEPT ![o] = "SEARCHING_COURIER"]
        /\ offer' = [offer EXCEPT ![o] = OffersAfterCreate(o, S)]
        /\ handler' = [handler EXCEPT ![h] = r]
    BY <1>2 DEF CreateCommit, Goto
  <2>3. /\ status \in [Orders -> OrderStatus \cup {"ABSENT"}]
        /\ handler \in [Handlers -> Requests]
        /\ \A g \in Handlers : At(g, Working) \/ At(g, {"create.ranked"}) => handler[g].order \in Orders
    BY HandlerFields DEF TypeOK
  <2>4. status[o] = "ABSENT" /\ \A c \in Couriers : offer[o][c] = "NONE"
    BY <2>1 DEF WinnerInv, CreationsAreNew, AbsentOrderHasNoOffer
  <2>5. \A p \in Orders, c \in Couriers :
          /\ p # o => offer'[p][c] = offer[p][c]
          /\ p = o => offer'[p][c] \in {"NONE", "PENDING"}
    BY <2>1, <2>2, <2>4 DEF TypeOK, OffersAfterCreate
  <2>6. RequestsNameOrders'
    BY <2>1, <2>2, <2>3 DEF WinnerInv, RequestsNameOrders, Idle
  <2>7. CreationsAreNew'
    BY <2>1, <2>2, <2>3 DEF WinnerInv, CreationsAreNew, Idle
  <2>8. PatchesNeverReopen'
    BY <2>2, <2>3 DEF WinnerInv, PatchesNeverReopen, Idle
  <2>9. AbsentOrderHasNoOffer' /\ OpenOrderHasNoSettledOffer' /\ OneWinner'
    BY <2>1, <2>2, <2>3, <2>5
    DEF WinnerInv, AbsentOrderHasNoOffer, OpenOrderHasNoSettledOffer, OneWinner
  <2>10. QED
    BY <2>6, <2>7, <2>8, <2>9 DEF WinnerInv
<1>3. ASSUME NEW h \in Handlers, NEW o \in Orders, RefreshOpenOrder(h, o) PROVE WinnerInv'
  BY <1>3, WinnerRead DEF RefreshOpenOrder, IsOpen, Requests, Origins
<1>4. ASSUME NEW h \in Handlers, MatchRank(h) PROVE WinnerInv'
  <2>1. PICK S \in SUBSET Couriers :
          Goto(h, [at |-> "match.ranked", order |-> handler[h].order,
                   origin |-> handler[h].origin, ranked |-> S])
    BY <1>4, MatchesAreCouriers DEF MatchRank
  <2>2. status[handler[h].order] # "ABSENT"
    BY <1>4 DEF MatchRank, WinnerInv, RequestsNameOrders
  <2>3. QED
    BY <1>4, <2>1, <2>2, HandlerFields, WinnerRead DEF MatchRank, Requests
<1>5. ASSUME NEW h \in Handlers, MatchInsert(h) PROVE WinnerInv'
  <2>1. handler[h].order \in Orders /\ handler[h].ranked \in SUBSET Couriers
    BY <1>5, HandlerFields DEF MatchInsert
  <2>2. status[handler[h].order] # "ABSENT"
    BY <1>5 DEF MatchInsert, WinnerInv, RequestsNameOrders
  <2>3. /\ offer' = [offer EXCEPT ![handler[h].order] =
                       OffersAfterCreate(handler[h].order, handler[h].ranked)]
        /\ UNCHANGED <<status, courierId>>
    BY <1>5 DEF MatchInsert
  <2>4. PICK r \in Requests :
          /\ Goto(h, r)
          /\ r.at \in {"idle", "match.count", "fallback.start"}
          /\ r.at # "idle" => r.order = handler[h].order
    BY <1>5, <2>1 DEF MatchInsert, Requests, Idle
  <2>5. QED
    BY <2>1, <2>2, <2>3, <2>4, WinnerInsert
<1>6. ASSUME NEW h \in Handlers, MatchCountPending(h) PROVE WinnerInv'
  <2>1. status[handler[h].order] # "ABSENT"
    BY <1>6 DEF MatchCountPending, WinnerInv, RequestsNameOrders
  <2>2. QED
    BY <1>6, <2>1, HandlerFields, WinnerRead DEF MatchCountPending, Requests, Idle
<1>7. ASSUME NEW h \in Handlers, FallbackRead(h) PROVE WinnerInv'
  <2>1. PICK S \in SUBSET Couriers :
          Goto(h, IF S = {} THEN Idle
                  ELSE [at |-> "fallback.read", order |-> handler[h].order, ranked |-> S])
    BY <1>7, MatchesAreCouriers DEF FallbackRead
  <2>2. status[handler[h].order] # "ABSENT"
    BY <1>7 DEF FallbackRead, WinnerInv, RequestsNameOrders
  <2>3. QED
    BY <1>7, <2>1, <2>2, HandlerFields, WinnerRead DEF FallbackRead, Requests, Idle
<1>8. ASSUME NEW h \in Handlers, FallbackInsert(h) PROVE WinnerInv'
  <2>1. handler[h].order \in Orders /\ handler[h].ranked \in SUBSET Couriers
    BY <1>8, HandlerFields DEF FallbackInsert
  <2>2. status[handler[h].order] # "ABSENT"
    BY <1>8 DEF FallbackInsert, WinnerInv, RequestsNameOrders
  <2>3. /\ offer' = [offer EXCEPT ![handler[h].order] =
                       OffersAfterCreate(handler[h].order, handler[h].ranked)]
        /\ UNCHANGED <<status, courierId>>
        /\ Goto(h, Idle) /\ Idle \in Requests
    BY <1>8 DEF FallbackInsert, Requests, Idle
  <2>4. QED
    BY <2>1, <2>2, <2>3, WinnerInsert DEF Idle
<1>9. ASSUME NEW h \in Handlers, NEW o \in Orders, NEW c \in Couriers, AcceptFindOffer(h, o, c)
      PROVE WinnerInv'
  <2>1. status[o] # "ABSENT"
    BY <1>9 DEF AcceptFindOffer, WinnerInv, AbsentOrderHasNoOffer
  <2>2. QED
    BY <1>9, <2>1, WinnerRead DEF AcceptFindOffer, Requests
<1>10. ASSUME NEW h \in Handlers, AcceptCheckFree(h) PROVE WinnerInv'
  <2>1. status[handler[h].order] # "ABSENT"
    BY <1>10 DEF AcceptCheckFree, WinnerInv, RequestsNameOrders
  <2>2. QED
    BY <1>10, <2>1, HandlerFields, WinnerRead DEF AcceptCheckFree, Requests, Idle
<1>11. ASSUME NEW h \in Handlers, AcceptCommit(h) PROVE WinnerInv'
  <2> DEFINE o == handler[h].order
             c == handler[h].courier
  <2>1. o \in Orders /\ c \in Couriers /\ Idle \in Requests /\ Goto(h, Idle)
    BY <1>11, HandlerFields DEF AcceptCommit, Requests, Idle
  <2>2. CASE status[o] = "SEARCHING_COURIER"
    <3>1. /\ status' = [status EXCEPT ![o] = "ACCEPTED"]
          /\ offer' = [offer EXCEPT ![o] = OffersAfterAccept(o, c)]
      BY <1>11, <2>2 DEF AcceptCommit
    <3>2. RequestsNameOrders' /\ CreationsAreNew' /\ PatchesNeverReopen'
      BY <2>1, <2>2, <3>1, WinnerHandlers DEF OrderStatus, Idle
    <3>3. \A d \in Couriers : offer[o][d] \notin {"ACCEPTED", "SUPERSEDED"}
      BY <2>1, <2>2 DEF WinnerInv, OpenOrderHasNoSettledOffer
    <3>4. \A p \in Orders, d \in Couriers :
            /\ p # o => offer'[p][d] = offer[p][d]
            /\ offer'[o][d] = "ACCEPTED" => d = c
      BY <2>1, <3>1, <3>3 DEF TypeOK, OffersAfterAccept
    <3>5. \A p \in Orders : p # o => status'[p] = status[p]
      BY <3>1 DEF TypeOK
    <3>6. status'[o] = "ACCEPTED"
      BY <2>1, <3>1 DEF TypeOK
    <3>7. AbsentOrderHasNoOffer' /\ OpenOrderHasNoSettledOffer' /\ OneWinner'
      BY <2>1, <3>4, <3>5, <3>6
      DEF WinnerInv, AbsentOrderHasNoOffer, OpenOrderHasNoSettledOffer, OneWinner
    <3>8. QED
      BY <3>2, <3>7 DEF WinnerInv
  <2>3. CASE status[o] # "SEARCHING_COURIER"
    BY <1>11, <2>1, <2>3, WinnerRead DEF AcceptCommit, Idle
  <2>4. QED
    BY <2>2, <2>3
<1>12. ASSUME NEW o \in Orders, NEW c \in Couriers, Decline(o, c) PROVE WinnerInv'
  <2>1. /\ UNCHANGED <<status, handler>>
        /\ offer[o][c] = "PENDING"
        /\ \A p \in Orders, d \in Couriers :
             offer'[p][d] # offer[p][d] => p = o /\ d = c /\ offer'[p][d] = "EXPIRED"
    BY <1>12 DEF Decline, TypeOK
  <2>2. RequestsNameOrders' /\ CreationsAreNew' /\ PatchesNeverReopen'
    BY <2>1 DEF WinnerInv, RequestsNameOrders, CreationsAreNew, PatchesNeverReopen
  <2>3. AbsentOrderHasNoOffer' /\ OpenOrderHasNoSettledOffer' /\ OneWinner'
    BY <2>1 DEF WinnerInv, AbsentOrderHasNoOffer, OpenOrderHasNoSettledOffer, OneWinner
  <2>4. QED
    BY <2>2, <2>3 DEF WinnerInv
<1>13. ASSUME NEW h \in Handlers, NEW o \in Orders, NEW c \in Couriers, AssignRead(h, o, c)
       PROVE WinnerInv'
  BY <1>13, WinnerRead DEF AssignRead, Requests
<1>14. ASSUME NEW h \in Handlers, AssignCheckFree(h) PROVE WinnerInv'
  <2>1. status[handler[h].order] # "ABSENT"
    BY <1>14 DEF AssignCheckFree, WinnerInv, RequestsNameOrders
  <2>2. QED
    BY <1>14, <2>1, HandlerFields, WinnerRead DEF AssignCheckFree, Requests, Idle
<1>15. ASSUME NEW h \in Handlers, AssignCommit(h) PROVE WinnerInv'
  <2> DEFINE o == handler[h].order
  <2>1. o \in Orders /\ Idle \in Requests /\ Goto(h, Idle) /\ status[o] # "ABSENT"
    BY <1>15, HandlerFields DEF AssignCommit, Requests, Idle, WinnerInv, RequestsNameOrders
  <2>2. /\ status' = [status EXCEPT ![o] = "ACCEPTED"]
        /\ offer' = [offer EXCEPT ![o] = OffersAfterSupersede(o)]
    BY <1>15 DEF AssignCommit
  <2>3. RequestsNameOrders' /\ CreationsAreNew' /\ PatchesNeverReopen'
    BY <2>1, <2>2, WinnerHandlers DEF OrderStatus, Idle
  <2>4. \A p \in Orders, d \in Couriers :
          /\ p # o => offer'[p][d] = offer[p][d] /\ status'[p] = status[p]
          /\ offer'[p][d] = "ACCEPTED" => offer[p][d] = "ACCEPTED"
    BY <2>1, <2>2 DEF TypeOK, OffersAfterSupersede
  <2>5. status'[o] = "ACCEPTED"
    BY <2>1, <2>2 DEF TypeOK
  <2>6. AbsentOrderHasNoOffer' /\ OpenOrderHasNoSettledOffer' /\ OneWinner'
    BY <2>4, <2>5 DEF WinnerInv, AbsentOrderHasNoOffer, OpenOrderHasNoSettledOffer, OneWinner
  <2>7. QED
    BY <2>3, <2>6 DEF WinnerInv
<1>16. ASSUME NEW h \in Handlers, NEW o \in Orders, NEW c \in Couriers, PatchByCourier(h, o, c)
       PROVE WinnerInv'
  BY <1>16, WinnerRead DEF PatchByCourier, AllowedNext, Requests, OrderStatus
<1>17. ASSUME NEW h \in Handlers, NEW o \in Orders, PatchByOps(h, o) PROVE WinnerInv'
  BY <1>17, DispatchAssumption, WinnerRead DEF PatchByOps, Requests
<1>18. ASSUME NEW h \in Handlers, PatchRead(h) PROVE WinnerInv'
  <2>1. status[handler[h].order] # "ABSENT" /\ handler[h].to # "SEARCHING_COURIER"
    BY <1>18 DEF PatchRead, WinnerInv, RequestsNameOrders, PatchesNeverReopen
  <2>2. QED
    BY <1>18, <2>1, HandlerFields, WinnerRead DEF PatchRead, Requests, TypeOK
<1>19. ASSUME NEW h \in Handlers, PatchCommit(h) PROVE WinnerInv'
  <2> DEFINE o == handler[h].order
             to == handler[h].to
  <2>1. /\ o \in Orders /\ to \in OrderStatus /\ to # "SEARCHING_COURIER"
        /\ status[o] # "ABSENT" /\ Idle \in Requests
    BY <1>19, HandlerFields
    DEF PatchCommit, Requests, Idle, WinnerInv, RequestsNameOrders, PatchesNeverReopen
  <2>2. status' = [status EXCEPT ![o] = to] /\ Goto(h, Idle) /\ UNCHANGED offer
    BY <1>19, <2>1 DEF PatchCommit
  <2>3. RequestsNameOrders' /\ CreationsAreNew' /\ PatchesNeverReopen'
    BY <2>1, <2>2, WinnerHandlers DEF Idle
  <2>4. \A p \in Orders : status'[p] \in {"ABSENT", "SEARCHING_COURIER"} => status'[p] = status[p]
    BY <2>1, <2>2 DEF TypeOK, OrderStatus
  <2>5. AbsentOrderHasNoOffer' /\ OpenOrderHasNoSettledOffer' /\ OneWinner'
    BY <2>2, <2>4 DEF WinnerInv, AbsentOrderHasNoOffer, OpenOrderHasNoSettledOffer, OneWinner
  <2>6. QED
    BY <2>3, <2>5 DEF WinnerInv
<1>20. ASSUME NEW h \in Handlers, Abort(h) PROVE WinnerInv'
  BY <1>20, WinnerRead DEF Abort, Requests, Idle
<1>21. ASSUME UNCHANGED <<dispatchVars, handler>> PROVE WinnerInv'
  BY <1>21 DEF WinnerInv, RequestsNameOrders, CreationsAreNew, AbsentOrderHasNoOffer,
     PatchesNeverReopen, OpenOrderHasNoSettledOffer, OneWinner, dispatchVars
<1>22. QED
  BY <1>1, <1>2, <1>3, <1>4, <1>5, <1>6, <1>7, <1>8, <1>9, <1>10, <1>11, <1>12, <1>13,
     <1>14, <1>15, <1>16, <1>17, <1>18, <1>19, <1>20, <1>21
  DEF Next, Arrive, Advance, Serve, Matching, UpdatePresence, vars, dispatchVars

(* At most one courier's offer of an order is ever marked as won, and an   *)
(* order in the search has no settled offer, if operations do not put      *)
(* orders back into the search.                                            *)
THEOREM OneWinnerAlways ==
  ASSUME "SEARCHING_COURIER" \notin OpsStatuses
  PROVE  Spec => [](OneWinner /\ OpenOrderHasNoSettledOffer)
<1>1. Init => WinnerInv
  BY WinnerInit
<1>2. TypeOK /\ WinnerInv /\ [Next]_vars => WinnerInv'
  BY WinnerStep
<1>3. WinnerInv => OneWinner /\ OpenOrderHasNoSettledOffer
  BY DEF WinnerInv
<1>4. QED
  BY <1>1, <1>2, <1>3, Typing, PTL DEF Spec

(* An order that is absent or in the search has no settled offer, under    *)
(* the same condition.                                                     *)
THEOREM OpenOrderHasNoSettledOfferAlways ==
  ASSUME "SEARCHING_COURIER" \notin OpsStatuses
  PROVE  Spec => []OpenOrderHasNoSettledOffer
<1>1. Spec => [](OneWinner /\ OpenOrderHasNoSettledOffer)
  BY OneWinnerAlways
<1>2. QED
  BY <1>1, PTL

-----------------------------------------------------------------------------
(* A delivered order has its earning.  An order under way has a courier,   *)
(* and so has one that a request is about to put under way; a request that *)
(* repeats DELIVERED saw the order delivered, hence paid.                  *)

Carried == ActiveStatuses \cup {"DELIVERED"}

CarriedHasCourier ==
  \A o \in Orders : status[o] \in Carried => courierId[o] # NoCourier

PatchToCarriedHasCourier ==
  \A h \in Handlers :
    At(h, {"patch.authorised", "patch.read"}) /\ handler[h].to \in Carried =>
      courierId[handler[h].order] # NoCourier

RepeatedDeliveryIsPaid ==
  \A h \in Handlers :
    At(h, {"patch.read"}) /\ handler[h].was = "DELIVERED" =>
      earning[handler[h].order] # NoCourier

EarningInv ==
  /\ CarriedHasCourier
  /\ PatchToCarriedHasCourier
  /\ RepeatedDeliveryIsPaid
  /\ DeliveredHasEarning

LEMMA EarningInit == Init => EarningInv
BY DEF Init, EarningInv, CarriedHasCourier, PatchToCarriedHasCourier, RepeatedDeliveryIsPaid,
       DeliveredHasEarning, At, Idle, Carried, ActiveStatuses

(* A step that writes none of status, courierId and earning.               *)
LEMMA EarningRead ==
  ASSUME TypeOK, EarningInv, NEW h \in Handlers, NEW r \in Requests, Goto(h, r),
         UNCHANGED <<status, courierId, earning>>,
         r.at \in {"patch.authorised", "patch.read"} /\ r.to \in Carried =>
           courierId[r.order] # NoCourier,
         r.at = "patch.read" /\ r.was = "DELIVERED" => earning[r.order] # NoCourier
  PROVE  EarningInv'
<1>1. handler' = [handler EXCEPT ![h] = r] /\ handler \in [Handlers -> Requests]
  BY DEF Goto, TypeOK
<1>2. PatchToCarriedHasCourier'
  BY <1>1 DEF EarningInv, PatchToCarriedHasCourier, At
<1>3. RepeatedDeliveryIsPaid'
  BY <1>1 DEF EarningInv, RepeatedDeliveryIsPaid, At
<1>4. CarriedHasCourier' /\ DeliveredHasEarning'
  BY DEF EarningInv, CarriedHasCourier, DeliveredHasEarning
<1>5. QED
  BY <1>2, <1>3, <1>4 DEF EarningInv

(* A step that gives an order a status, and possibly a courier, while its  *)
(* handler leaves the status request, if it was in one.                    *)
LEMMA EarningWrite ==
  ASSUME TypeOK, EarningInv, NEW h \in Handlers, NEW r \in Requests, Goto(h, r),
         r.at \notin {"patch.authorised", "patch.read"},
         NEW o \in Orders, NEW s \in OrderStatus, NEW c \in Couriers \cup {NoCourier},
         NEW e \in Couriers \cup {NoCourier},
         status' = [status EXCEPT ![o] = s],
         courierId' = [courierId EXCEPT ![o] = c],
         earning' = [earning EXCEPT ![o] = e],
         courierId[o] # NoCourier => c # NoCourier,
         earning[o] # NoCourier => e # NoCourier,
         s \in Carried => c # NoCourier,
         s = "DELIVERED" => e # NoCourier
  PROVE  EarningInv'
<1>1. /\ handler' = [handler EXCEPT ![h] = r] /\ handler \in [Handlers -> Requests]
      /\ \A g \in Handlers : At(g, {"patch.authorised", "patch.read"}) => handler[g].order \in Orders
  BY HandlerFields DEF Goto, TypeOK, At
<1>2. \A p \in Orders :
        /\ p # o => status'[p] = status[p] /\ courierId'[p] = courierId[p] /\ earning'[p] = earning[p]
        /\ status'[o] = s /\ courierId'[o] = c /\ earning'[o] = e
  BY DEF TypeOK
<1>3. PatchToCarriedHasCourier'
  BY <1>1, <1>2 DEF EarningInv, PatchToCarriedHasCourier, At
<1>4. RepeatedDeliveryIsPaid'
  BY <1>1, <1>2 DEF EarningInv, RepeatedDeliveryIsPaid, At
<1>5. CarriedHasCourier' /\ DeliveredHasEarning'
  BY <1>2 DEF EarningInv, CarriedHasCourier, DeliveredHasEarning
<1>6. QED
  BY <1>3, <1>4, <1>5 DEF EarningInv

LEMMA EarningStep ==
  ASSUME OpsStatuses \cap (ActiveStatuses \cup {"DELIVERED"}) = {},
         TypeOK, EarningInv, [Next]_vars
  PROVE  EarningInv'
<1> USE DEF At
<1>1. ASSUME NEW h \in Handlers, NEW o \in Orders, CreateRank(h, o) PROVE EarningInv'
  <2>1. PICK S \in SUBSET Couriers :
          Goto(h, [at |-> "create.ranked", order |-> o, ranked |-> S])
    BY <1>1, MatchesAreCouriers DEF CreateRank
  <2>2. QED
    BY <1>1, <2>1, EarningRead DEF CreateRank, Requests, dispatchVars, closingVars
<1>2. ASSUME NEW h \in Handlers, CreateCommit(h) PROVE EarningInv'
  <2> DEFINE o == handler[h].order
  <2>1. o \in Orders /\ "SEARCHING_COURIER" \in OrderStatus \ Carried
    BY <1>2, HandlerFields DEF CreateCommit, OrderStatus, Carried, ActiveStatuses
  <2>2. PICK r \in Requests : Goto(h, r) /\ r.at \notin {"patch.authorised", "patch.read"}
    BY <1>2, <2>1 DEF CreateCommit, Requests, Idle
  <2>3. /\ status' = [status EXCEPT ![o] = "SEARCHING_COURIER"]
        /\ courierId' = [courierId EXCEPT ![o] = courierId[o]]
        /\ earning' = [earning EXCEPT ![o] = earning[o]]
    BY <1>2, <2>1 DEF CreateCommit, TypeOK, closingVars
  <2>4. courierId[o] \in Couriers \cup {NoCourier} /\ earning[o] \in Couriers \cup {NoCourier}
    BY <2>1 DEF TypeOK
  <2>5. "SEARCHING_COURIER" # "DELIVERED"
    OBVIOUS
  <2>6. QED
    BY <2>1, <2>2, <2>3, <2>4, <2>5, EarningWrite
<1>3. ASSUME NEW h \in Handlers, NEW o \in Orders, RefreshOpenOrder(h, o) PROVE EarningInv'
  BY <1>3, EarningRead DEF RefreshOpenOrder, Requests, Origins, dispatchVars, closingVars
<1>4. ASSUME NEW h \in Handlers, MatchRank(h) PROVE EarningInv'
  <2>1. PICK S \in SUBSET Couriers :
          Goto(h, [at |-> "match.ranked", order |-> handler[h].order,
                   origin |-> handler[h].origin, ranked |-> S])
    BY <1>4, MatchesAreCouriers DEF MatchRank
  <2>2. QED
    BY <1>4, <2>1, HandlerFields, EarningRead DEF MatchRank, Requests, Idle, dispatchVars, closingVars
<1>5. ASSUME NEW h \in Handlers, FallbackRead(h) PROVE EarningInv'
  <2>1. PICK S \in SUBSET Couriers :
          Goto(h, IF S = {} THEN Idle
                  ELSE [at |-> "fallback.read", order |-> handler[h].order, ranked |-> S])
    BY <1>5, MatchesAreCouriers DEF FallbackRead
  <2>2. QED
    BY <1>5, <2>1, HandlerFields, EarningRead DEF FallbackRead, Requests, Idle, dispatchVars, closingVars
<1>6. ASSUME NEW h \in Handlers, MatchInsert(h) PROVE EarningInv'
  BY <1>6, HandlerFields, EarningRead DEF MatchInsert, Requests, Idle, dispatchVars, closingVars
<1>7. ASSUME NEW h \in Handlers, FallbackInsert(h) PROVE EarningInv'
  BY <1>7, HandlerFields, EarningRead DEF FallbackInsert, Requests, Idle, dispatchVars, closingVars
<1>8. ASSUME NEW h \in Handlers, MatchCountPending(h) PROVE EarningInv'
  BY <1>8, HandlerFields, EarningRead DEF MatchCountPending, Requests, Idle, dispatchVars, closingVars
<1>9. ASSUME NEW h \in Handlers, AcceptCheckFree(h) PROVE EarningInv'
  BY <1>9, HandlerFields, EarningRead DEF AcceptCheckFree, Requests, Idle, dispatchVars, closingVars
<1>10. ASSUME NEW h \in Handlers, AssignCheckFree(h) PROVE EarningInv'
  BY <1>10, HandlerFields, EarningRead DEF AssignCheckFree, Requests, Idle, dispatchVars, closingVars
<1>11. ASSUME NEW h \in Handlers, Abort(h) PROVE EarningInv'
  BY <1>11, HandlerFields, EarningRead DEF Abort, Requests, Idle, dispatchVars, closingVars
<1>12. ASSUME NEW h \in Handlers, NEW o \in Orders, NEW c \in Couriers, AcceptFindOffer(h, o, c)
      PROVE EarningInv'
  BY <1>12, EarningRead DEF AcceptFindOffer, Requests, dispatchVars, closingVars
<1>13. ASSUME NEW h \in Handlers, NEW o \in Orders, NEW c \in Couriers, AssignRead(h, o, c)
      PROVE EarningInv'
  BY <1>13, EarningRead DEF AssignRead, Requests, dispatchVars, closingVars
<1>14. ASSUME NEW h \in Handlers, AcceptCommit(h) PROVE EarningInv'
  <2> DEFINE o == handler[h].order
             c == handler[h].courier
  <2>1. o \in Orders /\ c \in Couriers /\ Goto(h, Idle) /\ Idle \in Requests /\ Idle.at \notin {"patch.authorised", "patch.read"}
    BY <1>14, HandlerFields DEF AcceptCommit, Requests, Idle
  <2>2. CASE status[o] = "SEARCHING_COURIER"
    <3>1. /\ status' = [status EXCEPT ![o] = "ACCEPTED"]
          /\ courierId' = [courierId EXCEPT ![o] = c]
          /\ earning' = [earning EXCEPT ![o] = earning[o]]
          /\ earning[o] \in Couriers \cup {NoCourier} /\ c \in Couriers \cup {NoCourier}
      BY <1>14, <2>1, <2>2 DEF AcceptCommit, TypeOK, closingVars
    <3>2. c # NoCourier /\ "ACCEPTED" \in OrderStatus /\ "ACCEPTED" # "DELIVERED"
      BY <2>1, DispatchAssumption DEF OrderStatus
    <3>3. QED
      BY <2>1, <3>1, <3>2, EarningWrite
  <2>3. CASE status[o] # "SEARCHING_COURIER"
    BY <1>14, <2>1, <2>3, EarningRead DEF AcceptCommit, dispatchVars, closingVars
  <2>4. QED
    BY <2>2, <2>3
<1>15. ASSUME NEW h \in Handlers, AssignCommit(h) PROVE EarningInv'
  <2> DEFINE o == handler[h].order
             c == handler[h].courier
  <2>1. o \in Orders /\ c \in Couriers /\ Goto(h, Idle) /\ Idle \in Requests /\ Idle.at \notin {"patch.authorised", "patch.read"}
    BY <1>15, HandlerFields DEF AssignCommit, Requests, Idle
  <2>2. /\ status' = [status EXCEPT ![o] = "ACCEPTED"]
        /\ courierId' = [courierId EXCEPT ![o] = c]
        /\ earning' = [earning EXCEPT ![o] = earning[o]]
        /\ earning[o] \in Couriers \cup {NoCourier} /\ c \in Couriers \cup {NoCourier}
    BY <1>15, <2>1 DEF AssignCommit, TypeOK, closingVars
  <2>3. c # NoCourier /\ "ACCEPTED" \in OrderStatus /\ "ACCEPTED" # "DELIVERED"
    BY <2>1, DispatchAssumption DEF OrderStatus
  <2>4. QED
    BY <2>1, <2>2, <2>3, EarningWrite
<1>16. ASSUME NEW o \in Orders, NEW c \in Couriers, Decline(o, c) PROVE EarningInv'
  BY <1>16 DEF Decline, EarningInv, CarriedHasCourier, PatchToCarriedHasCourier,
     RepeatedDeliveryIsPaid, DeliveredHasEarning, closingVars
<1>17. ASSUME NEW h \in Handlers, NEW o \in Orders, NEW c \in Couriers, PatchByCourier(h, o, c)
      PROVE EarningInv'
  <2>1. PICK to \in OrderStatus :
          Goto(h, [at |-> "patch.authorised", order |-> o, to |-> to])
    BY <1>17 DEF PatchByCourier, AllowedNext, OrderStatus
  <2>2. courierId[o] # NoCourier
    BY <1>17, DispatchAssumption DEF PatchByCourier
  <2>3. QED
    BY <1>17, <2>1, <2>2, EarningRead DEF PatchByCourier, Requests, dispatchVars, closingVars
<1>18. ASSUME NEW h \in Handlers, NEW o \in Orders, PatchByOps(h, o) PROVE EarningInv'
  <2>1. PICK to \in OpsStatuses :
          Goto(h, [at |-> "patch.authorised", order |-> o, to |-> to])
    BY <1>18 DEF PatchByOps
  <2>2. to \in OrderStatus /\ to \notin Carried
    BY <2>1, DispatchAssumption DEF Carried
  <2>3. QED
    BY <1>18, <2>1, <2>2, EarningRead DEF PatchByOps, Requests, dispatchVars, closingVars
<1>19. ASSUME NEW h \in Handlers, PatchRead(h) PROVE EarningInv'
  <2> DEFINE o == handler[h].order
             r == [at |-> "patch.read", order |-> o, to |-> handler[h].to,
                   was |-> status[o], whose |-> courierId[o]]
  <2>1. o \in Orders /\ handler[h].at = "patch.authorised" /\ r \in Requests /\ Goto(h, r)
    BY <1>19, HandlerFields DEF PatchRead, Requests, TypeOK
  <2>2. r.to \in Carried => courierId[o] # NoCourier
    BY <2>1 DEF EarningInv, PatchToCarriedHasCourier
  <2>3. r.was = "DELIVERED" => earning[o] # NoCourier
    BY <2>1 DEF EarningInv, DeliveredHasEarning
  <2>4. QED
    BY <1>19, <2>1, <2>2, <2>3, EarningRead DEF PatchRead, dispatchVars, closingVars
<1>20. ASSUME NEW h \in Handlers, PatchCommit(h) PROVE EarningInv'
  <2> DEFINE o == handler[h].order
             to == handler[h].to
  <2>1. o \in Orders /\ to \in OrderStatus /\ handler[h].at = "patch.read"
    BY <1>20, HandlerFields DEF PatchCommit
  <2>2. PICK r \in Requests : Goto(h, r) /\ r.at \notin {"patch.authorised", "patch.read"}
    BY <1>20, <2>1 DEF PatchCommit, Requests, Idle, Origins
  <2>3. /\ to \in Carried => courierId[o] # NoCourier
        /\ handler[h].was = "DELIVERED" => earning[o] # NoCourier
    BY <2>1 DEF EarningInv, PatchToCarriedHasCourier, RepeatedDeliveryIsPaid
  <2>4. courierId[o] \in Couriers \cup {NoCourier} /\ earning[o] \in Couriers \cup {NoCourier}
    BY <2>1 DEF TypeOK
  <2>5. PICK e \in Couriers \cup {NoCourier} :
          /\ earning' = [earning EXCEPT ![o] = e]
          /\ earning[o] # NoCourier => e # NoCourier
          /\ to = "DELIVERED" => e # NoCourier
    <3>1. CASE to = "DELIVERED" /\ handler[h].was # "DELIVERED"
      <4>1. earning' = [earning EXCEPT ![o] = EarningAfterDelivery(o)]
        BY <1>20, <3>1 DEF PatchCommit
      <4>2. QED
        BY <2>3, <2>4, <3>1, <4>1 DEF EarningAfterDelivery, Carried
    <3>2. CASE ~(to = "DELIVERED" /\ handler[h].was # "DELIVERED")
      <4>1. earning' = earning
        BY <1>20, <3>2 DEF PatchCommit
      <4>2. earning' = [earning EXCEPT ![o] = earning[o]]
        BY <2>1, <4>1 DEF TypeOK
      <4>3. QED
        BY <2>3, <2>4, <3>2, <4>2
    <3>3. QED
      BY <3>1, <3>2
  <2>6. /\ status' = [status EXCEPT ![o] = to]
        /\ courierId' = [courierId EXCEPT ![o] = courierId[o]]
    BY <1>20, <2>1 DEF PatchCommit, TypeOK
  <2>7. /\ to \in Carried => courierId[o] # NoCourier
        /\ to = "DELIVERED" => e # NoCourier
        /\ earning[o] # NoCourier => e # NoCourier
    BY <2>3, <2>5
  <2> HIDE DEF o, to
  <2>8. QED
    BY <2>1, <2>2, <2>4, <2>5, <2>6, <2>7, EarningWrite
<1>21. ASSUME UNCHANGED <<dispatchVars, closingVars, handler>> PROVE EarningInv'
  BY <1>21 DEF EarningInv, CarriedHasCourier, PatchToCarriedHasCourier,
     RepeatedDeliveryIsPaid, DeliveredHasEarning, dispatchVars, closingVars
<1>22. QED
  BY <1>1, <1>2, <1>3, <1>4, <1>5, <1>6, <1>7, <1>8, <1>9, <1>10, <1>11, <1>12, <1>13, <1>14, <1>15, <1>16, <1>17, <1>18, <1>19, <1>20, <1>21
  DEF Next, Arrive, Advance, Serve, Matching, UpdatePresence, vars, dispatchVars, closingVars

(* A delivered order has its earning row, if operations themselves do not  *)
(* move orders into an active status or to delivered.                      *)
THEOREM DeliveredHasEarningAlways ==
  ASSUME OpsStatuses \cap (ActiveStatuses \cup {"DELIVERED"}) = {}
  PROVE  Spec => []DeliveredHasEarning
<1>1. Init => EarningInv
  BY EarningInit
<1>2. TypeOK /\ EarningInv /\ [Next]_vars => EarningInv'
  BY EarningStep
<1>3. EarningInv => DeliveredHasEarning
  BY DEF EarningInv
<1>4. QED
  BY <1>1, <1>2, <1>3, Typing, PTL DEF Spec

(* An order's earning never changes hands, whatever operations do.         *)
THEOREM EarningStaysAlways == Spec => EarningStays
<1>1. ASSUME TypeOK, [Next]_vars, NEW o \in Orders, earning[o] # NoCourier
      PROVE  earning'[o] = earning[o]
  <2>1. ASSUME NEW h \in Handlers, PatchCommit(h) PROVE earning'[o] = earning[o]
    BY <1>1, <2>1 DEF PatchCommit, EarningAfterDelivery, TypeOK
  <2>2. ASSUME UNCHANGED earning PROVE earning'[o] = earning[o]
    BY <2>2
  <2>3. QED
    BY <1>1, <2>1, <2>2
    DEF Next, Arrive, Advance, Serve, Matching, vars, closingVars, CreateRank, CreateCommit,
        RefreshOpenOrder, MatchRank, MatchInsert, MatchCountPending, FallbackRead,
        FallbackInsert, AcceptFindOffer, AcceptCheckFree, AcceptCommit, Decline,
        AssignRead, AssignCheckFree, AssignCommit, PatchByCourier, PatchByOps,
        PatchRead, UpdatePresence, Abort
<1>2. TypeOK /\ [Next]_vars =>
        [\A o \in Orders : earning[o] # NoCourier => earning'[o] = earning[o]]_vars
  BY <1>1
<1>3. QED
  BY <1>2, Typing, PTL DEF Spec, EarningStays

-----------------------------------------------------------------------------
(* The contract.  Where couriers serve themselves and operations only      *)
(* cancel, an order without a courier is absent, in the search or          *)
(* cancelled; one with a courier keeps him, and its requests move it along *)
(* its way or cancel it.                                                   *)

OpenHasNoCourier ==
  \A o \in Orders : status[o] \in {"ABSENT", "SEARCHING_COURIER"} => courierId[o] = NoCourier

PatchesCarryOrCancel ==
  \A h \in Handlers : At(h, {"patch.authorised", "patch.read"}) =>
    handler[h].to \in Carried \cup {"CANCELLED"}

NobodyAssigns == \A h \in Handlers : ~At(h, {"assign.read", "assign.free"})

ContractInv == OpenHasNoCourier /\ PatchesCarryOrCancel /\ NobodyAssigns

LEMMA ContractInit == Init => ContractInv
BY DEF Init, ContractInv, OpenHasNoCourier, PatchesCarryOrCancel, NobodyAssigns, At, Idle

LEMMA ContractRead ==
  ASSUME TypeOK, ContractInv, NEW h \in Handlers, NEW r \in Requests, Goto(h, r),
         UNCHANGED <<status, courierId>>,
         r.at \in {"patch.authorised", "patch.read"} => r.to \in Carried \cup {"CANCELLED"},
         r.at \notin {"assign.read", "assign.free"}
  PROVE  ContractInv'
<1>1. handler' = [handler EXCEPT ![h] = r] /\ handler \in [Handlers -> Requests]
  BY DEF Goto, TypeOK
<1>2. QED
  BY <1>1 DEF ContractInv, OpenHasNoCourier, PatchesCarryOrCancel, NobodyAssigns, At

(* A step that gives one order a status, and perhaps a courier.            *)
LEMMA ContractWrite ==
  ASSUME TypeOK, ContractInv, NEW h \in Handlers, NEW r \in Requests, Goto(h, r),
         r.at \in {"idle", "match.start", "fallback.start"},
         NEW o \in Orders, NEW s \in OrderStatus, NEW c \in Couriers \cup {NoCourier},
         status' = [status EXCEPT ![o] = s],
         courierId' = [courierId EXCEPT ![o] = c],
         s = "SEARCHING_COURIER" => c = NoCourier
  PROVE  ContractInv'
<1>1. handler' = [handler EXCEPT ![h] = r] /\ handler \in [Handlers -> Requests]
  BY DEF Goto, TypeOK
<1>2. /\ status'[o] = s
      /\ courierId'[o] = c
      /\ \A p \in Orders : p # o => status'[p] = status[p] /\ courierId'[p] = courierId[p]
  BY DEF TypeOK
<1>3. OpenHasNoCourier'
  BY <1>2 DEF ContractInv, OpenHasNoCourier, OrderStatus
<1>4. PatchesCarryOrCancel' /\ NobodyAssigns'
  BY <1>1 DEF ContractInv, PatchesCarryOrCancel, NobodyAssigns, At
<1>5. QED
  BY <1>3, <1>4 DEF ContractInv

SelfService == ManualAssign = FALSE /\ OpsStatuses \subseteq {"CANCELLED"}

(* Which steps write an order's status, courier or earning.                *)
Writes(h) == CreateCommit(h) \/ AcceptCommit(h) \/ PatchCommit(h)

(* Every other step of the server leaves them alone and, where couriers    *)
(* serve themselves, turns its handler to nothing the contract forbids.    *)
LEMMA ContractReads ==
  ASSUME SelfService, TypeOK, ContractInv, [Next]_vars,
         \A h \in Handlers : ~Writes(h)
  PROVE  UNCHANGED <<status, courierId, earning>> /\ ContractInv'
<1> USE DEF At
<1>1. ASSUME NEW h \in Handlers, AssignCommit(h) \/ AssignCheckFree(h) PROVE FALSE
  BY <1>1 DEF AssignCommit, AssignCheckFree, ContractInv, NobodyAssigns
<1>2. ASSUME NEW h \in Handlers, NEW o \in Orders, NEW c \in Couriers, AssignRead(h, o, c)
      PROVE  FALSE
  BY <1>2 DEF AssignRead, SelfService
<1>3. UNCHANGED <<status, courierId, earning>>
  BY <1>1, <1>2 DEF Writes, Next, Arrive, Advance, Serve, Matching, vars, dispatchVars, closingVars,
     CreateRank, RefreshOpenOrder, MatchRank, MatchInsert, MatchCountPending, FallbackRead,
     FallbackInsert, AcceptFindOffer, AcceptCheckFree, Decline, PatchByCourier, PatchByOps,
     PatchRead, UpdatePresence, Abort
<1>4. ASSUME NEW h \in Handlers, NEW r \in Requests, Goto(h, r),
             r.at \notin {"patch.authorised", "patch.read", "assign.read", "assign.free"}
      PROVE  ContractInv'
  BY <1>3, <1>4, ContractRead
<1>5. ASSUME NEW h \in Handlers, NEW o \in Orders, CreateRank(h, o) PROVE ContractInv'
  <2>1. PICK S \in SUBSET Couriers :
          Goto(h, [at |-> "create.ranked", order |-> o, ranked |-> S])
    BY <1>5, MatchesAreCouriers DEF CreateRank
  <2>2. QED
    BY <1>4, <2>1 DEF Requests
<1>6. ASSUME NEW h \in Handlers, NEW o \in Orders, RefreshOpenOrder(h, o) PROVE ContractInv'
  BY <1>4, <1>6 DEF RefreshOpenOrder, Requests, Origins
<1>7. ASSUME NEW h \in Handlers, MatchRank(h) PROVE ContractInv'
  <2>1. PICK S \in SUBSET Couriers :
          Goto(h, [at |-> "match.ranked", order |-> handler[h].order,
                   origin |-> handler[h].origin, ranked |-> S])
    BY <1>7, MatchesAreCouriers DEF MatchRank
  <2>2. QED
    BY <1>4, <1>7, <2>1, HandlerFields DEF MatchRank, Requests
<1>8. ASSUME NEW h \in Handlers, FallbackRead(h) PROVE ContractInv'
  <2>1. PICK S \in SUBSET Couriers :
          Goto(h, IF S = {} THEN Idle
                  ELSE [at |-> "fallback.read", order |-> handler[h].order, ranked |-> S])
    BY <1>8, MatchesAreCouriers DEF FallbackRead
  <2>2. QED
    BY <1>4, <1>8, <2>1, HandlerFields DEF FallbackRead, Requests, Idle
<1>9. ASSUME NEW h \in Handlers, MatchInsert(h) \/ FallbackInsert(h) PROVE ContractInv'
  BY <1>4, <1>9, HandlerFields DEF MatchInsert, FallbackInsert, Requests, Idle
<1>10. ASSUME NEW h \in Handlers, MatchCountPending(h) \/ AcceptCheckFree(h) \/ Abort(h)
       PROVE  ContractInv'
  BY <1>4, <1>10, HandlerFields DEF MatchCountPending, AcceptCheckFree, Abort, Requests, Idle
<1>11. ASSUME NEW h \in Handlers, NEW o \in Orders, NEW c \in Couriers, AcceptFindOffer(h, o, c)
       PROVE  ContractInv'
  BY <1>4, <1>11 DEF AcceptFindOffer, Requests
<1>12. ASSUME NEW h \in Handlers, NEW o \in Orders, NEW c \in Couriers, PatchByCourier(h, o, c)
       PROVE  ContractInv'
  <2>1. PICK to \in Carried :
          Goto(h, [at |-> "patch.authorised", order |-> o, to |-> to])
    BY <1>12 DEF PatchByCourier, AllowedNext, Carried, ActiveStatuses
  <2>2. to \in OrderStatus
    BY DEF Carried, ActiveStatuses, OrderStatus
  <2>3. QED
    BY <1>3, <2>1, <2>2, ContractRead DEF Requests
<1>13. ASSUME NEW h \in Handlers, NEW o \in Orders, PatchByOps(h, o) PROVE ContractInv'
  <2>1. Goto(h, [at |-> "patch.authorised", order |-> o, to |-> "CANCELLED"])
    BY <1>13 DEF PatchByOps, SelfService
  <2>2. QED
    BY <1>3, <2>1, ContractRead DEF Requests, OrderStatus
<1>14. ASSUME NEW h \in Handlers, PatchRead(h) PROVE ContractInv'
  <2> DEFINE r == [at |-> "patch.read", order |-> handler[h].order, to |-> handler[h].to,
                   was |-> status[handler[h].order], whose |-> courierId[handler[h].order]]
  <2>1. /\ handler[h].at = "patch.authorised"
        /\ r \in Requests
        /\ Goto(h, r)
    BY <1>14, HandlerFields DEF PatchRead, Requests, TypeOK
  <2>2. r.to \in Carried \cup {"CANCELLED"}
    BY <2>1 DEF ContractInv, PatchesCarryOrCancel
  <2>3. QED
    BY <1>3, <2>1, <2>2, ContractRead
<1>15. ASSUME UNCHANGED handler PROVE ContractInv'
  BY <1>3, <1>15 DEF ContractInv, OpenHasNoCourier, PatchesCarryOrCancel, NobodyAssigns
<1>16. ASSUME NEW h \in Handlers, Advance(h) PROVE ContractInv'
  BY <1>1, <1>7, <1>8, <1>9, <1>10, <1>14, <1>16 DEF Writes, Advance, Serve, Matching
<1>17. ASSUME NEW o \in Orders, NEW c \in Couriers, Decline(o, c) PROVE ContractInv'
  BY <1>15, <1>17 DEF Decline
<1>18. ASSUME NEW c \in Couriers, UpdatePresence(c) PROVE ContractInv'
  BY <1>15, <1>18 DEF UpdatePresence
<1>19. CASE UNCHANGED vars
  BY <1>15, <1>19 DEF vars
<1>20. QED
  BY <1>2, <1>3, <1>5, <1>6, <1>11, <1>12, <1>13, <1>16, <1>17, <1>18, <1>19 DEF Next, Arrive

(* The writes keep the invariant too.                                      *)
LEMMA ContractWrites ==
  ASSUME TypeOK, ContractInv, WinnerInv, EarningInv, NEW h \in Handlers, Writes(h)
  PROVE  ContractInv'
<1> DEFINE o == handler[h].order
<1>1. CASE CreateCommit(h)
  <2>1. /\ o \in Orders
        /\ status[o] = "ABSENT"
        /\ "SEARCHING_COURIER" \in OrderStatus
    BY <1>1, HandlerFields DEF CreateCommit, WinnerInv, CreationsAreNew, At, OrderStatus
  <2>2. courierId[o] = NoCourier
    BY <2>1 DEF ContractInv, OpenHasNoCourier
  <2>3. PICK r \in Requests : Goto(h, r) /\ r.at \in {"idle", "match.start", "fallback.start"}
    BY <1>1, <2>1 DEF CreateCommit, Requests, Idle
  <2>4. /\ status' = [status EXCEPT ![o] = "SEARCHING_COURIER"]
        /\ courierId' = [courierId EXCEPT ![o] = NoCourier]
    BY <1>1, <2>1, <2>2 DEF CreateCommit, TypeOK
  <2> HIDE DEF o
  <2>5. QED
    BY <2>1, <2>3, <2>4, ContractWrite
<1>2. CASE AcceptCommit(h)
  <2>1. /\ o \in Orders
        /\ handler[h].courier \in Couriers
        /\ Goto(h, Idle)
        /\ Idle \in Requests
        /\ Idle.at = "idle"
        /\ "ACCEPTED" \in OrderStatus
    BY <1>2, HandlerFields DEF AcceptCommit, Requests, Idle, OrderStatus
  <2>2. CASE status[o] = "SEARCHING_COURIER"
    <3>1. /\ status' = [status EXCEPT ![o] = "ACCEPTED"]
          /\ courierId' = [courierId EXCEPT ![o] = handler[h].courier]
      BY <1>2, <2>2 DEF AcceptCommit
    <3>2. PICK c \in Couriers \cup {NoCourier} : c = handler[h].courier
      BY <2>1
    <3> HIDE DEF o
    <3>3. QED
      BY <2>1, <3>1, <3>2, ContractWrite
  <2>3. CASE status[o] # "SEARCHING_COURIER"
    BY <1>2, <2>1, <2>3, ContractRead DEF AcceptCommit, dispatchVars
  <2>4. QED
    BY <2>2, <2>3
<1>3. CASE PatchCommit(h)
  <2>1. /\ o \in Orders
        /\ handler[h].to \in Carried \cup {"CANCELLED"}
        /\ handler[h].to \in OrderStatus
    BY <1>3, HandlerFields DEF PatchCommit, ContractInv, PatchesCarryOrCancel, At
  <2>2. PICK s \in OrderStatus : s = handler[h].to
    BY <2>1
  <2>3. s # "SEARCHING_COURIER"
    BY <2>1, <2>2 DEF Carried, ActiveStatuses
  <2>4. PICK r \in Requests : Goto(h, r) /\ r.at \in {"idle", "match.start", "fallback.start"}
    BY <1>3, <2>1 DEF PatchCommit, Requests, Idle, Origins
  <2>5. courierId[o] \in Couriers \cup {NoCourier}
    BY <2>1 DEF TypeOK
  <2>6. /\ status' = [status EXCEPT ![o] = s]
        /\ courierId' = [courierId EXCEPT ![o] = courierId[o]]
    BY <1>3, <2>1, <2>2 DEF PatchCommit, TypeOK
  <2>7. PICK c \in Couriers \cup {NoCourier} : c = courierId[o]
    BY <2>5
  <2> HIDE DEF o
  <2>8. QED
    BY <2>1, <2>3, <2>4, <2>6, <2>7, ContractWrite
<1>4. QED
  BY <1>1, <1>2, <1>3 DEF Writes

(* How a change of one order's row looks to the contract.                  *)
PhaseOf(s, c) ==
  IF s = "ABSENT" THEN "absent"
  ELSE IF c # NoCourier THEN "claimed"
  ELSE IF s = "SEARCHING_COURIER" THEN "open" ELSE "withdrawn"

LEMMA PhaseChanges ==
  ASSUME TypeOK, NEW o \in Orders, NEW s, NEW c,
         status' = [status EXCEPT ![o] = s],
         courierId' = [courierId EXCEPT ![o] = c]
  PROVE  ContractPhase' = [ContractPhase EXCEPT ![o] = PhaseOf(s, c)]
<1>1. \A p \in Orders :
        /\ p # o => status'[p] = status[p] /\ courierId'[p] = courierId[p]
        /\ status'[o] = s /\ courierId'[o] = c
  BY DEF TypeOK
<1>2. /\ ContractPhase  = [p \in Orders |-> PhaseOf(status[p], courierId[p])]
      /\ ContractPhase' = [p \in Orders |-> PhaseOf(status'[p], courierId'[p])]
  BY DEF ContractPhase, PhaseOf
<1>3. QED
  BY <1>1, <1>2

(* Every write is a step of the contract or invisible to it.               *)
LEMMA WritesHonourContract ==
  ASSUME TypeOK, ContractInv, WinnerInv, EarningInv, NEW h \in Handlers, Writes(h)
  PROVE  [Contract!Next]_(Contract!vars)
<1>0. PICK o : o = handler[h].order
  OBVIOUS
<1>1. \A p \in Orders : ContractPhase[p] = PhaseOf(status[p], courierId[p])
  BY DEF ContractPhase, PhaseOf
<1>2. CASE CreateCommit(h)
  <2>1. /\ o \in Orders
        /\ status[o] = "ABSENT"
    BY <1>0, <1>2, HandlerFields DEF CreateCommit, WinnerInv, CreationsAreNew, At
  <2>2. courierId[o] = NoCourier
    BY <2>1 DEF ContractInv, OpenHasNoCourier
  <2>3. /\ status' = [status EXCEPT ![o] = "SEARCHING_COURIER"]
        /\ courierId' = courierId
        /\ earning' = earning
    BY <1>0, <1>2 DEF CreateCommit, closingVars
  <2>4. courierId' = [courierId EXCEPT ![o] = NoCourier]
    BY <2>1, <2>2, <2>3 DEF TypeOK
  <2>5. ContractPhase' = [ContractPhase EXCEPT ![o] = PhaseOf("SEARCHING_COURIER", NoCourier)]
    BY <2>1, <2>3, <2>4, PhaseChanges
  <2>6. Contract!Publish(o)
    BY <1>1, <2>1, <2>3, <2>5 DEF Contract!Publish, PhaseOf
  <2>7. QED
    BY <2>1, <2>6 DEF Contract!Next
<1>3. CASE AcceptCommit(h)
  <2>1. PICK c \in Couriers : c = handler[h].courier
    BY <1>3, HandlerFields DEF AcceptCommit
  <2>2. o \in Orders /\ c # NoCourier
    BY <1>0, <1>3, HandlerFields, DispatchAssumption DEF AcceptCommit
  <2>3. CASE status[o] = "SEARCHING_COURIER"
    <3>1. courierId[o] = NoCourier
      BY <2>2, <2>3 DEF ContractInv, OpenHasNoCourier
    <3>2. /\ status' = [status EXCEPT ![o] = "ACCEPTED"]
          /\ courierId' = [courierId EXCEPT ![o] = c]
          /\ earning' = earning
      BY <1>0, <1>3, <2>1, <2>3 DEF AcceptCommit, closingVars
    <3>3. ContractPhase' = [ContractPhase EXCEPT ![o] = PhaseOf("ACCEPTED", c)]
      BY <2>2, <3>2, PhaseChanges
    <3>4. Contract!Claim(o, c)
      BY <1>1, <2>2, <2>3, <3>1, <3>2, <3>3 DEF Contract!Claim, PhaseOf
    <3>5. QED
      BY <2>2, <3>4 DEF Contract!Next
  <2>4. CASE status[o] # "SEARCHING_COURIER"
    <3>1. UNCHANGED <<status, courierId, earning>>
      BY <1>0, <1>3, <2>4 DEF AcceptCommit, dispatchVars, closingVars
    <3>2. QED
      BY <3>1 DEF Contract!vars, ContractPhase
  <2>5. QED
    BY <2>3, <2>4
<1>4. CASE PatchCommit(h)
  <2>1. PICK s \in Carried \cup {"CANCELLED"} : s = handler[h].to
    BY <1>4 DEF PatchCommit, ContractInv, PatchesCarryOrCancel, At
  <2>2. /\ o \in Orders
        /\ status[o] # "ABSENT"
        /\ s \in Carried => courierId[o] # NoCourier
        /\ s \notin {"ABSENT", "SEARCHING_COURIER"}
    BY <1>0, <1>4, <2>1, HandlerFields
       DEF PatchCommit, WinnerInv, RequestsNameOrders, EarningInv, PatchToCarriedHasCourier,
           At, Working, Carried, ActiveStatuses
  <2>3. /\ status' = [status EXCEPT ![o] = s]
        /\ courierId' = courierId
    BY <1>0, <1>4, <2>1 DEF PatchCommit
  <2>4. courierId' = [courierId EXCEPT ![o] = courierId[o]]
    BY <2>2, <2>3 DEF TypeOK
  <2>5. PICK c : c = courierId[o]
    OBVIOUS
  <2>6. ContractPhase' = [ContractPhase EXCEPT ![o] = PhaseOf(s, c)]
    <3>1. courierId' = [courierId EXCEPT ![o] = c]
      BY <2>4, <2>5
    <3>2. o \in Orders
      BY <2>2
    <3>3. \A p \in Orders :
            /\ p # o => status'[p] = status[p] /\ courierId'[p] = courierId[p]
            /\ status'[o] = s /\ courierId'[o] = c
      BY <2>3, <3>1, <3>2 DEF TypeOK
    <3>4. ContractPhase' = [p \in Orders |-> PhaseOf(status'[p], courierId'[p])]
      BY DEF ContractPhase, PhaseOf
    <3>5. QED
      BY <1>1, <3>3, <3>4 DEF ContractPhase
  <2>7. \/ earning' = earning
        \/ /\ s = "DELIVERED"
           /\ earning[o] = NoCourier
           /\ earning' = [earning EXCEPT ![o] = courierId[o]]
    <3>1. CASE s = "DELIVERED" /\ handler[h].was # "DELIVERED"
      <4>1. earning' = [earning EXCEPT ![o] = EarningAfterDelivery(o)]
        BY <1>0, <1>4, <2>1, <3>1 DEF PatchCommit
      <4>2. earning[o] # NoCourier => earning' = earning
        BY <2>2, <4>1 DEF EarningAfterDelivery, TypeOK
      <4>3. QED
        BY <3>1, <4>1, <4>2 DEF EarningAfterDelivery
    <3>2. CASE ~(s = "DELIVERED" /\ handler[h].was # "DELIVERED")
      BY <1>4, <2>1, <3>2 DEF PatchCommit
    <3>3. QED
      BY <3>1, <3>2
  <2>8. CASE courierId[o] # NoCourier
    <3>1. PhaseOf(s, c) = "claimed" /\ ContractPhase[o] = "claimed"
      BY <1>1, <2>2, <2>5, <2>8 DEF PhaseOf
    <3>2. ContractPhase' = ContractPhase
      BY <2>2, <2>6, <3>1 DEF ContractPhase
    <3>3. CASE earning' = earning
      BY <2>3, <3>2, <3>3 DEF Contract!vars
    <3>4. CASE earning[o] = NoCourier /\ earning' = [earning EXCEPT ![o] = courierId[o]]
      <4>1. Contract!Pay(o)
        BY <2>3, <3>1, <3>2, <3>4 DEF Contract!Pay
      <4>2. QED
        BY <2>2, <4>1 DEF Contract!Next
    <3>5. QED
      BY <2>7, <3>3, <3>4
  <2>9. CASE courierId[o] = NoCourier
    <3>1. s = "CANCELLED" /\ earning' = earning
      BY <2>2, <2>7, <2>9 DEF Carried
    <3>2. PhaseOf(s, c) = "withdrawn"
      BY <2>2, <2>5, <2>9 DEF PhaseOf
    <3>3. CASE status[o] = "SEARCHING_COURIER"
      <4>1. Contract!Withdraw(o)
        BY <1>1, <2>2, <2>3, <2>6, <2>9, <3>1, <3>2, <3>3 DEF Contract!Withdraw, PhaseOf
      <4>2. QED
        BY <2>2, <4>1 DEF Contract!Next
    <3>4. CASE status[o] # "SEARCHING_COURIER"
      <4>1. ContractPhase[o] = "withdrawn"
        BY <1>1, <2>2, <2>9, <3>4 DEF PhaseOf
      <4>2. ContractPhase' = ContractPhase
        BY <2>2, <2>6, <3>2, <4>1 DEF ContractPhase
      <4>3. QED
        BY <2>3, <3>1, <4>2 DEF Contract!vars
    <3>5. QED
      BY <3>3, <3>4
  <2>10. QED
    BY <2>8, <2>9
<1>5. QED
  BY <1>2, <1>3, <1>4 DEF Writes

LEMMA ContractInitially == Init => Contract!Init
BY DEF Init, Contract!Init, ContractPhase

(* Where couriers serve themselves and operations only cancel, the         *)
(* dispatch implements its contract: every order is published once,        *)
(* claimed by one courier or withdrawn unclaimed, and paid once, to the    *)
(* courier who claimed it, however requests interleave and die.            *)
THEOREM HonoursContractAlways ==
  ASSUME SelfService
  PROVE  Spec => HonoursContract
<1>1. /\ "SEARCHING_COURIER" \notin OpsStatuses
      /\ OpsStatuses \cap (ActiveStatuses \cup {"DELIVERED"}) = {}
  BY DEF SelfService, ActiveStatuses
<1> DEFINE Inv == TypeOK /\ WinnerInv /\ EarningInv /\ ContractInv
<1>2. Init => Inv
  BY TypeInit, WinnerInit, EarningInit, ContractInit
<1>3. ASSUME Inv, [Next]_vars PROVE Inv' /\ [Contract!Next]_(Contract!vars)
  <2>1. TypeOK' /\ WinnerInv' /\ EarningInv'
    BY <1>1, <1>3, TypeStep, WinnerStep, EarningStep
  <2>2. CASE \E h \in Handlers : Writes(h)
    BY <1>3, <2>1, <2>2, ContractWrites, WritesHonourContract
  <2>3. CASE \A h \in Handlers : ~Writes(h)
    <3>1. UNCHANGED <<status, courierId, earning>> /\ ContractInv'
      BY <1>3, <2>3, ContractReads
    <3>2. UNCHANGED Contract!vars
      BY <3>1 DEF Contract!vars, ContractPhase
    <3>3. QED
      BY <2>1, <3>1, <3>2
  <2>4. QED
    BY <2>2, <2>3
<1>4. Init => Contract!Init
  BY ContractInitially
<1>5. Inv /\ [Next]_vars => Inv' /\ [Contract!Next]_(Contract!vars)
  BY <1>3
<1> HIDE DEF Inv
<1>6. QED
  BY <1>2, <1>4, <1>5, PTL DEF Spec, HonoursContract, Contract!Spec

-----------------------------------------------------------------------------
(* Orders move forward.  With one request at a time, what a request has    *)
(* read is still so when it writes, and an order that has a courier is     *)
(* offered to nobody any more.                                             *)

OneByOne == \A g, h \in Handlers : g = h

Offering == {"create.ranked", "match.start", "match.ranked", "match.count",
             "fallback.start", "fallback.read", "accept.offered", "accept.free"}

TakenHasNoOpenOffer ==
  \A o \in Orders : courierId[o] # NoCourier => \A c \in Couriers : offer[o][c] # "PENDING"

OfferingIsUntaken ==
  \A h \in Handlers : At(h, Offering) => courierId[handler[h].order] = NoCourier

AbsentIsUntaken == \A o \in Orders : status[o] = "ABSENT" => courierId[o] = NoCourier

PatchesStepForward ==
  \A h \in Handlers : At(h, {"patch.authorised", "patch.read"}) =>
    handler[h].to \in AllowedNext(status[handler[h].order]) \cup OpsStatuses

ForwardInv ==
  TakenHasNoOpenOffer /\ OfferingIsUntaken /\ AbsentIsUntaken /\ PatchesStepForward
    /\ NobodyAssigns

LEMMA ForwardInit == Init => ForwardInv
BY DEF Init, ForwardInv, TakenHasNoOpenOffer, OfferingIsUntaken, AbsentIsUntaken,
       PatchesStepForward, NobodyAssigns, At, Idle, Offering

Forward(o) ==
  courierId[o] # NoCourier /\ status'[o] # status[o] =>
    status'[o] \in AllowedNext(status[o]) \cup OpsStatuses

LEMMA ForwardRead ==
  ASSUME OneByOne, TypeOK, ForwardInv, NEW h \in Handlers, NEW r \in Requests, Goto(h, r),
         UNCHANGED <<status, courierId>>,
         offer' = offer,
         r.at \in Offering => courierId[r.order] = NoCourier,
         r.at \in {"patch.authorised", "patch.read"} =>
           r.to \in AllowedNext(status[r.order]) \cup OpsStatuses,
         r.at \notin {"assign.read", "assign.free"}
  PROVE  ForwardInv' /\ \A o \in Orders : Forward(o)
<1>1. \A g \in Handlers : handler'[g] = r
  BY DEF Goto, TypeOK, OneByOne
<1>2. TakenHasNoOpenOffer' /\ AbsentIsUntaken'
  BY DEF ForwardInv, TakenHasNoOpenOffer, AbsentIsUntaken
<1>3. OfferingIsUntaken' /\ NobodyAssigns'
  BY <1>1 DEF OfferingIsUntaken, NobodyAssigns, At
<1>4. PatchesStepForward'
  BY <1>1 DEF PatchesStepForward, At
<1>5. QED
  BY <1>2, <1>3, <1>4 DEF ForwardInv, Forward

(* A step that inserts offers for an order without a courier.              *)
LEMMA ForwardInsert ==
  ASSUME OneByOne, TypeOK, ForwardInv, NEW h \in Handlers, NEW r \in Requests, Goto(h, r),
         NEW o \in Orders, NEW S \in SUBSET Couriers, courierId[o] = NoCourier,
         courierId' = courierId,
         status' = status \/ status' = [status EXCEPT ![o] = "SEARCHING_COURIER"],
         offer' = [offer EXCEPT ![o] = OffersAfterCreate(o, S)],
         r.at \in {"idle", "match.count", "fallback.start"},
         r.at # "idle" => r.order = o
  PROVE  ForwardInv' /\ \A p \in Orders : Forward(p)
<1>1. \A g \in Handlers : handler'[g] = r
  BY DEF Goto, TypeOK, OneByOne
<1>2. \A p \in Orders :
        /\ p # o => status'[p] = status[p] /\ offer'[p] = offer[p]
        /\ status'[o] \in {status[o], "SEARCHING_COURIER"}
  BY DEF TypeOK
<1>3. TakenHasNoOpenOffer' /\ AbsentIsUntaken'
  BY <1>2 DEF ForwardInv, TakenHasNoOpenOffer, AbsentIsUntaken
<1>4. r.at \notin {"assign.read", "assign.free", "patch.authorised", "patch.read"}
  OBVIOUS
<1>5. NobodyAssigns' /\ PatchesStepForward'
  BY <1>1, <1>4 DEF NobodyAssigns, PatchesStepForward, At
<1>6. r.at \in Offering => courierId'[r.order] = NoCourier
  BY DEF Offering
<1>7. OfferingIsUntaken'
  BY <1>1, <1>6 DEF OfferingIsUntaken, At
<1>8. \A p \in Orders : Forward(p)
  BY <1>2 DEF Forward
<1>9. QED
  BY <1>3, <1>5, <1>7, <1>8 DEF ForwardInv

LEMMA ForwardStep ==
  ASSUME OneByOne, ManualAssign = FALSE, TypeOK, ForwardInv, [Next]_vars
  PROVE  ForwardInv' /\ \A o \in Orders : Forward(o)
<1> DEFINE Good == ForwardInv' /\ \A o \in Orders : Forward(o)
<1> USE DEF At
<1>1. ASSUME NEW h \in Handlers, NEW r \in Requests, Goto(h, r), UNCHANGED dispatchVars,
             r.at \in Offering => courierId[r.order] = NoCourier,
             r.at \in {"patch.authorised", "patch.read"} =>
               r.to \in AllowedNext(status[r.order]) \cup OpsStatuses,
             r.at \notin {"assign.read", "assign.free"}
      PROVE  Good
  BY <1>1, ForwardRead DEF dispatchVars
<1>2. ASSUME NEW h \in Handlers, NEW o \in Orders, CreateRank(h, o) PROVE Good
  <2>1. PICK S \in SUBSET Couriers :
          Goto(h, [at |-> "create.ranked", order |-> o, ranked |-> S])
    BY <1>2, MatchesAreCouriers DEF CreateRank
  <2>2. courierId[o] = NoCourier
    BY <1>2 DEF CreateRank, ForwardInv, AbsentIsUntaken
  <2>3. QED
    BY <1>1, <1>2, <2>1, <2>2 DEF CreateRank, Requests
<1>3. ASSUME NEW h \in Handlers, NEW o \in Orders, RefreshOpenOrder(h, o) PROVE Good
  BY <1>1, <1>3 DEF RefreshOpenOrder, IsOpen, Requests, Origins
<1>4. ASSUME NEW h \in Handlers, MatchRank(h) PROVE Good
  <2>1. PICK S \in SUBSET Couriers :
          Goto(h, [at |-> "match.ranked", order |-> handler[h].order,
                   origin |-> handler[h].origin, ranked |-> S])
    BY <1>4, MatchesAreCouriers DEF MatchRank
  <2>2. courierId[handler[h].order] = NoCourier
    BY <1>4 DEF MatchRank, ForwardInv, OfferingIsUntaken, Offering
  <2>3. QED
    BY <1>1, <1>4, <2>1, <2>2, HandlerFields DEF MatchRank, Requests
<1>5. ASSUME NEW h \in Handlers, FallbackRead(h) PROVE Good
  <2>1. PICK S \in SUBSET Couriers :
          Goto(h, IF S = {} THEN Idle
                  ELSE [at |-> "fallback.read", order |-> handler[h].order, ranked |-> S])
    BY <1>5, MatchesAreCouriers DEF FallbackRead
  <2>2. courierId[handler[h].order] = NoCourier
    BY <1>5 DEF FallbackRead, ForwardInv, OfferingIsUntaken, Offering
  <2>3. QED
    BY <1>1, <1>5, <2>1, <2>2, HandlerFields DEF FallbackRead, Requests, Idle, Offering
<1>6. ASSUME NEW h \in Handlers, MatchCountPending(h) \/ AcceptCheckFree(h) \/ Abort(h)
      PROVE  Good
  <2>1. handler[h].at \in Offering => courierId[handler[h].order] = NoCourier
    BY DEF ForwardInv, OfferingIsUntaken
  <2>2. QED
    BY <1>1, <1>6, <2>1, HandlerFields
       DEF MatchCountPending, AcceptCheckFree, Abort, Requests, Idle, Offering
<1>7. ASSUME NEW h \in Handlers, NEW o \in Orders, NEW c \in Couriers, AcceptFindOffer(h, o, c)
      PROVE  Good
  <2>1. courierId[o] = NoCourier
    BY <1>7 DEF AcceptFindOffer, ForwardInv, TakenHasNoOpenOffer
  <2>2. QED
    BY <1>1, <1>7, <2>1 DEF AcceptFindOffer, Requests
<1>8. ASSUME NEW h \in Handlers, MatchInsert(h) \/ FallbackInsert(h) \/ CreateCommit(h) PROVE Good
  <2>1. PICK o \in Orders, S \in SUBSET Couriers : o = handler[h].order /\ S = handler[h].ranked
    BY <1>8, HandlerFields DEF MatchInsert, FallbackInsert, CreateCommit
  <2>2. courierId[o] = NoCourier
    BY <1>8, <2>1 DEF MatchInsert, FallbackInsert, CreateCommit, ForwardInv, OfferingIsUntaken,
                      Offering
  <2>3. PICK r \in Requests :
          /\ Goto(h, r)
          /\ r.at \in {"idle", "match.count", "fallback.start"}
          /\ r.at # "idle" => r.order = o
    BY <1>8, <2>1 DEF MatchInsert, FallbackInsert, CreateCommit, Requests, Idle
  <2>4. /\ courierId' = courierId
        /\ status' = status \/ status' = [status EXCEPT ![o] = "SEARCHING_COURIER"]
        /\ offer' = [offer EXCEPT ![o] = OffersAfterCreate(o, S)]
    BY <1>8, <2>1 DEF MatchInsert, FallbackInsert, CreateCommit
  <2>5. QED
    BY <2>2, <2>3, <2>4, ForwardInsert
<1>9. ASSUME NEW h \in Handlers, AcceptCommit(h) PROVE Good
  <2>1. PICK o \in Orders, c \in Couriers : o = handler[h].order /\ c = handler[h].courier
    BY <1>9, HandlerFields DEF AcceptCommit
  <2>2. courierId[o] = NoCourier
    BY <1>9, <2>1 DEF AcceptCommit, ForwardInv, OfferingIsUntaken, Offering
  <2>3. Goto(h, Idle) /\ Idle \in Requests /\ Idle.at = "idle"
    BY <1>9 DEF AcceptCommit, Requests, Idle
  <2>4. CASE UNCHANGED dispatchVars
    BY <1>1, <2>3, <2>4 DEF Offering
  <2>5. CASE /\ status' = [status EXCEPT ![o] = "ACCEPTED"]
             /\ courierId' = [courierId EXCEPT ![o] = c]
             /\ offer' = [offer EXCEPT ![o] = OffersAfterAccept(o, c)]
    <3>1. \A g \in Handlers : handler'[g] = Idle
      BY <2>3 DEF Goto, TypeOK, OneByOne
    <3>2. \A p \in Orders :
            /\ p # o => /\ status'[p] = status[p]
                        /\ courierId'[p] = courierId[p]
                        /\ offer'[p] = offer[p]
            /\ status'[o] = "ACCEPTED"
            /\ offer'[o] = OffersAfterAccept(o, c)
      BY <2>5 DEF TypeOK
    <3>3. AbsentIsUntaken'
      BY <3>2 DEF ForwardInv, AbsentIsUntaken
    <3>4. \A d \in Couriers : offer'[o][d] # "PENDING"
      <4>1. offer'[o] = OffersAfterAccept(o, c)
        BY <3>2
      <4>2. \A d \in Couriers : OffersAfterAccept(o, c)[d] # "PENDING"
        BY DEF OffersAfterAccept
      <4>3. QED
        BY <4>1, <4>2
    <3>5. TakenHasNoOpenOffer'
      BY <3>2, <3>4 DEF ForwardInv, TakenHasNoOpenOffer
    <3>6. OfferingIsUntaken' /\ NobodyAssigns' /\ PatchesStepForward'
      BY <2>3, <3>1 DEF OfferingIsUntaken, NobodyAssigns, PatchesStepForward, Offering
    <3>7. \A p \in Orders : Forward(p)
      BY <2>2, <3>2 DEF Forward
    <3>8. QED
      BY <3>3, <3>5, <3>6, <3>7 DEF ForwardInv
  <2>6. QED
    BY <1>9, <2>1, <2>4, <2>5 DEF AcceptCommit
<1>10. ASSUME NEW h \in Handlers, NEW o \in Orders, NEW c \in Couriers, PatchByCourier(h, o, c)
       PROVE  Good
  <2>1. PICK to \in AllowedNext(status[o]) :
          Goto(h, [at |-> "patch.authorised", order |-> o, to |-> to])
    BY <1>10 DEF PatchByCourier
  <2>2. to \in OrderStatus
    BY DEF AllowedNext, OrderStatus
  <2>3. QED
    BY <1>1, <1>10, <2>1, <2>2 DEF PatchByCourier, Requests, Offering
<1>11. ASSUME NEW h \in Handlers, NEW o \in Orders, PatchByOps(h, o) PROVE Good
  <2>1. PICK to \in OpsStatuses :
          Goto(h, [at |-> "patch.authorised", order |-> o, to |-> to])
    BY <1>11 DEF PatchByOps
  <2>2. to \in OrderStatus
    BY DispatchAssumption
  <2>3. QED
    BY <1>1, <1>11, <2>1, <2>2 DEF PatchByOps, Requests, Offering
<1>12. ASSUME NEW h \in Handlers, PatchRead(h) PROVE Good
  <2> DEFINE r == [at |-> "patch.read", order |-> handler[h].order, to |-> handler[h].to,
                   was |-> status[handler[h].order], whose |-> courierId[handler[h].order]]
  <2>1. /\ handler[h].at = "patch.authorised"
        /\ r \in Requests
        /\ Goto(h, r)
        /\ UNCHANGED dispatchVars
    BY <1>12, HandlerFields DEF PatchRead, Requests, TypeOK
  <2>2. r.to \in AllowedNext(status[r.order]) \cup OpsStatuses
    BY <2>1 DEF ForwardInv, PatchesStepForward
  <2>3. r.at = "patch.read" /\ "patch.read" \notin Offering
    BY DEF Offering
  <2> HIDE DEF r
  <2>4. QED
    BY <1>1, <2>1, <2>2, <2>3
<1>13. ASSUME NEW h \in Handlers, PatchCommit(h) PROVE Good
  <2>1. PICK o \in Orders, to \in OrderStatus : o = handler[h].order /\ to = handler[h].to
    BY <1>13, HandlerFields DEF PatchCommit
  <2>2. to \in AllowedNext(status[o]) \cup OpsStatuses
    BY <1>13, <2>1 DEF PatchCommit, ForwardInv, PatchesStepForward
  <2>3. /\ status' = [status EXCEPT ![o] = to]
        /\ courierId' = courierId
        /\ offer' = offer
    BY <1>13, <2>1 DEF PatchCommit
  <2>4. PICK r \in Requests :
          /\ Goto(h, r)
          /\ r.at \in {"idle", "match.start"}
          /\ r.at # "idle" => r.order = o /\ courierId[o] = NoCourier
    BY <1>13, <2>1 DEF PatchCommit, Requests, Idle, Origins
  <2>5. \A g \in Handlers : handler'[g] = r
    <3>1. handler' = [handler EXCEPT ![h] = r] /\ handler \in [Handlers -> Requests]
      BY <2>4 DEF Goto, TypeOK
    <3>2. QED
      BY <3>1 DEF OneByOne
  <2>6. /\ status'[o] = to
        /\ \A p \in Orders : p # o => status'[p] = status[p]
    BY <2>3 DEF TypeOK
  <2>7. TakenHasNoOpenOffer' /\ AbsentIsUntaken'
    BY <2>3, <2>6 DEF ForwardInv, TakenHasNoOpenOffer, AbsentIsUntaken, OrderStatus
  <2>8. NobodyAssigns' /\ PatchesStepForward'
    BY <2>4, <2>5 DEF NobodyAssigns, PatchesStepForward
  <2>9. r.at \in Offering => courierId'[r.order] = NoCourier
    BY <2>3, <2>4 DEF Offering
  <2>10. OfferingIsUntaken'
    BY <2>5, <2>9 DEF OfferingIsUntaken
  <2>11. \A p \in Orders : Forward(p)
    BY <2>2, <2>6 DEF Forward
  <2>12. QED
    BY <2>7, <2>8, <2>10, <2>11 DEF ForwardInv
<1>14. ASSUME NEW h \in Handlers, AssignCommit(h) \/ AssignCheckFree(h) PROVE FALSE
  BY <1>14 DEF AssignCommit, AssignCheckFree, ForwardInv, NobodyAssigns
<1>15. ASSUME NEW h \in Handlers, NEW o \in Orders, NEW c \in Couriers, AssignRead(h, o, c)
       PROVE  FALSE
  BY <1>15 DEF AssignRead
<1>16. ASSUME NEW o \in Orders, NEW c \in Couriers, Decline(o, c) PROVE Good
  <2>1. \A p \in Orders, d \in Couriers : offer'[p][d] = "PENDING" => offer[p][d] = "PENDING"
    BY <1>16 DEF Decline, TypeOK
  <2>2. UNCHANGED <<status, courierId, handler>>
    BY <1>16 DEF Decline
  <2>3. QED
    BY <2>1, <2>2 DEF ForwardInv, TakenHasNoOpenOffer, OfferingIsUntaken, AbsentIsUntaken,
       PatchesStepForward, NobodyAssigns, Forward
<1>17. ASSUME UNCHANGED <<dispatchVars, handler>> PROVE Good
  BY <1>17 DEF ForwardInv, TakenHasNoOpenOffer, OfferingIsUntaken, AbsentIsUntaken,
     PatchesStepForward, NobodyAssigns, Forward, dispatchVars
<1>18. ASSUME NEW h \in Handlers, Advance(h) PROVE Good
  BY <1>4, <1>5, <1>6, <1>8, <1>9, <1>12, <1>13, <1>14, <1>18 DEF Advance, Serve, Matching
<1>19. ASSUME NEW c \in Couriers, UpdatePresence(c) PROVE Good
  BY <1>17, <1>19 DEF UpdatePresence
<1>20. CASE UNCHANGED vars
  BY <1>17, <1>20 DEF vars, dispatchVars
<1>21. QED
  BY <1>2, <1>3, <1>7, <1>10, <1>11, <1>15, <1>16, <1>18, <1>19, <1>20 DEF Next, Arrive

(* Where requests do not overlap and nobody assigns by hand, an order with *)
(* a courier moves along accepted, picked up, on delivery, delivered, or   *)
(* where operations put it: whatever statuses those set, an order that is  *)
(* put back into the search with its courier is accepted by nobody else.   *)
THEOREM CourierStepsForwardAlways ==
  ASSUME OneByOne, ManualAssign = FALSE
  PROVE  Spec => CourierStepsForward
<1>1. Init => ForwardInv
  BY ForwardInit
<1>2. TypeOK /\ ForwardInv /\ [Next]_vars => ForwardInv'
  BY ForwardStep
<1>3. TypeOK /\ ForwardInv /\ [Next]_vars =>
        [\A o \in Orders :
           courierId[o] # NoCourier /\ status'[o] # status[o] =>
             status'[o] \in AllowedNext(status[o]) \cup OpsStatuses]_vars
  BY ForwardStep DEF Forward
<1>4. QED
  BY <1>1, <1>2, <1>3, Typing, PTL DEF Spec, CourierStepsForward

=============================================================================
