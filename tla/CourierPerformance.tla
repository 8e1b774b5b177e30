------------------------- MODULE CourierPerformance -------------------------
(***************************************************************************)
(* Ratings and delivery statistics of one courier, and the dispatch score  *)
(* derived from them: src/src/courier-performance, and rateCourier of the  *)
(* orders service.  Couriers share nothing here, so one is enough.         *)
(*                                                                         *)
(* Two rows are written: courier_performance, whose counters the database  *)
(* increments, and courier, whose rating fields are computed by the        *)
(* process from what it read.  An update locks its row until the           *)
(* transaction ends, a read locks nothing and sees the transaction's own   *)
(* writes and what others committed.                                       *)
(***************************************************************************)
EXTENDS Integers, FiniteSets

CONSTANTS
  Orders,        \* delivered orders the customers may rate
  Handlers,      \* requests the server works on at the same time
  Stars,         \* ratings customers give, in 1..5
  Durations,     \* delivery times in hundredths of a minute
  MaxClosed      \* bound: closings counted before a new one

MaxDuration == 72 * 60 * 100
NoTime == -1       \* averageDeliveryTimeMinutes = null, and a time not counted

ASSUME PerformanceAssumption ==
  /\ IsFiniteSet(Orders)
  /\ Stars \subseteq 1..5
  /\ Durations \subseteq Nat
  /\ MaxClosed \in Nat

VARIABLES
  rating,         \* rating[o]: the rating row of the order, 0 without one
  totalRatings,   \* courier.totalRatings
  averageRating,  \* courier.averageRating in hundredths, 0 for null
  row,            \* the courier_performance row
  score,          \* what courier.dispatchScore was last computed from
  handler,        \* handler[h]: the request in progress and what it has read
  closed,         \* closed[kind]: how many status changes of that kind have
                  \* been committed, in the transactions of the closings
  orderly         \* are the requests served one by one?
                  \* chosen at the start, never changed

history == <<closed, orderly>>
vars == <<rating, totalRatings, averageRating, row, score, handler, history>>

NoRow == [exists |-> FALSE, total |-> 0, successful |-> 0, cancelled |-> 0,
          minutes |-> NoTime, active |-> FALSE]

Rows == [exists : BOOLEAN, total : Nat, successful : Nat, cancelled : Nat,
         minutes : Nat \cup {NoTime}, active : BOOLEAN]

Inputs == [ratings : Nat, average : Nat, successful : Nat, cancelled : Nat,
           minutes : Nat \cup {NoTime}, active : BOOLEAN]

(* computeDispatchScore is a function of these fields; the score is kept   *)
(* as what it was computed from.                                           *)
ScoreInput(n, avg, r) ==
  [ratings |-> n, average |-> avg, successful |-> r.successful,
   cancelled |-> r.cancelled, minutes |-> r.minutes, active |-> r.active]

Idle == [at |-> "idle"]

Closings == {"deliver", "cancel"}

Requests ==
  [at : {"idle", "touch.saved"}]
    \cup [at : {"close.read"}, kind : Closings, duration : Nat \cup {NoTime}, before : Rows]
    \cup [at : {"close.saved"}, kind : Closings, after : Rows, scored : Inputs]
    \cup [at : {"touch.read"}, scored : Inputs]
    \cup [at : {"rate.checked"}, order : Orders, stars : Stars]
    \cup [at : {"rate.read"}, order : Orders, stars : Stars, ratings : Nat, average : Nat]
    \cup [at : {"rate.saved"}, order : Orders, stars : Stars, ratings : Nat,
          average : Nat, scored : Inputs]

TypeOK ==
  /\ rating \in [Orders -> 0..5]
  /\ totalRatings \in Nat
  /\ averageRating \in Nat
  /\ row \in Rows
  /\ score \in Inputs
  /\ handler \in [Handlers -> Requests]
  /\ closed \in [Closings -> Nat]
  /\ orderly \in BOOLEAN

Init ==
  /\ rating = [o \in Orders |-> 0]
  /\ totalRatings = 0
  /\ averageRating = 0
  /\ row = NoRow
  /\ score = ScoreInput(0, 0, NoRow)
  /\ handler = [h \in Handlers |-> Idle]
  /\ closed = [kind \in Closings |-> 0]
  /\ orderly \in BOOLEAN

Goto(h, request) == handler' = [handler EXCEPT ![h] = request]

MayServe == orderly => \A g \in Handlers : handler[g] = Idle

RowLocked     == \E g \in Handlers : handler[g].at = "close.saved"
CourierLocked == \E g \in Handlers : handler[g].at = "rate.saved"

(* Math.round(a / b * 100) / 100 of values kept in hundredths *)
Rounded(a, b) == (2 * a + b) \div (2 * b)

courierVars == <<rating, totalRatings, averageRating>>

-----------------------------------------------------------------------------
(* onOrderDelivered and onAssignedOrderCancelled, at the end of the        *)
(* transaction of PATCH /orders/:id/status.  OrderDispatch says when they  *)
(* run; here any number of closings may come.                              *)

CloseRead(h, kind, d) ==
  /\ handler[h] = Idle
  /\ MayServe
  /\ row.total < MaxClosed
  /\ Goto(h, [at |-> "close.read", kind |-> kind, before |-> row,
              duration |-> IF kind = "deliver" /\ d < MaxDuration THEN d ELSE NoTime])
  /\ UNCHANGED <<courierVars, row, score, history>>

AverageMinutes(before, d) ==
  IF d = NoTime THEN before.minutes
  ELSE IF before.minutes = NoTime THEN d
  ELSE Rounded(before.minutes * before.successful + d, before.successful + 1)

(* Mutation: the counters, too, are computed from the row as it was read.  *)
RowAfterOfRead(h) ==
  LET q == handler[h]
  IN  [exists |-> TRUE,
       total |-> q.before.total + 1,
       successful |-> q.before.successful + (IF q.kind = "deliver" THEN 1 ELSE 0),
       cancelled |-> q.before.cancelled + (IF q.kind = "cancel" THEN 1 ELSE 0),
       minutes |-> IF q.duration = NoTime THEN row.minutes
                   ELSE AverageMinutes(q.before, q.duration),
       active |-> row.active]

(* The counters are incremented in the row as it is now, the average comes *)
(* from the row as it was read.                                            *)
RowAfter(h) ==
  LET q == handler[h]
  IN  [exists |-> TRUE,
       total |-> row.total + 1,
       successful |-> row.successful + (IF q.kind = "deliver" THEN 1 ELSE 0),
       cancelled |-> row.cancelled + (IF q.kind = "cancel" THEN 1 ELSE 0),
       minutes |-> IF q.duration = NoTime THEN row.minutes
                   ELSE AverageMinutes(q.before, q.duration),
       active |-> row.active]

(* The row is created or updated, and courier and row are read again for   *)
(* the score.  Two creations violate the unique key and the later one is   *)
(* rolled back with its transaction.                                       *)
CloseSave(h) ==
  /\ handler[h].at = "close.read"
  /\ ~RowLocked
  /\ IF ~handler[h].before.exists /\ row.exists
       THEN Goto(h, Idle)
       ELSE Goto(h, [at |-> "close.saved", kind |-> handler[h].kind, after |-> RowAfter(h),
                     scored |-> ScoreInput(totalRatings, averageRating, RowAfter(h))])
  /\ UNCHANGED <<courierVars, row, score, history>>

(* The row and the status of the order are written in one transaction.     *)
CloseCommit(h) ==
  /\ handler[h].at = "close.saved"
  /\ ~CourierLocked
  /\ row' = handler[h].after
  /\ score' = handler[h].scored
  /\ closed' = [closed EXCEPT ![handler[h].kind] = @ + 1]
  /\ Goto(h, Idle)
  /\ UNCHANGED <<courierVars, orderly>>

-----------------------------------------------------------------------------
(* touchLastActive: three statements without a transaction, not awaited by *)
(* the request that starts it.                                             *)

TouchLastActive(h) ==
  /\ handler[h] = Idle
  /\ MayServe
  /\ ~RowLocked
  /\ row' = [row EXCEPT !.exists = TRUE, !.active = TRUE]
  /\ Goto(h, [at |-> "touch.saved"])
  /\ UNCHANGED <<courierVars, score, history>>

TouchRead(h) ==
  /\ handler[h].at = "touch.saved"
  /\ Goto(h, [at |-> "touch.read", scored |-> ScoreInput(totalRatings, averageRating, row)])
  /\ UNCHANGED <<courierVars, row, score, history>>

TouchCommit(h) ==
  /\ handler[h].at = "touch.read"
  /\ ~CourierLocked
  /\ score' = handler[h].scored
  /\ Goto(h, Idle)
  /\ UNCHANGED <<courierVars, row, history>>

-----------------------------------------------------------------------------
(* POST /orders/:id/rating *)

RateCheck(h, o, stars) ==
  /\ handler[h] = Idle
  /\ MayServe
  /\ rating[o] = 0
  /\ Goto(h, [at |-> "rate.checked", order |-> o, stars |-> stars])
  /\ UNCHANGED <<courierVars, row, score, history>>

RateRead(h) ==
  /\ handler[h].at = "rate.checked"
  /\ Goto(h, [at |-> "rate.read", order |-> handler[h].order, stars |-> handler[h].stars,
              ratings |-> totalRatings, average |-> averageRating])
  /\ UNCHANGED <<courierVars, row, score, history>>

(* Mutation: the sum of the ratings is divided by the earlier number. *)
AverageAfterOldCount(n, avg, stars) ==
  IF n = 0 THEN 100 * stars ELSE Rounded(avg * n + 100 * stars, n)

AverageAfter(n, avg, stars) ==
  IF n = 0 THEN 100 * stars ELSE Rounded(avg * n + 100 * stars, n + 1)

(* Mutation: the score is computed from what was read at the beginning. *)
ScoredRatingBefore(h) == ScoreInput(handler[h].ratings, handler[h].average, row)

(* Mutation: the new average is not passed on. *)
ScoredRatingNull(h) == ScoreInput(handler[h].ratings + 1, NoTime, row)

ScoredRating(h) ==
  ScoreInput(handler[h].ratings + 1,
             AverageAfter(handler[h].ratings, handler[h].average, handler[h].stars), row)

(* The rating row is inserted, which the unique orderId refuses if the     *)
(* order was rated meanwhile, the courier is updated and everything read   *)
(* again for the score.                                                    *)
RateSave(h) ==
  /\ handler[h].at = "rate.read"
  /\ ~CourierLocked
  /\ IF rating[handler[h].order] # 0
       THEN Goto(h, Idle)
       ELSE Goto(h, [at |-> "rate.saved", order |-> handler[h].order,
                     stars |-> handler[h].stars, ratings |-> handler[h].ratings + 1,
                     average |-> AverageAfter(handler[h].ratings, handler[h].average,
                                              handler[h].stars),
                     scored |-> ScoredRating(h)])
  /\ UNCHANGED <<courierVars, row, score, history>>

RateCommit(h) ==
  /\ handler[h].at = "rate.saved"
  /\ rating' = [rating EXCEPT ![handler[h].order] = handler[h].stars]
  /\ totalRatings' = handler[h].ratings
  /\ averageRating' = handler[h].average
  /\ score' = handler[h].scored
  /\ Goto(h, Idle)
  /\ UNCHANGED <<row, history>>

(* A request dies between two steps; what it has not committed is undone.  *)
Abort(h) ==
  /\ handler[h] # Idle
  /\ Goto(h, Idle)
  /\ UNCHANGED <<courierVars, row, score, history>>

Advance(h) ==
  \/ CloseSave(h)
  \/ CloseCommit(h)
  \/ TouchRead(h)
  \/ TouchCommit(h)
  \/ RateRead(h)
  \/ RateSave(h)
  \/ RateCommit(h)
  \/ Abort(h)

Next ==
  \E h \in Handlers :
    \/ Advance(h)
    \/ TouchLastActive(h)
    \/ \E kind \in Closings, d \in Durations : CloseRead(h, kind, d)
    \/ \E o \in Orders, stars \in Stars : RateCheck(h, o, stars)

Spec == Init /\ [][Next]_vars

-----------------------------------------------------------------------------
(* Properties *)

Rated == {o \in Orders : rating[o] # 0}

(* The stars customers gave, one by one: there are as many as the sum of   *)
(* the ratings.                                                            *)
StarsGiven == {star \in Orders \X (1 .. 5) : star[2] <= rating[star[1]]}

(* Nothing a courier did is lost: the row counts every delivery and every  *)
(* cancellation whose status change was committed, no other and none       *)
(* twice, and totalDeliveries is their sum, as the schema says ("teslim +  *)
(* iptal"), whatever closings and touches race for the row, its creation   *)
(* and their commits, and wherever requests die.  Every rating counts in   *)
(* the average, which is derived from the customers' ratings ("musteri     *)
(* puanlarindan turetilir"), when ratings come one by one; of two at the   *)
(* same time one is lost.                                                  *)
EveryEventCounts ==
  /\ row.successful = closed["deliver"]
  /\ row.cancelled = closed["cancel"]
  /\ row.total = closed["deliver"] + closed["cancel"]
  /\ orderly => totalRatings = Cardinality(Rated)

(* Rounding to two decimals after every rating moves the stored average    *)
(* away from the mean of the ratings, by no more than (n + 1) / 4          *)
(* hundredths after n ratings that come one by one.                        *)
AverageNearMean ==
  LET n   == Cardinality(Rated)
      off == n * averageRating - 100 * Cardinality(StarsGiven)
  IN  orderly => /\ 4 * off <= n * (n + 1)
                 /\ -4 * off <= n * (n + 1)

(* What the points of a score are for, but the recent activity: those      *)
(* decay with the clock.                                                   *)
Lasting(input) ==
  <<input.ratings, input.average, input.successful, input.cancelled, input.minutes>>

(* Between requests the score agrees with the ratings and the statistics   *)
(* it is derived from, if requests come one by one.                        *)
ScoreIsCurrent ==
  orderly /\ (\A h \in Handlers : handler[h] = Idle) =>
    Lasting(score) = Lasting(ScoreInput(totalRatings, averageRating, row))

=============================================================================
