---------------------- MODULE CourierPerformanceProofs ----------------------
(***************************************************************************)
(* Theorems about CourierPerformance, for any finite set of orders and any *)
(* requests, durations and number of closings.                             *)
(***************************************************************************)
EXTENDS CourierPerformance, FiniteSetTheorems, TLAPS

-----------------------------------------------------------------------------
(* Rounding *)

LEMMA RoundedNat ==
  ASSUME NEW a \in Nat, NEW b \in Nat \ {0} PROVE Rounded(a, b) \in Nat
BY DEF Rounded

(* Math.round moves a value by half a unit at most.                        *)
LEMMA RoundedNear ==
  ASSUME NEW a \in Nat, NEW b \in Nat \ {0}
  PROVE  /\ 2 * (b * Rounded(a, b)) - 2 * a <= b
         /\ 2 * a - 2 * (b * Rounded(a, b)) <= b
<1> DEFINE q == Rounded(a, b)
<1>1. q \in Nat
  BY RoundedNat
<1>2. 2 * b * q <= 2 * a + b
  BY DEF Rounded
<1>3. 2 * b * q + 2 * b > 2 * a + b
  BY DEF Rounded
<1>4. 2 * b * q = 2 * (b * q) /\ b * q \in Nat
  BY <1>1
<1> HIDE DEF q
<1>5. 2 * (b * q) - 2 * a <= b /\ 2 * a - 2 * (b * q) <= b
  <2> DEFINE p == b * q
  <2>1. p \in Nat /\ 2 * p <= 2 * a + b /\ 2 * p + 2 * b > 2 * a + b
    BY <1>2, <1>3, <1>4
  <2> HIDE DEF p
  <2>2. 2 * p - 2 * a <= b /\ 2 * a - 2 * p <= b
    BY <2>1
  <2>3. QED
    BY <2>2 DEF p
<1>6. QED
  BY <1>5 DEF q

LEMMA AverageNat ==
  ASSUME NEW n \in Nat, NEW avg \in Nat, NEW stars \in Nat
  PROVE  AverageAfter(n, avg, stars) \in Nat
<1>1. avg * n + 100 * stars \in Nat /\ n + 1 \in Nat \ {0} /\ 100 * stars \in Nat
  OBVIOUS
<1>2. QED
  BY <1>1, RoundedNat DEF AverageAfter

(* The average of n + 1 ratings is as near to their mean as that of n was, *)
(* and half a unit.                                                        *)
LEMMA AverageStaysNear ==
  ASSUME NEW n \in Nat, NEW avg \in Nat, NEW stars \in Nat, NEW sum \in Nat,
         n = 0 => sum = 0,
         4 * (n * avg - 100 * sum) <= n * (n + 1),
         -4 * (n * avg - 100 * sum) <= n * (n + 1)
  PROVE  LET off == (n + 1) * AverageAfter(n, avg, stars) - 100 * (sum + stars)
         IN  /\ 4 * off <= (n + 1) * (n + 2)
             /\ -4 * off <= (n + 1) * (n + 2)
<1> DEFINE new == AverageAfter(n, avg, stars)
           a == avg * n + 100 * stars
           b == (n + 1) * new
           m == n * avg
           sq == n * (n + 1)
<1>1. new \in Nat
  BY AverageNat
<1>2. a \in Nat /\ n + 1 \in Nat \ {0} /\ m \in Nat /\ sq \in Nat
  OBVIOUS
<1>3. a = m + 100 * stars
  OBVIOUS
<1>4. (n + 1) * (n + 2) = sq + 2 * (n + 1)
  OBVIOUS
<1>5. 4 * (m - 100 * sum) <= sq /\ -4 * (m - 100 * sum) <= sq
  OBVIOUS
<1>6. b \in Nat
  BY <1>1
<1>7. 2 * b - 2 * a <= n + 1 /\ 2 * a - 2 * b <= n + 1
  <2>1. CASE n = 0
    <3>1. new = 100 * stars
      BY <2>1 DEF AverageAfter
    <3>2. b = 100 * stars /\ a = 100 * stars
      BY <2>1, <3>1
    <3>3. QED
      BY <3>2, <2>1
  <2>2. CASE n # 0
    <3>1. new = Rounded(a, n + 1)
      BY <2>2 DEF AverageAfter
    <3> HIDE DEF new, a
    <3>2. QED
      BY <3>1, <1>2, RoundedNear
  <2>3. QED
    BY <2>1, <2>2
<1> HIDE DEF a, b, m, sq, new
<1>8. 4 * (b - 100 * (sum + stars)) <= sq + 2 * (n + 1)
  BY <1>2, <1>3, <1>5, <1>6, <1>7
<1>9. -4 * (b - 100 * (sum + stars)) <= sq + 2 * (n + 1)
  BY <1>2, <1>3, <1>5, <1>6, <1>7
<1>10. QED
  BY <1>4, <1>8, <1>9 DEF b, new

-----------------------------------------------------------------------------
(* Types *)

LEMMA AverageMinutesTyped ==
  ASSUME NEW r \in Rows, NEW d \in Nat \cup {NoTime}
  PROVE  AverageMinutes(r, d) \in Nat \cup {NoTime}
<1>1. r.minutes \in Nat \cup {NoTime} /\ r.successful \in Nat
  BY DEF Rows
<1>2. CASE d # NoTime /\ r.minutes # NoTime
  <2>1. d \in Nat /\ r.minutes \in Nat
    BY <1>1, <1>2
  <2>2. r.minutes * r.successful + d \in Nat /\ r.successful + 1 \in Nat \ {0}
    BY <1>1, <2>1
  <2>3. QED
    BY <1>2, <2>2, RoundedNat DEF AverageMinutes
<1>3. QED
  BY <1>1, <1>2 DEF AverageMinutes

LEMMA ScoreInputTyped ==
  ASSUME NEW n \in Nat, NEW avg \in Nat, NEW r \in Rows
  PROVE  ScoreInput(n, avg, r) \in Inputs
BY DEF ScoreInput, Inputs, Rows

(* What the request of a handler carries. *)
LEMMA RequestFields ==
  ASSUME NEW q \in Requests
  PROVE  /\ q.at = "close.read" => /\ q.kind \in Closings
                                   /\ q.duration \in Nat \cup {NoTime}
                                   /\ q.before \in Rows
         /\ q.at = "close.saved" => /\ q.kind \in Closings
                                    /\ q.after \in Rows
                                    /\ q.scored \in Inputs
         /\ q.at = "touch.read" => q.scored \in Inputs
         /\ q.at \in {"rate.checked", "rate.read", "rate.saved"} =>
              q.order \in Orders /\ q.stars \in Stars
         /\ q.at \in {"rate.read", "rate.saved"} => q.ratings \in Nat /\ q.average \in Nat
         /\ q.at = "rate.saved" => q.scored \in Inputs
BY DEF Requests

LEMMA RowAfterTyped ==
  ASSUME TypeOK, NEW h \in Handlers, handler[h].at = "close.read"
  PROVE  RowAfter(h) \in Rows
<1>1. handler[h] \in Requests
  BY DEF TypeOK
<1>2. /\ handler[h].kind \in Closings /\ handler[h].duration \in Nat \cup {NoTime}
      /\ handler[h].before \in Rows
  BY <1>1, RequestFields
<1>3. AverageMinutes(handler[h].before, handler[h].duration) \in Nat \cup {NoTime}
  BY <1>2, AverageMinutesTyped
<1>4. row \in Rows
  BY DEF TypeOK
<1>5. QED
  BY <1>2, <1>3, <1>4 DEF RowAfter, Rows

LEMMA GotoTyped ==
  ASSUME handler \in [Handlers -> Requests], NEW h \in Handlers, NEW q \in Requests,
         Goto(h, q)
  PROVE  /\ handler' \in [Handlers -> Requests]
         /\ handler'[h] = q
         /\ \A g \in Handlers : g # h => handler'[g] = handler[g]
BY DEF Goto

-----------------------------------------------------------------------------
(* The inductive invariant.  TypeOK and the statements about the counters  *)
(* hold of any interleaving; what orderly requests have read is what still *)
(* is there, as no other request is under way.                             *)

Agrees(s, n, avg, r) ==
  /\ s.ratings = n /\ s.average = avg
  /\ s.successful = r.successful /\ s.cancelled = r.cancelled /\ s.minutes = r.minutes

Counts(r, n) ==
  /\ r.successful = n["deliver"]
  /\ r.cancelled = n["cancel"]
  /\ r.total = n["deliver"] + n["cancel"]

OneMore(n, kind) == [n EXCEPT ![kind] = @ + 1]

(* What the updates that are not committed yet leave in the row. *)
ClosingsFit ==
  /\ Counts(row, closed)
  /\ \A h \in Handlers : handler[h].at = "close.saved" =>
       /\ Counts(handler[h].after, OneMore(closed, handler[h].kind))
       /\ handler[h].after.total = row.total + 1
       /\ handler[h].after.active = row.active
       /\ \A g \in Handlers : handler[g].at = "close.saved" => g = h

OneByOne == \A g, h \in Handlers : handler[g].at # "idle" /\ handler[h].at # "idle" => g = h

ReadsFit(q) ==
  /\ q.at \in {"rate.checked", "rate.read", "rate.saved"} => rating[q.order] = 0
  /\ q.at = "rate.read" => q.ratings = totalRatings /\ q.average = averageRating
  /\ q.at = "rate.saved" =>
       /\ q.ratings = totalRatings + 1
       /\ q.average = AverageAfter(totalRatings, averageRating, q.stars)
       /\ Agrees(q.scored, q.ratings, q.average, row)
  /\ q.at = "close.saved" => Agrees(q.scored, totalRatings, averageRating, q.after)
  /\ q.at = "touch.read" => Agrees(q.scored, totalRatings, averageRating, row)

Near(n, avg, sum) ==
  /\ 4 * (n * avg - 100 * sum) <= n * (n + 1)
  /\ -4 * (n * avg - 100 * sum) <= n * (n + 1)

RatingsFit ==
  /\ totalRatings = Cardinality(Rated)
  /\ Near(totalRatings, averageRating, Cardinality(StarsGiven))

OrderlyFit ==
  /\ OneByOne
  /\ \A h \in Handlers : ReadsFit(handler[h])
  /\ Agrees(score, totalRatings, averageRating, row)
  /\ RatingsFit

PerformanceInv == TypeOK /\ ClosingsFit /\ (orderly => OrderlyFit)

-----------------------------------------------------------------------------
(* Counting ratings *)

LEMMA IntervalCount ==
  ASSUME NEW n \in Nat \ {0}
  PROVE  IsFiniteSet(1 .. n) /\ Cardinality(1 .. n) = n
<1>1. 1 \in Int /\ n \in Int /\ ~(1 > n) /\ n - 1 + 1 = n
  OBVIOUS
<1>2. IsFiniteSet(1 .. n) /\ Cardinality(1 .. n) = IF 1 > n THEN 0 ELSE n - 1 + 1
  BY <1>1, FS_Interval, Zenon
<1>3. QED
  BY <1>1, <1>2

LEMMA CountsAreNumbers ==
  ASSUME PerformanceAssumption, TypeOK
  PROVE  /\ IsFiniteSet(Rated) /\ IsFiniteSet(StarsGiven)
         /\ Cardinality(Rated) \in Nat /\ Cardinality(StarsGiven) \in Nat
         /\ Cardinality(Rated) = 0 => Cardinality(StarsGiven) = 0
<1>1. IsFiniteSet(Orders) /\ Rated \subseteq Orders
  BY DEF PerformanceAssumption, Rated
<1>2. IsFiniteSet(Rated)
  BY <1>1, FS_Subset
<1>3. IsFiniteSet(1 .. 5)
  <2>1. 5 \in Nat \ {0}
    OBVIOUS
  <2>2. QED
    BY <2>1, IntervalCount, Zenon
<1>4. IsFiniteSet(Orders \X (1 .. 5))
  BY <1>1, <1>3, FS_Product
<1>5. StarsGiven \subseteq Orders \X (1 .. 5)
  BY DEF StarsGiven
<1>6. IsFiniteSet(StarsGiven)
  BY <1>4, <1>5, FS_Subset
<1>7. Cardinality(Rated) \in Nat /\ Cardinality(StarsGiven) \in Nat
  BY <1>2, <1>6, FS_CardinalityType
<1>8. Rated = {} => StarsGiven = {}
  BY DEF Rated, StarsGiven, TypeOK
<1>9. QED
  BY <1>2, <1>6, <1>7, <1>8, FS_EmptySet

(* One more rating of s stars. *)
LEMMA OneMoreRating ==
  ASSUME PerformanceAssumption, TypeOK, NEW o \in Orders, NEW s \in Stars,
         rating[o] = 0, rating' = [rating EXCEPT ![o] = s]
  PROVE  /\ Cardinality(Rated)' = Cardinality(Rated) + 1
         /\ Cardinality(StarsGiven)' = Cardinality(StarsGiven) + s
<1>1. s \in 1 .. 5
  BY DEF PerformanceAssumption
<1>2. /\ rating \in [Orders -> 0 .. 5] /\ rating'[o] = s
      /\ \A p \in Orders : p # o => rating'[p] = rating[p]
  BY DEF TypeOK
<1>3. Rated' = Rated \cup {o} /\ o \notin Rated
  BY <1>1, <1>2 DEF Rated
<1>4. Cardinality(Rated)' = Cardinality(Rated) + 1
  BY <1>3, CountsAreNumbers, FS_AddElement
<1> DEFINE more == {o} \X (1 .. s)
<1>5. StarsGiven' = StarsGiven \cup more
  BY <1>1, <1>2 DEF StarsGiven
<1>6. StarsGiven \cap more = {}
  BY <1>1, <1>2 DEF StarsGiven
<1>7. IsFiniteSet({o}) /\ Cardinality({o}) = 1
  BY FS_Singleton
<1>8. IsFiniteSet(1 .. s) /\ Cardinality(1 .. s) = s
  BY <1>1, IntervalCount
<1>9. IsFiniteSet(more) /\ Cardinality(more) = s
  <2>1. IsFiniteSet(more) /\ Cardinality(more) = 1 * s
    BY <1>7, <1>8, FS_Product, Zenon
  <2>2. QED
    BY <2>1, <1>1
<1> HIDE DEF more
<1>10. Cardinality(StarsGiven \cup more) = Cardinality(StarsGiven) + s
  <2>1. /\ Cardinality(StarsGiven \cup more) =
             Cardinality(StarsGiven) + Cardinality(more) - Cardinality(StarsGiven \cap more)
        /\ Cardinality(StarsGiven \cap more) = 0
    BY <1>6, <1>9, CountsAreNumbers, FS_Union, FS_EmptySet
  <2>2. QED
    BY <2>1, <1>1, <1>9, CountsAreNumbers
<1>11. QED
  BY <1>4, <1>5, <1>10

LEMMA SameRatings ==
  ASSUME rating' = rating
  PROVE  Cardinality(Rated)' = Cardinality(Rated)
         /\ Cardinality(StarsGiven)' = Cardinality(StarsGiven)
BY DEF Rated, StarsGiven

-----------------------------------------------------------------------------
(* Steps *)

LEMMA TypeStep ==
  ASSUME PerformanceAssumption, TypeOK, Next
  PROVE  TypeOK'
<1>1. handler \in [Handlers -> Requests] /\ row \in Rows /\ score \in Inputs
  BY DEF TypeOK
<1>2. totalRatings \in Nat /\ averageRating \in Nat /\ rating \in [Orders -> 0 .. 5]
  BY DEF TypeOK
<1>3. \A h \in Handlers : handler[h] \in Requests
  BY <1>1
<1>a. \A n \in Stars : n \in 0 .. 5 /\ n \in Nat
  BY DEF PerformanceAssumption
<1>4. Idle \in Requests
  BY DEF Idle, Requests
<1> USE DEF courierVars, history
<1>5. ASSUME NEW h \in Handlers, CloseSave(h) PROVE TypeOK'
  <2>1. RowAfter(h) \in Rows
    BY <1>5, RowAfterTyped DEF CloseSave
  <2>2. ScoreInput(totalRatings, averageRating, RowAfter(h)) \in Inputs
    BY <1>2, <2>1, ScoreInputTyped
  <2>3. \A a \in Rows, i \in Inputs, k \in Closings :
          [at |-> "close.saved", kind |-> k, after |-> a, scored |-> i] \in Requests
    BY DEF Requests
  <2>6. handler[h].kind \in Closings
    BY <1>3, <1>5, RequestFields DEF CloseSave
  <2>4. handler' \in [Handlers -> Requests]
    BY <1>1, <1>4, <1>5, <2>1, <2>2, <2>3, <2>6, GotoTyped DEF CloseSave
  <2>5. QED
    BY <1>5, <2>4 DEF CloseSave, TypeOK
<1>6. ASSUME NEW h \in Handlers, CloseCommit(h) PROVE TypeOK'
  <2>1. handler[h].after \in Rows /\ handler[h].scored \in Inputs /\ handler[h].kind \in Closings
    BY <1>3, <1>6, RequestFields DEF CloseCommit
  <2>2. handler' \in [Handlers -> Requests]
    BY <1>1, <1>4, <1>6, GotoTyped DEF CloseCommit
  <2>3. QED
    BY <1>6, <2>1, <2>2 DEF CloseCommit, TypeOK
<1>7. ASSUME NEW h \in Handlers, TouchRead(h) PROVE TypeOK'
  <2>1. ScoreInput(totalRatings, averageRating, row) \in Inputs
    BY <1>1, <1>2, ScoreInputTyped
  <2>2. \A i \in Inputs : [at |-> "touch.read", scored |-> i] \in Requests
    BY DEF Requests
  <2>3. handler' \in [Handlers -> Requests]
    BY <1>1, <1>7, <2>1, <2>2, GotoTyped DEF TouchRead
  <2>4. QED
    BY <1>7, <2>3 DEF TouchRead, TypeOK
<1>8. ASSUME NEW h \in Handlers, TouchCommit(h) PROVE TypeOK'
  <2>1. handler[h].scored \in Inputs
    BY <1>3, <1>8, RequestFields DEF TouchCommit
  <2>2. handler' \in [Handlers -> Requests]
    BY <1>1, <1>4, <1>8, GotoTyped DEF TouchCommit
  <2>3. QED
    BY <1>8, <2>1, <2>2 DEF TouchCommit, TypeOK
<1>9. ASSUME NEW h \in Handlers, RateRead(h) PROVE TypeOK'
  <2>1. handler[h].order \in Orders /\ handler[h].stars \in Stars
    BY <1>3, <1>9, RequestFields DEF RateRead
  <2>2. [at |-> "rate.read", order |-> handler[h].order, stars |-> handler[h].stars,
         ratings |-> totalRatings, average |-> averageRating] \in Requests
    BY <1>2, <2>1 DEF Requests
  <2>3. handler' \in [Handlers -> Requests]
    BY <1>1, <1>9, <2>2, GotoTyped DEF RateRead
  <2>4. QED
    BY <1>9, <2>3 DEF RateRead, TypeOK
<1>10. ASSUME NEW h \in Handlers, RateSave(h) PROVE TypeOK'
  <2>1. /\ handler[h].order \in Orders /\ handler[h].stars \in Stars
        /\ handler[h].ratings \in Nat /\ handler[h].average \in Nat
    BY <1>3, <1>10, RequestFields DEF RateSave
  <2>2. handler[h].stars \in Nat
    BY <1>a, <2>1
  <2> DEFINE avg == AverageAfter(handler[h].ratings, handler[h].average, handler[h].stars)
  <2>3. avg \in Nat /\ handler[h].ratings + 1 \in Nat
    <3>1. avg \in Nat
      BY <2>1, <2>2, AverageNat, Zenon
    <3>2. QED
      BY <3>1, <2>1
  <2>4. ScoredRating(h) \in Inputs
    BY <1>1, <2>3, ScoreInputTyped DEF ScoredRating
  <2>5. [at |-> "rate.saved", order |-> handler[h].order, stars |-> handler[h].stars,
         ratings |-> handler[h].ratings + 1, average |-> avg,
         scored |-> ScoredRating(h)] \in Requests
    BY <2>1, <2>3, <2>4 DEF Requests
  <2>6. handler' \in [Handlers -> Requests]
    BY <1>1, <1>4, <1>10, <2>5, GotoTyped DEF RateSave
  <2>7. QED
    BY <1>10, <2>6 DEF RateSave, TypeOK
<1>11. ASSUME NEW h \in Handlers, RateCommit(h) PROVE TypeOK'
  <2>1. /\ handler[h].order \in Orders /\ handler[h].stars \in Stars
        /\ handler[h].ratings \in Nat /\ handler[h].average \in Nat
        /\ handler[h].scored \in Inputs
    BY <1>3, <1>11, RequestFields DEF RateCommit
  <2>2. handler[h].stars \in 0 .. 5
    BY <1>a, <2>1
  <2>3. handler' \in [Handlers -> Requests]
    BY <1>1, <1>4, <1>11, GotoTyped DEF RateCommit
  <2>4. rating' \in [Orders -> 0 .. 5]
    BY <1>2, <1>11, <2>1, <2>2 DEF RateCommit
  <2>5. QED
    BY <1>11, <2>1, <2>3, <2>4 DEF RateCommit, TypeOK
<1>12. ASSUME NEW h \in Handlers, Abort(h) PROVE TypeOK'
  <2>1. handler' \in [Handlers -> Requests]
    BY <1>1, <1>4, <1>12, GotoTyped DEF Abort
  <2>2. QED
    BY <1>12, <2>1 DEF Abort, TypeOK
<1>13. ASSUME NEW h \in Handlers, TouchLastActive(h) PROVE TypeOK'
  <2>1. [at |-> "touch.saved"] \in Requests
    BY DEF Requests
  <2>2. handler' \in [Handlers -> Requests]
    BY <1>1, <1>13, <2>1, GotoTyped DEF TouchLastActive
  <2>3. row' \in Rows
    BY <1>1, <1>13 DEF TouchLastActive, Rows
  <2>4. QED
    BY <1>13, <2>2, <2>3 DEF TouchLastActive, TypeOK
<1>14. ASSUME NEW h \in Handlers, NEW kind \in Closings, NEW d \in Durations,
              CloseRead(h, kind, d)
       PROVE  TypeOK'
  <2>1. \A t \in Nat \cup {NoTime} :
          [at |-> "close.read", kind |-> kind, before |-> row, duration |-> t] \in Requests
    BY <1>1 DEF Requests
  <2>2. d \in Nat
    BY DEF PerformanceAssumption
  <2>3. handler' \in [Handlers -> Requests]
    BY <1>1, <1>14, <2>1, <2>2, GotoTyped DEF CloseRead
  <2>4. QED
    BY <1>14, <2>3 DEF CloseRead, TypeOK
<1>15. ASSUME NEW h \in Handlers, NEW o \in Orders, NEW stars \in Stars,
              RateCheck(h, o, stars)
       PROVE  TypeOK'
  <2>1. [at |-> "rate.checked", order |-> o, stars |-> stars] \in Requests
    BY DEF Requests
  <2>2. handler' \in [Handlers -> Requests]
    BY <1>1, <1>15, <2>1, GotoTyped DEF RateCheck
  <2>3. QED
    BY <1>15, <2>2 DEF RateCheck, TypeOK
<1>16. QED
  BY <1>5, <1>6, <1>7, <1>8, <1>9, <1>10, <1>11, <1>12, <1>13, <1>14, <1>15
  DEF Next, Advance

(* A step that neither saves nor commits a closing. *)
LEMMA ClosingsKept ==
  ASSUME handler \in [Handlers -> Requests], ClosingsFit, row' = row, closed' = closed,
         NEW h \in Handlers, NEW q \in Requests, q.at # "close.saved", Goto(h, q)
  PROVE  ClosingsFit'
<1>1. handler' \in [Handlers -> Requests] /\ handler'[h] = q
      /\ \A g \in Handlers : g # h => handler'[g] = handler[g]
  BY GotoTyped
<1>2. QED
  BY <1>1 DEF ClosingsFit, Counts, OneMore

LEMMA IdleKeepsClosings ==
  ASSUME handler \in [Handlers -> Requests], ClosingsFit, row' = row, closed' = closed,
         NEW h \in Handlers, Goto(h, Idle)
  PROVE  ClosingsFit'
<1>1. Idle \in Requests /\ Idle.at # "close.saved"
  BY DEF Idle, Requests
<1>2. QED
  BY <1>1, ClosingsKept

LEMMA ClosingsStep ==
  ASSUME PerformanceAssumption, TypeOK, ClosingsFit, Next
  PROVE  ClosingsFit'
<1> USE DEF history
<1>1. handler \in [Handlers -> Requests] /\ row \in Rows
  BY DEF TypeOK
<1>2. \A h \in Handlers : handler[h] \in Requests
  BY <1>1
<1>3. handler' \in [Handlers -> Requests]
  BY TypeStep DEF TypeOK
<1>4. ASSUME NEW h \in Handlers, CloseSave(h) PROVE ClosingsFit'
  <2>1. CASE Goto(h, Idle)
    BY <1>1, <1>4, <2>1, IdleKeepsClosings DEF CloseSave
  <2>2. CASE ~Goto(h, Idle)
    <3> DEFINE after == RowAfter(h)
    <3>1. /\ handler'[h].at = "close.saved" /\ handler'[h].after = after
          /\ handler'[h].kind = handler[h].kind
          /\ \A g \in Handlers : g # h => handler'[g] = handler[g]
      BY <1>1, <1>4, <2>2 DEF CloseSave, Goto
    <3>2. \A g \in Handlers : handler[g].at # "close.saved"
      BY <1>4 DEF CloseSave, RowLocked
    <3>3. handler[h].kind \in Closings
      BY <1>2, <1>4, RequestFields DEF CloseSave
    <3>4. /\ Counts(after, OneMore(closed, handler[h].kind))
          /\ after.total = row.total + 1 /\ after.active = row.active
      <4>1. closed \in [Closings -> Nat] /\ Counts(row, closed)
        BY DEF TypeOK, ClosingsFit
      <4>2. QED
        BY <1>1, <3>3, <4>1 DEF RowAfter, Counts, OneMore, Rows, Closings
    <3> HIDE DEF after
    <3>5. row' = row /\ closed' = closed
      BY <1>4 DEF CloseSave
    <3>6. QED
      BY <3>1, <3>2, <3>4, <3>5 DEF ClosingsFit, Counts, OneMore
  <2>3. QED
    BY <2>1, <2>2
<1>5. ASSUME NEW h \in Handlers, CloseCommit(h) PROVE ClosingsFit'
  <2>1. /\ handler'[h] = Idle /\ row' = handler[h].after
        /\ closed' = OneMore(closed, handler[h].kind)
        /\ \A g \in Handlers : g # h => handler'[g] = handler[g]
    BY <1>1, <1>5 DEF CloseCommit, Goto, OneMore
  <2>2. \A g \in Handlers : handler'[g].at # "close.saved"
    BY <1>5, <2>1 DEF CloseCommit, ClosingsFit, Idle
  <2>3. QED
    BY <1>5, <2>1, <2>2 DEF CloseCommit, ClosingsFit, Counts
<1>6. ASSUME NEW h \in Handlers, TouchRead(h) PROVE ClosingsFit'
  <2>1. handler'[h].at # "close.saved" /\ row' = row /\ closed' = closed
        /\ \A g \in Handlers : g # h => handler'[g] = handler[g]
    BY <1>1, <1>6 DEF TouchRead, Goto
  <2>2. QED
    BY <2>1 DEF ClosingsFit, Counts, OneMore
<1>7. ASSUME NEW h \in Handlers, TouchCommit(h) PROVE ClosingsFit'
  BY <1>1, <1>7, IdleKeepsClosings DEF TouchCommit
<1>8. ASSUME NEW h \in Handlers, RateRead(h) PROVE ClosingsFit'
  <2>1. handler'[h].at # "close.saved" /\ row' = row /\ closed' = closed
        /\ \A g \in Handlers : g # h => handler'[g] = handler[g]
    BY <1>1, <1>8 DEF RateRead, Goto
  <2>2. QED
    BY <2>1 DEF ClosingsFit, Counts, OneMore
<1>9. ASSUME NEW h \in Handlers, RateSave(h) PROVE ClosingsFit'
  <2>1. handler'[h].at # "close.saved" /\ row' = row /\ closed' = closed
        /\ \A g \in Handlers : g # h => handler'[g] = handler[g]
    BY <1>1, <1>9 DEF RateSave, Goto, Idle
  <2>2. QED
    BY <2>1 DEF ClosingsFit, Counts, OneMore
<1>10. ASSUME NEW h \in Handlers, RateCommit(h) PROVE ClosingsFit'
  BY <1>1, <1>10, IdleKeepsClosings DEF RateCommit
<1>11. ASSUME NEW h \in Handlers, Abort(h) PROVE ClosingsFit'
  BY <1>1, <1>11, IdleKeepsClosings DEF Abort
<1>12. ASSUME NEW h \in Handlers, TouchLastActive(h) PROVE ClosingsFit'
  <2>1. handler'[h].at # "close.saved"
        /\ \A g \in Handlers : g # h => handler'[g] = handler[g]
    BY <1>1, <1>12 DEF TouchLastActive, Goto
  <2>2. \A g \in Handlers : handler'[g].at # "close.saved"
    BY <1>12, <2>1 DEF TouchLastActive, RowLocked
  <2>3. Counts(row, closed)'
    BY <1>1, <1>12 DEF TouchLastActive, ClosingsFit, Counts, Rows
  <2>4. QED
    BY <2>2, <2>3 DEF ClosingsFit
<1>13. ASSUME NEW h \in Handlers, NEW kind \in Closings, NEW d \in Durations,
              CloseRead(h, kind, d)
       PROVE  ClosingsFit'
  <2>1. handler'[h].at # "close.saved" /\ row' = row /\ closed' = closed
        /\ \A g \in Handlers : g # h => handler'[g] = handler[g]
    BY <1>1, <1>13 DEF CloseRead, Goto
  <2>2. QED
    BY <2>1 DEF ClosingsFit, Counts, OneMore
<1>14. ASSUME NEW h \in Handlers, NEW o \in Orders, NEW stars \in Stars,
              RateCheck(h, o, stars)
       PROVE  ClosingsFit'
  <2>1. handler'[h].at # "close.saved" /\ row' = row /\ closed' = closed
        /\ \A g \in Handlers : g # h => handler'[g] = handler[g]
    BY <1>1, <1>14 DEF RateCheck, Goto
  <2>2. QED
    BY <2>1 DEF ClosingsFit, Counts, OneMore
<1>15. QED
  BY <1>4, <1>5, <1>6, <1>7, <1>8, <1>9, <1>10, <1>11, <1>12, <1>13, <1>14
  DEF Next, Advance

(* While one request is served, the others are idle. *)
LEMMA OthersIdle ==
  ASSUME handler \in [Handlers -> Requests], orderly, OneByOne, NEW h \in Handlers,
         NEW q, Goto(h, q), handler[h].at # "idle" \/ MayServe
  PROVE  /\ OneByOne' /\ handler'[h] = q
         /\ \A g \in Handlers : g # h => handler'[g].at = "idle"
<1>1. /\ handler'[h] = q
      /\ \A g \in Handlers : g # h => handler'[g] = handler[g]
  BY DEF Goto
<1>2. \A g \in Handlers : g # h => handler[g].at = "idle"
  BY DEF OneByOne, MayServe, Idle
<1>3. QED
  BY <1>1, <1>2 DEF OneByOne

(* Then only its own readings have to be right. *)
LEMMA OnlyOwnReadings ==
  ASSUME NEW h \in Handlers, ReadsFit(handler[h])',
         \A g \in Handlers : g # h => handler'[g].at = "idle"
  PROVE  \A g \in Handlers : ReadsFit(handler[g])'
<1>1. \A g \in Handlers : handler'[g].at = "idle" => ReadsFit(handler[g])'
  BY DEF ReadsFit
<1>2. QED
  BY <1>1

LEMMA SameRatingsFit ==
  ASSUME RatingsFit, UNCHANGED courierVars PROVE RatingsFit'
BY SameRatings DEF RatingsFit, courierVars

LEMMA OrderlyStep ==
  ASSUME PerformanceAssumption, TypeOK, orderly, OrderlyFit, Next
  PROVE  OrderlyFit'
<1>1. handler \in [Handlers -> Requests] /\ row \in Rows
  BY DEF TypeOK
<1>2. \A h \in Handlers : handler[h] \in Requests /\ ReadsFit(handler[h])
  BY <1>1 DEF OrderlyFit
<1>3. OneByOne /\ RatingsFit /\ Agrees(score, totalRatings, averageRating, row)
  BY DEF OrderlyFit
<1>4. ASSUME NEW h \in Handlers, Goto(h, Idle), UNCHANGED <<courierVars, row, score>>,
             handler[h].at # "idle"
      PROVE  OrderlyFit'
  <2>1. /\ OneByOne' /\ handler'[h] = Idle
        /\ \A g \in Handlers : g # h => handler'[g].at = "idle"
    BY <1>1, <1>3, <1>4, OthersIdle
  <2>2. ReadsFit(handler[h])'
    BY <2>1 DEF ReadsFit, Idle
  <2>3. QED
    BY <1>3, <1>4, <2>1, <2>2, OnlyOwnReadings, SameRatingsFit DEF OrderlyFit, courierVars, Agrees
<1>5. ASSUME NEW h \in Handlers, CloseSave(h) PROVE OrderlyFit'
  <2>1. CASE Goto(h, Idle)
    BY <1>4, <1>5, <2>1 DEF CloseSave
  <2>2. CASE ~Goto(h, Idle)
    <3> DEFINE q == [at |-> "close.saved", kind |-> handler[h].kind, after |-> RowAfter(h),
                     scored |-> ScoreInput(totalRatings, averageRating, RowAfter(h))]
    <3>1. Goto(h, q)
      BY <1>5, <2>2 DEF CloseSave
    <3>2. /\ OneByOne' /\ handler'[h] = q
          /\ \A g \in Handlers : g # h => handler'[g].at = "idle"
      BY <1>1, <1>3, <1>5, <3>1, OthersIdle DEF CloseSave
    <3>3. /\ q.at = "close.saved"
          /\ Agrees(q.scored, totalRatings, averageRating, q.after)
      BY DEF Agrees, ScoreInput
    <3> HIDE DEF q
    <3>4. UNCHANGED <<courierVars, row, score>>
      BY <1>5 DEF CloseSave
    <3>5. ReadsFit(handler[h])'
      BY <3>2, <3>3, <3>4 DEF ReadsFit, Agrees, courierVars
    <3>6. QED
      BY <1>3, <3>2, <3>4, <3>5, OnlyOwnReadings, SameRatingsFit
      DEF OrderlyFit, courierVars, Agrees
  <2>3. QED
    BY <2>1, <2>2
<1>6. ASSUME NEW h \in Handlers, CloseCommit(h) PROVE OrderlyFit'
  <2>1. /\ OneByOne' /\ handler'[h] = Idle
        /\ \A g \in Handlers : g # h => handler'[g].at = "idle"
    BY <1>1, <1>3, <1>6, OthersIdle DEF CloseCommit
  <2>2. ReadsFit(handler[h])'
    BY <2>1 DEF ReadsFit, Idle
  <2>3. Agrees(score, totalRatings, averageRating, row)'
    BY <1>2, <1>6 DEF CloseCommit, ReadsFit, Agrees, courierVars
  <2>4. QED
    BY <1>3, <1>6, <2>1, <2>2, <2>3, OnlyOwnReadings, SameRatingsFit
    DEF OrderlyFit, CloseCommit
<1>7. ASSUME NEW h \in Handlers, TouchRead(h) PROVE OrderlyFit'
  <2> DEFINE q == [at |-> "touch.read", scored |-> ScoreInput(totalRatings, averageRating, row)]
  <2>1. /\ OneByOne' /\ handler'[h] = q
        /\ \A g \in Handlers : g # h => handler'[g].at = "idle"
    BY <1>1, <1>3, <1>7, OthersIdle DEF TouchRead
  <2>2. q.at = "touch.read" /\ Agrees(q.scored, totalRatings, averageRating, row)
    BY DEF Agrees, ScoreInput
  <2> HIDE DEF q
  <2>3. UNCHANGED <<courierVars, row, score>>
    BY <1>7 DEF TouchRead
  <2>4. ReadsFit(handler[h])'
    BY <2>1, <2>2, <2>3 DEF ReadsFit, Agrees, courierVars
  <2>5. QED
    BY <1>3, <2>1, <2>3, <2>4, OnlyOwnReadings, SameRatingsFit
    DEF OrderlyFit, courierVars, Agrees
<1>8. ASSUME NEW h \in Handlers, TouchCommit(h) PROVE OrderlyFit'
  <2>1. /\ OneByOne' /\ handler'[h] = Idle
        /\ \A g \in Handlers : g # h => handler'[g].at = "idle"
    BY <1>1, <1>3, <1>8, OthersIdle DEF TouchCommit
  <2>2. ReadsFit(handler[h])'
    BY <2>1 DEF ReadsFit, Idle
  <2>3. Agrees(score, totalRatings, averageRating, row)'
    BY <1>2, <1>8 DEF TouchCommit, ReadsFit, Agrees, courierVars
  <2>4. QED
    BY <1>3, <1>8, <2>1, <2>2, <2>3, OnlyOwnReadings, SameRatingsFit
    DEF OrderlyFit, TouchCommit
<1>9. ASSUME NEW h \in Handlers, RateRead(h) PROVE OrderlyFit'
  <2> DEFINE q == [at |-> "rate.read", order |-> handler[h].order, stars |-> handler[h].stars,
                   ratings |-> totalRatings, average |-> averageRating]
  <2>1. /\ OneByOne' /\ handler'[h] = q
        /\ \A g \in Handlers : g # h => handler'[g].at = "idle"
    BY <1>1, <1>3, <1>9, OthersIdle DEF RateRead
  <2>2. /\ q.at = "rate.read" /\ q.ratings = totalRatings /\ q.average = averageRating
        /\ rating[q.order] = 0
    BY <1>2, <1>9 DEF RateRead, ReadsFit
  <2> HIDE DEF q
  <2>3. UNCHANGED <<courierVars, row, score>>
    BY <1>9 DEF RateRead
  <2>4. ReadsFit(handler[h])'
    BY <2>1, <2>2, <2>3 DEF ReadsFit, courierVars
  <2>5. QED
    BY <1>3, <2>1, <2>3, <2>4, OnlyOwnReadings, SameRatingsFit
    DEF OrderlyFit, courierVars, Agrees
<1>10. ASSUME NEW h \in Handlers, RateSave(h) PROVE OrderlyFit'
  <2>1. CASE Goto(h, Idle)
    BY <1>4, <1>10, <2>1 DEF RateSave
  <2>2. CASE ~Goto(h, Idle)
    <3> DEFINE q == [at |-> "rate.saved", order |-> handler[h].order,
                     stars |-> handler[h].stars, ratings |-> handler[h].ratings + 1,
                     average |-> AverageAfter(handler[h].ratings, handler[h].average,
                                              handler[h].stars),
                     scored |-> ScoredRating(h)]
    <3>1. Goto(h, q) /\ rating[handler[h].order] = 0
      BY <1>10, <2>2 DEF RateSave
    <3>2. /\ OneByOne' /\ handler'[h] = q
          /\ \A g \in Handlers : g # h => handler'[g].at = "idle"
      BY <1>1, <1>3, <1>10, <3>1, OthersIdle DEF RateSave
    <3>3. handler[h].ratings = totalRatings /\ handler[h].average = averageRating
      BY <1>2, <1>10 DEF RateSave, ReadsFit
    <3>4. /\ q.at = "rate.saved" /\ q.ratings = totalRatings + 1
          /\ q.average = AverageAfter(totalRatings, averageRating, q.stars)
          /\ Agrees(q.scored, q.ratings, q.average, row)
          /\ rating[q.order] = 0
      BY <3>1, <3>3 DEF Agrees, ScoreInput, ScoredRating
    <3> HIDE DEF q
    <3>5. UNCHANGED <<courierVars, row, score>>
      BY <1>10 DEF RateSave
    <3>6. ReadsFit(handler[h])'
      BY <3>2, <3>4, <3>5 DEF ReadsFit, Agrees, courierVars
    <3>7. QED
      BY <1>3, <3>2, <3>5, <3>6, OnlyOwnReadings, SameRatingsFit
      DEF OrderlyFit, courierVars, Agrees
  <2>3. QED
    BY <2>1, <2>2
<1>11. ASSUME NEW h \in Handlers, RateCommit(h) PROVE OrderlyFit'
  <2> DEFINE o == handler[h].order
             s == handler[h].stars
             n == totalRatings
             avg == averageRating
             sum == Cardinality(StarsGiven)
  <2>1. /\ OneByOne' /\ handler'[h] = Idle
        /\ \A g \in Handlers : g # h => handler'[g].at = "idle"
    BY <1>1, <1>3, <1>11, OthersIdle DEF RateCommit
  <2>2. ReadsFit(handler[h])'
    BY <2>1 DEF ReadsFit, Idle
  <2>3. /\ rating[o] = 0 /\ handler[h].ratings = n + 1
        /\ handler[h].average = AverageAfter(n, avg, s)
        /\ Agrees(handler[h].scored, handler[h].ratings, handler[h].average, row)
    BY <1>2, <1>11 DEF RateCommit, ReadsFit
  <2>4. /\ totalRatings' = n + 1 /\ averageRating' = AverageAfter(n, avg, s)
        /\ rating' = [rating EXCEPT ![o] = s]
    BY <1>11, <2>3 DEF RateCommit
  <2>5. Agrees(score, totalRatings, averageRating, row)'
    BY <1>11, <2>3, <2>4 DEF RateCommit, Agrees
  <2>6. o \in Orders /\ s \in Stars
    BY <1>2, <1>11, RequestFields DEF RateCommit
  <2>7. n \in Nat /\ avg \in Nat /\ s \in Nat /\ sum \in Nat
    <3>1. n \in Nat /\ avg \in Nat
      BY DEF TypeOK
    <3>2. \A k \in Stars : k \in Nat
      BY DEF PerformanceAssumption
    <3>3. QED
      BY <2>6, <3>1, <3>2, CountsAreNumbers
  <2>8. n = Cardinality(Rated) /\ Near(n, avg, sum)
    BY <1>3 DEF RatingsFit
  <2>9. n = 0 => sum = 0
    BY <2>8, CountsAreNumbers
  <2>10. /\ Cardinality(Rated)' = n + 1
         /\ Cardinality(StarsGiven)' = sum + s
    BY <2>3, <2>4, <2>6, <2>8, OneMoreRating
  <2>11. Near(n + 1, AverageAfter(n, avg, s), sum + s)
    <3> HIDE DEF n, avg, s, sum
    <3>1. 4 * (n * avg - 100 * sum) <= n * (n + 1) /\ -4 * (n * avg - 100 * sum) <= n * (n + 1)
      BY <2>8 DEF Near
    <3>2. n + 1 + 1 = n + 2
      BY <2>7
    <3>3. QED
      BY <2>7, <2>9, <3>1, <3>2, AverageStaysNear, Zenon DEF Near
  <2>12. RatingsFit'
    BY <2>4, <2>10, <2>11 DEF RatingsFit
  <2>13. QED
    BY <2>1, <2>2, <2>5, <2>12, OnlyOwnReadings DEF OrderlyFit
<1>12. ASSUME NEW h \in Handlers, Abort(h) PROVE OrderlyFit'
  <2>1. CASE handler[h].at = "idle"
    <3>1. handler[h] = Idle
      BY <1>2, <2>1 DEF Requests, Idle
    <3>2. QED
      BY <1>12, <3>1 DEF Abort
  <2>2. CASE handler[h].at # "idle"
    BY <1>4, <1>12, <2>2 DEF Abort
  <2>3. QED
    BY <2>1, <2>2
<1>13. ASSUME NEW h \in Handlers, TouchLastActive(h) PROVE OrderlyFit'
  <2>1. /\ OneByOne' /\ handler'[h] = [at |-> "touch.saved"]
        /\ \A g \in Handlers : g # h => handler'[g].at = "idle"
    BY <1>1, <1>3, <1>13, OthersIdle DEF TouchLastActive
  <2>2. ReadsFit(handler[h])'
    BY <2>1 DEF ReadsFit
  <2>3. Agrees(score, totalRatings, averageRating, row)'
    BY <1>1, <1>3, <1>13 DEF TouchLastActive, Agrees, courierVars, Rows
  <2>4. QED
    BY <1>3, <1>13, <2>1, <2>2, <2>3, OnlyOwnReadings, SameRatingsFit
    DEF OrderlyFit, TouchLastActive
<1>14. ASSUME NEW h \in Handlers, NEW kind \in Closings, NEW d \in Durations,
              CloseRead(h, kind, d)
       PROVE  OrderlyFit'
  <2>1. /\ OneByOne' /\ handler'[h].at = "close.read"
        /\ \A g \in Handlers : g # h => handler'[g].at = "idle"
    BY <1>1, <1>3, <1>14, OthersIdle DEF CloseRead
  <2>2. ReadsFit(handler[h])'
    BY <2>1 DEF ReadsFit
  <2>3. QED
    BY <1>3, <1>14, <2>1, <2>2, OnlyOwnReadings, SameRatingsFit
    DEF OrderlyFit, CloseRead, courierVars, Agrees
<1>15. ASSUME NEW h \in Handlers, NEW o \in Orders, NEW stars \in Stars,
              RateCheck(h, o, stars)
       PROVE  OrderlyFit'
  <2>1. /\ OneByOne' /\ handler'[h] = [at |-> "rate.checked", order |-> o, stars |-> stars]
        /\ \A g \in Handlers : g # h => handler'[g].at = "idle"
    BY <1>1, <1>3, <1>15, OthersIdle DEF RateCheck
  <2>2. ReadsFit(handler[h])'
    BY <1>15, <2>1 DEF ReadsFit, RateCheck, courierVars
  <2>3. QED
    BY <1>3, <1>15, <2>1, <2>2, OnlyOwnReadings, SameRatingsFit
    DEF OrderlyFit, RateCheck, courierVars, Agrees
<1>16. QED
  BY <1>5, <1>6, <1>7, <1>8, <1>9, <1>10, <1>11, <1>12, <1>13, <1>14, <1>15
  DEF Next, Advance

-----------------------------------------------------------------------------
(* Theorems *)

LEMMA PerformanceInvInit ==
  ASSUME PerformanceAssumption, Init PROVE PerformanceInv
<1> USE DEF Init
<1>1. NoRow \in Rows
  BY DEF NoRow, Rows, NoTime
<1>2. TypeOK
  <2>1. ScoreInput(0, 0, NoRow) \in Inputs
    BY <1>1, ScoreInputTyped
  <2>2. Idle \in Requests
    BY DEF Idle, Requests
  <2>3. QED
    BY <1>1, <2>1, <2>2 DEF TypeOK
<1>3. ClosingsFit
  <2>1. Counts(row, closed)
    BY DEF Counts, NoRow, Closings
  <2>2. \A h \in Handlers : handler[h].at = "idle"
    BY DEF Idle
  <2>3. QED
    BY <2>1, <2>2 DEF ClosingsFit
<1>4. OrderlyFit
  <2>1. Rated = {} /\ StarsGiven = {}
    BY DEF Rated, StarsGiven
  <2>2. RatingsFit
    BY <2>1, FS_EmptySet DEF RatingsFit, Near
  <2>3. QED
    BY <2>2 DEF OrderlyFit, OneByOne, ReadsFit, Agrees, ScoreInput, Idle
<1>5. QED
  BY <1>2, <1>3, <1>4 DEF PerformanceInv

LEMMA PerformanceInvStep ==
  ASSUME PerformanceAssumption, PerformanceInv, [Next]_vars PROVE PerformanceInv'
<1>1. CASE Next
  <2>1. orderly' = orderly
    BY <1>1 DEF Next, history, Advance, CloseRead, CloseSave, CloseCommit, TouchLastActive,
                TouchRead, TouchCommit, RateCheck, RateRead, RateSave, RateCommit, Abort
  <2>2. QED
    BY <1>1, <2>1, TypeStep, ClosingsStep, OrderlyStep DEF PerformanceInv
<1>2. CASE UNCHANGED vars
  <2>1. TypeOK'
    BY <1>2 DEF PerformanceInv, TypeOK, vars, history
  <2>2. ClosingsFit'
    BY <1>2 DEF PerformanceInv, ClosingsFit, Counts, OneMore, vars, history
  <2>3. OrderlyFit => OrderlyFit'
    BY <1>2, SameRatingsFit DEF OrderlyFit, OneByOne, ReadsFit, Agrees, vars, history, courierVars
  <2>4. QED
    BY <1>2, <2>1, <2>2, <2>3 DEF PerformanceInv, vars, history
<1>3. QED
  BY <1>1, <1>2

THEOREM PerformanceInvAlways == Spec => []PerformanceInv
<1>1. Init => PerformanceInv
  BY PerformanceInvInit, PerformanceAssumption
<1>2. PerformanceInv /\ [Next]_vars => PerformanceInv'
  BY PerformanceInvStep, PerformanceAssumption
<1>3. QED
  BY <1>1, <1>2, PTL DEF Spec

(* Whatever requests race for the rows of a courier, row, ratings and the  *)
(* inputs of the score keep their types: no counter becomes negative.      *)
THEOREM TypeOKAlways == Spec => []TypeOK
<1>1. PerformanceInv => TypeOK
  BY DEF PerformanceInv
<1>2. QED
  BY <1>1, PerformanceInvAlways, PTL

(* The row counts the closings that were committed, every one once, in any *)
(* interleaving, and with requests one by one every rating is counted.     *)
THEOREM EveryEventCountsAlways == Spec => []EveryEventCounts
<1>1. PerformanceInv => EveryEventCounts
  BY DEF PerformanceInv, ClosingsFit, Counts, OrderlyFit, RatingsFit, EveryEventCounts
<1>2. QED
  BY <1>1, PerformanceInvAlways, PTL

(* After n ratings one by one the stored average is within (n + 1) / 4     *)
(* hundredths of their mean, for any number of orders.                     *)
THEOREM AverageNearMeanAlways == Spec => []AverageNearMean
<1>1. PerformanceInv => AverageNearMean
  BY DEF PerformanceInv, OrderlyFit, RatingsFit, Near, AverageNearMean
<1>2. QED
  BY <1>1, PerformanceInvAlways, PTL

(* Between requests served one by one, the score is computed from the      *)
(* ratings and the statistics that are stored.                             *)
THEOREM ScoreIsCurrentAlways == Spec => []ScoreIsCurrent
<1>1. PerformanceInv => ScoreIsCurrent
  BY DEF PerformanceInv, OrderlyFit, Agrees, ScoreIsCurrent, Lasting, ScoreInput
<1>2. QED
  BY <1>1, PerformanceInvAlways, PTL

(* No closing is lost and none is counted twice: the row a commit writes   *)
(* is the row as it is then with one closing more, whatever the others     *)
(* wrote since it was read, and it does not undo a touch.                  *)
ClosingIsAdded ==
  [][\A h \in Handlers : CloseCommit(h) =>
       row'.total = row.total + 1 /\ row'.active = row.active]_vars

THEOREM ClosingIsAddedAlways == Spec => ClosingIsAdded
<1>1. ASSUME PerformanceInv, NEW h \in Handlers, CloseCommit(h)
      PROVE  row'.total = row.total + 1 /\ row'.active = row.active
  BY <1>1 DEF PerformanceInv, ClosingsFit, CloseCommit
<1>2. PerformanceInv /\ [Next]_vars =>
        [\A h \in Handlers : CloseCommit(h) =>
           row'.total = row.total + 1 /\ row'.active = row.active]_vars
  BY <1>1
<1>3. QED
  BY <1>2, PerformanceInvAlways, PTL DEF Spec, ClosingIsAdded

=============================================================================
