------------------------- MODULE PayoutLedgerProofs -------------------------
(***************************************************************************)
(* Theorems about PayoutLedger, for every set of couriers, earnings,       *)
(* payout requests and concurrent requests, and every amount.              *)
(***************************************************************************)
EXTENDS PayoutLedger, FiniteSetTheorems, WellFoundedInduction, TLAPS

(* TypeOK but for the amounts: that they are numbers needs more than types, *)
(* see AmountInv.                                                          *)

Typed ==
  /\ earner \in [Earnings -> Couriers \cup {NoCourier}]
  /\ estatus \in [Earnings -> EarningStatus \cup {"ABSENT"}]
  /\ payoutOf \in [Earnings -> Payouts \cup {NoPayout}]
  /\ payee \in [Payouts -> Couriers \cup {NoCourier}]
  /\ pstatus \in [Payouts -> PayoutStatus \cup {"ABSENT"}]
  /\ amount = [p \in Payouts |-> amount[p]]
  /\ handler \in [Handlers -> Requests]
  /\ orderly \in BOOLEAN

(* What a request remembers at each stage.                                 *)
LEMMA HandlerFields ==
  ASSUME Typed, NEW h \in Handlers
  PROVE  /\ handler[h].at \in CreateSteps =>
              handler[h].courier \in Couriers /\ handler[h].due \in SUBSET Earnings
         /\ handler[h].at \in StaffSteps => handler[h].payout \in Payouts
<1>1. handler[h] \in Requests
  BY DEF Typed
<1>2. QED
  BY <1>1 DEF Requests, CreateSteps, StaffSteps

LEMMA IdleTyped == Idle \in Requests
BY DEF Idle, Requests

LEMMA HandlerWrittenTyped ==
  ASSUME Typed, NEW h \in Handlers, NEW r \in Requests, Goto(h, r)
  PROVE  /\ handler' \in [Handlers -> Requests]
         /\ \A g \in Handlers : handler'[g] = IF g = h THEN r ELSE handler[g]
BY DEF Typed, Goto

-----------------------------------------------------------------------------
(* Types *)

LEMMA TypedInit == Init => Typed
BY DEF Init, Typed, Idle, Requests

LEMMA GotoTyped ==
  ASSUME Typed, NEW h \in Handlers, NEW r \in Requests, Goto(h, r),
         UNCHANGED <<earningVars, payoutVars, orderly>>
  PROVE  Typed'
BY HandlerWrittenTyped DEF Typed, earningVars, payoutVars

LEMMA TypedStep == Typed /\ [Next]_vars => Typed'
<1> SUFFICES ASSUME Typed, [Next]_vars PROVE Typed'
  OBVIOUS
<1> USE DEF EarningStatus, PayoutStatus
<1>1. ASSUME NEW h \in Handlers, CreateCheckOpen(h) PROVE Typed'
  BY <1>1, HandlerFields, IdleTyped, GotoTyped DEF CreateCheckOpen, Requests, CreateSteps
<1>2. ASSUME NEW h \in Handlers, CreateCommit(h) PROVE Typed'
  <2>1. handler' \in [Handlers -> Requests]
    BY <1>2, IdleTyped, HandlerWrittenTyped DEF CreateCommit
  <2>2. handler[h].courier \in Couriers
    BY <1>2, HandlerFields DEF CreateCommit, CreateSteps
  <2>3. /\ payee' \in [Payouts -> Couriers \cup {NoCourier}]
        /\ pstatus' \in [Payouts -> PayoutStatus \cup {"ABSENT"}]
        /\ amount' = [p \in Payouts |-> amount'[p]]
    BY <1>2, <2>2 DEF CreateCommit, Typed
  <2>4. estatus' \in [Earnings -> EarningStatus \cup {"ABSENT"}]
    BY <1>2 DEF CreateCommit, Typed
  <2>5. payoutOf' \in [Earnings -> Payouts \cup {NoPayout}]
    BY <1>2 DEF CreateCommit, Typed
  <2>6. QED
    BY <1>2, <2>1, <2>3, <2>4, <2>5 DEF CreateCommit, Typed
<1>3. ASSUME NEW h \in Handlers, ApproveCommit(h) PROVE Typed'
  BY <1>3, IdleTyped, HandlerWrittenTyped DEF ApproveCommit, Typed, earningVars
<1>4. ASSUME NEW h \in Handlers, RejectCommit(h) PROVE Typed'
  <2>1. handler' \in [Handlers -> Requests]
    BY <1>4, IdleTyped, HandlerWrittenTyped DEF RejectCommit
  <2>2. estatus' \in [Earnings -> EarningStatus \cup {"ABSENT"}]
    BY <1>4 DEF RejectCommit, Typed
  <2>3. payoutOf' \in [Earnings -> Payouts \cup {NoPayout}]
    BY <1>4 DEF RejectCommit, Typed
  <2>4. pstatus' \in [Payouts -> PayoutStatus \cup {"ABSENT"}]
    BY <1>4 DEF RejectCommit, Typed
  <2>5. QED
    BY <1>4, <2>1, <2>2, <2>3, <2>4 DEF RejectCommit, Typed
<1>5. ASSUME NEW h \in Handlers, PayCommit(h) PROVE Typed'
  <2>1. handler' \in [Handlers -> Requests]
    BY <1>5, IdleTyped, HandlerWrittenTyped DEF PayCommit
  <2>2. estatus' \in [Earnings -> EarningStatus \cup {"ABSENT"}]
    BY <1>5 DEF PayCommit, Typed
  <2>3. pstatus' \in [Payouts -> PayoutStatus \cup {"ABSENT"}]
    BY <1>5 DEF PayCommit, Typed
  <2>4. QED
    BY <1>5, <2>1, <2>2, <2>3 DEF PayCommit, Typed
<1>6. ASSUME NEW h \in Handlers, Abort(h) PROVE Typed'
  BY <1>6, IdleTyped, GotoTyped DEF Abort
<1>7. ASSUME NEW h \in Handlers, NEW c \in Couriers, CreateRead(h, c) PROVE Typed'
  BY <1>7, GotoTyped DEF CreateRead, Requests, CreateSteps, Due
<1>8. ASSUME NEW h \in Handlers, NEW p \in Payouts,
             ApproveRead(h, p) \/ RejectRead(h, p) \/ PayRead(h, p)
      PROVE  Typed'
  BY <1>8, GotoTyped DEF ApproveRead, RejectRead, PayRead, Requests, StaffSteps
<1>9. ASSUME NEW e \in Earnings, NEW c \in Couriers, CreateForDeliveredOrder(e, c) PROVE Typed'
  BY <1>9 DEF CreateForDeliveredOrder, Typed, payoutVars
<1>10. CASE MarkEarningsPaid
  <2>1. estatus' \in [Earnings -> EarningStatus \cup {"ABSENT"}]
    BY <1>10 DEF MarkEarningsPaid, Typed
  <2>2. QED
    BY <1>10, <2>1 DEF MarkEarningsPaid, Typed, payoutVars
<1>11. CASE UNCHANGED vars
  BY <1>11 DEF vars, Typed
<1>12. QED
  BY <1>1, <1>2, <1>3, <1>4, <1>5, <1>6, <1>7, <1>8, <1>9, <1>10, <1>11 DEF Next, Advance

(* Every table and every request in progress has a value of its type.      *)
THEOREM Typing == Spec => []Typed
BY TypedInit, TypedStep, PTL DEF Spec

-----------------------------------------------------------------------------
(* An earning and its request *)

(* An earning hangs only on a request of its courier that exists and was   *)
(* not rejected, and that has paid it if it is paid itself.                *)
LinksAreSound ==
  \A e \in Earnings : payoutOf[e] # NoPayout =>
    /\ pstatus[payoutOf[e]] \in {"PENDING", "APPROVED", "PAID"}
    /\ payee[payoutOf[e]] = earner[e]
    /\ estatus[e] \in {"REQUESTED", "PAID"}
    /\ pstatus[payoutOf[e]] = "PAID" => estatus[e] = "PAID"

RequestedIsLinked ==
  \A e \in Earnings : estatus[e] = "REQUESTED" => payoutOf[e] # NoPayout

(* What a request is about exists, and the earnings it found due belong to *)
(* its courier.                                                            *)
SubjectExists(h) ==
  /\ handler[h].at \in CreateSteps =>
       \A e \in handler[h].due : earner[e] = handler[h].courier /\ estatus[e] # "ABSENT"
  /\ handler[h].at \in StaffSteps => pstatus[handler[h].payout] # "ABSENT"

LinkInv ==
  /\ LinksAreSound
  /\ RequestedIsLinked
  /\ \A h \in Handlers : SubjectExists(h)

LEMMA LinkInit == Init => LinkInv
BY DEF Init, LinkInv, LinksAreSound, RequestedIsLinked, SubjectExists, Idle, CreateSteps, StaffSteps

(* A step that only moves one request keeps the links.                     *)
LEMMA GotoKeepsLinks ==
  ASSUME Typed, LinkInv, NEW h \in Handlers, NEW r \in Requests, Goto(h, r), SubjectExists(h)',
         UNCHANGED <<earningVars, payoutVars>>
  PROVE  LinkInv'
<1>1. \A g \in Handlers : handler'[g] = IF g = h THEN r ELSE handler[g]
  BY HandlerWrittenTyped
<1>2. \A g \in Handlers : SubjectExists(g)'
  BY <1>1 DEF LinkInv, SubjectExists, earningVars, payoutVars
<1>3. QED
  BY <1>2 DEF LinkInv, LinksAreSound, RequestedIsLinked, earningVars, payoutVars

(* A request that ends leaves nothing to be about.                         *)
LEMMA EndedIsSound ==
  ASSUME Typed, NEW h \in Handlers, Goto(h, Idle)
  PROVE  /\ SubjectExists(h)'
         /\ \A g \in Handlers : g # h => handler'[g] = handler[g]
BY IdleTyped, HandlerWrittenTyped DEF SubjectExists, Idle, CreateSteps, StaffSteps

LEMMA LinkStep == Typed /\ LinkInv /\ [Next]_vars => LinkInv'
<1> SUFFICES ASSUME Typed, LinkInv, [Next]_vars PROVE LinkInv'
  OBVIOUS
<1>1. ASSUME NEW h \in Handlers, CreateCheckOpen(h) PROVE LinkInv'
  <2>1. PICK r \in Requests :
          /\ Goto(h, r)
          /\ r.at \in CreateSteps => r.courier = handler[h].courier /\ r.due = handler[h].due
          /\ r.at \notin StaffSteps
    BY <1>1, HandlerFields, IdleTyped
       DEF CreateCheckOpen, Requests, Idle, CreateSteps, StaffSteps
  <2>2. handler[h].at \in CreateSteps /\ UNCHANGED <<earningVars, payoutVars>>
    BY <1>1 DEF CreateCheckOpen, CreateSteps
  <2>3. handler'[h] = r
    BY <2>1, HandlerWrittenTyped
  <2>4. SubjectExists(h)'
    BY <2>1, <2>2, <2>3 DEF LinkInv, SubjectExists, earningVars
  <2>5. QED
    BY <2>1, <2>2, <2>4, GotoKeepsLinks
<1>2. ASSUME NEW h \in Handlers, CreateCommit(h) PROVE LinkInv'
  <2> DEFINE c == handler[h].courier
             due == handler[h].due
  <2>1. c \in Couriers /\ due \in SUBSET Earnings
    BY <1>2, HandlerFields DEF CreateCommit, CreateSteps
  <2>2. \A e \in due : earner[e] = c /\ estatus[e] # "ABSENT"
    BY <1>2 DEF CreateCommit, LinkInv, SubjectExists, CreateSteps
  <2>3. PICK p \in Payouts :
          /\ pstatus[p] = "ABSENT"
          /\ payee' = [payee EXCEPT ![p] = c]
          /\ pstatus' = [pstatus EXCEPT ![p] = "PENDING"]
          /\ estatus' = [e \in Earnings |-> IF e \in due THEN "REQUESTED" ELSE estatus[e]]
          /\ payoutOf' = [e \in Earnings |-> IF e \in due THEN p ELSE payoutOf[e]]
    BY <1>2 DEF CreateCommit, TakenEarnings
  <2>4. UNCHANGED earner /\ Goto(h, Idle)
    BY <1>2 DEF CreateCommit
  <2> HIDE DEF c, due
  <2>5. LinksAreSound'
    <3> SUFFICES ASSUME NEW e \in Earnings, payoutOf'[e] # NoPayout
                 PROVE  /\ pstatus'[payoutOf'[e]] \in {"PENDING", "APPROVED", "PAID"}
                        /\ payee'[payoutOf'[e]] = earner'[e]
                        /\ estatus'[e] \in {"REQUESTED", "PAID"}
                        /\ pstatus'[payoutOf'[e]] = "PAID" => estatus'[e] = "PAID"
      BY DEF LinksAreSound
    <3>1. CASE e \in due
      BY <2>1, <2>2, <2>3, <2>4, <3>1 DEF Typed
    <3>2. CASE e \notin due
      <4>1. payoutOf'[e] = payoutOf[e] /\ estatus'[e] = estatus[e]
        BY <2>3, <3>2
      <4>2. payoutOf[e] \in Payouts /\ payoutOf[e] # p
        BY <2>3, <4>1 DEF LinkInv, LinksAreSound, Typed
      <4>3. pstatus'[payoutOf[e]] = pstatus[payoutOf[e]] /\ payee'[payoutOf[e]] = payee[payoutOf[e]]
        BY <2>3, <4>2 DEF Typed
      <4>4. QED
        BY <2>4, <4>1, <4>3 DEF LinkInv, LinksAreSound
    <3>3. QED
      BY <3>1, <3>2
  <2>6. RequestedIsLinked'
    BY <2>3, PayoutAssumption DEF LinkInv, RequestedIsLinked
  <2>7. ASSUME NEW g \in Handlers PROVE SubjectExists(g)'
    <3>1. CASE g = h
      BY <2>4, <3>1, EndedIsSound
    <3>2. CASE g # h
      <4>1. handler'[g] = handler[g]
        BY <2>4, <3>2, EndedIsSound
      <4>2. handler[g].at \in CreateSteps =>
              handler[g].due \in SUBSET Earnings
        BY HandlerFields
      <4>3. \A e \in Earnings : estatus[e] # "ABSENT" => estatus'[e] # "ABSENT"
        BY <2>3
      <4>4. \A q \in Payouts : pstatus[q] # "ABSENT" => pstatus'[q] # "ABSENT"
        BY <2>3 DEF Typed
      <4>5. handler[g].at \in StaffSteps => handler[g].payout \in Payouts
        BY HandlerFields
      <4>6. QED
        BY <2>4, <4>1, <4>2, <4>3, <4>4, <4>5 DEF LinkInv, SubjectExists
    <3>3. QED
      BY <3>1, <3>2
  <2>8. QED
    BY <2>5, <2>6, <2>7 DEF LinkInv
<1>3. ASSUME NEW h \in Handlers, ApproveCommit(h) \/ RejectCommit(h) \/ PayCommit(h)
      PROVE  LinkInv'
  <2> DEFINE p == handler[h].payout
  <2>1. p \in Payouts /\ pstatus[p] # "ABSENT" /\ Goto(h, Idle) /\ UNCHANGED <<earner, payee>>
    BY <1>3, HandlerFields
       DEF ApproveCommit, RejectCommit, PayCommit, StaffSteps, LinkInv, SubjectExists, earningVars
  <2>2. \A q \in Payouts : /\ q # p => pstatus'[q] = pstatus[q]
                           /\ pstatus'[p] \in {"APPROVED", "REJECTED", "PAID"}
    BY <1>3, <2>1 DEF ApproveCommit, RejectCommit, PayCommit, Typed
  <2>3. \A e \in Earnings : payoutOf[e] # p =>
          payoutOf'[e] = payoutOf[e] /\ estatus'[e] = estatus[e]
    BY <1>3 DEF ApproveCommit, RejectCommit, PayCommit, Linked, earningVars
  <2>4. \A e \in Earnings : payoutOf[e] = p =>
          \/ /\ payoutOf'[e] = p
             /\ estatus'[e] \in {"REQUESTED", "PAID"}
             /\ pstatus'[p] \in {"APPROVED", "PAID"}
             /\ pstatus'[p] = "PAID" => estatus'[e] = "PAID"
          \/ payoutOf'[e] = NoPayout /\ estatus'[e] = "PENDING"
    <3>1. CASE ApproveCommit(h)
      BY <2>1, <3>1, PayoutAssumption
         DEF ApproveCommit, earningVars, LinkInv, LinksAreSound, Typed
    <3>2. CASE RejectCommit(h)
      BY <2>1, <3>2 DEF RejectCommit, Linked, Typed
    <3>3. CASE PayCommit(h)
      BY <2>1, <3>3 DEF PayCommit, Linked, Typed
    <3>4. QED
      BY <1>3, <3>1, <3>2, <3>3
  <2> HIDE DEF p
  <2>5. LinksAreSound'
    <3> SUFFICES ASSUME NEW e \in Earnings, payoutOf'[e] # NoPayout
                 PROVE  /\ pstatus'[payoutOf'[e]] \in {"PENDING", "APPROVED", "PAID"}
                        /\ payee'[payoutOf'[e]] = earner'[e]
                        /\ estatus'[e] \in {"REQUESTED", "PAID"}
                        /\ pstatus'[payoutOf'[e]] = "PAID" => estatus'[e] = "PAID"
      BY DEF LinksAreSound
    <3>1. CASE payoutOf[e] = p
      BY <2>1, <2>4, <3>1, PayoutAssumption DEF LinkInv, LinksAreSound
    <3>2. CASE payoutOf[e] # p
      <4>1. payoutOf'[e] = payoutOf[e] /\ estatus'[e] = estatus[e]
        BY <2>3, <3>2
      <4>2. payoutOf[e] \in Payouts
        BY <4>1 DEF Typed
      <4>3. pstatus'[payoutOf[e]] = pstatus[payoutOf[e]]
        BY <2>2, <3>2, <4>2
      <4>4. QED
        BY <2>1, <4>1, <4>3 DEF LinkInv, LinksAreSound
    <3>3. QED
      BY <3>1, <3>2
  <2>6. RequestedIsLinked'
    <3> SUFFICES ASSUME NEW e \in Earnings, estatus'[e] = "REQUESTED"
                 PROVE  payoutOf'[e] # NoPayout
      BY DEF RequestedIsLinked
    <3>1. CASE payoutOf[e] = p
      BY <2>1, <2>4, <3>1, PayoutAssumption
    <3>2. CASE payoutOf[e] # p
      BY <2>3, <3>2 DEF LinkInv, RequestedIsLinked
    <3>3. QED
      BY <3>1, <3>2
  <2>7. \A e \in Earnings : estatus[e] # "ABSENT" => estatus'[e] # "ABSENT"
    BY <2>3, <2>4
  <2>8. ASSUME NEW g \in Handlers PROVE SubjectExists(g)'
    <3>1. CASE g = h
      BY <2>1, <3>1, EndedIsSound
    <3>2. CASE g # h
      <4>1. handler'[g] = handler[g]
        BY <2>1, <3>2, EndedIsSound
      <4>2. handler[g].at \in CreateSteps => handler[g].due \in SUBSET Earnings
        BY HandlerFields
      <4>3. handler[g].at \in StaffSteps => handler[g].payout \in Payouts
        BY HandlerFields
      <4>4. \A q \in Payouts : pstatus[q] # "ABSENT" => pstatus'[q] # "ABSENT"
        BY <2>2
      <4>5. QED
        BY <2>1, <2>7, <4>1, <4>2, <4>3, <4>4 DEF LinkInv, SubjectExists
    <3>3. QED
      BY <3>1, <3>2
  <2>9. QED
    BY <2>5, <2>6, <2>8 DEF LinkInv
<1>4. ASSUME NEW h \in Handlers, Abort(h) PROVE LinkInv'
  BY <1>4, IdleTyped, EndedIsSound, GotoKeepsLinks DEF Abort
<1>5. ASSUME NEW h \in Handlers, NEW c \in Couriers, CreateRead(h, c) PROVE LinkInv'
  <2> DEFINE r == [at |-> "create.read", courier |-> c, due |-> Due(c)]
  <2>1. r \in Requests
    BY DEF Requests, CreateSteps, Due
  <2>2. handler'[h] = r
    BY <1>5, <2>1, HandlerWrittenTyped DEF CreateRead
  <2>3. UNCHANGED <<earningVars, payoutVars>> /\ Goto(h, r)
    BY <1>5 DEF CreateRead
  <2>4. SubjectExists(h)'
    BY <2>2, <2>3 DEF SubjectExists, StaffSteps, Due, earningVars
  <2> HIDE DEF r
  <2>5. QED
    BY <2>1, <2>3, <2>4, GotoKeepsLinks
<1>6. ASSUME NEW h \in Handlers, NEW p \in Payouts,
             ApproveRead(h, p) \/ RejectRead(h, p) \/ PayRead(h, p)
      PROVE  LinkInv'
  <2>1. PICK r \in Requests : Goto(h, r) /\ r.at \in StaffSteps /\ r.payout = p
    BY <1>6 DEF ApproveRead, RejectRead, PayRead, Requests, StaffSteps
  <2>2. UNCHANGED <<earningVars, payoutVars>> /\ pstatus[p] # "ABSENT"
    BY <1>6 DEF ApproveRead, RejectRead, PayRead, Open
  <2>3. handler'[h] = r
    BY <2>1, HandlerWrittenTyped
  <2>4. SubjectExists(h)'
    BY <2>1, <2>2, <2>3 DEF SubjectExists, StaffSteps, CreateSteps, payoutVars
  <2>5. QED
    BY <2>1, <2>2, <2>4, GotoKeepsLinks
<1>7. ASSUME NEW e \in Earnings, NEW c \in Couriers, CreateForDeliveredOrder(e, c)
      PROVE  LinkInv'
  <2>1. estatus[e] = "ABSENT" /\ UNCHANGED <<payoutOf, payee, pstatus, handler>>
    BY <1>7 DEF CreateForDeliveredOrder, payoutVars
  <2>2. \A d \in Earnings :
          /\ d # e => earner'[d] = earner[d] /\ estatus'[d] = estatus[d]
          /\ estatus'[e] = "PENDING"
    BY <1>7 DEF CreateForDeliveredOrder, Typed
  <2>3. payoutOf[e] = NoPayout
    BY <2>1 DEF LinkInv, LinksAreSound
  <2>4. LinksAreSound'
    BY <2>1, <2>2, <2>3 DEF LinkInv, LinksAreSound
  <2>5. RequestedIsLinked'
    BY <2>1, <2>2 DEF LinkInv, RequestedIsLinked
  <2>6. ASSUME NEW g \in Handlers PROVE SubjectExists(g)'
    <3>1. handler[g].at \in CreateSteps => handler[g].due \in SUBSET Earnings
      BY HandlerFields
    <3>2. QED
      BY <2>1, <2>2, <3>1 DEF LinkInv, SubjectExists
  <2>7. QED
    BY <2>4, <2>5, <2>6 DEF LinkInv
<1>8. CASE MarkEarningsPaid
  <2>1. UNCHANGED <<earner, payoutOf, payee, pstatus, handler>>
    BY <1>8 DEF MarkEarningsPaid, payoutVars
  <2>2. \A e \in Earnings :
          estatus'[e] = estatus[e] \/ (estatus[e] = "PENDING" /\ estatus'[e] = "PAID")
    BY <1>8 DEF MarkEarningsPaid
  <2>3. LinksAreSound'
    BY <2>1, <2>2 DEF LinkInv, LinksAreSound
  <2>4. RequestedIsLinked'
    BY <2>1, <2>2 DEF LinkInv, RequestedIsLinked
  <2>5. ASSUME NEW g \in Handlers PROVE SubjectExists(g)'
    <3>1. handler[g].at \in CreateSteps => handler[g].due \in SUBSET Earnings
      BY HandlerFields
    <3>2. QED
      BY <2>1, <2>2, <3>1 DEF LinkInv, SubjectExists
  <2>6. QED
    BY <2>3, <2>4, <2>5 DEF LinkInv
<1>9. CASE UNCHANGED vars
  BY <1>9 DEF vars, LinkInv, LinksAreSound, RequestedIsLinked, SubjectExists
<1>10. QED
  BY <1>1, <1>2, <1>3, <1>4, <1>5, <1>6, <1>7, <1>8, <1>9 DEF Next, Advance

LEMMA LinksAlways == Spec => []LinkInv
BY LinkInit, LinkStep, Typing, PTL DEF Spec

(* No earning is stranded, whatever requests overtake each other: a        *)
(* REQUESTED one hangs on an open request of its courier and a PENDING one *)
(* on none.                                                                *)
THEOREM NoStrandedEarningAlways == Spec => []NoStrandedEarning
<1>1. Typed /\ LinkInv => NoStrandedEarning
  <2> SUFFICES ASSUME Typed, LinkInv, NEW e \in Earnings
               PROVE  /\ estatus[e] = "REQUESTED" =>
                           /\ payoutOf[e] \in Payouts
                           /\ pstatus[payoutOf[e]] \in Open
                           /\ payee[payoutOf[e]] = earner[e]
                      /\ estatus[e] = "PENDING" => payoutOf[e] = NoPayout
    BY DEF NoStrandedEarning
  <2>1. CASE estatus[e] = "REQUESTED"
    BY <2>1 DEF Typed, LinkInv, LinksAreSound, RequestedIsLinked, Open
  <2>2. CASE estatus[e] = "PENDING"
    BY <2>2 DEF LinkInv, LinksAreSound
  <2>3. QED
    BY <2>1, <2>2
<1>2. QED
  BY <1>1, Typing, LinksAlways, PTL

(* A rejected request holds no earning and a paid one only paid earnings,  *)
(* even when approvals, rejections and payments of it race.                *)
THEOREM SettledRequestReleasedAlways == Spec => []SettledRequestReleased
<1>1. LinkInv => SettledRequestReleased
  BY DEF LinkInv, LinksAreSound, SettledRequestReleased
<1>2. QED
  BY <1>1, LinksAlways, PTL

-----------------------------------------------------------------------------
(* Sums.  Total is a recursive function, defined by CHOOSE: that there is  *)
(* one, and that its values are numbers, is shown for the smallest set for *)
(* which it would not be so.                                               *)

LEMMA Least ==
  ASSUME NEW T \in SUBSET Nat, T # {} PROVE \E i \in T : \A j \in T : i <= j
<1> DEFINE R == OpToRel(<, Nat)
<1>1. IsWellFoundedOn(R, Nat)
  BY NatLessThanWellFounded
<1>2. \A x, y \in Nat : <<y, x>> \notin R => x <= y
  BY DEF OpToRel
<1> HIDE DEF R
<1>3. \E x \in T : \A y \in T : ~ (<<y, x>> \in R)
  BY <1>1, WFMin
<1>4. QED
  BY <1>2, <1>3

Chosen(s) == CHOOSE e \in s : TRUE

(* g sums up the sets of D. *)
Sums(g, D) ==
  g = [s \in D |-> IF s = {} THEN 0 ELSE Amount[Chosen(s)] + g[s \ {Chosen(s)}]]

Small(S, n) == {s \in SUBSET S : Cardinality(s) <= n}

LEMMA SmallerByOne ==
  ASSUME NEW S, IsFiniteSet(S), NEW n \in Nat, NEW s \in Small(S, n), s # {}
  PROVE  /\ Chosen(s) \in s
         /\ n # 0 /\ s \ {Chosen(s)} \in Small(S, n - 1)
<1>1. Chosen(s) \in s
  BY DEF Chosen
<1>2. s \subseteq S /\ Cardinality(s) <= n
  BY DEF Small
<1>3. IsFiniteSet(s) /\ Cardinality(s) \in Nat /\ Cardinality(s) # 0
  BY <1>2, FS_Subset, FS_CardinalityType, FS_EmptySet
<1>4. Cardinality(s \ {Chosen(s)}) = Cardinality(s) - 1
  BY <1>1, <1>3, FS_RemoveElement
<1>5. QED
  BY <1>1, <1>2, <1>3, <1>4 DEF Small

LEMMA SumsOfSmallSets ==
  ASSUME NEW S \in SUBSET Earnings, IsFiniteSet(S)
  PROVE  \A n \in Nat : \E g : Sums(g, Small(S, n))
<1> DEFINE T == {n \in Nat : ~\E g : Sums(g, Small(S, n))}
<1>1. SUFFICES ASSUME T # {} PROVE FALSE
  OBVIOUS
<1>2. PICK n \in T : \A k \in T : n <= k
  BY <1>1, Least
<1>3. n \in Nat /\ ~\E g : Sums(g, Small(S, n))
  OBVIOUS
<1>4. CASE n = 0
  <2> DEFINE g == [s \in Small(S, n) |-> 0]
  <2>1. \A s \in Small(S, n) : s = {}
    BY <1>3, <1>4, SmallerByOne
  <2>2. Sums(g, Small(S, n))
    BY <2>1 DEF Sums
  <2>3. QED
    BY <1>3, <2>2
<1>5. CASE n # 0
  <2>1. n - 1 \in Nat /\ ~(n <= n - 1)
    BY <1>3, <1>5
  <2>2. n - 1 \notin T
    BY <1>2, <2>1
  <2>3. PICK g : Sums(g, Small(S, n - 1))
    BY <2>1, <2>2
  <2> DEFINE f == [s \in Small(S, n) |->
                     IF s = {} THEN 0 ELSE Amount[Chosen(s)] + g[s \ {Chosen(s)}]]
  <2>4. \A s \in Small(S, n) : s # {} => s \ {Chosen(s)} \in Small(S, n - 1)
    BY <1>3, SmallerByOne
  <2>5. Small(S, n - 1) \subseteq Small(S, n)
    <3>1. \A s \in SUBSET S : Cardinality(s) \in Nat
      BY FS_Subset, FS_CardinalityType
    <3>2. QED
      BY <1>3, <3>1 DEF Small
  <2>6. \A s \in Small(S, n - 1) : f[s] = g[s]
    <3>1. \A s \in Small(S, n - 1) :
            g[s] = IF s = {} THEN 0 ELSE Amount[Chosen(s)] + g[s \ {Chosen(s)}]
      BY <2>3 DEF Sums
    <3>2. QED
      BY <2>5, <3>1
  <2>7. f = [s \in Small(S, n) |->
               IF s = {} THEN 0 ELSE Amount[Chosen(s)] + f[s \ {Chosen(s)}]]
    BY <2>4, <2>6
  <2>8. QED
    BY <1>3, <2>7 DEF Sums
<1>6. QED
  BY <1>4, <1>5

LEMMA TotalUnfolds ==
  ASSUME NEW S \in SUBSET Earnings, IsFiniteSet(S)
  PROVE  \E g : Sums(g, SUBSET S) /\ Total(S) = g[S]
<1> DEFINE sum == CHOOSE g : Sums(g, SUBSET S)
<1>1. Small(S, Cardinality(S)) = SUBSET S /\ Cardinality(S) \in Nat
  BY FS_Subset, FS_CardinalityType DEF Small
<1>2. \E g : Sums(g, SUBSET S)
  BY <1>1, SumsOfSmallSets
<1>3. Sums(sum, SUBSET S)
  BY <1>2
<1>4. Total(S) = sum[S]
  BY DEF Total, MapThenSumSet, MapThenFoldSet, Sums, Chosen
<1>5. QED
  BY <1>3, <1>4

LEMMA TotalNat ==
  ASSUME PayoutAssumption, NEW S \in SUBSET Earnings, IsFiniteSet(S)
  PROVE  Total(S) \in Nat
<1>1. PICK g : Sums(g, SUBSET S) /\ Total(S) = g[S]
  BY TotalUnfolds
<1> DEFINE T == {n \in Nat : \E s \in SUBSET S : Cardinality(s) = n /\ g[s] \notin Nat}
<1>2. T = {}
  <2>1. SUFFICES ASSUME T # {} PROVE FALSE
    OBVIOUS
  <2>2. PICK n \in T : \A k \in T : n <= k
    BY <2>1, Least
  <2>3. PICK s \in SUBSET S : Cardinality(s) = n /\ g[s] \notin Nat
    OBVIOUS
  <2>4. g[s] = IF s = {} THEN 0 ELSE Amount[Chosen(s)] + g[s \ {Chosen(s)}]
    BY <1>1 DEF Sums
  <2>5. s # {}
    BY <2>3, <2>4
  <2>6. n \in Nat /\ s \in Small(S, n)
    BY <2>3 DEF Small
  <2>7. /\ Chosen(s) \in s /\ n - 1 \in Nat /\ ~(n <= n - 1)
        /\ s \ {Chosen(s)} \in Small(S, n - 1)
    BY <2>5, <2>6, SmallerByOne
  <2>8. Amount[Chosen(s)] \in Nat
    BY <2>7 DEF PayoutAssumption
  <2>9. g[s \ {Chosen(s)}] \in Nat
    <3> DEFINE t == s \ {Chosen(s)}
    <3>1. t \in SUBSET S /\ Cardinality(t) <= n - 1
      BY <2>7 DEF Small
    <3>2. Cardinality(t) \in Nat /\ ~(n <= Cardinality(t))
      BY <2>6, <2>7, <3>1, FS_Subset, FS_CardinalityType
    <3>3. Cardinality(t) \notin T
      BY <2>2, <3>2
    <3>4. QED
      BY <3>1, <3>2, <3>3
  <2>10. QED
    BY <2>3, <2>4, <2>5, <2>8, <2>9
<1>3. Cardinality(S) \in Nat
  BY FS_CardinalityType
<1>4. QED
  BY <1>1, <1>2, <1>3

-----------------------------------------------------------------------------
(* Amounts *)

Existing == {e \in Earnings : estatus[e] # "ABSENT"}

Payable(n) == n \in Nat /\ n > 0 /\ n >= MinPayout

(* As one delivery after the other creates an earning, there are finitely  *)
(* many at any time, and what was found due has a sum: one that may be     *)
(* requested.                                                              *)
AmountInv ==
  /\ IsFiniteSet(Existing)
  /\ \A h \in Handlers : handler[h].at \in CreateSteps => Payable(Total(handler[h].due))
  /\ \A p \in Payouts : IF pstatus[p] = "ABSENT" THEN amount[p] = 0 ELSE Payable(amount[p])

LEMMA AmountInit == Init => AmountInv
<1> SUFFICES ASSUME Init PROVE AmountInv
  OBVIOUS
<1>1. Existing = {}
  BY DEF Init, Existing
<1>2. QED
  BY <1>1, FS_EmptySet DEF Init, AmountInv, Idle, CreateSteps

LEMMA AmountStep == Typed /\ LinkInv /\ AmountInv /\ [Next]_vars => AmountInv'
<1> SUFFICES ASSUME Typed, LinkInv, AmountInv, [Next]_vars PROVE AmountInv'
  OBVIOUS
<1>1. ASSUME UNCHANGED <<estatus, pstatus, amount>>, NEW h \in Handlers, NEW r \in Requests,
             Goto(h, r), r.at \in CreateSteps => Payable(Total(r.due))
      PROVE  AmountInv'
  <2>1. \A g \in Handlers : handler'[g] = IF g = h THEN r ELSE handler[g]
    BY <1>1, HandlerWrittenTyped
  <2>2. Existing' = Existing
    BY <1>1 DEF Existing
  <2>3. QED
    BY <1>1, <2>1, <2>2 DEF AmountInv
<1>2. Idle \in Requests /\ Idle.at \notin CreateSteps
  BY IdleTyped DEF Idle, CreateSteps
<1>3. ASSUME NEW h \in Handlers, CreateCheckOpen(h) PROVE AmountInv'
  <2>1. PICK r \in Requests : Goto(h, r) /\ (r.at \in CreateSteps => r.due = handler[h].due)
    BY <1>3, HandlerFields, IdleTyped DEF CreateCheckOpen, Requests, Idle, CreateSteps
  <2>2. handler[h].at \in CreateSteps /\ UNCHANGED <<estatus, pstatus, amount>>
    BY <1>3 DEF CreateCheckOpen, CreateSteps, earningVars, payoutVars
  <2>3. r.at \in CreateSteps => Payable(Total(r.due))
    BY <2>1, <2>2 DEF AmountInv
  <2>4. QED
    BY <1>1, <2>1, <2>2, <2>3
<1>4. ASSUME NEW h \in Handlers, CreateCommit(h) PROVE AmountInv'
  <2> DEFINE due == handler[h].due
  <2>1. PICK p \in Payouts :
          /\ pstatus' = [pstatus EXCEPT ![p] = "PENDING"]
          /\ amount' = [amount EXCEPT ![p] = Total(due)]
          /\ estatus' = [e \in Earnings |-> IF e \in due THEN "REQUESTED" ELSE estatus[e]]
    BY <1>4 DEF CreateCommit, TakenEarnings
  <2>2. Goto(h, Idle) /\ handler[h].at \in CreateSteps
    BY <1>4 DEF CreateCommit, CreateSteps
  <2>3. Payable(Total(due)) /\ due \in SUBSET Earnings
    BY <2>2, HandlerFields DEF AmountInv
  <2>4. \A e \in due : estatus[e] # "ABSENT"
    BY <2>2 DEF LinkInv, SubjectExists
  <2> HIDE DEF due
  <2>5. Existing' = Existing
    BY <2>1, <2>4 DEF Existing
  <2>6. \A q \in Payouts : /\ q # p => pstatus'[q] = pstatus[q] /\ amount'[q] = amount[q]
                           /\ pstatus'[p] = "PENDING" /\ amount'[p] = Total(due)
    BY <2>1 DEF Typed
  <2>7. \A g \in Handlers : handler'[g].at \in CreateSteps => handler'[g] = handler[g]
    BY <1>2, <2>2, HandlerWrittenTyped
  <2>8. QED
    BY <2>3, <2>5, <2>6, <2>7 DEF AmountInv
<1>5. ASSUME NEW h \in Handlers, ApproveCommit(h) \/ RejectCommit(h) \/ PayCommit(h)
      PROVE  AmountInv'
  <2> DEFINE p == handler[h].payout
  <2>1. p \in Payouts /\ pstatus[p] # "ABSENT" /\ Goto(h, Idle) /\ UNCHANGED amount
    BY <1>5, HandlerFields
       DEF ApproveCommit, RejectCommit, PayCommit, StaffSteps, LinkInv, SubjectExists
  <2>2. \A q \in Payouts : /\ q # p => pstatus'[q] = pstatus[q]
                           /\ pstatus'[p] # "ABSENT"
    BY <1>5, <2>1 DEF ApproveCommit, RejectCommit, PayCommit, Typed
  <2>3. \A e \in Earnings : estatus'[e] # "ABSENT" => estatus[e] # "ABSENT"
    <3>1. CASE ApproveCommit(h)
      BY <3>1 DEF ApproveCommit, earningVars
    <3>2. CASE RejectCommit(h)
      BY <2>1, <3>2, PayoutAssumption DEF RejectCommit, Linked, LinkInv, LinksAreSound
    <3>3. CASE PayCommit(h)
      BY <2>1, <3>3, PayoutAssumption DEF PayCommit, Linked, LinkInv, LinksAreSound
    <3>4. QED
      BY <1>5, <3>1, <3>2, <3>3
  <2> HIDE DEF p
  <2>4. IsFiniteSet(Existing)'
    <3>1. Existing' \subseteq Existing
      BY <2>3 DEF Existing
    <3>2. QED
      BY <3>1, FS_Subset DEF AmountInv
  <2>5. \A g \in Handlers : handler'[g].at \in CreateSteps => handler'[g] = handler[g]
    BY <1>2, <2>1, HandlerWrittenTyped
  <2>6. QED
    BY <2>1, <2>2, <2>4, <2>5 DEF AmountInv
<1>6. ASSUME NEW h \in Handlers, Abort(h) PROVE AmountInv'
  BY <1>1, <1>2, <1>6 DEF Abort, earningVars, payoutVars
<1>7. ASSUME NEW h \in Handlers, NEW c \in Couriers, CreateRead(h, c) PROVE AmountInv'
  <2> DEFINE r == [at |-> "create.read", courier |-> c, due |-> Due(c)]
  <2>1. r \in Requests
    BY DEF Requests, CreateSteps, Due
  <2>2. IsFiniteSet(Due(c)) /\ Due(c) \in SUBSET Earnings
    <3>1. Due(c) \subseteq Existing /\ Due(c) \in SUBSET Earnings
      BY DEF Due, Existing
    <3>2. QED
      BY <3>1, FS_Subset DEF AmountInv
  <2>3. Total(Due(c)) \in Nat
    BY <2>2, TotalNat, PayoutAssumption
  <2>4. /\ Payable(Total(Due(c))) /\ Goto(h, r)
        /\ UNCHANGED <<estatus, pstatus, amount>>
    BY <1>7, <2>3 DEF CreateRead, Payable, earningVars, payoutVars
  <2>5. r.due = Due(c)
    OBVIOUS
  <2> HIDE DEF r
  <2>6. QED
    BY <1>1, <2>1, <2>4, <2>5
<1>8. ASSUME NEW h \in Handlers, NEW p \in Payouts,
             ApproveRead(h, p) \/ RejectRead(h, p) \/ PayRead(h, p)
      PROVE  AmountInv'
  <2>1. PICK r \in Requests : Goto(h, r) /\ r.at \notin CreateSteps
    BY <1>8 DEF ApproveRead, RejectRead, PayRead, Requests, StaffSteps, CreateSteps
  <2>2. UNCHANGED <<estatus, pstatus, amount>>
    BY <1>8 DEF ApproveRead, RejectRead, PayRead, earningVars, payoutVars
  <2>3. QED
    BY <1>1, <2>1, <2>2
<1>9. ASSUME NEW e \in Earnings, NEW c \in Couriers, CreateForDeliveredOrder(e, c)
      PROVE  AmountInv'
  <2>1. Existing' = Existing \cup {e}
    BY <1>9 DEF CreateForDeliveredOrder, Existing, Typed
  <2>2. IsFiniteSet(Existing)'
    BY <2>1, FS_AddElement DEF AmountInv
  <2>3. QED
    BY <1>9, <2>2 DEF CreateForDeliveredOrder, AmountInv, payoutVars
<1>10. CASE MarkEarningsPaid
  <2>1. Existing' = Existing
    BY <1>10 DEF MarkEarningsPaid, Existing
  <2>2. QED
    BY <1>10, <2>1 DEF MarkEarningsPaid, AmountInv, payoutVars
<1>11. CASE UNCHANGED vars
  BY <1>11 DEF vars, AmountInv, Existing
<1>12. QED
  BY <1>3, <1>4, <1>5, <1>6, <1>7, <1>8, <1>9, <1>10, <1>11 DEF Next, Advance

LEMMA AmountsAlways == Spec => []AmountInv
BY AmountInit, AmountStep, Typing, LinksAlways, PTL DEF Spec

(* Every table and every request in progress has a value of its type, the  *)
(* amounts, which are sums over the earnings found due, included.          *)
THEOREM TypeOKAlways == Spec => []TypeOK
<1>1. Typed /\ AmountInv => TypeOK
  <2> SUFFICES ASSUME Typed, AmountInv PROVE TypeOK
    OBVIOUS
  <2>1. \A p \in Payouts : amount[p] \in Nat
    BY DEF AmountInv, Payable
  <2>2. amount \in [Payouts -> Nat]
    BY <2>1 DEF Typed
  <2>3. QED
    BY <2>2 DEF Typed, TypeOK
<1>2. QED
  BY <1>1, Typing, AmountsAlways, PTL

(* A request that exists asks for an amount above zero and not below the   *)
(* minimum, also when its earnings were paid or requested again between    *)
(* the reading and the transaction.                                        *)
RequestIsPayable ==
  \A p \in Payouts : pstatus[p] # "ABSENT" => amount[p] > 0 /\ amount[p] >= MinPayout

THEOREM RequestIsPayableAlways == Spec => []RequestIsPayable
<1>1. AmountInv => RequestIsPayable
  BY DEF AmountInv, Payable, RequestIsPayable
<1>2. QED
  BY <1>1, AmountsAlways, PTL

-----------------------------------------------------------------------------
(* Everybody waits for an answer *)

OneEach ==
  \A g, h \in Handlers : g # h =>
    /\ ~(handler[g].at \in StaffSteps /\ handler[h].at \in StaffSteps)
    /\ handler[g].at \in CreateSteps /\ handler[h].at \in CreateSteps
         => handler[g].courier # handler[h].courier

(* What a request has read is still so.                                    *)
Fresh(h) ==
  /\ handler[h].at = "approve.read" => pstatus[handler[h].payout] = "PENDING"
  /\ handler[h].at = "reject.read" => pstatus[handler[h].payout] \in Open
  /\ handler[h].at = "pay.read" => pstatus[handler[h].payout] = "APPROVED"
  /\ handler[h].at = "create.clear" => ~HasOpenRequest(handler[h].courier)
  /\ handler[h].at \in CreateSteps => \A e \in handler[h].due : payoutOf[e] = NoPayout

OneOpen ==
  \A p, q \in Payouts :
    payee[p] = payee[q] /\ pstatus[p] \in Open /\ pstatus[q] \in Open => p = q

AmountsMatch ==
  \A p \in Payouts : pstatus[p] \in Open \cup {"PAID"} => amount[p] = Total(Linked(p))

PaidByRequest ==
  \A e \in Earnings :
    payoutOf[e] # NoPayout /\ estatus[e] = "PAID" => pstatus[payoutOf[e]] = "PAID"

OrderlyInv ==
  orderly => /\ OneEach
             /\ \A h \in Handlers : Fresh(h)
             /\ OneOpen
             /\ AmountsMatch
             /\ PaidByRequest


LEMMA OrderlyInit == Init => OrderlyInv
<1> SUFFICES ASSUME Init PROVE OrderlyInv
  OBVIOUS
<1>1. \A h \in Handlers : handler[h].at = "idle"
  BY DEF Init, Idle
<1>2. \A p \in Payouts : pstatus[p] = "ABSENT"
  BY DEF Init
<1>3. OneEach /\ \A h \in Handlers : Fresh(h)
  BY <1>1 DEF OneEach, Fresh, CreateSteps, StaffSteps
<1>4. OneOpen /\ AmountsMatch
  BY <1>2 DEF OneOpen, AmountsMatch, Open
<1>5. PaidByRequest
  BY DEF Init, PaidByRequest
<1>6. QED
  BY <1>3, <1>4, <1>5 DEF OrderlyInv

(* What a request has read stays so if its request or its courier's        *)
(* requests and earnings are not overtaken.                                *)
LEMMA FreshStays ==
  ASSUME NEW g \in Handlers, Fresh(g), handler'[g] = handler[g],
         handler[g].at \in StaffSteps =>
           pstatus'[handler[g].payout] = pstatus[handler[g].payout],
         handler[g].at \in CreateSteps =>
           /\ HasOpenRequest(handler[g].courier)' => HasOpenRequest(handler[g].courier)
           /\ \A e \in handler[g].due : payoutOf[e] = NoPayout => payoutOf'[e] = NoPayout
  PROVE  Fresh(g)'
<1>1. handler[g].at = "create.clear" => ~HasOpenRequest(handler[g].courier)'
  BY DEF Fresh, CreateSteps
<1>2. QED
  BY <1>1 DEF Fresh, StaffSteps, CreateSteps

(* Steps that only read leave the tables as they match.                    *)
LEMMA TablesStay ==
  ASSUME OneOpen, AmountsMatch, PaidByRequest, UNCHANGED <<earningVars, payoutVars>>
  PROVE  OneOpen' /\ AmountsMatch' /\ PaidByRequest'
<1>1. OneOpen' /\ PaidByRequest'
  BY DEF OneOpen, PaidByRequest, earningVars, payoutVars
<1>2. \A p \in Payouts : Linked(p)' = Linked(p)
  BY DEF Linked, earningVars
<1>3. AmountsMatch'
  BY <1>2 DEF AmountsMatch, payoutVars
<1>4. QED
  BY <1>1, <1>3

LEMMA EndKeepsOneEach ==
  ASSUME Typed, OneEach, NEW h \in Handlers, Goto(h, Idle)
  PROVE  OneEach' /\ Fresh(h)'
BY IdleTyped, HandlerWrittenTyped DEF OneEach, Fresh, Idle, CreateSteps, StaffSteps

(* A request starts or moves on while the tables stay.                     *)
LEMMA GotoKeepsOrder ==
  ASSUME Typed, OneEach, \A g \in Handlers : Fresh(g), OneOpen, AmountsMatch, PaidByRequest,
         NEW h \in Handlers, NEW r \in Requests, Goto(h, r),
         UNCHANGED <<earningVars, payoutVars>>,
         Fresh(h)', OneEach'
  PROVE  OneEach' /\ (\A g \in Handlers : Fresh(g)') /\ OneOpen' /\ AmountsMatch' /\ PaidByRequest'
<1>1. ASSUME NEW g \in Handlers, g # h PROVE Fresh(g)'
  <2>1. handler'[g] = handler[g]
    BY <1>1, HandlerWrittenTyped
  <2>2. UNCHANGED <<pstatus, payee, payoutOf>>
    BY DEF earningVars, payoutVars
  <2>3. QED
    BY <2>1, <2>2, FreshStays DEF HasOpenRequest
<1>2. OneOpen' /\ AmountsMatch' /\ PaidByRequest'
  BY TablesStay
<1>3. QED
  BY <1>1, <1>2

LEMMA OrderlyStep == Typed /\ LinkInv /\ OrderlyInv /\ [Next]_vars => OrderlyInv'
<1> SUFFICES ASSUME Typed, LinkInv, OrderlyInv, [Next]_vars, orderly'
             PROVE  OneEach' /\ (\A g \in Handlers : Fresh(g)') /\ OneOpen' /\ AmountsMatch' /\ PaidByRequest'
  BY DEF OrderlyInv
<1>o. orderly
  BY DEF Next, Advance, CreateCheckOpen, CreateCommit, ApproveCommit, RejectCommit, PayCommit,
     Abort, CreateRead, ApproveRead, RejectRead, PayRead, CreateForDeliveredOrder,
     MarkEarningsPaid, vars
<1>i. OneEach /\ (\A g \in Handlers : Fresh(g)) /\ OneOpen /\ AmountsMatch /\ PaidByRequest
  BY <1>o DEF OrderlyInv
<1>1. ASSUME NEW h \in Handlers, CreateCheckOpen(h)
      PROVE  OneEach' /\ (\A g \in Handlers : Fresh(g)') /\ OneOpen' /\ AmountsMatch' /\ PaidByRequest'
  <2>1. UNCHANGED <<earningVars, payoutVars>>
    BY <1>1 DEF CreateCheckOpen
  <2>2. CASE HasOpenRequest(handler[h].courier)
    <3>1. Goto(h, Idle)
      BY <1>1, <2>2 DEF CreateCheckOpen
    <3>2. QED
      BY <1>i, <2>1, <3>1, IdleTyped, EndKeepsOneEach, GotoKeepsOrder
  <2>3. CASE ~HasOpenRequest(handler[h].courier)
    <3> DEFINE r == [at |-> "create.clear", courier |-> handler[h].courier,
                     due |-> handler[h].due]
    <3>1. Goto(h, r) /\ handler[h].at = "create.read"
      BY <1>1, <2>3 DEF CreateCheckOpen
    <3>2. r \in Requests
      BY <3>1, HandlerFields DEF Requests, CreateSteps
    <3>3. \A g \in Handlers : handler'[g] = IF g = h THEN r ELSE handler[g]
      BY <3>1, <3>2, HandlerWrittenTyped
    <3>4. OneEach'
      BY <1>i, <3>1, <3>3 DEF OneEach, CreateSteps, StaffSteps
    <3>5. ~HasOpenRequest(handler[h].courier)'
      BY <2>1, <2>3, <3>3 DEF HasOpenRequest, payoutVars
    <3>6. \A e \in handler'[h].due : payoutOf'[e] = NoPayout
      BY <1>i, <2>1, <3>1, <3>3 DEF Fresh, CreateSteps, earningVars
    <3>7. Fresh(h)'
      BY <3>3, <3>5, <3>6 DEF Fresh
    <3> HIDE DEF r
    <3>8. QED
      BY <1>i, <2>1, <3>1, <3>2, <3>4, <3>7, GotoKeepsOrder
  <2>4. QED
    BY <2>2, <2>3
<1>2. ASSUME NEW h \in Handlers, CreateCommit(h)
      PROVE  OneEach' /\ (\A g \in Handlers : Fresh(g)') /\ OneOpen' /\ AmountsMatch' /\ PaidByRequest'
  <2> DEFINE c == handler[h].courier
             due == handler[h].due
  <2>1. c \in Couriers /\ due \in SUBSET Earnings /\ handler[h].at = "create.clear"
    BY <1>2, HandlerFields DEF CreateCommit, CreateSteps
  <2>2. ~HasOpenRequest(c) /\ \A e \in due : payoutOf[e] = NoPayout /\ earner[e] = c
    BY <1>i, <2>1 DEF Fresh, CreateSteps, LinkInv, SubjectExists
  <2>3. PICK p \in Payouts :
          /\ pstatus[p] = "ABSENT"
          /\ payee' = [payee EXCEPT ![p] = c]
          /\ pstatus' = [pstatus EXCEPT ![p] = "PENDING"]
          /\ amount' = [amount EXCEPT ![p] = Total(due)]
          /\ estatus' = [e \in Earnings |-> IF e \in due THEN "REQUESTED" ELSE estatus[e]]
          /\ payoutOf' = [e \in Earnings |-> IF e \in due THEN p ELSE payoutOf[e]]
    BY <1>2 DEF CreateCommit, TakenEarnings
  <2>4. Goto(h, Idle)
    BY <1>2 DEF CreateCommit
  <2>5. ASSUME NEW g \in Handlers, g # h PROVE Fresh(g)'
    <3>1. handler'[g] = handler[g]
      BY <2>4, <2>5, IdleTyped, HandlerWrittenTyped
    <3>2. handler[g].at \in StaffSteps =>
            pstatus'[handler[g].payout] = pstatus[handler[g].payout]
      <4> SUFFICES ASSUME handler[g].at \in StaffSteps
                   PROVE  pstatus'[handler[g].payout] = pstatus[handler[g].payout]
        OBVIOUS
      <4>1. handler[g].payout \in Payouts /\ pstatus[handler[g].payout] # "ABSENT"
        BY HandlerFields DEF LinkInv, SubjectExists
      <4>2. QED
        BY <2>3, <4>1 DEF Typed
    <3>3. ASSUME handler[g].at \in CreateSteps
          PROVE  /\ HasOpenRequest(handler[g].courier)' => HasOpenRequest(handler[g].courier)
                 /\ \A e \in handler[g].due : payoutOf[e] = NoPayout => payoutOf'[e] = NoPayout
      <4>1. handler[g].courier # c
        BY <1>i, <2>1, <2>5, <3>3 DEF OneEach, CreateSteps
      <4>2. HasOpenRequest(handler[g].courier)' => HasOpenRequest(handler[g].courier)
        BY <2>3, <3>1, <4>1 DEF HasOpenRequest, Typed
      <4>3. \A e \in handler[g].due : e \in Earnings /\ earner[e] = handler[g].courier
        BY <3>3, HandlerFields DEF LinkInv, SubjectExists
      <4>4. \A e \in handler[g].due : e \notin due
        BY <2>2, <4>1, <4>3
      <4>5. \A e \in handler[g].due : payoutOf'[e] = payoutOf[e]
        BY <2>3, <4>3, <4>4
      <4>6. QED
        BY <4>2, <4>5
    <3>4. QED
      BY <1>i, <3>1, <3>2, <3>3, FreshStays
  <2> HIDE DEF c, due
  <2>6. \A e \in Earnings : payoutOf[e] # p
    BY <2>3, PayoutAssumption DEF LinkInv, LinksAreSound
  <2>7. OneOpen'
    <3> SUFFICES ASSUME NEW q \in Payouts, NEW s \in Payouts, payee'[q] = payee'[s],
                        pstatus'[q] \in Open, pstatus'[s] \in Open
                 PROVE  q = s
      BY DEF OneOpen
    <3>1. \A x \in Payouts : x # p => payee'[x] = payee[x] /\ pstatus'[x] = pstatus[x]
      BY <2>3 DEF Typed
    <3>2. payee'[p] = c
      BY <2>3 DEF Typed
    <3>3. QED
      BY <1>i, <2>2, <3>1, <3>2 DEF OneOpen, HasOpenRequest
  <2>8. AmountsMatch'
    <3> SUFFICES ASSUME NEW q \in Payouts, pstatus'[q] \in Open \cup {"PAID"}
                 PROVE  amount'[q] = Total(Linked(q)')
      BY DEF AmountsMatch
    <3>1. CASE q = p
      <4>1. Linked(q)' = due
        BY <2>1, <2>3, <2>6, <3>1 DEF Linked
      <4>2. amount'[q] = Total(due)
        BY <2>3, <3>1 DEF Typed
      <4>3. QED
        BY <4>1, <4>2
    <3>2. CASE q # p
      <4>1. Linked(q)' = Linked(q)
        BY <2>1, <2>2, <2>3, <3>2, PayoutAssumption DEF Linked
      <4>2. amount'[q] = amount[q] /\ pstatus'[q] = pstatus[q]
        BY <2>3, <3>2 DEF Typed
      <4>3. QED
        BY <1>i, <4>1, <4>2 DEF AmountsMatch
    <3>3. QED
      BY <3>1, <3>2
  <2>9. PaidByRequest'
    <3> SUFFICES ASSUME NEW e \in Earnings, payoutOf'[e] # NoPayout, estatus'[e] = "PAID"
                 PROVE  pstatus'[payoutOf'[e]] = "PAID"
      BY DEF PaidByRequest
    <3>1. e \notin due
      BY <2>3
    <3>2. payoutOf'[e] = payoutOf[e] /\ estatus[e] = "PAID"
      BY <2>3, <3>1
    <3>3. payoutOf[e] \in Payouts
      BY <3>2 DEF Typed
    <3>4. pstatus'[payoutOf[e]] = pstatus[payoutOf[e]]
      BY <2>3, <2>6, <3>3 DEF Typed
    <3>5. QED
      BY <1>i, <3>2, <3>4 DEF PaidByRequest
  <2>10. QED
    BY <1>i, <2>4, <2>5, <2>7, <2>8, <2>9, EndKeepsOneEach
<1>3. ASSUME NEW h \in Handlers, ApproveCommit(h) \/ RejectCommit(h) \/ PayCommit(h)
      PROVE  OneEach' /\ (\A g \in Handlers : Fresh(g)') /\ OneOpen' /\ AmountsMatch' /\ PaidByRequest'
  <2> DEFINE p == handler[h].payout
  <2>1. /\ p \in Payouts /\ handler[h].at \in StaffSteps /\ Goto(h, Idle)
        /\ UNCHANGED <<earner, payee, amount>>
    BY <1>3, HandlerFields
       DEF ApproveCommit, RejectCommit, PayCommit, StaffSteps, earningVars
  <2>2. \A q \in Payouts : q # p => pstatus'[q] = pstatus[q]
    BY <1>3 DEF ApproveCommit, RejectCommit, PayCommit, Typed
  <2>3. \A e \in Earnings : payoutOf[e] # p =>
          payoutOf'[e] = payoutOf[e] /\ estatus'[e] = estatus[e]
    BY <1>3 DEF ApproveCommit, RejectCommit, PayCommit, Linked, earningVars
  <2>4. \/ /\ pstatus[p] = "PENDING" /\ pstatus'[p] = "APPROVED"
           /\ UNCHANGED <<estatus, payoutOf>>
        \/ /\ pstatus'[p] = "REJECTED"
           /\ \A e \in Earnings : payoutOf[e] = p => payoutOf'[e] = NoPayout
        \/ /\ pstatus[p] = "APPROVED" /\ pstatus'[p] = "PAID"
           /\ UNCHANGED payoutOf
    <3>1. CASE ApproveCommit(h)
      BY <1>i, <2>1, <3>1 DEF ApproveCommit, Fresh, Typed, earningVars
    <3>2. CASE RejectCommit(h)
      BY <2>1, <3>2 DEF RejectCommit, Linked, Typed
    <3>3. CASE PayCommit(h)
      BY <1>i, <2>1, <3>3 DEF PayCommit, Fresh, Typed
    <3>4. QED
      BY <1>3, <3>1, <3>2, <3>3
  <2>5. \A q \in Payouts : pstatus'[q] \in Open => pstatus[q] \in Open
    BY <2>2, <2>4 DEF Open
  <2>6. \A e \in Earnings : payoutOf[e] = NoPayout => payoutOf'[e] = NoPayout
    BY <2>1, <2>3, PayoutAssumption
  <2>7. ASSUME NEW g \in Handlers, g # h PROVE Fresh(g)'
    <3>1. handler'[g] = handler[g] /\ handler[g].at \notin StaffSteps
      BY <1>i, <2>1, <2>7, IdleTyped, HandlerWrittenTyped DEF OneEach
    <3>2. HasOpenRequest(handler[g].courier)' => HasOpenRequest(handler[g].courier)
      BY <2>1, <2>5, <3>1 DEF HasOpenRequest
    <3>3. handler[g].at \in CreateSteps => handler[g].due \in SUBSET Earnings
      BY HandlerFields
    <3>4. QED
      BY <1>i, <2>6, <3>1, <3>2, <3>3, FreshStays
  <2> HIDE DEF p
  <2>8. OneOpen'
    BY <1>i, <2>1, <2>5 DEF OneOpen
  <2>9. AmountsMatch'
    <3> SUFFICES ASSUME NEW q \in Payouts, pstatus'[q] \in Open \cup {"PAID"}
                 PROVE  amount'[q] = Total(Linked(q)')
      BY DEF AmountsMatch
    <3>1. Linked(q)' = Linked(q)
      <4>1. CASE q = p
        <5>1. UNCHANGED payoutOf
          BY <2>4, <4>1 DEF Open
        <5>2. QED
          BY <5>1 DEF Linked
      <4>2. CASE q # p
        <5>1. \A e \in Earnings : payoutOf'[e] = q <=> payoutOf[e] = q
          BY <2>1, <2>3, <2>4, <4>2, PayoutAssumption
        <5>2. QED
          BY <5>1 DEF Linked
      <4>3. QED
        BY <4>1, <4>2
    <3>2. pstatus[q] \in Open \cup {"PAID"}
      BY <2>2, <2>4 DEF Open
    <3>3. amount'[q] = amount[q]
      BY <2>1
    <3>4. QED
      BY <1>i, <3>1, <3>2, <3>3 DEF AmountsMatch
  <2>10. PaidByRequest'
    <3> SUFFICES ASSUME NEW e \in Earnings, payoutOf'[e] # NoPayout, estatus'[e] = "PAID"
                 PROVE  pstatus'[payoutOf'[e]] = "PAID"
      BY DEF PaidByRequest
    <3>1. CASE payoutOf[e] = p
      <4>1. CASE pstatus[p] = "PENDING" /\ UNCHANGED <<estatus, payoutOf>>
        BY <1>i, <2>1, <3>1, <4>1, PayoutAssumption DEF PaidByRequest
      <4>2. CASE pstatus'[p] = "PAID" /\ UNCHANGED payoutOf
        BY <3>1, <4>2
      <4>3. QED
        BY <2>4, <3>1, <4>1, <4>2
    <3>2. CASE payoutOf[e] # p
      <4>1. payoutOf'[e] = payoutOf[e] /\ estatus[e] = "PAID"
        BY <2>3, <3>2
      <4>2. payoutOf[e] \in Payouts
        BY <4>1 DEF Typed
      <4>3. QED
        BY <1>i, <2>2, <3>2, <4>1, <4>2 DEF PaidByRequest
    <3>3. QED
      BY <3>1, <3>2
  <2>11. QED
    BY <1>i, <2>1, <2>7, <2>8, <2>9, <2>10, EndKeepsOneEach
<1>4. ASSUME NEW h \in Handlers, Abort(h)
      PROVE  OneEach' /\ (\A g \in Handlers : Fresh(g)') /\ OneOpen' /\ AmountsMatch' /\ PaidByRequest'
  BY <1>4, <1>i, IdleTyped, EndKeepsOneEach, GotoKeepsOrder DEF Abort
<1>5. ASSUME NEW h \in Handlers, NEW c \in Couriers, CreateRead(h, c)
      PROVE  OneEach' /\ (\A g \in Handlers : Fresh(g)') /\ OneOpen' /\ AmountsMatch' /\ PaidByRequest'
  <2> DEFINE r == [at |-> "create.read", courier |-> c, due |-> Due(c)]
  <2>1. r \in Requests
    BY DEF Requests, CreateSteps, Due
  <2>2. UNCHANGED <<earningVars, payoutVars>> /\ Goto(h, r)
    BY <1>5 DEF CreateRead
  <2>3. \A g \in Handlers : handler'[g] = IF g = h THEN r ELSE handler[g]
    BY <2>1, <2>2, HandlerWrittenTyped
  <2>4. \A g \in Handlers : ~(handler[g].at \in CreateSteps /\ handler[g].courier = c)
    BY <1>5, <1>o DEF CreateRead, CourierWaits
  <2>5. OneEach'
    BY <1>i, <2>3, <2>4 DEF OneEach, CreateSteps, StaffSteps
  <2>6. \A e \in Due(c) : payoutOf[e] = NoPayout
    BY DEF Due, LinkInv, LinksAreSound
  <2>7. Fresh(h)'
    BY <2>2, <2>3, <2>6 DEF Fresh, earningVars
  <2> HIDE DEF r
  <2>8. QED
    BY <1>i, <2>1, <2>2, <2>5, <2>7, GotoKeepsOrder
<1>6. ASSUME NEW h \in Handlers, NEW p \in Payouts,
             ApproveRead(h, p) \/ RejectRead(h, p) \/ PayRead(h, p)
      PROVE  OneEach' /\ (\A g \in Handlers : Fresh(g)') /\ OneOpen' /\ AmountsMatch' /\ PaidByRequest'
  <2>1. PICK r \in Requests :
          /\ Goto(h, r) /\ r.at \in StaffSteps /\ r.payout = p
          /\ r.at = "approve.read" => pstatus[p] = "PENDING"
          /\ r.at = "reject.read" => pstatus[p] \in Open
          /\ r.at = "pay.read" => pstatus[p] = "APPROVED"
    <3>1. CASE ApproveRead(h, p)
      BY <3>1 DEF ApproveRead, Requests, StaffSteps
    <3>2. CASE RejectRead(h, p)
      BY <3>2 DEF RejectRead, Requests, StaffSteps
    <3>3. CASE PayRead(h, p)
      BY <3>3 DEF PayRead, Requests, StaffSteps
    <3>4. QED
      BY <1>6, <3>1, <3>2, <3>3
  <2>2. UNCHANGED <<earningVars, payoutVars>>
    BY <1>6 DEF ApproveRead, RejectRead, PayRead
  <2>3. \A g \in Handlers : handler'[g] = IF g = h THEN r ELSE handler[g]
    BY <2>1, HandlerWrittenTyped
  <2>4. \A g \in Handlers : handler[g].at \notin StaffSteps
    BY <1>6, <1>o DEF ApproveRead, RejectRead, PayRead, StaffWaits
  <2>5. r.at \notin CreateSteps
    BY <2>1 DEF StaffSteps, CreateSteps
  <2>6. OneEach'
    BY <1>i, <2>3, <2>4, <2>5 DEF OneEach
  <2>7. Fresh(h)'
    BY <2>1, <2>2, <2>3, <2>5 DEF Fresh, CreateSteps, payoutVars
  <2>8. QED
    BY <1>i, <2>1, <2>2, <2>6, <2>7, GotoKeepsOrder
<1>7. ASSUME NEW e \in Earnings, NEW c \in Couriers, CreateForDeliveredOrder(e, c)
      PROVE  OneEach' /\ (\A g \in Handlers : Fresh(g)') /\ OneOpen' /\ AmountsMatch' /\ PaidByRequest'
  <2>1. UNCHANGED <<payoutOf, payee, pstatus, amount, handler>>
    BY <1>7 DEF CreateForDeliveredOrder, payoutVars
  <2>2. \A d \in Earnings : estatus'[d] = "PAID" => estatus[d] = "PAID"
    BY <1>7 DEF CreateForDeliveredOrder, Typed
  <2>3. \A g \in Handlers : Fresh(g)'
    BY <1>i, <2>1, FreshStays DEF HasOpenRequest
  <2>4. OneEach' /\ OneOpen' /\ PaidByRequest'
    BY <1>i, <2>1, <2>2 DEF OneEach, OneOpen, PaidByRequest
  <2>5. \A p \in Payouts : Linked(p)' = Linked(p)
    BY <2>1 DEF Linked
  <2>6. AmountsMatch'
    BY <1>i, <2>1, <2>5 DEF AmountsMatch
  <2>7. QED
    BY <2>3, <2>4, <2>6
<1>8. CASE MarkEarningsPaid
  <2>1. UNCHANGED <<payoutOf, payee, pstatus, amount, handler>>
    BY <1>8 DEF MarkEarningsPaid, payoutVars
  <2>2. \A d \in Earnings : estatus'[d] = estatus[d] \/ payoutOf[d] = NoPayout
    BY <1>8 DEF MarkEarningsPaid, LinkInv, LinksAreSound
  <2>3. \A g \in Handlers : Fresh(g)'
    BY <1>i, <2>1, FreshStays DEF HasOpenRequest
  <2>4. OneEach' /\ OneOpen' /\ PaidByRequest'
    BY <1>i, <2>1, <2>2 DEF OneEach, OneOpen, PaidByRequest
  <2>5. \A p \in Payouts : Linked(p)' = Linked(p)
    BY <2>1 DEF Linked
  <2>6. AmountsMatch'
    BY <1>i, <2>1, <2>5 DEF AmountsMatch
  <2>7. QED
    BY <2>3, <2>4, <2>6
<1>9. CASE UNCHANGED vars
  <2>1. UNCHANGED <<earningVars, payoutVars, handler>>
    BY <1>9 DEF vars, earningVars, payoutVars
  <2>2. OneEach' /\ \A g \in Handlers : Fresh(g)'
    BY <1>i, <2>1, FreshStays DEF OneEach, HasOpenRequest, earningVars, payoutVars
  <2>3. QED
    BY <1>i, <2>1, <2>2, TablesStay
<1>10. QED
  BY <1>1, <1>2, <1>3, <1>4, <1>5, <1>6, <1>7, <1>8, <1>9 DEF Next, Advance

LEMMA OrderlyAlways == Spec => []OrderlyInv
BY OrderlyInit, OrderlyStep, Typing, LinksAlways, PTL DEF Spec

(* Where everybody waits for each answer, a courier has at most one open   *)
(* request ("Acik bir odeme talebiniz var" in createForCourierUser).       *)
THEOREM OneOpenRequestAlways == Spec => []OneOpenRequest
<1>1. OrderlyInv => OneOpenRequest
  BY DEF OrderlyInv, OneOpen, OneOpenRequest
<1>2. QED
  BY <1>1, OrderlyAlways, PTL

(* Under the same condition the amount of an open or paid request is the   *)
(* sum of the earnings it settles.                                         *)
THEOREM RequestAmountIsItsEarningsAlways == Spec => []RequestAmountIsItsEarnings
<1>1. OrderlyInv => RequestAmountIsItsEarnings
  BY DEF OrderlyInv, AmountsMatch, RequestAmountIsItsEarnings
<1>2. QED
  BY <1>1, OrderlyAlways, PTL

(* And an earning paid through a request is never requested, released or   *)
(* paid again.                                                             *)
THEOREM PaidEarningStaysAlways == Spec => PaidEarningStays
<1>1. ASSUME Typed, LinkInv, OrderlyInv, [Next]_vars
      PROVE  [orderly =>
                \A e \in Earnings :
                  estatus[e] = "PAID" /\ payoutOf[e] # NoPayout =>
                    estatus'[e] = "PAID" /\ payoutOf'[e] = payoutOf[e]]_vars
  <2> SUFFICES ASSUME orderly, Next, NEW e \in Earnings,
                      estatus[e] = "PAID", payoutOf[e] # NoPayout
               PROVE  estatus'[e] = "PAID" /\ payoutOf'[e] = payoutOf[e]
    BY <1>1
  <2>1. pstatus[payoutOf[e]] = "PAID"
    BY <1>1 DEF OrderlyInv, PaidByRequest
  <2>2. ASSUME NEW h \in Handlers, CreateCommit(h)
        PROVE  estatus'[e] = "PAID" /\ payoutOf'[e] = payoutOf[e]
    <3>1. e \notin handler[h].due
      BY <1>1, <2>2 DEF OrderlyInv, Fresh, CreateCommit, CreateSteps
    <3>2. QED
      BY <2>2, <3>1 DEF CreateCommit, TakenEarnings
  <2>3. ASSUME NEW h \in Handlers, RejectCommit(h)
        PROVE  estatus'[e] = "PAID" /\ payoutOf'[e] = payoutOf[e]
    <3>1. pstatus[handler[h].payout] \in Open
      BY <1>1, <2>3 DEF OrderlyInv, Fresh, RejectCommit
    <3>2. payoutOf[e] # handler[h].payout
      BY <2>1, <3>1 DEF Open
    <3>3. QED
      BY <2>3, <3>2 DEF RejectCommit, Linked
  <2>4. ASSUME NEW h \in Handlers, PayCommit(h)
        PROVE  estatus'[e] = "PAID" /\ payoutOf'[e] = payoutOf[e]
    BY <2>4 DEF PayCommit
  <2>5. CASE MarkEarningsPaid
    BY <2>5 DEF MarkEarningsPaid
  <2>6. ASSUME NEW d \in Earnings, NEW c \in Couriers, CreateForDeliveredOrder(d, c)
        PROVE  estatus'[e] = "PAID" /\ payoutOf'[e] = payoutOf[e]
    BY <1>1, <2>6 DEF CreateForDeliveredOrder, Typed
  <2>7. QED
    BY <2>2, <2>3, <2>4, <2>5, <2>6
       DEF Next, Advance, CreateCheckOpen, ApproveCommit, Abort, CreateRead, ApproveRead,
           RejectRead, PayRead, earningVars
<1>2. QED
  BY <1>1, Typing, LinksAlways, OrderlyAlways, PTL DEF Spec, PaidEarningStays

=============================================================================
