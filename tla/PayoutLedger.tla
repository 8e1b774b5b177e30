---------------------------- MODULE PayoutLedger ----------------------------
(***************************************************************************)
(* Courier earnings and payout requests: src/src/courier-earnings and      *)
(* src/src/payout-requests.                                                *)
(*                                                                         *)
(* A courier asks for all PENDING earnings at once; accounting approves,   *)
(* rejects or pays the request, and may also mark single earnings paid.    *)
(* Every request reads before it writes, most of them outside the          *)
(* transaction that writes, and no write repeats the condition that was    *)
(* read.  As in OrderDispatch a request in progress is a handler that      *)
(* remembers what it read.                                                 *)
(*                                                                         *)
(* Couriers of this module are the ones with a complete bank profile       *)
(* (hasCompleteBankProfile); the others' requests end without a write.     *)
(***************************************************************************)
EXTENDS Naturals, FiniteSets, FiniteSetsExt

CONSTANTS
  Couriers,        \* couriers with a complete bank profile
  Earnings,        \* earnings deliveries may create
  Payouts,         \* payout requests that may be created (a bound)
  Handlers,        \* requests the server works on at the same time
  NoCourier, NoPayout,
  Amount,          \* Amount[e]: what the delivery earned
  MinPayout        \* PAYOUT_MIN_TRY

ASSUME PayoutAssumption ==
  /\ NoCourier \notin Couriers
  /\ NoPayout \notin Payouts
  /\ Amount \in [Earnings -> Nat]
  /\ MinPayout \in Nat

EarningStatus == {"PENDING", "REQUESTED", "PAID"}
PayoutStatus  == {"PENDING", "APPROVED", "REJECTED", "PAID"}
Open          == {"PENDING", "APPROVED"}

VARIABLES
  earner,       \* earner[e]: courierId of the earning, or NoCourier before it exists
  estatus,      \* estatus[e]: its status
  payoutOf,     \* payoutOf[e]: payoutRequestId, or NoPayout
  payee,        \* payee[p]: courierId of the request, or NoCourier before it exists
  pstatus,      \* pstatus[p]: its status
  amount,       \* amount[p]: the amount written at its creation
  handler,      \* handler[h]: the request in progress and what it has read
  orderly       \* does everybody wait for an answer before the next request?
                \* chosen at the start, never changed

vars == <<earner, estatus, payoutOf, payee, pstatus, amount, handler, orderly>>
earningVars == <<earner, estatus, payoutOf>>
payoutVars  == <<payee, pstatus, amount>>

Total(S) == MapThenSumSet(LAMBDA e : Amount[e], S)

Idle == [at |-> "idle"]

CreateSteps == {"create.read", "create.clear"}
StaffSteps  == {"approve.read", "reject.read", "pay.read"}

Requests ==
  [at : {"idle"}]
    \cup [at : CreateSteps, courier : Couriers, due : SUBSET Earnings]
    \cup [at : StaffSteps, payout : Payouts]

TypeOK ==
  /\ earner \in [Earnings -> Couriers \cup {NoCourier}]
  /\ estatus \in [Earnings -> EarningStatus \cup {"ABSENT"}]
  /\ payoutOf \in [Earnings -> Payouts \cup {NoPayout}]
  /\ payee \in [Payouts -> Couriers \cup {NoCourier}]
  /\ pstatus \in [Payouts -> PayoutStatus \cup {"ABSENT"}]
  /\ amount \in [Payouts -> Nat]
  /\ handler \in [Handlers -> Requests]
  /\ orderly \in BOOLEAN

Init ==
  /\ earner = [e \in Earnings |-> NoCourier]
  /\ estatus = [e \in Earnings |-> "ABSENT"]
  /\ payoutOf = [e \in Earnings |-> NoPayout]
  /\ payee = [p \in Payouts |-> NoCourier]
  /\ pstatus = [p \in Payouts |-> "ABSENT"]
  /\ amount = [p \in Payouts |-> 0]
  /\ handler = [h \in Handlers |-> Idle]
  /\ orderly \in BOOLEAN

Goto(h, request) == handler' = [handler EXCEPT ![h] = request]

Linked(p) == {e \in Earnings : payoutOf[e] = p}
Due(c) == {e \in Earnings : earner[e] = c /\ estatus[e] = "PENDING"}
HasOpenRequest(c) == \E p \in Payouts : payee[p] = c /\ pstatus[p] \in Open

(* A person who waits for each answer before sending the next request. *)
CourierWaits(c) ==
  orderly => ~\E g \in Handlers : handler[g].at \in CreateSteps /\ handler[g].courier = c
StaffWaits ==
  orderly => ~\E g \in Handlers : handler[g].at \in StaffSteps

-----------------------------------------------------------------------------
(* The delivery of an order creates its earning (createForDeliveredOrder;  *)
(* OrderDispatch shows when). *)
CreateForDeliveredOrder(e, c) ==
  /\ estatus[e] = "ABSENT"
  /\ earner' = [earner EXCEPT ![e] = c]
  /\ estatus' = [estatus EXCEPT ![e] = "PENDING"]
  /\ UNCHANGED <<payoutOf, payoutVars, handler, orderly>>

(* PATCH /courier-earnings/mark-paid: one statement, ids AND status =      *)
(* PENDING.                                                                *)
MarkEarningsPaid ==
  /\ \E ids \in SUBSET Earnings :
       /\ \E e \in ids : estatus[e] = "PENDING"
       /\ estatus' = [e \in Earnings |->
                        IF e \in ids /\ estatus[e] = "PENDING" THEN "PAID" ELSE estatus[e]]
  /\ UNCHANGED <<earner, payoutOf, payoutVars, handler, orderly>>

-----------------------------------------------------------------------------
(* POST /payout-requests: the earnings and the open request are read       *)
(* outside the transaction, which then takes those earnings by id.         *)

CreateRead(h, c) ==
  /\ handler[h] = Idle
  /\ CourierWaits(c)
  /\ Total(Due(c)) > 0
  /\ Total(Due(c)) >= MinPayout
  /\ Goto(h, [at |-> "create.read", courier |-> c, due |-> Due(c)])
  /\ UNCHANGED <<earningVars, payoutVars, orderly>>

(* Mutation: an approved request no longer counts as open. *)
CreateCheckOpenPendingOnly(h) ==
  /\ handler[h].at = "create.read"
  /\ Goto(h, IF \E p \in Payouts : payee[p] = handler[h].courier /\ pstatus[p] = "PENDING"
             THEN Idle
             ELSE [at |-> "create.clear", courier |-> handler[h].courier,
                   due |-> handler[h].due])
  /\ UNCHANGED <<earningVars, payoutVars, orderly>>

CreateCheckOpen(h) ==
  /\ handler[h].at = "create.read"
  /\ Goto(h, IF HasOpenRequest(handler[h].courier) THEN Idle
             ELSE [at |-> "create.clear", courier |-> handler[h].courier,
                   due |-> handler[h].due])
  /\ UNCHANGED <<earningVars, payoutVars, orderly>>

(* Mutation: the earnings are selected again by courier, whatever their    *)
(* status and number.                                                      *)
TakenEarningsByCourier(c, due) == {e \in Earnings : earner[e] = c}

(* updateMany WHERE id IN (the ids read before). *)
TakenEarnings(c, due) == due

CreateCommit(h) ==
  /\ handler[h].at = "create.clear"
  /\ LET c     == handler[h].courier
         taken == TakenEarnings(c, handler[h].due)
     IN  \E p \in Payouts :
           /\ pstatus[p] = "ABSENT"
           /\ payee' = [payee EXCEPT ![p] = c]
           /\ pstatus' = [pstatus EXCEPT ![p] = "PENDING"]
           /\ amount' = [amount EXCEPT ![p] = Total(handler[h].due)]
           /\ estatus' = [e \in Earnings |->
                            IF e \in taken THEN "REQUESTED" ELSE estatus[e]]
           /\ payoutOf' = [e \in Earnings |->
                             IF e \in taken THEN p ELSE payoutOf[e]]
  /\ Goto(h, Idle)
  /\ UNCHANGED <<earner, orderly>>

-----------------------------------------------------------------------------
(* PATCH /payout-requests/:id/approve, /reject, /mark-paid.  The status is *)
(* read first (inside the transaction for the last two, which at READ      *)
(* COMMITTED keeps nobody out) and the update is by id.                    *)

ApproveRead(h, p) ==
  /\ handler[h] = Idle
  /\ StaffWaits
  /\ pstatus[p] = "PENDING"
  /\ Goto(h, [at |-> "approve.read", payout |-> p])
  /\ UNCHANGED <<earningVars, payoutVars, orderly>>

(* Mutation: the status name of courier offers. *)
ApproveCommitOfferName(h) ==
  /\ handler[h].at = "approve.read"
  /\ pstatus' = [pstatus EXCEPT ![handler[h].payout] = "ACCEPTED"]
  /\ Goto(h, Idle)
  /\ UNCHANGED <<earningVars, payee, amount, orderly>>

ApproveCommit(h) ==
  /\ handler[h].at = "approve.read"
  /\ pstatus' = [pstatus EXCEPT ![handler[h].payout] = "APPROVED"]
  /\ Goto(h, Idle)
  /\ UNCHANGED <<earningVars, payee, amount, orderly>>

(* Mutation: a paid request can still be rejected. *)
RejectReadAnyStatus(h, p) ==
  /\ handler[h] = Idle
  /\ StaffWaits
  /\ pstatus[p] # "ABSENT"
  /\ Goto(h, [at |-> "reject.read", payout |-> p])
  /\ UNCHANGED <<earningVars, payoutVars, orderly>>

RejectRead(h, p) ==
  /\ handler[h] = Idle
  /\ StaffWaits
  /\ pstatus[p] \in Open
  /\ Goto(h, [at |-> "reject.read", payout |-> p])
  /\ UNCHANGED <<earningVars, payoutVars, orderly>>

(* Mutation: the rejected request keeps its earnings linked. *)
RejectCommitKeepsLink(h) ==
  /\ handler[h].at = "reject.read"
  /\ LET p == handler[h].payout
     IN  /\ estatus' = [e \in Earnings |->
                          IF e \in Linked(p) THEN "PENDING" ELSE estatus[e]]
         /\ pstatus' = [pstatus EXCEPT ![p] = "REJECTED"]
  /\ Goto(h, Idle)
  /\ UNCHANGED <<earner, payoutOf, payee, amount, orderly>>

RejectCommit(h) ==
  /\ handler[h].at = "reject.read"
  /\ LET p == handler[h].payout
     IN  /\ estatus' = [e \in Earnings |->
                          IF e \in Linked(p) THEN "PENDING" ELSE estatus[e]]
         /\ payoutOf' = [e \in Earnings |->
                           IF e \in Linked(p) THEN NoPayout ELSE payoutOf[e]]
         /\ pstatus' = [pstatus EXCEPT ![p] = "REJECTED"]
  /\ Goto(h, Idle)
  /\ UNCHANGED <<earner, payee, amount, orderly>>

PayRead(h, p) ==
  /\ handler[h] = Idle
  /\ StaffWaits
  /\ pstatus[p] = "APPROVED"
  /\ Goto(h, [at |-> "pay.read", payout |-> p])
  /\ UNCHANGED <<earningVars, payoutVars, orderly>>

(* Mutation: paying settles the request and forgets its earnings. *)
PayCommitRequestOnly(h) ==
  /\ handler[h].at = "pay.read"
  /\ pstatus' = [pstatus EXCEPT ![handler[h].payout] = "PAID"]
  /\ Goto(h, Idle)
  /\ UNCHANGED <<earningVars, payee, amount, orderly>>

PayCommit(h) ==
  /\ handler[h].at = "pay.read"
  /\ LET p == handler[h].payout
     IN  /\ estatus' = [e \in Earnings |->
                          IF e \in Linked(p) THEN "PAID" ELSE estatus[e]]
         /\ pstatus' = [pstatus EXCEPT ![p] = "PAID"]
  /\ Goto(h, Idle)
  /\ UNCHANGED <<earner, payoutOf, payee, amount, orderly>>

(* The process stops or the transaction is aborted between two steps. *)
Abort(h) ==
  /\ handler[h] # Idle
  /\ Goto(h, Idle)
  /\ UNCHANGED <<earningVars, payoutVars, orderly>>

Advance(h) ==
  \/ CreateCheckOpen(h)
  \/ CreateCommit(h)
  \/ ApproveCommit(h)
  \/ RejectCommit(h)
  \/ PayCommit(h)
  \/ Abort(h)

Next ==
  \/ \E h \in Handlers : Advance(h)
  \/ \E h \in Handlers, c \in Couriers : CreateRead(h, c)
  \/ \E h \in Handlers, p \in Payouts :
       \/ ApproveRead(h, p)
       \/ RejectRead(h, p)
       \/ PayRead(h, p)
  \/ \E e \in Earnings, c \in Couriers : CreateForDeliveredOrder(e, c)
  \/ MarkEarningsPaid

Spec == Init /\ [][Next]_vars

-----------------------------------------------------------------------------
(* Properties *)

(* No earning is stranded: one that is REQUESTED hangs on a request of its *)
(* own courier that can still be paid or rejected, and one that is PENDING *)
(* on none, so it can be requested.  It holds whatever requests overtake   *)
(* each other, because reject and mark-paid settle a request and its       *)
(* earnings in one transaction.                                            *)
NoStrandedEarning ==
  \A e \in Earnings :
    /\ estatus[e] = "REQUESTED" =>
         /\ payoutOf[e] \in Payouts
         /\ pstatus[payoutOf[e]] \in Open
         /\ payee[payoutOf[e]] = earner[e]
    /\ estatus[e] = "PENDING" => payoutOf[e] = NoPayout

(* A rejected request holds no earning and a paid one only paid earnings,  *)
(* even when approvals, rejections and payments of the same request race.  *)
SettledRequestReleased ==
  \A e \in Earnings : payoutOf[e] # NoPayout =>
    /\ pstatus[payoutOf[e]] # "REJECTED"
    /\ pstatus[payoutOf[e]] = "PAID" => estatus[e] = "PAID"

(* A courier has at most one open request: "Acik bir odeme talebiniz var;  *)
(* sonuclaninca yeni talep acabilirsiniz" in the courier app.  It holds    *)
(* when nobody's requests overtake their own earlier ones; two taps on the *)
(* button otherwise open two requests for the same earnings.               *)
OneOpenRequest ==
  orderly =>
    \A p, q \in Payouts :
      payee[p] = payee[q] /\ pstatus[p] \in Open /\ pstatus[q] \in Open => p = q

(* What accounting transfers for an open or paid request is the sum of the *)
(* earnings it settles, under the same condition.                          *)
RequestAmountIsItsEarnings ==
  orderly =>
    \A p \in Payouts :
      pstatus[p] \in Open \cup {"PAID"} => amount[p] = Total(Linked(p))

(* An earning that was paid through a request stays paid by that request:  *)
(* it is never due, requested or paid again, under the same condition.     *)
PaidEarningStays ==
  [][orderly =>
       \A e \in Earnings :
         estatus[e] = "PAID" /\ payoutOf[e] # NoPayout =>
           estatus'[e] = "PAID" /\ payoutOf'[e] = payoutOf[e]]_vars

(* Only a PENDING earning is taken by a request: createForCourierUser      *)
(* refuses with "Talep edilebilir bakiye yok" when there is none.          *)
OnlyDueIsRequested ==
  [][\A e \in Earnings :
       estatus'[e] = "REQUESTED" => estatus[e] \in {"PENDING", "REQUESTED"}]_vars

=============================================================================
