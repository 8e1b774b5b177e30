----------------------------- MODULE JobOffers -----------------------------
(***************************************************************************)
(* The courier's app (courier-app): an offer arrives over the socket, the  *)
(* full-screen overlay shows it and counts down, the lists show it too,    *)
(* and an accepted order is carried through the delivery screen.           *)
(*                                                                         *)
(* Everything the app knows it has read earlier, and every call takes its  *)
(* time: meanwhile a second offer replaces the first, the countdown ends,  *)
(* operations assign or cancel, or the approval gate takes the screens     *)
(* down because its own query failed.  The server handles one call at a    *)
(* time here; how its requests interleave is the subject of OrderDispatch. *)
(***************************************************************************)
EXTENDS Naturals, FiniteSets

CONSTANTS
  Orders,
  NoOrder,
  MaxCalls,     \* calls in flight (a bound)
  MaxDisturbed  \* changes by operations, closings of the gate, and offers told in
                \* a notice instead of the overlay (a bound)

VARIABLES
  server,     \* server[o], as far as it concerns this courier: see ServerStates
  disturbed,  \* what MaxDisturbed bounds, so far
  cached,     \* cached[o]: what the app shows of an order (its list and its own query)
  checks,     \* job_request events whose busy check is under way: [order, at]
  overlay,    \* the overlay: offer and the state of the component
  calls,      \* calls whose answer the app has not handled
  notices,    \* orders named by in-app notices
  page,       \* the screen on top: "list", or the delivery screen of an order
  shell,      \* is ApprovedCourierShell mounted?
  overtaken   \* has the overlay come up over a call still in flight?  (history)

vars == <<server, disturbed, cached, checks, overlay, calls, notices, page,
          shell, overtaken>>
serverVars == <<server, disturbed>>
screenVars == <<cached, notices, page>>

(* "none": not offered yet; "offered": searching, with a PENDING offer to  *)
(* this courier; "away": the offer is settled otherwise or the order is    *)
(* closed without him; the others: it is his.                              *)
Active == {"ACCEPTED", "PICKED_UP", "ON_DELIVERY"}
ServerStates == {"none", "offered", "away", "DELIVERED"} \cup Active

Busy(view) == \E o \in Orders : view[o] \in Active

(* What the lists and the delivery screen show of an order: the others     *)
(* have no button.                                                         *)
Shown(s) == IF s = "offered" \/ s \in Active THEN s ELSE "none"

(* Delivery screen: NEXT_STATUS *)
NextStatus == [ACCEPTED |-> "PICKED_UP", PICKED_UP |-> "ON_DELIVERY",
               ON_DELIVERY |-> "DELIVERED"]

NoOffer == [offer |-> NoOrder, handled |-> FALSE, accepting |-> FALSE,
            declining |-> FALSE, counting |-> FALSE]

(* What the effect of the overlay does for an offer that has just come up. *)
FreshOffer(o) == [NoOffer EXCEPT !.offer = o, !.counting = TRUE]

(* dismiss() empties the store.  The component keeps its state; all that a *)
(* late answer, and nobody else before the next offer, looks at again is   *)
(* whether it was handled.                                                 *)
Dismissed == [NoOffer EXCEPT !.handled = overlay.handled]

-----------------------------------------------------------------------------
(* An offer arrives: onJobRequest, onOrderAssigned *)

(* A notification, or a notice in the app where there is none. *)
Announce(o) ==
  \/ UNCHANGED notices
  \/ notices = {} /\ notices' = {o}   \* bound: one at a time

(* The server offers an order and emits job_request.                       *)
Offer(o) ==
  /\ server[o] = "none"
  /\ server' = [server EXCEPT ![o] = "offered"]
  /\ checks' = IF shell THEN checks \cup {[order |-> o, at |-> "asked"]} ELSE checks
  /\ UNCHANGED <<disturbed, screenVars, overlay, calls, shell, overtaken>>

(* GET couriers/me and GET /orders for the busy check; an error drops the  *)
(* event.                                                                  *)
CheckRead(k) ==
  /\ k.at = "asked"
  /\ \/ ~Busy(server) /\ checks' = (checks \ {k}) \cup {[k EXCEPT !.at = "free"]}
     \/ checks' = checks \ {k}
  /\ UNCHANGED <<serverVars, screenVars, overlay, calls, shell, overtaken>>

(* Calls an overlay that comes up for o knows nothing of: those of the one *)
(* it replaces, and an accept of o from wherever it was pressed, a list    *)
(* or an overlay mounted earlier.                                          *)
ComesOver(o) ==
  \E c \in calls : (c.from = "overlay" /\ c.live) \/ (c.op = "accept" /\ c.order = o)

ShowOffer(o) ==
  /\ overlay' =
       IF overlay.offer = o THEN overlay
         ELSE IF shell THEN FreshOffer(o)
         ELSE [NoOffer EXCEPT !.offer = o]
  /\ overtaken' = (overtaken \/ (overlay.offer # o /\ ComesOver(o)))

(* With the app in the foreground the overlay comes up, over whatever it   *)
(* showed before; else there is a notification, or a notice.               *)
CheckDone(k) ==
  /\ k.at = "free"
  /\ checks' = checks \ {k}
  /\ \/ ShowOffer(k.order) /\ UNCHANGED <<notices, disturbed>>
     \/ /\ Announce(k.order)
        /\ disturbed' = IF notices' = notices THEN disturbed ELSE disturbed + 1
        /\ disturbed' <= MaxDisturbed
        /\ UNCHANGED <<overlay, overtaken>>
  /\ UNCHANGED <<server, cached, page, calls, shell>>

(* Operations assign an order by hand, and order_assigned is announced.    *)
AssignedByOps(o) ==
  /\ disturbed < MaxDisturbed
  /\ server[o] \in {"none", "offered", "away"}
  /\ ~Busy(server)
  /\ server' = [server EXCEPT ![o] = "ACCEPTED"]
  /\ disturbed' = disturbed + 1
  /\ IF shell THEN Announce(o) ELSE UNCHANGED notices
  /\ UNCHANGED <<cached, page, checks, overlay, calls, shell, overtaken>>

(* Another courier is faster, or operations set a status.                  *)
ChangedElsewhere(o, s) ==
  /\ disturbed < MaxDisturbed
  /\ server[o] \in {"offered"} \cup Active
  /\ s \in IF server[o] = "offered" THEN {"away"} ELSE {"away", "ON_DELIVERY", "DELIVERED"}
  /\ server' = [server EXCEPT ![o] = s]
  /\ disturbed' = disturbed + 1
  /\ UNCHANGED <<screenVars, checks, overlay, calls, shell, overtaken>>

-----------------------------------------------------------------------------
(* The overlay *)

Call(op, o, from) ==
  [op |-> op, order |-> o, from |-> from, at |-> "sent", live |-> TRUE]

Send(call) ==
  /\ Cardinality(calls) < MaxCalls
  /\ calls' = calls \cup {call}

OverlayUp == shell /\ overlay.offer # NoOrder

(* runAccept, from a button that is disabled while accepting or declining  *)
PressAccept ==
  /\ OverlayUp
  /\ ~overlay.accepting /\ ~overlay.declining /\ ~overlay.handled
  /\ Send(Call("accept", overlay.offer, "overlay"))
  /\ overlay' = [overlay EXCEPT !.handled = TRUE, !.accepting = TRUE]
  /\ UNCHANGED <<serverVars, screenVars, checks, shell, overtaken>>

(* The button, or the phone's back key, which is never disabled *)
PressDecline ==
  /\ OverlayUp
  /\ ~overlay.handled
  /\ Send(Call("decline", overlay.offer, "overlay"))
  /\ overlay' = [overlay EXCEPT !.handled = TRUE, !.declining = TRUE]
  /\ UNCHANGED <<serverVars, screenVars, checks, shell, overtaken>>

(* The countdown ends once; it declines what nobody has handled.           *)
(* Mutation: whatever is on its way.                                       *)
CountdownDeclinesAnyway ==
  /\ OverlayUp
  /\ overlay.counting
  /\ Send(Call("decline", overlay.offer, "overlay"))
  /\ overlay' = [overlay EXCEPT !.counting = FALSE, !.handled = TRUE]
  /\ UNCHANGED <<serverVars, screenVars, checks, shell, overtaken>>

CountdownEnds ==
  /\ OverlayUp
  /\ overlay.counting
  /\ IF overlay.handled
       THEN /\ overlay' = [overlay EXCEPT !.counting = FALSE]
            /\ UNCHANGED calls
       ELSE /\ overlay' = [overlay EXCEPT !.counting = FALSE, !.handled = TRUE]
            /\ Send(Call("decline", overlay.offer, "overlay"))
  /\ UNCHANGED <<serverVars, screenVars, checks, shell, overtaken>>

-----------------------------------------------------------------------------
(* The lists and the delivery screen *)

(* Dashboard and jobs offer what their copy shows, and nothing while it    *)
(* shows an active delivery; a button waits for its own call (here, a      *)
(* bound: for any call of these screens, also one they have outlived).     *)
PressInList(op, o) ==
  /\ shell /\ overlay.offer = NoOrder
  /\ page = "list"
  /\ ~Busy(cached) /\ cached[o] = "offered"
  /\ ~\E c \in calls : c.from # "overlay"
  /\ Send(Call(op, o, "list"))
  /\ UNCHANGED <<serverVars, screenVars, checks, overlay, shell, overtaken>>

GoToDelivery(o) ==
  /\ page' = o
  /\ cached' = [cached EXCEPT ![o] = Shown(server[o])]

StayOnPage == UNCHANGED <<page, cached>>

OpenDelivery(o) ==
  /\ shell /\ overlay.offer = NoOrder
  /\ page = "list" /\ cached[o] \in Active
  /\ GoToDelivery(o)
  /\ UNCHANGED <<serverVars, notices, checks, overlay, calls, shell, overtaken>>

OpenNotice(o) ==
  /\ shell
  /\ o \in notices
  /\ notices' = notices \ {o}
  /\ GoToDelivery(o)
  /\ UNCHANGED <<serverVars, checks, overlay, calls, shell, overtaken>>

DismissNotice(o) ==
  /\ o \in notices
  /\ notices' = notices \ {o}
  /\ UNCHANGED <<serverVars, cached, page, checks, overlay, calls, shell,
                 overtaken>>

(* The overlay is a modal, and the phone's back key is its own.            *)
BackToList ==
  /\ shell /\ overlay.offer = NoOrder
  /\ page # "list"
  /\ page' = "list"
  /\ UNCHANGED <<serverVars, cached, notices, checks, overlay, calls, shell, overtaken>>

PressNext ==
  /\ shell /\ overlay.offer = NoOrder
  /\ page # "list" /\ cached[page] \in Active
  /\ ~\E c \in calls : c.from # "overlay"
  /\ Send(Call(NextStatus[cached[page]], page, "delivery"))
  /\ UNCHANGED <<serverVars, screenVars, checks, overlay, shell, overtaken>>

(* invalidateQueries, a pull to refresh, or a mount *)
Refetch ==
  /\ shell
  /\ cached' = [o \in Orders |-> Shown(server[o])]
  /\ cached' # cached
  /\ UNCHANGED <<serverVars, notices, page, checks, overlay, calls, shell, overtaken>>

-----------------------------------------------------------------------------
(* Calls: what the server does, and what the app does with the answer *)

(* acceptOffer, declineOfferByCourier, patchStatus of orders.service *)
Accepted(c) ==
  CASE c.op = "accept"  -> server[c.order] = "offered" /\ ~Busy(server)
    [] c.op = "decline" -> server[c.order] = "offered"
    [] OTHER            -> server[c.order] \in Active /\ NextStatus[server[c.order]] = c.op

Effect(c) ==
  [server EXCEPT ![c.order] =
     CASE c.op = "accept" -> "ACCEPTED" [] c.op = "decline" -> "away" [] OTHER -> c.op]

Handle(c) ==
  /\ c.at = "sent"
  /\ IF Accepted(c)
       THEN /\ server' = Effect(c)
            /\ \E at \in {"ok", "failed"} :   \* the answer may be lost
                 calls' = (calls \ {c}) \cup {[c EXCEPT !.at = at]}
       ELSE /\ calls' = (calls \ {c}) \cup {[c EXCEPT !.at = "failed"]}
            /\ UNCHANGED server
  /\ UNCHANGED <<disturbed, screenVars, checks, overlay, shell, overtaken>>

(* Once every call is answered, none is overtaken any more.                *)
Answered == overtaken' = (overtaken /\ calls' # {})

(* runDecline closes the overlay however the call ends; runAccept closes   *)
(* it and opens the delivery, or gives the overlay back to the courier.    *)
(* The component may be another one by now: the store is the same.         *)
(* Mutation: a failed accept leaves the buttons disabled.                  *)
OverlayAnswerForgetsAccepting(c) ==
  /\ c.from = "overlay" /\ c.at # "sent"
  /\ calls' = calls \ {c}
  /\ overlay' = IF c.op = "decline" \/ c.at = "ok" THEN Dismissed
                  ELSE IF c.live THEN [overlay EXCEPT !.handled = FALSE] ELSE overlay
  /\ IF c.op = "accept" /\ c.at = "ok" THEN GoToDelivery(c.order) ELSE StayOnPage
  /\ UNCHANGED <<serverVars, notices, checks, shell>>
  /\ Answered

OverlayAnswer(c) ==
  /\ c.from = "overlay" /\ c.at # "sent"
  /\ calls' = calls \ {c}
  /\ overlay' = IF c.op = "decline" \/ c.at = "ok" THEN Dismissed
                  ELSE IF c.live THEN [overlay EXCEPT !.handled = FALSE, !.accepting = FALSE]
                  ELSE overlay
  /\ IF c.op = "accept" /\ c.at = "ok" THEN GoToDelivery(c.order) ELSE StayOnPage
  /\ UNCHANGED <<serverVars, notices, checks, shell>>
  /\ Answered

(* The dashboard opens the delivery of an accepted order, the jobs stay.   *)
ScreenAnswer(c) ==
  /\ c.from # "overlay" /\ c.at # "sent"
  /\ calls' = calls \ {c}
  /\ \/ c.op = "accept" /\ c.at = "ok" /\ GoToDelivery(c.order)
     \/ StayOnPage
  /\ UNCHANGED <<serverVars, notices, checks, overlay, shell>>
  /\ Answered

-----------------------------------------------------------------------------
(* The approval gate and the phone *)

(* The gate's query fails in the background: every screen is unmounted and *)
(* the socket closed; the store keeps the offer, the calls go on.          *)
GateCloses ==
  /\ shell
  /\ disturbed < MaxDisturbed
  /\ disturbed' = disturbed + 1
  /\ shell' = FALSE
  /\ calls' = {[c EXCEPT !.live = FALSE] : c \in calls}
  /\ UNCHANGED <<server, screenVars, checks, overlay, overtaken>>

(* Mounted again, an overlay that finds an offer starts from the beginning *)
GateOpens ==
  /\ ~shell
  /\ shell' = TRUE
  /\ overlay' = IF overlay.offer = NoOrder THEN NoOffer ELSE FreshOffer(overlay.offer)
  /\ page' = "list"
  /\ overtaken' = (overtaken \/ (overlay.offer # NoOrder /\ ComesOver(overlay.offer)))
  /\ UNCHANGED <<serverVars, cached, notices, checks, calls>>

-----------------------------------------------------------------------------
Init ==
  /\ server = [o \in Orders |-> "none"]
  /\ disturbed = 0
  /\ cached = server
  /\ checks = {}
  /\ overlay = NoOffer
  /\ calls = {}
  /\ notices = {}
  /\ page = "list"
  /\ shell = TRUE
  /\ overtaken = FALSE

Next ==
  \/ \E o \in Orders :
       \/ Offer(o) \/ AssignedByOps(o)
       \/ \E s \in ServerStates : ChangedElsewhere(o, s)
       \/ \E op \in {"accept", "decline"} : PressInList(op, o)
       \/ OpenDelivery(o) \/ OpenNotice(o) \/ DismissNotice(o)
  \/ \E k \in checks : CheckRead(k) \/ CheckDone(k)
  \/ PressAccept \/ PressDecline \/ CountdownEnds
  \/ PressNext \/ BackToList \/ Refetch
  \/ \E c \in calls : Handle(c) \/ OverlayAnswer(c) \/ ScreenAnswer(c)
  \/ GateCloses \/ GateOpens

Spec == Init /\ [][Next]_vars

-----------------------------------------------------------------------------
(* Properties *)

TypeOK ==
  /\ server \in [Orders -> ServerStates]
  /\ cached \in [Orders -> ServerStates]
  /\ \A k \in checks : k.order \in Orders /\ k.at \in {"asked", "free"}
  /\ overlay \in [offer : Orders \cup {NoOrder}, handled : BOOLEAN, accepting : BOOLEAN,
                  declining : BOOLEAN, counting : BOOLEAN]
  /\ \A c \in calls : c.order \in Orders /\ c.at \in {"sent", "ok", "failed"}
  /\ notices \subseteq Orders
  /\ page \in Orders \cup {"list"}

InFlight(op) ==
  \E c \in calls : c.from = "overlay" /\ c.live /\ c.op = op /\ c.order = overlay.offer

(* The overlay covers the whole app, so its buttons may be disabled only   *)
(* while the answer that enables them or closes it is on its way: also     *)
(* when an offer replaced another, the countdown ended in between, or the  *)
(* screens were mounted again.                                             *)
BlockedOverlayWaits ==
  OverlayUp =>
    /\ overlay.accepting => InFlight("accept")
    /\ overlay.declining => InFlight("decline")

(* What the courier is accepting the overlay does not decline: neither the *)
(* countdown that ends nor the back key does so while an accept of that    *)
(* order is under way, wherever it was pressed.  Except where the overlay  *)
(* came up while calls it knows nothing of were in flight, until they are  *)
(* answered: for another offer, whose handledRef the late failure of the   *)
(* first one's call resets; mounted again by the approval gate with a new  *)
(* handledRef; or for an offer accepted in the list of the dashboard.  In  *)
(* these the app does decline what is being accepted.                      *)
DeclineLeavesAccept ==
  ~overtaken =>
    \A c \in calls :
      c.op = "accept" => Call("decline", c.order, "overlay") \notin calls' \ calls

=============================================================================
