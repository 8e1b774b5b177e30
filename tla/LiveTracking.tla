---------------------------- MODULE LiveTracking ----------------------------
(***************************************************************************)
(* Where is the courier?  The position from the courier's phone over PATCH *)
(* couriers/me and the socket, through the gateway (src/src/realtime), to  *)
(* the maps of customers (tracking/[orderId].tsx) and of the panel         *)
(* (order-live-map-inner.tsx and the maps of operations).                  *)
(*                                                                         *)
(* Every map does the same: it connects, emits its join at once, listens,  *)
(* and on the way out leaves, stops listening and disconnects.  The        *)
(* gateway learns who a client is by reading the database while the        *)
(* client's first messages already arrive.  Positions are numbered in the  *)
(* order the phone measured them.                                          *)
(***************************************************************************)
EXTENDS Naturals, FiniteSets

CONSTANTS
  Orders,       \* orders the viewer may look at
  NoOrder,      \* no map is open
  OpsMap,       \* stands for the room of operations, OPS_LIVE_MAP_ROOM
  MaxPosition,  \* positions measured (a bound)
  MaxSockets    \* connections of the viewer (a bound)

Rooms == Orders \cup {OpsMap}

VARIABLES
  active,    \* orders the courier has ACCEPTED, PICKED_UP or ON_DELIVERY
  online,    \* is the courier online, as far as the app knows?
  permit,    \* the location hook: "off", "asking" (awaits permission and watch) or "on"
  leaked,    \* watches that were started after their effect was cleaned up
  asking,    \* starts under way whose effect was cleaned up
  measured,  \* last position measured
  reports,   \* positions on their way: [pos, at, orders]
  stored,    \* position in the courier's row
  screen,    \* the map the viewer has open: a member of Rooms, or NoOrder
  socket,    \* number of the viewer's connection; those before it are closed
  known,     \* has the gateway stored the role of this connection?
  joining,   \* joins on their way or in progress: [socket, room, at]
  inRoom,    \* rooms the current connection is in
  live       \* live position on the map: [room, pos], 0 if none

vars == <<active, online, permit, leaked, asking, measured, reports, stored,
          screen, socket, known, joining, inRoom, live>>
phoneVars  == <<online, permit, leaked, asking, measured>>
viewerVars == <<screen, socket, known, joining, inRoom, live>>

NoPosition == [room |-> NoOrder, pos |-> 0]

-----------------------------------------------------------------------------
(* The courier's phone: useCourierLocationSync and the online switch *)

(* The effect starts when the courier is online and cleans up when he is   *)
(* not; a start that still waits for the watch is not stopped by that.     *)
SwitchOnline ==
  /\ ~online
  /\ online' = TRUE
  /\ permit' = "asking"
  /\ UNCHANGED <<active, leaked, asking, measured, reports, stored, viewerVars>>

SwitchOffline ==
  /\ online
  /\ asking < 1
  /\ online' = FALSE
  /\ permit' = "off"
  /\ asking' = asking + (IF permit = "asking" THEN 1 ELSE 0)
  /\ UNCHANGED <<active, leaked, measured, reports, stored, viewerVars>>

WatchStarts ==
  /\ \/ permit = "asking" /\ permit' = "on" /\ UNCHANGED <<leaked, asking>>
     \/ asking > 0 /\ asking' = asking - 1 /\ leaked' = leaked + 1 /\ UNCHANGED permit
  /\ leaked' <= 1
  /\ UNCHANGED <<active, online, measured, reports, stored, viewerVars>>

WatchRefused ==
  /\ permit = "asking"
  /\ permit' = "off"
  /\ UNCHANGED <<active, online, leaked, asking, measured, reports, stored, viewerVars>>

Measure ==
  /\ permit = "on" \/ leaked > 0
  /\ measured < MaxPosition
  /\ measured' = measured + 1
  /\ reports' = reports \cup {[pos |-> measured + 1, at |-> "patch", orders |-> {}]}
  /\ UNCHANGED <<active, online, permit, leaked, asking, stored, viewerVars>>

(* PATCH couriers/me, tried once; then the position is emitted anyway. *)
PatchAnswered(r) ==
  /\ r.at = "patch"
  /\ \/ stored' = r.pos
     \/ UNCHANGED stored
  /\ reports' = (reports \ {r}) \cup {[r EXCEPT !.at = "emitted"]}
  /\ UNCHANGED <<active, phoneVars, viewerVars>>

ReportLost(r) ==
  /\ r.at = "emitted"
  /\ reports' = reports \ {r}
  /\ UNCHANGED <<active, phoneVars, stored, viewerVars>>

-----------------------------------------------------------------------------
(* The gateway: onCourierLocation and the assignment of orders *)

LocationSaved(r) ==
  /\ r.at = "emitted"
  /\ stored' = r.pos
  /\ reports' = (reports \ {r}) \cup {[r EXCEPT !.at = "saved"]}
  /\ UNCHANGED <<active, phoneVars, viewerVars>>

OrdersRead(r) ==
  /\ r.at = "saved"
  /\ reports' = (reports \ {r}) \cup {[r EXCEPT !.at = "read", !.orders = active]}
  /\ UNCHANGED <<active, phoneVars, stored, viewerVars>>

(* What a map makes of a position it hears: it is where its courier is.    *)
Heard(pos) == [room |-> screen, pos |-> pos]

(* To the rooms of the orders read before, and to operations. *)
Broadcast(r) ==
  /\ r.at = "read"
  /\ live' = IF screen \in inRoom \cap (r.orders \cup {OpsMap})
               THEN Heard(r.pos) ELSE live
  /\ reports' = reports \ {r}
  /\ UNCHANGED <<active, phoneVars, stored, screen, socket, known, joining, inRoom>>

OrderStarts(o) ==
  /\ o \notin active
  /\ active' = active \cup {o}
  /\ UNCHANGED <<phoneVars, reports, stored, viewerVars>>

OrderEnds(o) ==
  /\ o \in active
  /\ active' = active \ {o}
  /\ UNCHANGED <<phoneVars, reports, stored, viewerVars>>

-----------------------------------------------------------------------------
(* The viewer's screen *)

(* A new connection is not known yet and in no room. *)
Connected(room) ==
  /\ socket' = socket + 1
  /\ known' = FALSE
  /\ inRoom' = {}
  /\ joining' = joining \cup {[socket |-> socket + 1, room |-> room, at |-> "sent"]}

(* Mutation: the position of the order before stays on the map. *)
OpenScreenKeepsLive(room) ==
  /\ screen # room
  /\ socket < MaxSockets
  /\ screen' = room
  /\ Connected(room)
  /\ UNCHANGED <<active, phoneVars, reports, stored, live>>

(* Also when the screen turns from one order to another: clean-up, then    *)
(* the effect again.                                                       *)
OpenScreen(room) ==
  /\ screen # room
  /\ socket < MaxSockets
  /\ screen' = room
  /\ Connected(room)
  /\ live' = NoPosition
  /\ UNCHANGED <<active, phoneVars, reports, stored>>

CloseScreen ==
  /\ screen # NoOrder
  /\ screen' = NoOrder
  /\ known' = FALSE
  /\ inRoom' = {}
  /\ live' = NoPosition
  /\ UNCHANGED <<active, phoneVars, reports, stored, socket, joining>>

(* The connection breaks: the library reconnects, and nothing joins again. *)
Reconnect ==
  /\ screen # NoOrder
  /\ socket < MaxSockets
  /\ socket' = socket + 1
  /\ known' = FALSE
  /\ inRoom' = {}
  /\ UNCHANGED <<active, phoneVars, reports, stored, screen, joining, live>>

-----------------------------------------------------------------------------
(* The gateway: handleConnection, onJoinOrder, onJoinOpsMap *)

HandleConnection ==
  /\ screen # NoOrder
  /\ ~known
  /\ known' = TRUE
  /\ UNCHANGED <<active, phoneVars, reports, stored, screen, socket, joining, inRoom, live>>

(* A join is judged by the role stored so far: none, and it is refused.    *)
(* The screen does not listen to exceptions.                               *)
JoinRead(j) ==
  /\ j.at = "sent"
  /\ joining' = (joining \ {j}) \cup
       (IF j.socket = socket /\ known THEN {[j EXCEPT !.at = "read"]} ELSE {})
  /\ UNCHANGED <<active, phoneVars, reports, stored, screen, socket, known, inRoom, live>>

Join(j) ==
  /\ j.at = "read"
  /\ joining' = joining \ {j}
  /\ inRoom' = IF j.socket = socket /\ screen # NoOrder
                 THEN inRoom \cup {j.room} ELSE inRoom
  /\ UNCHANGED <<active, phoneVars, reports, stored, screen, socket, known, live>>

-----------------------------------------------------------------------------
Init ==
  /\ active \in SUBSET Orders
  /\ online = FALSE
  /\ permit = "off"
  /\ leaked = 0 /\ asking = 0
  /\ measured = 0 /\ stored = 0
  /\ reports = {}
  /\ screen = NoOrder
  /\ socket = 0
  /\ known = FALSE
  /\ joining = {}
  /\ inRoom = {}
  /\ live = NoPosition

Server ==
  \/ HandleConnection
  \/ \E j \in joining : JoinRead(j) \/ Join(j)

Next ==
  \/ Server
  \/ SwitchOnline \/ SwitchOffline \/ WatchStarts \/ WatchRefused \/ Measure
  \/ \E r \in reports :
       PatchAnswered(r) \/ ReportLost(r) \/ LocationSaved(r) \/ OrdersRead(r) \/ Broadcast(r)
  \/ \E o \in Orders : OrderStarts(o) \/ OrderEnds(o)
  \/ \E room \in Rooms : OpenScreen(room)
  \/ CloseScreen
  \/ Reconnect

Spec == Init /\ [][Next]_vars

(* The gateway handles what arrives. *)
FairSpec == Spec /\ WF_vars(HandleConnection) /\ WF_vars(Server)

-----------------------------------------------------------------------------
(* Properties *)

TypeOK ==
  /\ active \in SUBSET Orders
  /\ {online, known} \subseteq BOOLEAN
  /\ permit \in {"off", "asking", "on"}
  /\ stored \in 0..measured
  /\ \A r \in reports : r.pos \in 1..measured /\ r.orders \subseteq Orders
  /\ screen \in Rooms \cup {NoOrder}
  /\ inRoom \in SUBSET Rooms
  /\ live.pos \in 0..measured

(* A map shows a live position only of the order it is open for, also when *)
(* it turned to another order while a position of the first was under way, *)
(* and it listens only to rooms it is open for.                            *)
MapShowsItsOrder ==
  /\ live # NoPosition => live.room = screen
  /\ inRoom \subseteq {screen}

(* A map that stays open comes into its room, as the example above the     *)
(* gateway promises: connect, emit join_order_tracking, listen to          *)
(* courier_location.                                                       *)
OpenMapJoins ==
  \A room \in Rooms :
    \A s \in 1..MaxSockets :
      (screen = room /\ socket = s) ~> (room \in inRoom \/ screen # room \/ socket # s)

=============================================================================
