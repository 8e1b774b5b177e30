------------------------------ MODULE Screens -------------------------------
(***************************************************************************)
(* The screens of the panel and of the apps on which users decide          *)
(* something about what others decide about, too.                          *)
(*                                                                         *)
(* They are written to one pattern: a list is loaded, a row's buttons      *)
(* depend on the status it had then and on the role of the user, a flag    *)
(* disables buttons while a request is under way, and the answer patches   *)
(* the row or the list is loaded again.  What differs is in the tables of  *)
(* ScreenTables.  Meanwhile other staff, couriers and customers go on.     *)
(***************************************************************************)
EXTENDS Naturals, FiniteSets

CONSTANTS
  Table,        \* the record of each screen,
  Endpoints,    \* of each endpoint, and the roles that may
  Lists,        \* read each list: see ScreenTables
  Rows,         \* rows of the screen
  NoRow,
  MaxRequests,  \* requests of the user under way (a bound)
  MaxElsewhere, \* changes made by others (a bound)
  MaxPosts      \* times one filling of a form is accepted (a bound)

VARIABLES
  page,      \* the screen the user is on, and
  role,      \* his role: both stay
  server,    \* server[r]: status of the row in the database
  shown,     \* shown[r]: its status on the screen, or "nothing"
  busy,      \* busy[f]: the row that set the flag, or NoRow
  dialog,    \* the open dialog: [op, row, seen], or NoDialog
  bulk,      \* orders the bulk action has still to send: [row, seen]
  requests,  \* requests[i]: a request under way, or Idle
  spent,     \* fillings the page has cleared after an answer
  posts,     \* posts[r]: times a filling was accepted (history)
  lost,      \* has an answer been lost?  (history)
  elsewhere  \* changes made by others

vars == <<page, role, server, shown, busy, dialog, bulk, requests, spent, posts,
          lost, elsewhere>>
rigid == <<page, role>>

-----------------------------------------------------------------------------

Here == Table[page]
IsForm == Here.form # "none"

Ids == 1 .. MaxRequests
Idle == [at |-> "idle", op |-> "none", row |-> NoRow]
Loading(op) == [at |-> "loading", op |-> op, row |-> NoRow]
NoDialog == [op |-> "none", row |-> NoRow, seen |-> "nothing"]
Nothing == [r \in Rows |-> "nothing"]

Flags == {Here.buttons[op].flag : op \in DOMAIN Here.buttons} \cup {"none"}
FirstStatuses == Here.lists \ {"REJECTED", "CANCELLED"}

(* A page opens empty and loads. *)
Init ==
  /\ page \in DOMAIN Table
  /\ role \in Here.users
  /\ server \in [Rows -> FirstStatuses]
  /\ shown = IF IsForm THEN server ELSE Nothing
  /\ busy = [f \in Flags |-> NoRow]
  /\ dialog = NoDialog
  /\ bulk = {}
  /\ requests = [i \in Ids |-> IF i = 1 /\ ~IsForm THEN Loading("load") ELSE Idle]
  /\ spent = {}
  /\ posts = [r \in Rows |-> 0]
  /\ lost = FALSE
  /\ elsewhere = 0

(* The button is not disabled by a request under way. *)
Enabled(op, r) ==
  LET b == Here.buttons[op]
  IN  CASE b.waits = "row"   -> busy[b.flag] # r
        [] b.waits = "page"  -> busy[b.flag] = NoRow
        [] b.waits = "own"   -> \A i \in Ids : requests[i].op # op \/ requests[i].row # r
        [] b.waits = "never" -> TRUE

(* The button of op is there for row r; the one that sends a courier's     *)
(* documents to review, when none of them is missing or rejected.          *)
Visible(op, r) ==
  /\ role \in Here.buttons[op].roles
  /\ shown[r] \in Here.buttons[op].from
  /\ r \notin spent
  /\ op = "submitReview" => \A q \in Rows : shown[q] \in {"PENDING_REVIEW", "APPROVED"}

Offered(op, r) == Visible(op, r) /\ Enabled(op, r)

(* The handler's first statement raises the flag; then it calls and awaits. *)
Raise(op, r) ==
  busy' = [busy EXCEPT ![Here.buttons[op].flag] =
             IF Here.buttons[op].flag = "none" THEN NoRow ELSE r]

Call(op, r, to, seen) ==
  \E i \in Ids :
    /\ requests[i] = Idle
    /\ \A j \in Ids : j < i => requests[j] # Idle
    /\ requests' = [requests EXCEPT ![i] =
                      [at |-> "sent", op |-> op, row |-> r, to |-> to, seen |-> seen]]

(* A menu of statuses leaves out the one that is shown. *)
Press(op, r) ==
  /\ ~Here.buttons[op].dialog
  /\ op # "bulkCancel"
  /\ Offered(op, r)
  /\ \E to \in Here.buttons[op].to \ (IF op = "setStatus" THEN {shown[r]} ELSE {}) :
       Call(op, r, to, shown[r])
  /\ Raise(op, r)
  /\ UNCHANGED <<rigid, server, shown, dialog, bulk, spent, posts, lost, elsewhere>>

(* The button of a row, or of the page for a form, opens the dialog. *)
Open(op, r) ==
  /\ Here.buttons[op].dialog
  /\ dialog = NoDialog
  /\ Visible(op, r)
  /\ dialog' = [op |-> op, row |-> r, seen |-> shown[r]]
  /\ UNCHANGED <<rigid, server, shown, busy, bulk, requests, spent, posts, lost, elsewhere>>

(* The dialogs of the accounts page open with empty fields, the others     *)
(* with what was there.                                                    *)
Close ==
  /\ dialog # NoDialog
  /\ dialog' = NoDialog
  /\ spent' = IF page = "accounts" THEN spent \cup {dialog.row} ELSE spent
  /\ UNCHANGED <<rigid, server, shown, busy, bulk, requests, posts, lost, elsewhere>>

(* The button in the dialog.  It looks at the flag, not at the row again. *)
Submit ==
  /\ dialog # NoDialog
  /\ Enabled(dialog.op, dialog.row)
  /\ \E to \in Here.buttons[dialog.op].to : Call(dialog.op, dialog.row, to, dialog.seen)
  /\ Raise(dialog.op, dialog.row)
  /\ UNCHANGED <<rigid, server, shown, dialog, bulk, spent, posts, lost, elsewhere>>

(* bulkCancel goes through the selected orders with the list it was        *)
(* pressed on, and leaves out the closed ones.                             *)
BulkPress ==
  /\ "bulkCancel" \in DOMAIN Here.buttons
  /\ \E selected \in SUBSET Rows \ {{}} :
       /\ \A r \in selected : Offered("bulkCancel", r)
       /\ bulk' = {[row |-> r, seen |-> shown[r]] : r \in selected}
       /\ \E r \in selected : Raise("bulkCancel", r)
  /\ UNCHANGED <<rigid, server, shown, dialog, requests, spent, posts, lost, elsewhere>>

BulkNext(b) ==
  /\ \A i \in Ids : requests[i].op # "bulkCancel"
  /\ Call("bulkCancel", b.row, "CANCELLED", b.seen)
  /\ bulk' = bulk \ {b}
  /\ UNCHANGED <<rigid, server, shown, busy, dialog, spent, posts, lost, elsewhere>>

Refresh ==
  /\ Here.refresh
  /\ \E i \in Ids :
       /\ requests[i] = Idle
       /\ \A j \in Ids : j < i => requests[j] # Idle
       /\ requests' = [requests EXCEPT ![i] = Loading("load")]
  /\ UNCHANGED <<rigid, server, shown, busy, dialog, bulk, spent, posts, lost, elsewhere>>

-----------------------------------------------------------------------------
(* The server takes the call, or says why not.  A call may also fail for a *)
(* reason that is not in the row, and its answer may be lost.              *)

Apply(r, to) ==
  /\ server' = [server EXCEPT ![r] = to]
  /\ posts' = [posts EXCEPT ![r] = IF to = "POSTED" THEN @ + 1 ELSE @]
  /\ posts[r] < MaxPosts

Answer(i, answer) == requests' = [requests EXCEPT ![i] = answer]

Accept(i) ==
  /\ requests[i].at = "sent"
  /\ LET q == requests[i]
     IN  /\ role \in Endpoints[q.op].roles
         /\ server[q.row] \in Endpoints[q.op].from
         /\ Apply(q.row, q.to)
         /\ \/ /\ Answer(i, [at |-> "ok", op |-> q.op, row |-> q.row, to |-> q.to])
               /\ UNCHANGED lost
            \/ /\ Answer(i, [at |-> "failed", op |-> q.op, row |-> q.row])
               /\ lost' = IsForm
  /\ UNCHANGED <<rigid, shown, busy, dialog, bulk, spent, elsewhere>>

Refuse(i) ==
  /\ requests[i].at = "sent"
  /\ LET q == requests[i]
     IN  \/ /\ role \notin Endpoints[q.op].roles
            /\ Answer(i, [at |-> "forbidden", op |-> q.op, row |-> q.row])
         \/ /\ role \in Endpoints[q.op].roles
            /\ server[q.row] \notin Endpoints[q.op].from
            /\ Answer(i, [at |-> "refused", op |-> q.op, row |-> q.row, seen |-> q.seen,
                          found |-> server[q.row]])
         \/ Answer(i, [at |-> "failed", op |-> q.op, row |-> q.row])
  /\ UNCHANGED <<rigid, server, shown, busy, dialog, bulk, spent, posts, lost, elsewhere>>

(* finally: the flag is lowered, whoever raised it last.  The bulk action  *)
(* lowers it after its last order, or after the first that fails.          *)
Lower(q, failed) ==
  /\ bulk' = IF q.op = "bulkCancel" /\ failed THEN {} ELSE bulk
  /\ busy' = IF q.op = "bulkCancel" /\ bulk' # {} THEN busy
             ELSE [busy EXCEPT ![Here.buttons[q.op].flag] = NoRow]

(* catch: a message, and nothing else on the page changes. *)
Fail(i) ==
  /\ requests[i].at \in {"forbidden", "refused", "failed"}
  /\ Lower(requests[i], TRUE)
  /\ requests' = [requests EXCEPT ![i] = Idle]
  /\ UNCHANGED <<rigid, server, shown, dialog, spent, posts, lost, elsewhere>>

(* What a handler does with its dialog and fields when the answer is there. *)
ClearFields(q) ==
  /\ dialog' = IF Here.buttons[q.op].dialog THEN NoDialog ELSE dialog
  /\ spent' = IF Here.form = "clears"
                THEN spent \cup ({q.row, dialog.row} \ {NoRow}) ELSE spent

Patch(i) ==
  /\ requests[i].at = "ok"
  /\ Here.after = "patch"
  /\ shown' = [shown EXCEPT ![requests[i].row] = IF @ = "nothing" THEN @ ELSE requests[i].to]
  /\ ClearFields(requests[i])
  /\ Lower(requests[i], FALSE)
  /\ requests' = [requests EXCEPT ![i] = Idle]
  /\ UNCHANGED <<rigid, server, posts, lost, elsewhere>>

Reload(i) ==
  /\ requests[i].at = "ok"
  /\ Here.after = "load"
  /\ ClearFields(requests[i])
  /\ requests' = [requests EXCEPT ![i] = Loading(@.op)]
  /\ UNCHANGED <<rigid, server, shown, busy, bulk, posts, lost, elsewhere>>

(* React Query: the flag is lowered at once, and the list loaded meanwhile. *)
Invalidate(i) ==
  /\ requests[i].at = "ok"
  /\ Here.after = "invalidate"
  /\ ClearFields(requests[i])
  /\ Lower(requests[i], FALSE)
  /\ requests' = [requests EXCEPT ![i] = Loading("load")]
  /\ UNCHANGED <<rigid, server, shown, posts, lost, elsewhere>>

(* The next screen opens.  The flag stays up: the form is gone. *)
Leave(i) ==
  /\ requests[i].at = "ok"
  /\ Here.after = "leave"
  /\ ClearFields(requests[i])
  /\ requests' = [requests EXCEPT ![i] = Idle]
  /\ UNCHANGED <<rigid, server, shown, busy, bulk, posts, lost, elsewhere>>

(* The list is read, and shown when the answer is there; load keeps its    *)
(* own errors to itself.  Of several queries one may have no answer.       *)
View(status, whole) ==
  CASE ~whole /\ status \in DOMAIN Here.partial -> Here.partial[status]
    [] status \notin Here.lists                  -> "nothing"
    [] OTHER                                     -> status

ReadList(i) ==
  /\ requests[i].at = "loading"
  /\ \E whole \in BOOLEAN :
       requests' = [requests EXCEPT ![i] =
         [at |-> "read", op |-> @.op, row |-> NoRow,
          list |-> [r \in Rows |-> View(server[r], whole)]]]
  /\ UNCHANGED <<rigid, server, shown, busy, dialog, bulk, spent, posts, lost, elsewhere>>

EndLoad(i, list) ==
  /\ shown' = IF IsForm THEN shown ELSE list
  /\ IF requests[i].op = "load" THEN UNCHANGED <<busy, bulk>> ELSE Lower(requests[i], FALSE)
  /\ requests' = [requests EXCEPT ![i] = Idle]
  /\ UNCHANGED <<rigid, server, dialog, spent, posts, lost, elsewhere>>

ShowList(i) == requests[i].at = "read" /\ EndLoad(i, requests[i].list)

LoadFails(i) ==
  /\ requests[i].at = "loading"
  /\ EndLoad(i, IF page = "courier" THEN Nothing ELSE shown)

(* Somebody else acts on a row: through the same endpoints, or others. *)
Elsewhere(r) ==
  /\ elsewhere < MaxElsewhere
  /\ ~IsForm
  /\ \/ \E op \in DOMAIN Here.buttons :
          /\ server[r] \in Endpoints[op].from
          /\ \E to \in Here.buttons[op].to : Apply(r, to)
     \/ \E step \in Here.others : server[r] = step[1] /\ Apply(r, step[2])
  /\ elsewhere' = elsewhere + 1
  /\ UNCHANGED <<rigid, shown, busy, dialog, bulk, requests, spent, lost>>

Next ==
  \/ \E op \in DOMAIN Here.buttons, r \in Rows : Press(op, r) \/ Open(op, r)
  \/ \E b \in bulk : BulkNext(b)
  \/ Close \/ Submit \/ BulkPress \/ Refresh
  \/ \E i \in Ids :
       \/ Accept(i) \/ Refuse(i) \/ Fail(i) \/ Patch(i) \/ Reload(i) \/ Invalidate(i)
       \/ Leave(i) \/ ReadList(i) \/ ShowList(i) \/ LoadFails(i)
  \/ \E r \in Rows : Elsewhere(r)

Spec == Init /\ [][Next]_vars

-----------------------------------------------------------------------------

(* Statuses a row may have: some are in no list. *)
Known ==
  Here.lists \cup (UNION {Here.buttons[op].to : op \in DOMAIN Here.buttons})
             \cup {step[2] : step \in Here.others}

Request ==
  LET Ops == DOMAIN Here.buttons
  IN  {Idle}
      \cup [at : {"loading"}, op : {"load"} \cup Ops, row : {NoRow}]
      \cup [at : {"read"}, op : {"load"} \cup Ops, row : {NoRow},
            list : [Rows -> Here.lists \cup {"nothing"}]]
      \cup [at : {"sent"}, op : Ops, row : Rows, to : Known, seen : Here.lists]
      \cup [at : {"ok"}, op : Ops, row : Rows, to : Known]
      \cup [at : {"failed", "forbidden"}, op : Ops, row : Rows]
      \cup [at : {"refused"}, op : Ops, row : Rows, seen : Here.lists, found : Known]

TypeOK ==
  /\ page \in DOMAIN Table /\ role \in Here.users
  /\ server \in [Rows -> Known]
  /\ shown \in [Rows -> Here.lists \cup {"nothing"}]
  /\ busy \in [Flags -> Rows \cup {NoRow}]
  /\ \/ dialog = NoDialog
     \/ dialog \in [op : DOMAIN Here.buttons, row : Rows, seen : Here.lists]
  /\ bulk \subseteq [row : Rows, seen : Here.lists]
  /\ requests \in [Ids -> Request]
  /\ spent \subseteq Rows
  /\ posts \in [Rows -> 0 .. MaxPosts]
  /\ lost \in BOOLEAN
  /\ elsewhere \in 0 .. MaxElsewhere

(* What a screen offers its user, the server accepts from him: a list is   *)
(* never refused to whom the page is for, a call never for the role, and   *)
(* for the status of the row only when it is not the one he saw.  Screens  *)
(* and controllers keep their roles and statuses in two programs.          *)
(*                                                                         *)
(* Three buttons offer what the server refuses all the same.  The online   *)
(* switch is shown for couriers who are not approved, too; a courier's     *)
(* documents are never sent to review, see CompleteIsReviewed of           *)
(* CourierOnboarding: the two exceptions of the formula.  And the courier  *)
(* who may request a payout while his requests could not be read saw a     *)
(* status that the row never had.                                          *)
RefusedOnlyIfStale ==
  \A i \in Ids :
    /\ requests[i].at = "loading" =>
         \A l \in DOMAIN Here.loads : role \in Here.loads[l] => role \in Lists[l]
    /\ requests[i].at # "forbidden"
    /\ requests[i].at = "refused" =>
         \/ requests[i].found # requests[i].seen
         \/ requests[i].seen = "UNAPPROVED"
         \/ requests[i].op = "submitReview"

(* One filling of a form is entered once, however often its button is      *)
(* pressed, its dialog closed and opened again or its list reloaded,       *)
(* unless an answer was lost: no key lets the server know a repeated       *)
(* transaction.  The form for a pricing rule keeps its fields after the    *)
(* answer and is the exception.                                            *)
FormIsPostedOnce ==
  ~lost /\ Here.form # "keeps" => \A r \in Rows : posts[r] <= 1

=============================================================================
