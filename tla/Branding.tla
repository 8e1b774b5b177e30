------------------------------ MODULE Branding ------------------------------
(***************************************************************************)
(* The logo of the system: one settings row, files in uploads/branding     *)
(* (src/settings), and the settings page of the admin panel.               *)
(*                                                                         *)
(* The service deletes the file of the old logo, writes the new one and    *)
(* saves the row, each in a step of its own, and two managers may do it at *)
(* once.  The name of the application, saved by the same service, and the  *)
(* answers, which only the page shows, are left out.                       *)
(***************************************************************************)
EXTENDS Naturals, Sequences

CONSTANTS
  Managers,  \* users on the settings page
  Files,     \* file names randomUUID() can give (a bound)
  NoLogo,    \* logoUrl is null
  External   \* logoUrl is an address elsewhere: set by a call of the API only

VARIABLES
  logo,      \* the row's logoUrl: a file, NoLogo or External
  files,     \* the files in uploads/branding
  unused,    \* names not given yet
  work,      \* work[m][flag]: what manager m has under way behind a flag
  failed     \* has a handler stopped after it deleted a file?  (history)

vars == <<logo, files, unused, work, failed>>

(* The flags of the page's two buttons for the logo.  A call that sets an  *)
(* address takes the place of one that clears.                             *)
Buttons == {"uploading", "clearing"}

(* Mutation: the old logo is looked up and deleted when the new one is saved. *)
StepsSaveFirst(b) ==
  CASE b = "uploading" -> <<"write", "save", "read", "unlink">>
    [] b = "clearing"  -> <<"read", "unlink", "save">>

(* The awaits of saveUploadedLogo and update that touch the row or a file, *)
(* in their order.                                                         *)
Steps(b) ==
  CASE b = "uploading" -> <<"read", "unlink", "write", "save">>
    [] b = "clearing"  -> <<"read", "unlink", "save">>

Logos == Files \cup {NoLogo, External}
Rest == [todo |-> <<>>, old |-> NoLogo, new |-> NoLogo]
Idle(m, b) == work[m][b] = Rest
At(m, b, step) == work[m][b].todo # <<>> /\ Head(work[m][b].todo) = step

Init ==
  /\ logo \in Logos
  /\ files = {logo} \cap Files
  /\ unused = Files \ files
  /\ work = [m \in Managers |-> [b \in Buttons |-> Rest]]
  /\ failed = FALSE

(* onPickFile and onClearLogo, each behind its flag. *)
Press(m, b) ==
  /\ Idle(m, b)
  /\ \E f \in IF b = "uploading" THEN unused ELSE {NoLogo, External} :
       /\ work' = [work EXCEPT ![m][b] = [Rest EXCEPT !.todo = Steps(b), !.new = f]]
       /\ unused' = unused \ {f}
  /\ UNCHANGED <<logo, files, failed>>

Continue(m, b, w) ==
  work' = [work EXCEPT ![m][b] =
            IF Len(w.todo) = 1 THEN Rest ELSE [w EXCEPT !.todo = Tail(@)]]

ReadRow(m, b) ==
  /\ At(m, b, "read")
  /\ Continue(m, b, [work[m][b] EXCEPT !.old = logo])
  /\ UNCHANGED <<logo, files, unused, failed>>

(* deleteLocalBrandingFile: only a file of this directory, and one that is *)
(* gone already is a warning.                                              *)
Unlink(m, b) ==
  /\ At(m, b, "unlink")
  /\ files' = files \ {work[m][b].old}
  /\ Continue(m, b, work[m][b])
  /\ UNCHANGED <<logo, unused, failed>>

WriteFile(m, b) ==
  /\ At(m, b, "write")
  /\ files' = files \cup {work[m][b].new}
  /\ Continue(m, b, work[m][b])
  /\ UNCHANGED <<logo, unused, failed>>

SaveRow(m, b) ==
  /\ At(m, b, "save")
  /\ logo' = work[m][b].new
  /\ Continue(m, b, work[m][b])
  /\ UNCHANGED <<files, unused, failed>>

(* A statement or the disk fails, or the server stops: the page shows an   *)
(* error, and nothing is taken back.                                       *)
Fail(m, b) ==
  /\ ~Idle(m, b)
  /\ failed' = (failed \/ At(m, b, "write") \/ At(m, b, "save"))
  /\ work' = [work EXCEPT ![m][b] = Rest]
  /\ UNCHANGED <<logo, files, unused>>

Next ==
  \E m \in Managers, b \in Buttons :
    \/ Press(m, b) \/ ReadRow(m, b) \/ Unlink(m, b) \/ WriteFile(m, b)
    \/ SaveRow(m, b) \/ Fail(m, b)

Spec == Init /\ [][Next]_vars

-----------------------------------------------------------------------------

TypeOK ==
  /\ logo \in Logos
  /\ files \subseteq Files /\ unused \subseteq Files
  /\ \A m \in Managers : \A b \in DOMAIN work[m] :
       /\ work[m][b].old \in Logos /\ work[m][b].new \in Logos
  /\ failed \in BOOLEAN

(* The file of the saved logo is there, however the handlers of two        *)
(* managers overlap, but for the time a handler that read this very logo   *)
(* needs to replace it.  The code deletes before it writes and saves: what *)
(* fails in between leaves a row without its file (hence failed).          *)
LogoExists ==
  \/ logo \notin Files
  \/ logo \in files
  \/ failed
  \/ \E m \in Managers : \E b \in DOMAIN work[m] :
       work[m][b].old = logo /\ ~Idle(m, b)

=============================================================================
