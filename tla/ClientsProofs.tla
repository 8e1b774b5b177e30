--------------------------- MODULE ClientsProofs ---------------------------
(***************************************************************************)
(* Theorems about the logo, the session of the apps, the live map, the     *)
(* job offers and the screens of Clients, for any number of managers,      *)
(* files, accounts, jobs, orders, rows, connections, positions, calls,     *)
(* requests and disturbances; and the types of all the programs.           *)
(*                                                                         *)
(* The part of a program is an inductive invariant of that program, and a  *)
(* lemma that says it holds whenever Clients runs the program: a step of   *)
(* Clients is then a step of the program, or changes none of its variables.*)
(* For the screens the tables of the programs agree with those of the      *)
(* server, entry by entry; the rest follows from that.                     *)
(***************************************************************************)
EXTENDS Clients, OrderQuoteProofs, SeedProofs, TLAPS

-----------------------------------------------------------------------------
(* Branding *)

(* What is left of the steps of a button.                                  *)
ToDo(b) ==
  {<<>>, <<"save">>} \cup
    (IF b = "uploading"
       THEN {<<"read", "unlink", "write", "save">>, <<"unlink", "write", "save">>,
             <<"write", "save">>}
       ELSE {<<"read", "unlink", "save">>, <<"unlink", "save">>})

Slot == [todo : ToDo("uploading") \cup ToDo("clearing"), old : B!Logos, new : B!Logos]

LogoTyped ==
  /\ logo \in B!Logos
  /\ files \subseteq Files /\ unused \subseteq Files
  /\ failed \in BOOLEAN
  /\ work \in [Managers -> [B!Buttons -> Slot]]
  /\ \A m \in Managers, b \in B!Buttons : work[m][b].todo \in ToDo(b)

Uploads(m) == work[m]["uploading"].todo # <<>>
NewFile(m) == work[m]["uploading"].new

(* A name that was not given yet is nowhere.                               *)
UnusedIsNowhere ==
  /\ files \cap unused = {}
  /\ logo \notin unused
  /\ \A m \in Managers, b \in B!Buttons :
       work[m][b].old \notin unused /\ work[m][b].new \notin unused

(* The file of an upload is known to that upload alone, and written before *)
(* it is saved.                                                            *)
NewFileIsOwn ==
  /\ \A m \in Managers : work[m]["clearing"].new \notin Files
  /\ \A m \in Managers : Uploads(m) =>
       /\ NewFile(m) \in Files /\ NewFile(m) # logo
       /\ \A n \in Managers, b \in B!Buttons : work[n][b].old # NewFile(m)
       /\ \A n \in Managers : n = m \/ ~Uploads(n) \/ NewFile(n) # NewFile(m)
       /\ work[m]["uploading"].todo = <<"save">> => NewFile(m) \in files

(* Who deleted the file of the saved logo has yet to save another one.     *)
DeleterGoesOn ==
  \/ logo \notin Files \/ logo \in files \/ failed
  \/ \E m \in Managers, b \in B!Buttons :
       work[m][b].old = logo /\ work[m][b].todo \in {<<"write", "save">>, <<"save">>}

LogoInv == LogoTyped /\ UnusedIsNowhere /\ NewFileIsOwn /\ DeleterGoesOn

-----------------------------------------------------------------------------
(* Steps in a row *)

LEMMA Longer ==
  /\ <<"read", "unlink", "write", "save">> # <<>> /\ <<"unlink", "write", "save">> # <<>>
  /\ <<"write", "save">> # <<>> /\ <<"save">> # <<>>
  /\ <<"read", "unlink", "save">> # <<>> /\ <<"unlink", "save">> # <<>>
OBVIOUS

LEMMA FirstStep ==
  /\ Head(<<"read", "unlink", "write", "save">>) = "read"
  /\ Head(<<"unlink", "write", "save">>) = "unlink"
  /\ Head(<<"write", "save">>) = "write" /\ Head(<<"save">>) = "save"
  /\ Head(<<"read", "unlink", "save">>) = "read" /\ Head(<<"unlink", "save">>) = "unlink"
OBVIOUS

LEMMA OtherSteps ==
  /\ Tail(<<"read", "unlink", "write", "save">>) = <<"unlink", "write", "save">>
  /\ Tail(<<"unlink", "write", "save">>) = <<"write", "save">>
  /\ Tail(<<"write", "save">>) = <<"save">>
  /\ Tail(<<"read", "unlink", "save">>) = <<"unlink", "save">>
  /\ Tail(<<"unlink", "save">>) = <<"save">>
OBVIOUS

LEMMA HowMany ==
  /\ Len(<<"read", "unlink", "write", "save">>) # 1 /\ Len(<<"unlink", "write", "save">>) # 1
  /\ Len(<<"write", "save">>) # 1 /\ Len(<<"save">>) = 1
  /\ Len(<<"read", "unlink", "save">>) # 1 /\ Len(<<"unlink", "save">>) # 1
OBVIOUS

(* What is left when a step has been taken.                                *)
LEMMA AfterRead ==
  ASSUME NEW b \in B!Buttons, NEW todo \in ToDo(b), todo # <<>>, Head(todo) = "read"
  PROVE  /\ Len(todo) # 1 /\ Tail(todo) \in ToDo(b)
         /\ Tail(todo) # <<>> /\ Tail(todo) # <<"save">>
<1>1. todo \in {<<"read", "unlink", "write", "save">>, <<"read", "unlink", "save">>}
  BY FirstStep DEF ToDo
<1>2. CASE todo = <<"read", "unlink", "write", "save">>
  <2>1. b = "uploading"
    BY <1>2, FirstStep, OtherSteps, HowMany DEF ToDo
  <2>2. <<"unlink", "write", "save">> # <<"save">>
    BY FirstStep
  <2>3. QED
    BY <1>2, <2>1, <2>2, Longer, OtherSteps, HowMany DEF ToDo
<1>3. CASE todo = <<"read", "unlink", "save">>
  <2>1. b # "uploading"
    BY <1>3, FirstStep, OtherSteps, HowMany DEF ToDo
  <2>2. <<"unlink", "save">> # <<"save">>
    BY FirstStep
  <2>3. QED
    BY <1>3, <2>1, <2>2, Longer, OtherSteps, HowMany DEF ToDo
<1>4. QED
  BY <1>1, <1>2, <1>3

LEMMA AfterUnlink ==
  ASSUME NEW b \in B!Buttons, NEW todo \in ToDo(b), todo # <<>>, Head(todo) = "unlink"
  PROVE  /\ Len(todo) # 1 /\ Tail(todo) \in ToDo(b)
         /\ Tail(todo) \in {<<"write", "save">>, <<"save">>}
         /\ b = "uploading" => Tail(todo) # <<"save">>
<1>1. todo \in {<<"unlink", "write", "save">>, <<"unlink", "save">>}
  BY FirstStep DEF ToDo
<1>2. CASE todo = <<"unlink", "write", "save">>
  <2>1. b = "uploading"
    BY <1>2, FirstStep, OtherSteps, HowMany DEF ToDo
  <2>2. <<"write", "save">> # <<"save">>
    BY FirstStep
  <2>3. QED
    BY <1>2, <2>1, <2>2, OtherSteps, HowMany DEF ToDo
<1>3. CASE todo = <<"unlink", "save">>
  <2>1. b # "uploading"
    BY <1>3, FirstStep, OtherSteps, HowMany DEF ToDo
  <2>2. QED
    BY <1>3, <2>1, OtherSteps, HowMany DEF ToDo
<1>4. QED
  BY <1>1, <1>2, <1>3

LEMMA AfterWrite ==
  ASSUME NEW b \in B!Buttons, NEW todo \in ToDo(b), todo # <<>>, Head(todo) = "write"
  PROVE  b = "uploading" /\ todo = <<"write", "save">> /\ Len(todo) # 1 /\ Tail(todo) = <<"save">>
<1>1. todo = <<"write", "save">>
  BY FirstStep DEF ToDo
<1>2. b = "uploading"
  BY <1>1, FirstStep, OtherSteps, HowMany DEF ToDo
<1>3. QED
  BY <1>1, <1>2, OtherSteps, HowMany

LEMMA AfterSave ==
  ASSUME NEW b \in B!Buttons, NEW todo \in ToDo(b), todo # <<>>, Head(todo) = "save"
  PROVE  todo = <<"save">> /\ Len(todo) = 1
BY FirstStep, HowMany DEF ToDo

-----------------------------------------------------------------------------
(* One slot changes *)

LEMMA RestIsSlot == B!Rest \in Slot /\ B!Rest.todo = <<>> /\ B!Rest.old = NoLogo /\ B!Rest.new = NoLogo
BY DEF B!Rest, Slot, B!Logos, ToDo

(* A step that goes on keeps what the slot knows.                          *)
LEMMA ContinueSlot ==
  ASSUME LogoTyped, NEW m \in Managers, NEW b \in B!Buttons, NEW v \in Slot, B!Continue(m, b, v),
         Len(v.todo) # 1, Tail(v.todo) \in ToDo(b)
  PROVE  \E w \in Slot :
           /\ w.todo = Tail(v.todo) /\ w.old = v.old /\ w.new = v.new
           /\ work' \in [Managers -> [B!Buttons -> Slot]] /\ work'[m][b] = w
           /\ \A n \in Managers, c \in B!Buttons : n # m \/ c # b => work'[n][c] = work[n][c]
<1> DEFINE w == [v EXCEPT !.todo = Tail(v.todo)]
<1>1. Tail(v.todo) \in ToDo("uploading") \cup ToDo("clearing")
  BY DEF B!Buttons
<1>2. w \in Slot /\ w.todo = Tail(v.todo) /\ w.old = v.old /\ w.new = v.new
  BY <1>1 DEF Slot
<1>3. work' = [work EXCEPT ![m][b] = w]
  BY DEF B!Continue
<1> HIDE DEF w
<1>4. QED
  BY <1>2, <1>3 DEF LogoTyped

-----------------------------------------------------------------------------
(* Each step keeps the invariant *)

LEMMA PressKeeps ==
  ASSUME NamesDiffer, LogoInv, NEW m \in Managers, NEW b \in B!Buttons, B!Press(m, b) PROVE LogoInv'
<1>1. PICK f \in IF b = "uploading" THEN unused ELSE {NoLogo, External} :
        /\ work' = [work EXCEPT ![m][b] = [B!Rest EXCEPT !.todo = B!Steps(b), !.new = f]]
        /\ unused' = unused \ {f}
  BY DEF B!Press
<1> DEFINE w == [B!Rest EXCEPT !.todo = B!Steps(b), !.new = f]
<1>2. UNCHANGED <<logo, files, failed>> /\ work[m][b].todo = <<>>
  BY RestIsSlot DEF B!Press, B!Idle
<1>3. B!Steps(b) \in ToDo(b) /\ B!Steps(b) # <<>> /\ B!Steps(b) # <<"save">>
  <2>1. CASE b = "uploading"
    <3>1. B!Steps(b) = <<"read", "unlink", "write", "save">>
      BY <2>1 DEF B!Steps
    <3>2. QED
      BY <2>1, <3>1, Longer, FirstStep DEF ToDo
  <2>2. CASE b = "clearing"
    <3>1. B!Steps(b) = <<"read", "unlink", "save">>
      BY <2>2 DEF B!Steps
    <3>2. QED
      BY <2>2, <3>1, Longer, FirstStep DEF ToDo
  <2>3. QED
    BY <2>1, <2>2 DEF B!Buttons
<1>4. w \in Slot /\ w.todo = B!Steps(b) /\ w.old = NoLogo /\ w.new = f
  <2>1. f \in B!Logos
    BY DEF LogoInv, LogoTyped, B!Logos
  <2>2. B!Steps(b) \in ToDo("uploading") \cup ToDo("clearing")
    BY <1>3 DEF B!Buttons
  <2>3. QED
    BY <2>1, <2>2, RestIsSlot DEF Slot
<1>5. work' = [work EXCEPT ![m][b] = w]
  BY <1>1
<1> HIDE DEF w
<1>6. /\ work' \in [Managers -> [B!Buttons -> Slot]] /\ work'[m][b] = w
      /\ \A n \in Managers, c \in B!Buttons : n # m \/ c # b => work'[n][c] = work[n][c]
  BY <1>4, <1>5 DEF LogoInv, LogoTyped
<1>7. LogoTyped'
  BY <1>1, <1>2, <1>3, <1>4, <1>6 DEF LogoInv, LogoTyped
<1>8. UnusedIsNowhere'
  <2>1. NoLogo \notin unused
    BY DEF LogoInv, LogoTyped, NamesDiffer
  <2>2. \A n \in Managers, c \in B!Buttons :
          work'[n][c].old \notin unused' /\ work'[n][c].new \notin unused'
    <3>1. \A n \in Managers, c \in B!Buttons :
            /\ work'[n][c].old \in {NoLogo, work[n][c].old}
            /\ work'[n][c].new \in {f, work[n][c].new}
      BY <1>4, <1>6
    <3>2. QED
      BY <3>1, <2>1, <1>1 DEF LogoInv, UnusedIsNowhere
  <2>3. QED
    BY <2>2, <1>1, <1>2 DEF LogoInv, UnusedIsNowhere
<1>9. NewFileIsOwn'
  <2>1. CASE b = "uploading"
    <3>1. f \in Files /\ f # logo
      BY <2>1 DEF LogoInv, LogoTyped, UnusedIsNowhere
    <3>2. \A n \in Managers, c \in B!Buttons : work[n][c].old # f /\ work[n][c].new # f
      BY <2>1 DEF LogoInv, UnusedIsNowhere
    <3>3. \A n \in Managers, c \in B!Buttons :
            work'[n][c].old \in {NoLogo, work[n][c].old}
      BY <1>4, <1>6
    <3>4. \A n \in Managers : work'[n]["clearing"] = work[n]["clearing"]
      BY <2>1, <1>6 DEF B!Buttons
    <3>5. \A n \in Managers : n = m \/ work'[n]["uploading"] = work[n]["uploading"]
      BY <1>6 DEF B!Buttons
    <3>6. work'[m]["uploading"].new = f /\ work'[m]["uploading"].todo # <<"save">>
      BY <2>1, <1>3, <1>4, <1>6
    <3>7. QED
      BY <3>1, <3>2, <3>3, <3>4, <3>5, <3>6, <1>2
      DEF LogoInv, NewFileIsOwn, Uploads, NewFile, NamesDiffer, B!Buttons
  <2>2. CASE b = "clearing"
    <3>1. f \notin Files
      BY <2>2, <1>1 DEF NamesDiffer
    <3>2. \A n \in Managers, c \in B!Buttons :
            work'[n][c].old \in {NoLogo, work[n][c].old}
      BY <1>4, <1>6
    <3>3. \A n \in Managers : work'[n]["uploading"] = work[n]["uploading"]
      BY <2>2, <1>6 DEF B!Buttons
    <3>4. \A n \in Managers : work'[n]["clearing"].new \notin Files
      BY <3>1, <2>2, <1>4, <1>6 DEF LogoInv, NewFileIsOwn, B!Buttons
    <3>5. QED
      BY <3>2, <3>3, <3>4, <1>2
      DEF LogoInv, NewFileIsOwn, Uploads, NewFile, NamesDiffer
  <2>3. QED
    BY <2>1, <2>2 DEF B!Buttons
<1>10. DeleterGoesOn'
  BY <1>2, <1>6, Longer DEF LogoInv, DeleterGoesOn
<1>11. QED
  BY <1>7, <1>8, <1>9, <1>10 DEF LogoInv

LEMMA ReadKeeps ==
  ASSUME LogoInv, NEW m \in Managers, NEW b \in B!Buttons, B!ReadRow(m, b) PROVE LogoInv'
<1> DEFINE v == [work[m][b] EXCEPT !.old = logo]
<1>1. work[m][b] \in Slot /\ work[m][b].todo \in ToDo(b) /\ logo \in B!Logos
  BY DEF LogoInv, LogoTyped
<1>2. v \in Slot /\ v.todo = work[m][b].todo /\ v.old = logo /\ v.new = work[m][b].new
  BY <1>1 DEF Slot
<1>3. B!Continue(m, b, v)
  BY DEF B!ReadRow
<1> HIDE DEF v
<1>4. Len(v.todo) # 1 /\ Tail(v.todo) \in ToDo(b) /\ Tail(v.todo) # <<"save">>
      /\ work[m][b].todo # <<>>
  BY <1>1, <1>2, AfterRead DEF B!ReadRow, B!At
<1>5. PICK w \in Slot :
        /\ w.todo = Tail(v.todo) /\ w.old = v.old /\ w.new = v.new
        /\ work' \in [Managers -> [B!Buttons -> Slot]] /\ work'[m][b] = w
        /\ \A n \in Managers, c \in B!Buttons : n # m \/ c # b => work'[n][c] = work[n][c]
  BY <1>2, <1>3, <1>4, ContinueSlot DEF LogoInv
<1>6. UNCHANGED <<logo, files, unused, failed>>
  BY DEF B!ReadRow
<1>7. LogoTyped'
  BY <1>4, <1>5, <1>6 DEF LogoInv, LogoTyped
<1>8. UnusedIsNowhere'
  BY <1>2, <1>5, <1>6 DEF LogoInv, UnusedIsNowhere
<1>9. NewFileIsOwn'
  <2>1. \A n \in Managers, c \in B!Buttons :
          /\ work'[n][c].new = work[n][c].new
          /\ work'[n][c].old \in {work[n][c].old, logo}
    BY <1>2, <1>5
  <2>2. \A n \in Managers, c \in B!Buttons :
          /\ work'[n][c].todo # <<>> => work[n][c].todo # <<>>
          /\ work'[n][c].todo = <<"save">> => work[n][c].todo = <<"save">>
    BY <1>4, <1>5
  <2>3. QED
    BY <2>1, <2>2, <1>6 DEF LogoInv, NewFileIsOwn, Uploads, NewFile, B!Buttons
<1>10. DeleterGoesOn'
  <2>1. work[m][b].todo \notin {<<"write", "save">>, <<"save">>}
    BY FirstStep DEF B!ReadRow, B!At
  <2>2. QED
    BY <2>1, <1>5, <1>6 DEF LogoInv, DeleterGoesOn
<1>11. QED
  BY <1>7, <1>8, <1>9, <1>10 DEF LogoInv

(* The file deleted is not the new one of any upload; if it is the saved   *)
(* one, this very button has yet to save another.                          *)
LEMMA UnlinkKeeps ==
  ASSUME LogoInv, NEW m \in Managers, NEW b \in B!Buttons, B!Unlink(m, b) PROVE LogoInv'
<1> DEFINE v == work[m][b]
<1>1. v \in Slot /\ v.todo \in ToDo(b)
  BY DEF LogoInv, LogoTyped
<1>2. /\ Len(v.todo) # 1 /\ Tail(v.todo) \in ToDo(b) /\ v.todo # <<>>
      /\ Tail(v.todo) \in {<<"write", "save">>, <<"save">>}
      /\ b = "uploading" => Tail(v.todo) # <<"save">>
  BY <1>1, AfterUnlink DEF B!Unlink, B!At
<1>3. PICK w \in Slot :
        /\ w.todo = Tail(v.todo) /\ w.old = v.old /\ w.new = v.new
        /\ work' \in [Managers -> [B!Buttons -> Slot]] /\ work'[m][b] = w
        /\ \A n \in Managers, c \in B!Buttons : n # m \/ c # b => work'[n][c] = work[n][c]
  BY <1>1, <1>2, ContinueSlot DEF LogoInv, B!Unlink
<1>4. files' = files \ {v.old} /\ UNCHANGED <<logo, unused, failed>>
  BY DEF B!Unlink
<1> HIDE DEF v
<1>5. \A n \in Managers, c \in B!Buttons :
        work'[n][c].new = work[n][c].new /\ work'[n][c].old = work[n][c].old
  BY <1>3 DEF v
<1>6. LogoTyped'
  BY <1>2, <1>3, <1>4 DEF LogoInv, LogoTyped
<1>7. UnusedIsNowhere'
  BY <1>4, <1>5 DEF LogoInv, UnusedIsNowhere
<1>8. NewFileIsOwn'
  <2>1. \A n \in Managers : work'[n]["uploading"].todo # <<>> =>
          /\ work[n]["uploading"].todo # <<>>
          /\ work[n]["uploading"].new # v.old
    BY <1>2, <1>3 DEF LogoInv, NewFileIsOwn, Uploads, NewFile, B!Buttons, v
  <2>2. \A n \in Managers : work'[n]["uploading"].todo = <<"save">> =>
          work[n]["uploading"].todo = <<"save">>
    BY <1>2, <1>3 DEF B!Buttons, v
  <2>3. QED
    BY <2>1, <2>2, <1>4, <1>5 DEF LogoInv, NewFileIsOwn, Uploads, NewFile, B!Buttons
<1>9. DeleterGoesOn'
  <2>1. CASE v.old = logo
    BY <2>1, <1>2, <1>3, <1>4 DEF DeleterGoesOn
  <2>2. CASE v.old # logo
    <3>1. v.todo \notin {<<"write", "save">>, <<"save">>}
      BY FirstStep DEF B!Unlink, B!At, v
    <3>2. QED
      BY <2>2, <3>1, <1>3, <1>4 DEF LogoInv, DeleterGoesOn, v
  <2>3. QED
    BY <2>1, <2>2
<1>10. QED
  BY <1>6, <1>7, <1>8, <1>9 DEF LogoInv

LEMMA WriteKeeps ==
  ASSUME LogoInv, NEW m \in Managers, NEW b \in B!Buttons, B!WriteFile(m, b) PROVE LogoInv'
<1> DEFINE v == work[m][b]
<1>1. v \in Slot /\ v.todo \in ToDo(b)
  BY DEF LogoInv, LogoTyped
<1>2. /\ b = "uploading" /\ v.todo = <<"write", "save">> /\ v.todo # <<>>
      /\ Len(v.todo) # 1 /\ Tail(v.todo) = <<"save">>
  BY <1>1, AfterWrite DEF B!WriteFile, B!At
<1>3. Tail(v.todo) \in ToDo(b)
  BY <1>2 DEF ToDo
<1>4. PICK w \in Slot :
        /\ w.todo = Tail(v.todo) /\ w.old = v.old /\ w.new = v.new
        /\ work' \in [Managers -> [B!Buttons -> Slot]] /\ work'[m][b] = w
        /\ \A n \in Managers, c \in B!Buttons : n # m \/ c # b => work'[n][c] = work[n][c]
  BY <1>1, <1>2, <1>3, ContinueSlot DEF LogoInv, B!WriteFile
<1>5. files' = files \cup {v.new} /\ UNCHANGED <<logo, unused, failed>>
  BY DEF B!WriteFile
<1> HIDE DEF v
<1>6. \A n \in Managers, c \in B!Buttons :
        work'[n][c].new = work[n][c].new /\ work'[n][c].old = work[n][c].old
  BY <1>4 DEF v
<1>7. v.new \in Files /\ v.new \notin unused
  BY <1>2 DEF LogoInv, NewFileIsOwn, UnusedIsNowhere, Uploads, NewFile, v
<1>8. LogoTyped'
  BY <1>3, <1>4, <1>5, <1>7 DEF LogoInv, LogoTyped
<1>9. UnusedIsNowhere'
  BY <1>5, <1>6, <1>7 DEF LogoInv, UnusedIsNowhere
<1>10. NewFileIsOwn'
  <2>1. \A n \in Managers :
          work'[n]["uploading"].todo # <<>> => work[n]["uploading"].todo # <<>>
    BY <1>2, <1>4 DEF B!Buttons, v
  <2>2. \A n \in Managers : work'[n]["uploading"].todo = <<"save">> =>
          work[n]["uploading"].todo = <<"save">> \/ work[n]["uploading"].new = v.new
    BY <1>2, <1>4 DEF B!Buttons, v
  <2>3. QED
    BY <2>1, <2>2, <1>5, <1>6 DEF LogoInv, NewFileIsOwn, Uploads, NewFile, B!Buttons
<1>11. DeleterGoesOn'
  BY <1>2, <1>4, <1>5 DEF LogoInv, DeleterGoesOn, v
<1>12. QED
  BY <1>8, <1>9, <1>10, <1>11 DEF LogoInv

(* The file that is saved has been written, or it is none of this system.  *)
LEMMA SaveKeeps ==
  ASSUME NamesDiffer, LogoInv, NEW m \in Managers, NEW b \in B!Buttons, B!SaveRow(m, b) PROVE LogoInv'
<1> DEFINE v == work[m][b]
<1>1. v \in Slot /\ v.todo \in ToDo(b)
  BY DEF LogoInv, LogoTyped
<1>2. v.todo = <<"save">> /\ Len(v.todo) = 1 /\ v.todo # <<>>
  BY <1>1, AfterSave DEF B!SaveRow, B!At
<1>3. logo' = v.new /\ work' = [work EXCEPT ![m][b] = B!Rest]
      /\ UNCHANGED <<files, unused, failed>>
  BY <1>2 DEF B!SaveRow, B!Continue
<1> HIDE DEF v
<1>4. /\ work' \in [Managers -> [B!Buttons -> Slot]] /\ work'[m][b] = B!Rest
      /\ \A n \in Managers, c \in B!Buttons : n # m \/ c # b => work'[n][c] = work[n][c]
  BY <1>3, RestIsSlot DEF LogoInv, LogoTyped
<1>5. v.new \notin Files \/ v.new \in files
  BY <1>2 DEF LogoInv, NewFileIsOwn, Uploads, NewFile, B!Buttons, v
<1>6. LogoTyped' /\ UnusedIsNowhere'
  <2>1. LogoTyped'
    BY <1>1, <1>3, <1>4, RestIsSlot DEF LogoInv, LogoTyped, Slot, ToDo
  <2>2. NoLogo \notin unused
    BY DEF LogoInv, LogoTyped, NamesDiffer
  <2>3. \A n \in Managers, c \in B!Buttons :
          /\ work'[n][c].old \in {NoLogo, work[n][c].old}
          /\ work'[n][c].new \in {NoLogo, work[n][c].new}
    BY <1>4, RestIsSlot
  <2>4. v.new \notin unused
    BY DEF LogoInv, UnusedIsNowhere, v
  <2>5. QED
    BY <2>1, <2>2, <2>3, <2>4, <1>3 DEF LogoInv, UnusedIsNowhere
<1>7. NewFileIsOwn'
  <2>1. \A n \in Managers, c \in B!Buttons :
          /\ work'[n][c].old \in {NoLogo, work[n][c].old}
          /\ work'[n][c].new \in {NoLogo, work[n][c].new}
          /\ work'[n][c].todo # <<>> => work'[n][c] = work[n][c]
    BY <1>4, RestIsSlot
  <2>2. \A n \in Managers :
          work'[n]["uploading"].todo # <<>> => work[n]["uploading"].new # v.new
    <3>1. CASE b = "uploading"
      <4>1. Uploads(m) /\ v.new = NewFile(m)
        BY <3>1, <1>2 DEF Uploads, NewFile, v
      <4>2. \A n \in Managers : n = m \/ ~Uploads(n) \/ NewFile(n) # v.new
        BY <4>1 DEF LogoInv, NewFileIsOwn
      <4>3. QED
        BY <3>1, <4>2, <1>4, RestIsSlot DEF Uploads, NewFile, B!Buttons
    <3>2. CASE b = "clearing"
      <4>1. v.new \notin Files
        BY <3>2 DEF LogoInv, NewFileIsOwn, v
      <4>2. QED
        BY <3>2, <4>1, <1>4 DEF LogoInv, NewFileIsOwn, Uploads, NewFile, B!Buttons
    <3>3. QED
      BY <3>1, <3>2 DEF B!Buttons
  <2>3. QED
    BY <2>1, <2>2, <1>3 DEF LogoInv, NewFileIsOwn, Uploads, NewFile, B!Buttons, NamesDiffer
<1>8. DeleterGoesOn'
  BY <1>3, <1>5 DEF DeleterGoesOn
<1>9. QED
  BY <1>6, <1>7, <1>8 DEF LogoInv

(* What fails after it deleted a file is marked.                           *)
LEMMA FailKeeps ==
  ASSUME NamesDiffer, LogoInv, NEW m \in Managers, NEW b \in B!Buttons, B!Fail(m, b) PROVE LogoInv'
<1>1. work' = [work EXCEPT ![m][b] = B!Rest] /\ UNCHANGED <<logo, files, unused>>
  BY DEF B!Fail
<1>2. /\ work' \in [Managers -> [B!Buttons -> Slot]] /\ work'[m][b] = B!Rest
      /\ \A n \in Managers, c \in B!Buttons : n # m \/ c # b => work'[n][c] = work[n][c]
  BY <1>1, RestIsSlot DEF LogoInv, LogoTyped
<1>3. failed' \in BOOLEAN /\ (failed => failed')
      /\ (work[m][b].todo \in {<<"write", "save">>, <<"save">>} => failed')
  BY FirstStep, Longer DEF B!Fail, B!At, LogoInv, LogoTyped
<1>4. \A n \in Managers, c \in B!Buttons :
        /\ work'[n][c].old \in {NoLogo, work[n][c].old}
        /\ work'[n][c].new \in {NoLogo, work[n][c].new}
        /\ work'[n][c].todo # <<>> => work'[n][c] = work[n][c]
  BY <1>2, RestIsSlot
<1>5. LogoTyped'
  BY <1>1, <1>2, <1>3, RestIsSlot DEF LogoInv, LogoTyped, ToDo
<1>6. UnusedIsNowhere'
  <2>1. NoLogo \notin unused
    BY DEF LogoInv, LogoTyped, NamesDiffer
  <2>2. QED
    BY <2>1, <1>1, <1>4 DEF LogoInv, UnusedIsNowhere
<1>7. NewFileIsOwn'
  BY <1>1, <1>4 DEF LogoInv, NewFileIsOwn, Uploads, NewFile, B!Buttons, NamesDiffer
<1>8. DeleterGoesOn'
  BY <1>1, <1>2, <1>3 DEF LogoInv, DeleterGoesOn
<1>9. QED
  BY <1>5, <1>6, <1>7, <1>8 DEF LogoInv

-----------------------------------------------------------------------------

LEMMA LogoInvInit == ASSUME NamesDiffer, B!Init PROVE LogoInv
<1>1. \A m \in Managers, b \in B!Buttons : work[m][b] = B!Rest
  BY DEF B!Init
<1>2. LogoTyped
  BY <1>1, RestIsSlot DEF B!Init, LogoTyped, ToDo
<1>3. UnusedIsNowhere
  BY <1>1, RestIsSlot DEF B!Init, UnusedIsNowhere, NamesDiffer
<1>4. NewFileIsOwn
  BY <1>1, RestIsSlot DEF NewFileIsOwn, Uploads, NewFile, B!Buttons, NamesDiffer
<1>5. DeleterGoesOn
  BY DEF B!Init, DeleterGoesOn
<1>6. QED
  BY <1>2, <1>3, <1>4, <1>5 DEF LogoInv

LEMMA LogoInvStep == ASSUME NamesDiffer, LogoInv, B!Next \/ UNCHANGED B!vars PROVE LogoInv'
<1>1. CASE UNCHANGED B!vars
  BY <1>1 DEF B!vars, LogoInv, LogoTyped, UnusedIsNowhere, NewFileIsOwn, Uploads, NewFile,
              DeleterGoesOn
<1>2. ASSUME NEW m \in Managers, NEW b \in B!Buttons,
             \/ B!Press(m, b) \/ B!ReadRow(m, b) \/ B!Unlink(m, b) \/ B!WriteFile(m, b)
             \/ B!SaveRow(m, b) \/ B!Fail(m, b)
      PROVE  LogoInv'
  BY <1>2, PressKeeps, ReadKeeps, UnlinkKeeps, WriteKeeps, SaveKeeps, FailKeeps
<1>3. QED
  BY <1>1, <1>2 DEF B!Next

LEMMA LogoInvImplies == ASSUME LogoInv PROVE B!LogoExists
<1>1. \A m \in Managers, b \in B!Buttons : b \in DOMAIN work[m]
  BY DEF LogoInv, LogoTyped
<1>2. ASSUME NEW m \in Managers, NEW b \in B!Buttons,
             work[m][b].todo \in {<<"write", "save">>, <<"save">>}
      PROVE  ~B!Idle(m, b)
  BY <1>2, RestIsSlot, Longer DEF B!Idle
<1>3. QED
  BY <1>1, <1>2 DEF LogoInv, DeleterGoesOn, B!LogoExists

LEMMA LogoInvAlways == Spec => [](program = "Branding" => LogoInv)
<1> DEFINE I == program = "Branding" => LogoInv
<1>1. Init => I
  BY ClientsAssumption, LogoInvInit DEF Init
<1>2. I /\ [Next]_vars => I'
  <2> SUFFICES ASSUME I, [Next]_vars, program' = "Branding" PROVE LogoInv'
    OBVIOUS
  <2>1. program = "Branding" /\ (B!Next \/ UNCHANGED B!vars)
    BY DEF Next, vars, B!vars, logoVars
  <2>2. QED
    BY <2>1, ClientsAssumption, LogoInvStep
<1>3. QED
  BY <1>1, <1>2, PTL DEF Spec

(* The file of the saved logo is there unless a handler failed half-way or *)
(* has yet to save: saveUploadedLogo and update of settings.service.ts, in *)
(* any interleaving of any number of managers.                             *)
THEOREM LogoExistsAlways == Spec => []LogoExists
<1>1. (program = "Branding" => LogoInv) => LogoExists
  BY LogoInvImplies DEF LogoExists
<1>2. QED
  BY <1>1, LogoInvAlways, PTL

-----------------------------------------------------------------------------
(* AppSession *)

Hydration == [at : {"token", "user", "done"}, token : Accounts \cup {NoOne}]

Job ==
  [kind : {"login", "register", "logout", "logoutAgain"}, account : Accounts \cup {NoOne},
   at : {"token", "user", "memory"}]

(* TypeOK, with what the jobs and the hydration hold.                      *)
SessionTyped ==
  /\ device \in A!Pair /\ session \in A!Pair
  /\ {hydrated, torn} \subseteq BOOLEAN
  /\ hydrate \in Hydration
  /\ jobs \subseteq Job

(* No job starts before the app is hydrated, and what a hydration has read *)
(* is still so when it reads on.                                           *)
HydratedFirst ==
  /\ ~hydrated => jobs = {}
  /\ torn \/ hydrated \/ hydrate.at # "user" \/ hydrate.token = device.token

(* While no two writes were parted only one job is past its first step,    *)
(* and the store holds the token of the job that has the user to write.    *)
OneIsWriting ==
  torn \/
    /\ \A i, j \in jobs : i = j \/ i.at = "token" \/ j.at = "token"
    /\ \A j \in jobs : j.at = "user" => device.token = j.account

SessionInv == SessionTyped /\ HydratedFirst /\ OneIsWriting /\ A!SessionIsWhole

-----------------------------------------------------------------------------
(* Type correctness *)

LEMMA BothTyped == ASSUME NEW a \in Accounts \cup {NoOne} PROVE A!Both(a) \in A!Pair
BY DEF A!Both, A!Pair

LEMMA StartTyped == A!Start \in Hydration /\ [A!Start EXCEPT !.at = "done"] \in Hydration
BY DEF A!Start, Hydration

LEMMA SessionTypedInit == ASSUME CouriersAreAccounts, A!Init PROVE SessionTyped
<1>1. PICK a \in (IF app = "courier" THEN Couriers ELSE Accounts) \cup {NoOne} :
        device = A!Both(a)
  BY DEF A!Init
<1>2. a \in Accounts \cup {NoOne}
  BY <1>1 DEF CouriersAreAccounts
<1>3. device \in A!Pair /\ session \in A!Pair
  BY <1>1, <1>2, BothTyped DEF A!Init
<1>4. QED
  BY <1>3, StartTyped DEF A!Init, SessionTyped

(* A login keeps its account; a logout has none.                           *)
LEMMA BeginTyped ==
  ASSUME SessionTyped, NEW job \in Job, A!Begin(job) PROVE SessionTyped'
BY DEF SessionTyped, A!Begin, A!Pair, Hydration

LEMMA StepTyped ==
  ASSUME SessionTyped, NEW job \in jobs,
         A!WriteToken(job) \/ A!WriteUser(job) \/ A!SetMemory(job) \/ A!WriteFails(job)
  PROVE  SessionTyped'
<1>1. job \in Job /\ job.account \in Accounts \cup {NoOne}
  BY DEF SessionTyped, Job
<1>2. A!Parted(job) \in BOOLEAN /\ (torn \/ job.at = "user") \in BOOLEAN
  BY DEF A!Parted
<1>3. CASE A!WriteToken(job)
  <2>1. [job EXCEPT !.at = "user"] \in Job
    BY <1>1 DEF Job
  <2>2. [device EXCEPT !.token = job.account] \in A!Pair
    BY <1>1 DEF SessionTyped, A!Pair
  <2>3. QED
    BY <1>2, <1>3, <2>1, <2>2 DEF A!WriteToken, SessionTyped
<1>4. CASE A!WriteUser(job)
  <2>1. [job EXCEPT !.at = "memory"] \in Job
    BY <1>1 DEF Job
  <2>2. [device EXCEPT !.user = job.account] \in A!Pair
    BY <1>1 DEF SessionTyped, A!Pair
  <2>3. QED
    BY <1>2, <1>4, <2>1, <2>2 DEF A!WriteUser, SessionTyped
<1>5. CASE A!SetMemory(job)
  BY <1>1, <1>5, BothTyped DEF A!SetMemory, SessionTyped
<1>6. CASE A!WriteFails(job)
  BY <1>2, <1>6 DEF A!WriteFails, SessionTyped
<1>7. QED
  BY <1>3, <1>4, <1>5, <1>6

(* The hydration, and the end of the app.                                  *)
LEMMA HydrateTyped ==
  ASSUME SessionTyped, A!ReadToken \/ A!ReadUser \/ A!ReadFails \/ A!TimeIsUp \/ A!Restart
  PROVE  SessionTyped'
<1>1. A!Both(NoOne) \in A!Pair
  BY BothTyped
<1>2. CASE A!ReadToken
  BY <1>2 DEF A!ReadToken, SessionTyped, A!Pair, Hydration
<1>3. CASE A!ReadUser
  <2>1. [token |-> hydrate.token, user |-> device.user] \in A!Pair
    BY DEF SessionTyped, A!Pair, Hydration
  <2>2. QED
    BY <1>3, <2>1, StartTyped DEF A!ReadUser, A!Finish, SessionTyped
<1>4. CASE A!ReadFails
  BY <1>1, <1>4, StartTyped DEF A!ReadFails, A!Finish, SessionTyped
<1>5. CASE A!TimeIsUp
  BY <1>1, <1>5 DEF A!TimeIsUp, A!Finish, SessionTyped
<1>6. CASE A!Restart
  BY <1>1, <1>6, StartTyped DEF A!Restart, SessionTyped
<1>7. QED
  BY <1>2, <1>3, <1>4, <1>5, <1>6

-----------------------------------------------------------------------------
(* The store and the memory hold one session *)

LEMMA SessionInvInit == ASSUME CouriersAreAccounts, A!Init PROVE SessionInv
<1>1. SessionTyped
  BY SessionTypedInit
<1>2. session.token = session.user /\ device.token = device.user
  BY DEF A!Init, A!Both
<1>3. jobs = {} /\ hydrate.at # "user"
  BY DEF A!Init, A!Start
<1>4. QED
  BY <1>1, <1>2, <1>3 DEF SessionInv, HydratedFirst, OneIsWriting, A!SessionIsWhole

LEMMA InvBegin ==
  ASSUME SessionInv, NEW job \in Job, job.at = "token", A!Begin(job) PROVE SessionInv'
<1>1. SessionTyped'
  BY BeginTyped DEF SessionInv
<1>2. HydratedFirst' /\ OneIsWriting'
  BY DEF SessionInv, HydratedFirst, OneIsWriting, A!Begin
<1>3. A!SessionIsWhole'
  BY DEF SessionInv, A!SessionIsWhole, A!Begin
<1>4. QED
  BY <1>1, <1>2, <1>3 DEF SessionInv

LEMMA InvWriteToken ==
  ASSUME SessionInv, NEW job \in jobs, A!WriteToken(job) PROVE SessionInv'
<1> DEFINE moved == [job EXCEPT !.at = "user"]
<1>1. SessionTyped'
  BY StepTyped DEF SessionInv
<1>2. job \in Job /\ device \in A!Pair
  BY DEF SessionInv, SessionTyped
<1>3. moved.at = "user" /\ moved.account = job.account
  BY <1>2 DEF Job
<1>4. device'.token = job.account
  BY <1>2 DEF A!WriteToken, A!Pair
<1>5. hydrated /\ hydrated'
  BY DEF SessionInv, HydratedFirst, A!WriteToken
<1>6. torn' \/ \A other \in jobs \ {job} : other.at = "token"
  BY DEF A!WriteToken, A!Parted
<1>7. torn' \/ torn = FALSE
  BY DEF A!WriteToken, A!Parted, SessionInv, SessionTyped
<1>8. jobs' = (jobs \ {job}) \cup {moved}
  BY DEF A!WriteToken
<1>9. OneIsWriting'
  <2> HIDE DEF moved
  <2>1. QED
    BY <1>3, <1>4, <1>6, <1>8 DEF OneIsWriting
<1>10. A!SessionIsWhole'
  <2>1. session' = session
    BY DEF A!WriteToken
  <2> HIDE DEF moved
  <2>2. QED
    BY <2>1, <1>3, <1>7, <1>8 DEF SessionInv, A!SessionIsWhole
<1>11. QED
  BY <1>1, <1>5, <1>9, <1>10 DEF SessionInv, HydratedFirst

(* The job that writes the user is the only one, or the writes are parted. *)
LEMMA InvWriteUser ==
  ASSUME SessionInv, NEW job \in jobs, A!WriteUser(job) PROVE SessionInv'
<1> DEFINE moved == [job EXCEPT !.at = "memory"]
<1>1. SessionTyped'
  BY StepTyped DEF SessionInv
<1>2. job \in Job /\ device \in A!Pair
  BY DEF SessionInv, SessionTyped
<1>3. moved.at = "memory"
  BY <1>2 DEF Job
<1>4. device'.token = device.token /\ device'.user = job.account
  BY <1>2 DEF A!WriteUser, A!Pair
<1>5. hydrated /\ hydrated'
  BY DEF SessionInv, HydratedFirst, A!WriteUser
<1>6. torn' \/ jobs \ {job} = {}
  BY DEF A!WriteUser, A!Parted
<1>7. torn' \/ torn = FALSE
  BY DEF A!WriteUser, A!Parted, SessionInv, SessionTyped
<1>8. jobs' = (jobs \ {job}) \cup {moved}
  BY DEF A!WriteUser
<1>9. OneIsWriting'
  <2> HIDE DEF moved
  <2>1. QED
    BY <1>3, <1>6, <1>8 DEF OneIsWriting
<1>10. A!SessionIsWhole'
  <2>1. session' = session
    BY DEF A!WriteUser
  <2>2. torn \/ device.token = job.account
    BY DEF SessionInv, OneIsWriting, A!WriteUser
  <2>3. QED
    BY <2>1, <2>2, <1>4, <1>7 DEF SessionInv, A!SessionIsWhole
<1>11. QED
  BY <1>1, <1>5, <1>9, <1>10 DEF SessionInv, HydratedFirst

LEMMA InvSetMemory ==
  ASSUME SessionInv, NEW job \in jobs, A!SetMemory(job) PROVE SessionInv'
<1>1. SessionTyped'
  BY StepTyped DEF SessionInv
<1>2. HydratedFirst' /\ OneIsWriting'
  BY DEF SessionInv, HydratedFirst, OneIsWriting, A!SetMemory
<1>3. A!SessionIsWhole'
  <2>1. session'.token = session'.user
    BY DEF A!SetMemory, A!Both
  <2>2. \A j \in jobs : j.at = "user" => j \in jobs'
    BY DEF A!SetMemory
  <2>3. QED
    BY <2>1, <2>2 DEF SessionInv, A!SessionIsWhole, A!SetMemory
<1>4. QED
  BY <1>1, <1>2, <1>3 DEF SessionInv

LEMMA InvWriteFails ==
  ASSUME SessionInv, NEW job \in jobs, A!WriteFails(job) PROVE SessionInv'
<1>1. SessionTyped'
  BY StepTyped DEF SessionInv
<1>2. HydratedFirst' /\ OneIsWriting'
  BY DEF SessionInv, HydratedFirst, OneIsWriting, A!WriteFails
<1>3. A!SessionIsWhole'
  BY DEF SessionInv, A!SessionIsWhole, A!WriteFails
<1>4. QED
  BY <1>1, <1>2, <1>3 DEF SessionInv

(* Nothing is under way while the app is hydrated: what it has read goes   *)
(* together.  After the time is up it sets nothing.                        *)
LEMMA InvHydrate ==
  ASSUME SessionInv, A!ReadToken \/ A!ReadUser \/ A!ReadFails \/ A!TimeIsUp PROVE SessionInv'
<1>1. SessionTyped'
  BY HydrateTyped DEF SessionInv
<1>2. A!Both(NoOne).token = A!Both(NoOne).user
  BY DEF A!Both
<1>3. [A!Start EXCEPT !.at = "done"].at = "done"
  BY DEF A!Start
<1>4. UNCHANGED <<device, jobs, torn>>
  BY DEF A!ReadToken, A!ReadUser, A!ReadFails, A!TimeIsUp
<1>5. CASE A!ReadToken
  BY <1>1, <1>4, <1>5 DEF SessionInv, HydratedFirst, OneIsWriting, A!SessionIsWhole, A!ReadToken
<1>6. CASE A!ReadUser
  <2>1. torn \/ session'.token = session'.user
    BY <1>6 DEF SessionInv, HydratedFirst, A!SessionIsWhole, A!ReadUser, A!Finish
  <2>2. hydrate'.at # "user"
    BY <1>3, <1>6 DEF A!ReadUser
  <2>3. ~hydrated' => ~hydrated
    BY <1>6 DEF A!ReadUser, A!Finish
  <2>4. QED
    BY <1>1, <1>4, <2>1, <2>2, <2>3 DEF SessionInv, HydratedFirst, OneIsWriting, A!SessionIsWhole
<1>7. CASE A!ReadFails
  <2>1. torn \/ session'.token = session'.user
    BY <1>2, <1>7 DEF SessionInv, A!SessionIsWhole, A!ReadFails, A!Finish
  <2>2. hydrate'.at # "user"
    BY <1>3, <1>7 DEF A!ReadFails
  <2>3. ~hydrated' => ~hydrated
    BY <1>7 DEF A!ReadFails, A!Finish
  <2>4. QED
    BY <1>1, <1>4, <2>1, <2>2, <2>3 DEF SessionInv, HydratedFirst, OneIsWriting, A!SessionIsWhole
<1>8. CASE A!TimeIsUp
  <2>1. session'.token = session'.user /\ hydrated'
    BY <1>2, <1>8 DEF A!TimeIsUp, A!Finish
  <2>2. QED
    BY <1>1, <1>4, <2>1 DEF SessionInv, HydratedFirst, OneIsWriting, A!SessionIsWhole
<1>9. QED
  BY <1>5, <1>6, <1>7, <1>8

LEMMA InvRestart == ASSUME SessionInv, A!Restart PROVE SessionInv'
<1>1. SessionTyped'
  BY HydrateTyped DEF SessionInv
<1>2. HydratedFirst' /\ OneIsWriting'
  BY DEF HydratedFirst, OneIsWriting, A!Restart, A!Start
<1>3. A!SessionIsWhole'
  BY DEF SessionInv, A!SessionIsWhole, A!Restart, A!Both
<1>4. QED
  BY <1>1, <1>2, <1>3 DEF SessionInv

LEMMA SessionInvStep == ASSUME SessionInv, A!Next \/ UNCHANGED A!vars PROVE SessionInv'
<1>1. CASE A!ReadToken \/ A!ReadUser \/ A!ReadFails \/ A!TimeIsUp
  BY <1>1, InvHydrate
<1>2. CASE A!Restart
  BY <1>2, InvRestart
<1>3. CASE A!LogOut
  <2>1. PICK n \in {"logout", "logoutAgain"} :
          A!Begin([kind |-> n, account |-> NoOne, at |-> "token"])
    BY <1>3 DEF A!LogOut
  <2>2. [kind |-> n, account |-> NoOne, at |-> "token"] \in Job
    BY DEF Job
  <2>3. QED
    BY <2>1, <2>2, InvBegin
<1>4. ASSUME NEW kind \in {"login", "register"}, NEW a \in Accounts, A!LogIn(kind, a)
      PROVE  SessionInv'
  <2>1. [kind |-> kind, account |-> a, at |-> "token"] \in Job
    BY DEF Job
  <2>2. QED
    BY <1>4, <2>1, InvBegin DEF A!LogIn
<1>5. ASSUME NEW job \in jobs,
             A!WriteToken(job) \/ A!WriteUser(job) \/ A!SetMemory(job) \/ A!WriteFails(job)
      PROVE  SessionInv'
  BY <1>5, InvWriteToken, InvWriteUser, InvSetMemory, InvWriteFails
<1>6. CASE UNCHANGED A!vars
  BY <1>6 DEF A!vars, SessionInv, SessionTyped, HydratedFirst, OneIsWriting, A!SessionIsWhole
<1>7. QED
  BY <1>1, <1>2, <1>3, <1>4, <1>5, <1>6 DEF A!Next

LEMMA SessionInvAlways == Spec => [](program = "AppSession" => SessionInv)
<1> DEFINE I == program = "AppSession" => SessionInv
<1>1. Init => I
  BY ClientsAssumption, SessionInvInit DEF Init
<1>2. I /\ [Next]_vars => I'
  <2> SUFFICES ASSUME I, [Next]_vars, program' = "AppSession" PROVE SessionInv'
    OBVIOUS
  <2>1. program = "AppSession" /\ (A!Next \/ UNCHANGED A!vars)
    BY DEF Next, vars, A!vars, sessionVars
  <2>2. QED
    BY <2>1, ClientsAssumption, SessionInvStep
<1>3. QED
  BY <1>1, <1>2, PTL DEF Spec

(* The token the app sends is that of the user it shows, in memory and in  *)
(* the store, unless the two writes of one login or logout were parted:    *)
(* hydrate, setSession and logout of authStore.ts, for any number of       *)
(* accounts and of jobs under way.                                         *)
THEOREM SessionIsWholeAlways == Spec => []SessionIsWhole
<1>1. (program = "AppSession" => SessionInv) => SessionIsWhole
  BY DEF SessionInv, SessionIsWhole
<1>2. QED
  BY <1>1, SessionInvAlways, PTL

-----------------------------------------------------------------------------
(* LiveTracking *)

(* A join on its way belongs to a connection made before, and one of the   *)
(* current connection asks for the room of the map that is open.           *)
JoinsAreForTheMap ==
  /\ socket \in Nat
  /\ \A j \in joining :
       /\ j \in [socket : Nat, room : L!Rooms, at : {"sent", "read"}]
       /\ j.socket <= socket
       /\ j.socket = socket => screen \in {j.room, NoOrder}

MapInv == JoinsAreForTheMap /\ L!MapShowsItsOrder

-----------------------------------------------------------------------------
(* What does not touch the viewer's side *)

LEMMA OthersLeaveViewer ==
  ASSUME UNCHANGED L!viewerVars, MapInv PROVE MapInv'
BY DEF L!viewerVars, MapInv, JoinsAreForTheMap, L!MapShowsItsOrder

(* A position reaches the map that is open, and stays the one of its room. *)
LEMMA BroadcastKeeps ==
  ASSUME MapInv, NEW r \in reports, L!Broadcast(r) PROVE MapInv'
<1>1. UNCHANGED <<screen, socket, joining, inRoom>>
  BY DEF L!Broadcast
<1>2. live' = live \/ live' = [room |-> screen, pos |-> r.pos]
  BY DEF L!Broadcast, L!Heard
<1>3. live' # L!NoPosition => live'.room = screen
  BY <1>2 DEF MapInv, L!MapShowsItsOrder
<1>4. QED
  BY <1>1, <1>3 DEF MapInv, JoinsAreForTheMap, L!MapShowsItsOrder

-----------------------------------------------------------------------------
(* The viewer's screen and the gateway *)

LEMMA ScreenKeeps ==
  ASSUME MapInv, L!CloseScreen \/ L!Reconnect \/ L!HandleConnection PROVE MapInv'
<1>1. CASE L!CloseScreen
  BY <1>1 DEF MapInv, JoinsAreForTheMap, L!MapShowsItsOrder, L!CloseScreen
<1>2. CASE L!Reconnect
  BY <1>2 DEF MapInv, JoinsAreForTheMap, L!MapShowsItsOrder, L!Reconnect
<1>3. CASE L!HandleConnection
  BY <1>3 DEF MapInv, JoinsAreForTheMap, L!MapShowsItsOrder, L!HandleConnection
<1>4. QED
  BY <1>1, <1>2, <1>3

(* The joins of the connections before are all of a smaller number.        *)
LEMMA OpenKeeps ==
  ASSUME MapInv, NEW room \in L!Rooms, L!OpenScreen(room) PROVE MapInv'
<1>1. socket' = socket + 1 /\ screen' = room /\ inRoom' = {} /\ live' = L!NoPosition
  BY DEF L!OpenScreen, L!Connected
<1>2. joining' = joining \cup {[socket |-> socket + 1, room |-> room, at |-> "sent"]}
  BY DEF L!OpenScreen, L!Connected
<1>3. JoinsAreForTheMap'
  BY <1>1, <1>2 DEF MapInv, JoinsAreForTheMap
<1>4. QED
  BY <1>1, <1>3 DEF MapInv, L!MapShowsItsOrder

LEMMA JoinKeeps ==
  ASSUME MapInv, NEW j \in joining, L!JoinRead(j) \/ L!Join(j) PROVE MapInv'
<1>1. UNCHANGED <<screen, socket, live>>
  BY DEF L!JoinRead, L!Join
<1>2. j \in [socket : Nat, room : L!Rooms, at : {"sent", "read"}]
  BY DEF MapInv, JoinsAreForTheMap
<1>3. CASE L!JoinRead(j)
  <2> DEFINE seen == [j EXCEPT !.at = "read"]
  <2>1. /\ seen \in [socket : Nat, room : L!Rooms, at : {"sent", "read"}]
        /\ seen.socket = j.socket /\ seen.room = j.room
    BY <1>2
  <2>2. joining' \subseteq joining \cup {seen} /\ inRoom' = inRoom
    BY <1>3 DEF L!JoinRead
  <2> HIDE DEF seen
  <2>3. QED
    BY <1>1, <2>1, <2>2 DEF MapInv, JoinsAreForTheMap, L!MapShowsItsOrder
<1>4. CASE L!Join(j)
  <2>1. joining' \subseteq joining
    BY <1>4 DEF L!Join
  <2>2. inRoom' \subseteq {screen}
    BY <1>4 DEF MapInv, JoinsAreForTheMap, L!MapShowsItsOrder, L!Join
  <2>3. QED
    BY <1>1, <2>1, <2>2 DEF MapInv, JoinsAreForTheMap, L!MapShowsItsOrder
<1>5. QED
  BY <1>3, <1>4

-----------------------------------------------------------------------------

LEMMA MapInvInit == L!Init => MapInv
BY DEF L!Init, MapInv, JoinsAreForTheMap, L!MapShowsItsOrder

LEMMA MapInvStep == ASSUME MapInv, L!Next \/ UNCHANGED L!vars PROVE MapInv'
<1>1. CASE L!SwitchOnline \/ L!SwitchOffline \/ L!WatchStarts \/ L!WatchRefused \/ L!Measure
  BY <1>1, OthersLeaveViewer
  DEF L!SwitchOnline, L!SwitchOffline, L!WatchStarts, L!WatchRefused, L!Measure
<1>2. ASSUME NEW r \in reports,
             L!PatchAnswered(r) \/ L!ReportLost(r) \/ L!LocationSaved(r) \/ L!OrdersRead(r)
      PROVE  MapInv'
  BY <1>2, OthersLeaveViewer DEF L!PatchAnswered, L!ReportLost, L!LocationSaved, L!OrdersRead
<1>3. ASSUME NEW o \in Orders, L!OrderStarts(o) \/ L!OrderEnds(o) PROVE MapInv'
  BY <1>3, OthersLeaveViewer DEF L!OrderStarts, L!OrderEnds
<1>4. CASE L!Server
  BY <1>4, ScreenKeeps, JoinKeeps DEF L!Server
<1>5. CASE UNCHANGED L!vars
  BY <1>5, OthersLeaveViewer DEF L!vars, L!viewerVars
<1>6. QED
  BY <1>1, <1>2, <1>3, <1>4, <1>5, BroadcastKeeps, OpenKeeps, ScreenKeeps DEF L!Next

LEMMA MapInvAlways == Spec => [](program = "LiveTracking" => MapInv)
<1> DEFINE I == program = "LiveTracking" => MapInv
<1>1. Init => I
  BY MapInvInit DEF Init
<1>2. I /\ [Next]_vars => I'
  <2> SUFFICES ASSUME I, [Next]_vars, program' = "LiveTracking" PROVE MapInv'
    OBVIOUS
  <2>1. program = "LiveTracking" /\ (L!Next \/ UNCHANGED L!vars)
    BY DEF Next, vars, L!vars, mapVars
  <2>2. QED
    BY <2>1, MapInvStep
<1>3. QED
  BY <1>1, <1>2, PTL DEF Spec

(* Types *)

(* A report carries a position that was measured, and orders.              *)
Report == [pos : 1 .. measured, at : {"patch", "emitted", "saved", "read"},
           orders : SUBSET Orders]

TrackingTyped ==
  /\ active \in SUBSET Orders
  /\ {online, known} \subseteq BOOLEAN
  /\ permit \in {"off", "asking", "on"}
  /\ measured \in Nat /\ stored \in 0 .. measured
  /\ reports \subseteq Report
  /\ screen \in L!Rooms \cup {NoOrder}
  /\ inRoom \in SUBSET L!Rooms
  /\ live.pos \in 0 .. measured

LEMMA NoPositionIsZero == L!NoPosition.pos = 0
BY DEF L!NoPosition

LEMMA TrackingTypedInit == L!Init => TrackingTyped
<1> SUFFICES ASSUME L!Init PROVE TrackingTyped
  OBVIOUS
<1>1. live.pos = 0
  BY NoPositionIsZero DEF L!Init
<1>2. measured = 0 /\ stored = 0 /\ reports = {} /\ inRoom = {} /\ online = FALSE /\ known = FALSE
  BY DEF L!Init
<1>3. measured \in Nat /\ stored \in 0 .. measured /\ live.pos \in 0 .. measured
  BY <1>1, <1>2
<1>4. reports \subseteq Report /\ inRoom \in SUBSET L!Rooms /\ {online, known} \subseteq BOOLEAN
  BY <1>2
<1>5. active \in SUBSET Orders /\ permit = "off" /\ screen = NoOrder
  BY DEF L!Init
<1>6. QED
  BY <1>3, <1>4, <1>5 DEF TrackingTyped

(* What is measured stays measured. *)
LEMMA ReportsMove ==
  ASSUME TrackingTyped, NEW r \in reports,
         \/ L!PatchAnswered(r) \/ L!ReportLost(r) \/ L!LocationSaved(r) \/ L!OrdersRead(r)
         \/ L!Broadcast(r)
  PROVE  TrackingTyped'
<1>1. r \in Report /\ r.pos \in 0 .. measured
  BY DEF TrackingTyped, Report
<1>2. /\ [r EXCEPT !.at = "emitted"] \in Report
      /\ [r EXCEPT !.at = "saved"] \in Report
      /\ [r EXCEPT !.at = "read", !.orders = active] \in Report
  BY <1>1 DEF Report, TrackingTyped
<1>3. measured' = measured /\ Report' = Report
  BY DEF L!PatchAnswered, L!ReportLost, L!LocationSaved, L!OrdersRead, L!Broadcast,
         L!phoneVars, Report
<1>4. CASE L!PatchAnswered(r)
  BY <1>1, <1>2, <1>3, <1>4 DEF TrackingTyped, L!PatchAnswered, L!phoneVars, L!viewerVars
<1>5. CASE L!ReportLost(r)
  BY <1>3, <1>5 DEF TrackingTyped, L!ReportLost, L!phoneVars, L!viewerVars
<1>6. CASE L!LocationSaved(r)
  BY <1>1, <1>2, <1>3, <1>6 DEF TrackingTyped, L!LocationSaved, L!phoneVars, L!viewerVars
<1>7. CASE L!OrdersRead(r)
  BY <1>1, <1>2, <1>3, <1>7 DEF TrackingTyped, L!OrdersRead, L!phoneVars, L!viewerVars
<1>8. CASE L!Broadcast(r)
  <2>1. live'.pos \in 0 .. measured
    BY <1>1, <1>8 DEF TrackingTyped, L!Broadcast, L!Heard
  <2>2. QED
    BY <1>3, <1>8, <2>1 DEF TrackingTyped, L!Broadcast, L!phoneVars
<1>9. QED
  BY <1>4, <1>5, <1>6, <1>7, <1>8

LEMMA TrackingTypedStep ==
  ASSUME TrackingTyped, MapInv, L!Next \/ UNCHANGED L!vars PROVE TrackingTyped'
<1>1. CASE L!SwitchOnline \/ L!SwitchOffline \/ L!WatchStarts \/ L!WatchRefused
  BY <1>1 DEF TrackingTyped, L!viewerVars, L!SwitchOnline, L!SwitchOffline, L!WatchStarts,
              L!WatchRefused, Report
<1>2. CASE L!Measure
  <2> DEFINE r == [pos |-> measured + 1, at |-> "patch", orders |-> {}]
  <2>1. measured' = measured + 1 /\ measured \in Nat
    BY <1>2 DEF L!Measure, TrackingTyped
  <2>2. r \in Report' /\ Report \subseteq Report' /\ 0 .. measured \subseteq 0 .. measured'
    BY <2>1 DEF Report
  <2>3. reports' = reports \cup {r}
    BY <1>2 DEF L!Measure
  <2> HIDE DEF r
  <2>4. reports' \subseteq Report' /\ measured' \in Nat /\ stored \in 0 .. measured'
        /\ live.pos \in 0 .. measured'
    BY <2>1, <2>2, <2>3 DEF TrackingTyped
  <2>5. QED
    BY <1>2, <2>4 DEF TrackingTyped, L!Measure, L!viewerVars
<1>3. ASSUME NEW o \in Orders, L!OrderStarts(o) \/ L!OrderEnds(o) PROVE TrackingTyped'
  BY <1>3 DEF TrackingTyped, L!OrderStarts, L!OrderEnds, L!phoneVars, L!viewerVars, Report
<1>4. CASE L!HandleConnection \/ L!CloseScreen \/ L!Reconnect
  <2>1. live' = live \/ live'.pos = 0
    BY <1>4, NoPositionIsZero DEF L!HandleConnection, L!CloseScreen, L!Reconnect
  <2>2. live'.pos \in 0 .. measured
    BY <2>1 DEF TrackingTyped
  <2>3. QED
    BY <1>4, <2>2 DEF TrackingTyped, L!HandleConnection, L!CloseScreen, L!Reconnect,
                      L!phoneVars, Report
<1>5. ASSUME NEW room \in L!Rooms, L!OpenScreen(room) PROVE TrackingTyped'
  <2>1. live'.pos = 0 /\ measured \in Nat /\ 0 \in 0 .. measured
    BY <1>5, NoPositionIsZero DEF L!OpenScreen, TrackingTyped
  <2>2. known' = FALSE /\ inRoom' = {} /\ screen' = room
    BY <1>5 DEF L!OpenScreen, L!Connected
  <2>3. UNCHANGED <<active, online, permit, measured, reports, stored>>
    BY <1>5 DEF L!OpenScreen, L!phoneVars
  <2>4. live'.pos \in 0 .. measured' /\ inRoom' \in SUBSET L!Rooms /\ {online', known'} \subseteq BOOLEAN
    BY <2>1, <2>2, <2>3 DEF TrackingTyped
  <2>5. QED
    BY <2>2, <2>3, <2>4 DEF TrackingTyped, Report
<1>6. ASSUME NEW j \in joining, L!JoinRead(j) \/ L!Join(j) PROVE TrackingTyped'
  <2>1. j.room \in L!Rooms
    BY DEF MapInv, JoinsAreForTheMap
  <2>2. QED
    BY <1>6, <2>1 DEF TrackingTyped, L!JoinRead, L!Join, L!phoneVars, Report
<1>7. CASE UNCHANGED L!vars
  BY <1>7 DEF TrackingTyped, L!vars, Report
<1>8. QED
  BY <1>1, <1>2, <1>3, <1>4, <1>5, <1>6, <1>7, ReportsMove DEF L!Next, L!Server

LEMMA TrackingTypedAlways == Spec => [](program = "LiveTracking" => L!TypeOK)
<1> DEFINE I == program = "LiveTracking" => MapInv
           T == program = "LiveTracking" => TrackingTyped
<1>1. Init => T
  BY TrackingTypedInit DEF Init
<1>2. I /\ T /\ [Next]_vars => T'
  <2> SUFFICES ASSUME I, T, [Next]_vars, program' = "LiveTracking" PROVE TrackingTyped'
    OBVIOUS
  <2>1. program = "LiveTracking" /\ (L!Next \/ UNCHANGED L!vars)
    BY DEF Next, vars, L!vars, mapVars
  <2>2. QED
    BY <2>1, TrackingTypedStep
<1>3. T => (program = "LiveTracking" => L!TypeOK)
  BY DEF TrackingTyped, Report, L!TypeOK
<1>4. Spec => []I
  BY MapInvAlways
<1>5. QED
  BY <1>1, <1>2, <1>3, <1>4, PTL DEF Spec

(* A map shows a live position only of the order it is open for, and is in *)
(* no other room: the clean-up of the tracking screens and the gateway's   *)
(* broadcast, whatever joins, reconnections and positions are under way.   *)
THEOREM MapShowsItsOrderAlways == Spec => []MapShowsItsOrder
<1>1. (program = "LiveTracking" => MapInv) => MapShowsItsOrder
  BY DEF MapInv, MapShowsItsOrder
<1>2. QED
  BY <1>1, MapInvAlways, PTL

-----------------------------------------------------------------------------
(* Job offers *)

OfferCall ==
  [op : {"accept", "decline", "PICKED_UP", "ON_DELIVERY", "DELIVERED"}, order : Orders,
   from : {"overlay", "list", "delivery"}, at : {"sent", "ok", "failed"}, live : BOOLEAN]

Overlay ==
  [offer : Orders \cup {NoOrder}, handled : BOOLEAN, accepting : BOOLEAN,
   declining : BOOLEAN, counting : BOOLEAN]

OfferTyped ==
  /\ server \in [Orders -> J!ServerStates]
  /\ cached \in [Orders -> J!ServerStates]
  /\ checks \subseteq [order : Orders, at : {"asked", "free"}]
  /\ overlay \in Overlay
  /\ calls \subseteq OfferCall
  /\ notices \subseteq Orders
  /\ page \in Orders \cup {"list"}
  /\ shell \in BOOLEAN /\ overtaken \in BOOLEAN

FromOverlay(c) == c.from = "overlay" /\ c.live

(* Nothing is live while the screens are down, and unless the overlay came *)
(* up over a call in flight, there is one call of the overlay at most, the *)
(* overlay remembers it, and the offer it shows is accepted nowhere else.  *)
OneCallAtATime ==
  /\ ~shell => \A c \in calls : ~c.live
  /\ ~overtaken =>
       \A c \in calls : FromOverlay(c) =>
         /\ overlay.handled
         /\ \A e \in calls : FromOverlay(e) => e = c
  /\ ~overtaken /\ J!OverlayUp =>
       \A c \in calls : c.op = "accept" /\ c.order = overlay.offer => FromOverlay(c)

OfferInv == OfferTyped /\ J!BlockedOverlayWaits /\ OneCallAtATime

-----------------------------------------------------------------------------
(* Types *)

LEMMA SentTyped ==
  ASSUME OfferTyped, NEW c \in OfferCall, J!Send(c) PROVE calls' \subseteq OfferCall
BY DEF OfferTyped, J!Send

LEMMA WrittenTyped ==
  ASSUME NEW f \in [Orders -> J!ServerStates], NEW o \in Orders, NEW v \in J!ServerStates
  PROVE  [f EXCEPT ![o] = v] \in [Orders -> J!ServerStates]
OBVIOUS

LEMMA VisitTyped ==
  ASSUME OfferTyped, NEW o \in Orders, J!GoToDelivery(o)
  PROVE  /\ cached' \in [Orders -> J!ServerStates]
         /\ page' \in Orders \cup {"list"}
BY DEF OfferTyped, J!GoToDelivery, J!Shown, J!ServerStates

LEMMA FreshTyped ==
  ASSUME NEW o \in Orders
  PROVE  /\ J!NoOffer \in Overlay
         /\ J!FreshOffer(o) \in Overlay
         /\ [J!NoOffer EXCEPT !.offer = o] \in Overlay
BY DEF J!NoOffer, J!FreshOffer, Overlay

LEMMA AnnouncedTyped ==
  ASSUME OfferTyped, NEW o \in Orders, J!Announce(o) PROVE notices' \subseteq Orders
BY DEF OfferTyped, J!Announce

LEMMA NextStates ==
  ASSUME NEW s \in J!Active
  PROVE  /\ J!NextStatus[s] \in {"PICKED_UP", "ON_DELIVERY", "DELIVERED"}
         /\ J!NextStatus[s] \in J!ServerStates
BY DEF J!NextStatus, J!ServerStates, J!Active

LEMMA OfferTypedStep ==
  ASSUME OfferTyped, J!Next PROVE OfferTyped'
<1> USE DEF J!serverVars, J!screenVars
<1>1. ASSUME NEW o \in Orders, J!Offer(o) PROVE OfferTyped'
  <2>1. server' \in [Orders -> J!ServerStates]
    BY <1>1, WrittenTyped DEF J!Offer, OfferTyped, J!ServerStates
  <2>2. checks' \subseteq [order : Orders, at : {"asked", "free"}]
    BY <1>1 DEF J!Offer, OfferTyped
  <2>3. QED
    BY <1>1, <2>1, <2>2 DEF J!Offer, OfferTyped
<1>2. ASSUME NEW o \in Orders, J!AssignedByOps(o) PROVE OfferTyped'
  <2>1. server' \in [Orders -> J!ServerStates]
    BY <1>2, WrittenTyped DEF J!AssignedByOps, OfferTyped, J!ServerStates, J!Active
  <2>2. notices' \subseteq Orders
    BY <1>2, AnnouncedTyped DEF J!AssignedByOps, OfferTyped
  <2>3. QED
    BY <1>2, <2>1, <2>2 DEF J!AssignedByOps, OfferTyped
<1>3. ASSUME NEW o \in Orders, NEW s \in J!ServerStates, J!ChangedElsewhere(o, s)
      PROVE  OfferTyped'
  <2>1. server' \in [Orders -> J!ServerStates]
    BY <1>3, WrittenTyped DEF J!ChangedElsewhere, OfferTyped
  <2>2. QED
    BY <1>3, <2>1 DEF J!ChangedElsewhere, OfferTyped
<1>4. ASSUME NEW o \in Orders, NEW op \in {"accept", "decline"}, J!PressInList(op, o)
      PROVE  OfferTyped'
  <2>1. J!Call(op, o, "list") \in OfferCall
    BY DEF J!Call, OfferCall
  <2>2. calls' \subseteq OfferCall
    BY <1>4, <2>1, SentTyped DEF J!PressInList
  <2>3. QED
    BY <1>4, <2>2 DEF J!PressInList, OfferTyped
<1>5. ASSUME NEW o \in Orders, J!OpenDelivery(o) PROVE OfferTyped'
  BY <1>5, VisitTyped DEF J!OpenDelivery, OfferTyped
<1>6. ASSUME NEW o \in Orders, J!OpenNotice(o) PROVE OfferTyped'
  BY <1>6, VisitTyped DEF J!OpenNotice, OfferTyped
<1>7. ASSUME NEW o \in Orders, J!DismissNotice(o) PROVE OfferTyped'
  BY <1>7 DEF J!DismissNotice, OfferTyped
<1>8. ASSUME NEW k \in checks, J!CheckRead(k) PROVE OfferTyped'
  <2>1. k \in [order : Orders, at : {"asked", "free"}]
    BY DEF OfferTyped
  <2>2. [k EXCEPT !.at = "free"] \in [order : Orders, at : {"asked", "free"}]
    BY <2>1
  <2>3. checks' \subseteq [order : Orders, at : {"asked", "free"}]
    BY <1>8, <2>2 DEF J!CheckRead, OfferTyped
  <2>4. QED
    BY <1>8, <2>3 DEF J!CheckRead, OfferTyped
<1>9. ASSUME NEW k \in checks, J!CheckDone(k) PROVE OfferTyped'
  <2>1. k.order \in Orders
    BY DEF OfferTyped
  <2>2. /\ checks' \subseteq checks
        /\ UNCHANGED <<server, cached, page, calls, shell>>
    BY <1>9 DEF J!CheckDone
  <2>3. CASE J!ShowOffer(k.order) /\ UNCHANGED <<notices, disturbed>>
    <3>1. overlay' \in Overlay /\ overtaken' \in BOOLEAN
      BY <2>1, <2>3, FreshTyped DEF J!ShowOffer, OfferTyped
    <3>2. QED
      BY <2>2, <2>3, <3>1 DEF OfferTyped
  <2>4. CASE J!Announce(k.order) /\ UNCHANGED <<overlay, overtaken>>
    BY <2>1, <2>2, <2>4, AnnouncedTyped DEF OfferTyped
  <2>5. QED
    BY <1>9, <2>3, <2>4 DEF J!CheckDone
<1>10. CASE J!PressAccept
  <2>1. overlay.offer \in Orders
    BY <1>10 DEF J!PressAccept, J!OverlayUp, OfferTyped, Overlay
  <2>2. J!Call("accept", overlay.offer, "overlay") \in OfferCall
    BY <2>1 DEF J!Call, OfferCall
  <2>3. calls' \subseteq OfferCall
    BY <1>10, <2>2, SentTyped DEF J!PressAccept
  <2>4. overlay' \in Overlay
    BY <1>10 DEF J!PressAccept, OfferTyped, Overlay
  <2>5. QED
    BY <1>10, <2>3, <2>4 DEF J!PressAccept, OfferTyped
<1>11. CASE J!PressDecline
  <2>1. overlay.offer \in Orders
    BY <1>11 DEF J!PressDecline, J!OverlayUp, OfferTyped, Overlay
  <2>2. J!Call("decline", overlay.offer, "overlay") \in OfferCall
    BY <2>1 DEF J!Call, OfferCall
  <2>3. calls' \subseteq OfferCall
    BY <1>11, <2>2, SentTyped DEF J!PressDecline
  <2>4. overlay' \in Overlay
    BY <1>11 DEF J!PressDecline, OfferTyped, Overlay
  <2>5. QED
    BY <1>11, <2>3, <2>4 DEF J!PressDecline, OfferTyped
<1>12. CASE J!CountdownEnds
  <2>1. overlay.offer \in Orders
    BY <1>12 DEF J!CountdownEnds, J!OverlayUp, OfferTyped, Overlay
  <2>2. J!Call("decline", overlay.offer, "overlay") \in OfferCall
    BY <2>1 DEF J!Call, OfferCall
  <2>3. calls' \subseteq OfferCall
    BY <1>12, <2>2, SentTyped DEF J!CountdownEnds, OfferTyped
  <2>4. overlay' \in Overlay
    BY <1>12 DEF J!CountdownEnds, OfferTyped, Overlay
  <2>5. QED
    BY <1>12, <2>3, <2>4 DEF J!CountdownEnds, OfferTyped
<1>13. CASE J!PressNext
  <2>1. page \in Orders /\ cached[page] \in J!Active
    BY <1>13 DEF J!PressNext, OfferTyped
  <2>2. J!Call(J!NextStatus[cached[page]], page, "delivery") \in OfferCall
    BY <2>1, NextStates DEF J!Call, OfferCall
  <2>3. calls' \subseteq OfferCall
    BY <1>13, <2>2, SentTyped DEF J!PressNext
  <2>4. QED
    BY <1>13, <2>3 DEF J!PressNext, OfferTyped
<1>14. CASE J!BackToList
  BY <1>14 DEF J!BackToList, OfferTyped
<1>15. CASE J!Refetch
  BY <1>15 DEF J!Refetch, J!Shown, J!ServerStates, OfferTyped
<1>16. ASSUME NEW c \in calls, J!Handle(c) PROVE OfferTyped'
  <2>1. c \in OfferCall
    BY DEF OfferTyped
  <2>2. /\ c.order \in Orders
        /\ c.op \in {"accept", "decline", "PICKED_UP", "ON_DELIVERY", "DELIVERED"}
        /\ \A at \in {"ok", "failed"} : [c EXCEPT !.at = at] \in OfferCall
    BY <2>1 DEF OfferCall
  <2>3. calls' \subseteq OfferCall
    BY <1>16, <2>2 DEF J!Handle, OfferTyped
  <2>4. J!Effect(c) \in [Orders -> J!ServerStates]
    <3>1. (CASE c.op = "accept" -> "ACCEPTED" [] c.op = "decline" -> "away" [] OTHER -> c.op)
            \in J!ServerStates
      BY <2>2 DEF J!ServerStates, J!Active
    <3>2. QED
      BY <2>2, <3>1 DEF J!Effect, OfferTyped
  <2>5. QED
    BY <1>16, <2>3, <2>4 DEF J!Handle, OfferTyped
<1>17. ASSUME NEW c \in calls, J!OverlayAnswer(c) PROVE OfferTyped'
  <2>1. c.order \in Orders
    BY DEF OfferTyped, OfferCall
  <2>2. overlay' \in Overlay
    BY <1>17 DEF J!OverlayAnswer, J!Dismissed, J!NoOffer, OfferTyped, Overlay
  <2>3. /\ cached' \in [Orders -> J!ServerStates]
        /\ page' \in Orders \cup {"list"}
    BY <1>17, <2>1, VisitTyped DEF J!OverlayAnswer, J!StayOnPage, OfferTyped
  <2>4. QED
    BY <1>17, <2>2, <2>3 DEF J!OverlayAnswer, J!Answered, OfferTyped
<1>18. ASSUME NEW c \in calls, J!ScreenAnswer(c) PROVE OfferTyped'
  <2>1. c.order \in Orders
    BY DEF OfferTyped, OfferCall
  <2>2. /\ cached' \in [Orders -> J!ServerStates]
        /\ page' \in Orders \cup {"list"}
    BY <1>18, <2>1, VisitTyped DEF J!ScreenAnswer, J!StayOnPage, OfferTyped
  <2>3. QED
    BY <1>18, <2>2 DEF J!ScreenAnswer, J!Answered, OfferTyped
<1>19. CASE J!GateCloses
  <2>1. \A c \in OfferCall : [c EXCEPT !.live = FALSE] \in OfferCall
    BY DEF OfferCall
  <2>2. calls' \subseteq OfferCall
    BY <1>19, <2>1 DEF J!GateCloses, OfferTyped
  <2>3. QED
    BY <1>19, <2>2 DEF J!GateCloses, OfferTyped
<1>20. CASE J!GateOpens
  <2>1. overlay.offer \in Orders \cup {NoOrder}
    BY DEF OfferTyped, Overlay
  <2>2. J!NoOffer \in Overlay
    BY DEF J!NoOffer, Overlay
  <2>3. overlay' \in Overlay
    BY <1>20, <2>1, <2>2, FreshTyped DEF J!GateOpens
  <2>4. QED
    BY <1>20, <2>3 DEF J!GateOpens, OfferTyped
<1>21. QED
  BY <1>1, <1>2, <1>3, <1>4, <1>5, <1>6, <1>7, <1>8, <1>9, <1>10, <1>11, <1>12, <1>13,
     <1>14, <1>15, <1>16, <1>17, <1>18, <1>19, <1>20 DEF J!Next

-----------------------------------------------------------------------------
(* The buttons wait for an answer *)

InFlightStays ==
  \A c \in calls : FromOverlay(c) =>
    \E d \in calls' : d.from = "overlay" /\ d.live /\ d.op = c.op /\ d.order = c.order

LEMMA BlockedKept ==
  ASSUME J!BlockedOverlayWaits, UNCHANGED <<overlay, shell>>, InFlightStays
  PROVE  J!BlockedOverlayWaits'
BY DEF J!BlockedOverlayWaits, J!OverlayUp, J!InFlight, InFlightStays, FromOverlay

LEMMA BlockedStep ==
  ASSUME OfferTyped, J!BlockedOverlayWaits, J!Next PROVE J!BlockedOverlayWaits'
<1> USE DEF J!serverVars, J!screenVars
<1>1. ASSUME UNCHANGED <<overlay, calls, shell>> PROVE J!BlockedOverlayWaits'
  BY <1>1, BlockedKept DEF InFlightStays, FromOverlay
<1>2. ASSUME NEW c \in OfferCall, J!Send(c), UNCHANGED <<overlay, shell>>
      PROVE  J!BlockedOverlayWaits'
  BY <1>2, BlockedKept DEF InFlightStays, FromOverlay, J!Send
<1>3. ASSUME NEW o \in Orders, J!Offer(o) \/ J!AssignedByOps(o) PROVE J!BlockedOverlayWaits'
  BY <1>1, <1>3 DEF J!Offer, J!AssignedByOps
<1>4. ASSUME NEW o \in Orders, NEW s \in J!ServerStates, J!ChangedElsewhere(o, s)
      PROVE  J!BlockedOverlayWaits'
  BY <1>1, <1>4 DEF J!ChangedElsewhere
<1>5. ASSUME NEW o \in Orders, NEW op \in {"accept", "decline"}, J!PressInList(op, o)
      PROVE  J!BlockedOverlayWaits'
  <2>1. J!Call(op, o, "list") \in OfferCall
    BY DEF J!Call, OfferCall
  <2>2. QED
    BY <1>2, <1>5, <2>1 DEF J!PressInList
<1>6. ASSUME NEW o \in Orders, J!OpenDelivery(o) \/ J!OpenNotice(o) \/ J!DismissNotice(o)
      PROVE  J!BlockedOverlayWaits'
  BY <1>1, <1>6 DEF J!OpenDelivery, J!OpenNotice, J!DismissNotice
<1>7. ASSUME NEW k \in checks, J!CheckRead(k) PROVE J!BlockedOverlayWaits'
  BY <1>1, <1>7 DEF J!CheckRead
<1>8. ASSUME NEW k \in checks, J!CheckDone(k) PROVE J!BlockedOverlayWaits'
  <2>1. CASE UNCHANGED overlay
    BY <1>1, <1>8, <2>1 DEF J!CheckDone
  <2>2. CASE overlay' # overlay
    <3>1. ~overlay'.accepting /\ ~overlay'.declining
      BY <1>8, <2>2 DEF J!CheckDone, J!ShowOffer, J!FreshOffer, J!NoOffer
    <3>2. QED
      BY <3>1 DEF J!BlockedOverlayWaits
  <2>3. QED
    BY <2>1, <2>2
<1>9. CASE J!PressAccept
  <2>1. /\ J!Call("accept", overlay.offer, "overlay") \in calls'
        /\ overlay'.offer = overlay.offer /\ ~overlay'.declining
    BY <1>9 DEF J!PressAccept, J!Send, OfferTyped, Overlay
  <2>2. J!InFlight("accept")'
    BY <2>1 DEF J!InFlight, J!Call
  <2>3. QED
    BY <2>1, <2>2 DEF J!BlockedOverlayWaits
<1>10. CASE J!PressDecline
  <2>1. /\ J!Call("decline", overlay.offer, "overlay") \in calls'
        /\ overlay'.offer = overlay.offer /\ overlay'.accepting = overlay.accepting
        /\ J!OverlayUp /\ calls \subseteq calls'
    BY <1>10 DEF J!PressDecline, J!Send, OfferTyped, Overlay
  <2>2. J!InFlight("decline")'
    BY <2>1 DEF J!InFlight, J!Call
  <2>3. overlay.accepting => J!InFlight("accept")'
    BY <2>1 DEF J!BlockedOverlayWaits, J!InFlight
  <2>4. QED
    BY <2>1, <2>2, <2>3 DEF J!BlockedOverlayWaits
<1>11. CASE J!CountdownEnds
  <2>1. /\ overlay'.offer = overlay.offer
        /\ overlay'.accepting = overlay.accepting
        /\ overlay'.declining = overlay.declining
        /\ J!OverlayUp /\ calls \subseteq calls'
    BY <1>11 DEF J!CountdownEnds, J!Send, OfferTyped, Overlay
  <2>2. /\ overlay.accepting => J!InFlight("accept")'
        /\ overlay.declining => J!InFlight("decline")'
    BY <2>1 DEF J!BlockedOverlayWaits, J!InFlight
  <2>3. QED
    BY <2>1, <2>2 DEF J!BlockedOverlayWaits
<1>12. CASE J!PressNext
  <2>1. page \in Orders /\ cached[page] \in J!Active
    BY <1>12 DEF J!PressNext, OfferTyped
  <2>2. J!Call(J!NextStatus[cached[page]], page, "delivery") \in OfferCall
    BY <2>1, NextStates DEF J!Call, OfferCall
  <2>3. QED
    BY <1>2, <1>12, <2>2 DEF J!PressNext
<1>13. CASE J!BackToList \/ J!Refetch
  BY <1>1, <1>13 DEF J!BackToList, J!Refetch
<1>14. ASSUME NEW c \in calls, J!Handle(c) PROVE J!BlockedOverlayWaits'
  <2>1. PICK at \in {"ok", "failed"} : calls' = (calls \ {c}) \cup {[c EXCEPT !.at = at]}
    BY <1>14 DEF J!Handle
  <2>2. c \in OfferCall
    BY DEF OfferTyped
  <2>3. /\ [c EXCEPT !.at = at].from = c.from /\ [c EXCEPT !.at = at].live = c.live
        /\ [c EXCEPT !.at = at].op = c.op /\ [c EXCEPT !.at = at].order = c.order
    BY <2>2 DEF OfferCall
  <2>4. InFlightStays
    BY <2>1, <2>3 DEF InFlightStays, FromOverlay
  <2>5. QED
    BY <1>14, <2>4, BlockedKept DEF J!Handle
<1>15. ASSUME NEW c \in calls, J!OverlayAnswer(c) PROVE J!BlockedOverlayWaits'
  <2>1. calls' = calls \ {c} /\ UNCHANGED shell
    BY <1>15 DEF J!OverlayAnswer
  <2>2. CASE c.op = "decline" \/ c.at = "ok"
    <3>1. overlay'.offer = NoOrder
      BY <1>15, <2>2 DEF J!OverlayAnswer, J!Dismissed, J!NoOffer, OfferTyped, Overlay
    <3>2. QED
      BY <3>1 DEF J!BlockedOverlayWaits, J!OverlayUp
  <2>3. CASE c.op # "decline" /\ c.at # "ok" /\ c.live
    <3>1. /\ ~overlay'.accepting
          /\ overlay'.offer = overlay.offer /\ overlay'.declining = overlay.declining
      BY <1>15, <2>3 DEF J!OverlayAnswer, OfferTyped, Overlay
    <3>2. J!InFlight("decline") => J!InFlight("decline")'
      BY <2>1, <2>3, <3>1 DEF J!InFlight
    <3>3. QED
      BY <2>1, <3>1, <3>2 DEF J!BlockedOverlayWaits, J!OverlayUp
  <2>4. CASE c.op # "decline" /\ c.at # "ok" /\ ~c.live
    <3>1. UNCHANGED overlay
      BY <1>15, <2>4 DEF J!OverlayAnswer
    <3>2. InFlightStays
      BY <2>1, <2>4 DEF InFlightStays, FromOverlay
    <3>3. QED
      BY <2>1, <3>1, <3>2, BlockedKept
  <2>5. QED
    BY <2>2, <2>3, <2>4
<1>16. ASSUME NEW c \in calls, J!ScreenAnswer(c) PROVE J!BlockedOverlayWaits'
  <2>1. InFlightStays
    BY <1>16 DEF J!ScreenAnswer, InFlightStays, FromOverlay
  <2>2. QED
    BY <1>16, <2>1, BlockedKept DEF J!ScreenAnswer
<1>17. CASE J!GateCloses
  BY <1>17 DEF J!GateCloses, J!BlockedOverlayWaits, J!OverlayUp
<1>18. CASE J!GateOpens
  <2>1. ~overlay'.accepting /\ ~overlay'.declining
    BY <1>18 DEF J!GateOpens, J!FreshOffer, J!NoOffer
  <2>2. QED
    BY <2>1 DEF J!BlockedOverlayWaits
<1>19. QED
  BY <1>3, <1>4, <1>5, <1>6, <1>7, <1>8, <1>9, <1>10, <1>11, <1>12, <1>13,
     <1>14, <1>15, <1>16, <1>17, <1>18 DEF J!Next

-----------------------------------------------------------------------------
(* One call at a time *)

LEMMA OneKept ==
  ASSUME OneCallAtATime, UNCHANGED <<shell, overtaken>>, overlay'.handled = overlay.handled,
         overlay'.offer \in {overlay.offer, NoOrder}, calls' \subseteq calls
  PROVE  OneCallAtATime'
BY DEF OneCallAtATime, FromOverlay, J!OverlayUp

(* A call of another screen, sent while the screens are up and no overlay  *)
LEMMA OneWithAnother ==
  ASSUME OneCallAtATime, shell, overlay.offer = NoOrder,
         UNCHANGED <<shell, overtaken, overlay>>,
         NEW c \in OfferCall, c.from # "overlay", J!Send(c)
  PROVE  OneCallAtATime'
BY DEF OneCallAtATime, FromOverlay, J!Send, J!OverlayUp

(* The first call of the overlay, sent while it is up *)
LEMMA OneIsFirst ==
  ASSUME OneCallAtATime, shell, UNCHANGED <<shell, overtaken>>, ~overlay.handled,
         overlay'.handled, overlay'.offer = overlay.offer,
         NEW op, NEW o, J!Send(J!Call(op, o, "overlay"))
  PROVE  OneCallAtATime'
<1> DEFINE first == J!Call(op, o, "overlay")
<1>1. first.from = "overlay" /\ first.live
  BY DEF J!Call
<1>2. calls' = calls \cup {first}
  BY DEF J!Send
<1> HIDE DEF first
<1>3. ~overtaken => \A c \in calls : ~FromOverlay(c)
  BY DEF OneCallAtATime
<1>4. ~overtaken /\ J!OverlayUp => \A c \in calls : c.op # "accept" \/ c.order # overlay.offer
  BY <1>3 DEF OneCallAtATime
<1>5. ~overtaken => \A c \in calls' : FromOverlay(c) => c = first
  BY <1>2, <1>3
<1>6. QED
  BY <1>1, <1>2, <1>4, <1>5 DEF OneCallAtATime, FromOverlay, J!OverlayUp

(* The last answer *)
LEMMA NoneInFlight ==
  ASSUME OneCallAtATime, UNCHANGED shell, calls' = {} PROVE OneCallAtATime'
BY DEF OneCallAtATime

LEMMA OneCallStep ==
  ASSUME OfferTyped, OneCallAtATime, J!Next PROVE OneCallAtATime'
<1> USE DEF J!serverVars, J!screenVars
<1>1. ASSUME UNCHANGED <<overlay, calls, shell, overtaken>> PROVE OneCallAtATime'
  BY <1>1, OneKept
<1>2. ASSUME NEW o \in Orders, J!Offer(o) \/ J!AssignedByOps(o) PROVE OneCallAtATime'
  BY <1>1, <1>2 DEF J!Offer, J!AssignedByOps
<1>3. ASSUME NEW o \in Orders, NEW s \in J!ServerStates, J!ChangedElsewhere(o, s)
      PROVE  OneCallAtATime'
  BY <1>1, <1>3 DEF J!ChangedElsewhere
<1>4. ASSUME NEW o \in Orders, NEW op \in {"accept", "decline"}, J!PressInList(op, o)
      PROVE  OneCallAtATime'
  <2>1. /\ J!Call(op, o, "list") \in OfferCall
        /\ J!Call(op, o, "list").from # "overlay"
    BY DEF J!Call, OfferCall
  <2>2. QED
    BY <1>4, <2>1, OneWithAnother DEF J!PressInList
<1>5. ASSUME NEW o \in Orders, J!OpenDelivery(o) \/ J!OpenNotice(o) \/ J!DismissNotice(o)
      PROVE  OneCallAtATime'
  BY <1>1, <1>5 DEF J!OpenDelivery, J!OpenNotice, J!DismissNotice
<1>6. ASSUME NEW k \in checks, J!CheckRead(k) PROVE OneCallAtATime'
  BY <1>1, <1>6 DEF J!CheckRead
<1>7. ASSUME NEW k \in checks, J!CheckDone(k) PROVE OneCallAtATime'
  <2>1. UNCHANGED <<calls, shell>>
    BY <1>7 DEF J!CheckDone
  <2>2. CASE J!ShowOffer(k.order)
    <3>1. CASE overlay.offer = k.order
      <4>1. overlay' = overlay /\ (overtaken' <=> overtaken)
        BY <2>2, <3>1 DEF J!ShowOffer
      <4>2. QED
        BY <2>1, <4>1 DEF OneCallAtATime, FromOverlay, J!OverlayUp
    <3>2. CASE overlay.offer # k.order
      <4>1. overlay'.offer = k.order
        BY <2>2, <3>2 DEF J!ShowOffer, J!FreshOffer, J!NoOffer
      <4>2. ~overtaken' => \A c \in calls' : /\ ~FromOverlay(c)
                                             /\ ~(c.op = "accept" /\ c.order = k.order)
        BY <2>1, <2>2, <3>2 DEF J!ShowOffer, J!ComesOver, FromOverlay
      <4>3. QED
        BY <2>1, <4>1, <4>2 DEF OneCallAtATime, FromOverlay
    <3>3. QED
      BY <3>1, <3>2
  <2>3. CASE UNCHANGED <<overlay, overtaken>>
    BY <1>1, <2>1, <2>3
  <2>4. QED
    BY <1>7, <2>2, <2>3 DEF J!CheckDone
<1>8. CASE J!PressAccept
  <2>1. overlay'.handled /\ overlay'.offer = overlay.offer
    BY <1>8 DEF J!PressAccept, OfferTyped, Overlay
  <2>2. QED
    BY <1>8, <2>1, OneIsFirst DEF J!PressAccept, J!OverlayUp
<1>9. CASE J!PressDecline
  <2>1. overlay'.handled /\ overlay'.offer = overlay.offer
    BY <1>9 DEF J!PressDecline, OfferTyped, Overlay
  <2>2. QED
    BY <1>9, <2>1, OneIsFirst DEF J!PressDecline, J!OverlayUp
<1>10. CASE J!CountdownEnds
  <2>1. overlay'.handled /\ overlay'.offer = overlay.offer
        /\ shell /\ UNCHANGED <<shell, overtaken>>
    BY <1>10 DEF J!CountdownEnds, J!OverlayUp, OfferTyped, Overlay
  <2>2. CASE overlay.handled
    BY <1>10, <2>1, <2>2, OneKept DEF J!CountdownEnds
  <2>3. CASE ~overlay.handled
    BY <1>10, <2>1, <2>3, OneIsFirst DEF J!CountdownEnds
  <2>4. QED
    BY <2>2, <2>3
<1>11. CASE J!PressNext
  <2>1. page \in Orders /\ cached[page] \in J!Active
    BY <1>11 DEF J!PressNext, OfferTyped
  <2>2. /\ J!Call(J!NextStatus[cached[page]], page, "delivery") \in OfferCall
        /\ J!Call(J!NextStatus[cached[page]], page, "delivery").from # "overlay"
    BY <2>1, NextStates DEF J!Call, OfferCall
  <2>3. QED
    BY <1>11, <2>2, OneWithAnother DEF J!PressNext
<1>12. CASE J!BackToList \/ J!Refetch
  BY <1>1, <1>12 DEF J!BackToList, J!Refetch
<1>13. ASSUME NEW c \in calls, J!Handle(c) PROVE OneCallAtATime'
  <2>1. PICK at \in {"ok", "failed"} : calls' = (calls \ {c}) \cup {[c EXCEPT !.at = at]}
    BY <1>13 DEF J!Handle
  <2>2. c \in OfferCall
    BY DEF OfferTyped
  <2>3. /\ [c EXCEPT !.at = at].from = c.from /\ [c EXCEPT !.at = at].live = c.live
        /\ [c EXCEPT !.at = at].op = c.op /\ [c EXCEPT !.at = at].order = c.order
    BY <2>2 DEF OfferCall
  <2>4. \A d \in calls' : \/ d \in calls /\ d # c
                          \/ /\ d = [c EXCEPT !.at = at]
                             /\ d.from = c.from /\ d.live = c.live
                             /\ d.op = c.op /\ d.order = c.order
    BY <2>1, <2>3
  <2>5. UNCHANGED <<overlay, shell, overtaken>>
    BY <1>13 DEF J!Handle
  <2>6. QED
    BY <2>4, <2>5 DEF OneCallAtATime, FromOverlay, J!OverlayUp
<1>14. ASSUME NEW c \in calls, J!OverlayAnswer(c) PROVE OneCallAtATime'
  <2>1. calls' = calls \ {c} /\ UNCHANGED shell /\ c.from = "overlay"
    BY <1>14 DEF J!OverlayAnswer
  <2>2. CASE calls' = {}
    BY <2>1, <2>2, NoneInFlight
  <2>3. CASE calls' # {}
    <3>1. UNCHANGED overtaken
      BY <1>14, <2>3 DEF J!OverlayAnswer, J!Answered, OfferTyped
    <3>2. CASE ~(c.op # "decline" /\ c.at # "ok" /\ c.live)
      <4>1. overlay'.handled = overlay.handled /\ overlay'.offer \in {overlay.offer, NoOrder}
        BY <1>14, <3>2 DEF J!OverlayAnswer, J!Dismissed, J!NoOffer, OfferTyped, Overlay
      <4>2. QED
        BY <2>1, <3>1, <4>1, OneKept
    <3>3. CASE c.op # "decline" /\ c.at # "ok" /\ c.live
      <4>1. ~overtaken => \A d \in calls' : ~FromOverlay(d)
        BY <2>1, <3>3 DEF OneCallAtATime, FromOverlay
      <4>2. overlay'.offer = overlay.offer
        BY <1>14, <3>3 DEF J!OverlayAnswer, OfferTyped, Overlay
      <4>3. QED
        BY <2>1, <3>1, <4>1, <4>2 DEF OneCallAtATime, FromOverlay, J!OverlayUp
    <3>4. QED
      BY <3>2, <3>3
  <2>4. QED
    BY <2>2, <2>3
<1>15. ASSUME NEW c \in calls, J!ScreenAnswer(c) PROVE OneCallAtATime'
  <2>1. calls' = calls \ {c} /\ UNCHANGED <<shell, overlay>>
    BY <1>15 DEF J!ScreenAnswer
  <2>2. CASE calls' = {}
    BY <2>1, <2>2, NoneInFlight
  <2>3. CASE calls' # {}
    <3>1. UNCHANGED overtaken
      BY <1>15, <2>3 DEF J!ScreenAnswer, J!Answered, OfferTyped
    <3>2. QED
      BY <2>1, <3>1, OneKept
  <2>4. QED
    BY <2>2, <2>3
<1>16. CASE J!GateCloses
  <2>1. \A d \in OfferCall : ~[d EXCEPT !.live = FALSE].live
    BY DEF OfferCall
  <2>2. ~shell' /\ \A c \in calls' : ~c.live
    BY <1>16, <2>1 DEF J!GateCloses, OfferTyped
  <2>3. QED
    BY <2>2 DEF OneCallAtATime, FromOverlay, J!OverlayUp
<1>17. CASE J!GateOpens
  <2>1. shell' /\ \A c \in calls' : ~FromOverlay(c)
    BY <1>17 DEF J!GateOpens, OneCallAtATime, FromOverlay
  <2>2. overlay'.offer = overlay.offer
    BY <1>17 DEF J!GateOpens, J!FreshOffer, J!NoOffer
  <2>3. ~overtaken' /\ overlay'.offer # NoOrder =>
          \A c \in calls' : ~(c.op = "accept" /\ c.order = overlay'.offer)
    BY <1>17, <2>2 DEF J!GateOpens, J!ComesOver
  <2>4. QED
    BY <2>1, <2>2, <2>3 DEF OneCallAtATime, FromOverlay, J!OverlayUp
<1>18. QED
  BY <1>2, <1>3, <1>4, <1>5, <1>6, <1>7, <1>8, <1>9, <1>10, <1>11, <1>12, <1>13,
     <1>14, <1>15, <1>16, <1>17 DEF J!Next

-----------------------------------------------------------------------------
(* Theorems *)

LEMMA OfferInit ==
  ASSUME J!Init PROVE OfferInv
<1>1. OfferTyped
  BY DEF J!Init, J!NoOffer, OfferTyped, Overlay, J!ServerStates
<1>2. J!BlockedOverlayWaits
  BY DEF J!Init, J!NoOffer, J!BlockedOverlayWaits
<1>3. OneCallAtATime
  BY DEF J!Init, OneCallAtATime
<1>4. QED
  BY <1>1, <1>2, <1>3 DEF OfferInv

LEMMA OfferStays ==
  ASSUME OfferInv, UNCHANGED J!vars PROVE OfferInv'
<1>1. OfferTyped'
  BY DEF OfferInv, OfferTyped, J!vars
<1>2. J!BlockedOverlayWaits'
  BY BlockedKept DEF OfferInv, J!vars, InFlightStays, FromOverlay
<1>3. OneCallAtATime'
  BY OneKept DEF OfferInv, J!vars
<1>4. QED
  BY <1>1, <1>2, <1>3 DEF OfferInv

(* The types of the app's state, the calls the overlay waits for, and that *)
(* an offer that nothing came up over has one call at a time, hold in      *)
(* every state of the courier app.                                         *)
THEOREM OfferInvAlways == Spec => [](program = "JobOffers" => OfferInv)
<1> DEFINE I == program = "JobOffers" => OfferInv
<1>1. Init => I
  BY OfferInit DEF Init
<1>2. I /\ [Next]_vars => I'
  <2> SUFFICES ASSUME I, [Next]_vars, program' = "JobOffers" PROVE OfferInv'
    OBVIOUS
  <2>1. program = "JobOffers" /\ (J!Next \/ UNCHANGED J!vars)
    BY DEF Next, vars, J!vars, offerVars
  <2>2. CASE J!Next
    BY <2>1, <2>2, OfferTypedStep, BlockedStep, OneCallStep DEF OfferInv
  <2>3. CASE UNCHANGED J!vars
    BY <2>1, <2>3, OfferStays
  <2>4. QED
    BY <2>1, <2>2, <2>3
<1>3. QED
  BY <1>1, <1>2, PTL DEF Spec

(* The buttons of the overlay (job-request-overlay.tsx) are disabled only  *)
(* while the answer that enables them, or closes the overlay, is on its    *)
(* way: also when an offer replaced another, the countdown ended or the    *)
(* screens were mounted again.                                             *)
THEOREM BlockedOverlayWaitsAlways == Spec => []BlockedOverlayWaits
<1>1. (program = "JobOffers" => OfferInv) => BlockedOverlayWaits
  BY DEF OfferInv, BlockedOverlayWaits
<1>2. QED
  BY <1>1, OfferInvAlways, PTL

LEMMA DeclineStep ==
  ASSUME OfferTyped, OneCallAtATime, J!Next PROVE J!DeclineLeavesAccept
<1> SUFFICES ASSUME ~overtaken, NEW o \in Orders,
                    J!Call("decline", o, "overlay") \in calls' \ calls,
                    NEW c \in calls, c.op = "accept", c.order = o
             PROVE  FALSE
  BY DEF J!DeclineLeavesAccept, OfferTyped, OfferCall
<1> DEFINE sent == J!Call("decline", o, "overlay")
<1>1. sent.op = "decline" /\ sent.at = "sent" /\ sent.live /\ sent.from = "overlay"
      /\ sent.order = o
  BY DEF J!Call
<1>2. sent \in calls' /\ sent \notin calls
  OBVIOUS
<1> HIDE DEF sent
<1>3. ASSUME J!OverlayUp, overlay.offer = o, ~overlay.handled PROVE FALSE
  BY <1>3 DEF OneCallAtATime
<1>4. ASSUME NEW op, NEW p, NEW from, J!Send(J!Call(op, p, from)),
             op # "decline" \/ from # "overlay"
      PROVE  FALSE
  BY <1>1, <1>2, <1>4 DEF J!Send, J!Call
<1>5. ASSUME J!Send(J!Call("decline", overlay.offer, "overlay")) PROVE overlay.offer = o
  BY <1>1, <1>2, <1>5 DEF J!Send, J!Call
<1>6. CASE J!PressDecline
  BY <1>3, <1>5, <1>6 DEF J!PressDecline
<1>7. CASE J!CountdownEnds
  <2>1. ~overlay.handled
    BY <1>2, <1>7 DEF J!CountdownEnds
  <2>2. QED
    BY <1>3, <1>5, <1>7, <2>1 DEF J!CountdownEnds
<1>8. CASE J!PressAccept
  BY <1>4, <1>8 DEF J!PressAccept
<1>9. CASE J!PressNext
  <2>1. page \in Orders /\ cached[page] \in J!Active
    BY <1>9 DEF J!PressNext, OfferTyped
  <2>2. J!NextStatus[cached[page]] # "decline"
    BY <2>1, NextStates
  <2>3. QED
    BY <1>4, <1>9, <2>2 DEF J!PressNext
<1>10. ASSUME NEW p \in Orders, NEW op \in {"accept", "decline"}, J!PressInList(op, p)
       PROVE  FALSE
  BY <1>4, <1>10 DEF J!PressInList
<1>11. ASSUME NEW e \in calls, J!Handle(e) PROVE FALSE
  <2>1. \A at \in {"ok", "failed"} : [e EXCEPT !.at = at].at = at
    BY DEF OfferTyped, OfferCall
  <2>2. \A d \in calls' : d \in calls \/ d.at \in {"ok", "failed"}
    BY <1>11, <2>1 DEF J!Handle
  <2>3. QED
    BY <1>1, <1>2, <2>2
<1>12. CASE J!GateCloses
  <2>1. \A d \in calls' : ~d.live
    BY <1>12 DEF J!GateCloses, OfferTyped, OfferCall
  <2>2. QED
    BY <1>1, <1>2, <2>1
<1>13. ~(calls' \subseteq calls)
  BY <1>2
<1>14. QED
  BY <1>6, <1>7, <1>8, <1>9, <1>10, <1>11, <1>12, <1>13
  DEF J!Next, J!Offer, J!AssignedByOps, J!ChangedElsewhere, J!OpenDelivery, J!OpenNotice,
      J!DismissNotice, J!CheckRead, J!CheckDone, J!BackToList, J!Refetch, J!OverlayAnswer,
      J!ScreenAnswer, J!GateOpens

(* The overlay does not decline an order that is being accepted, wherever  *)
(* the accept was pressed (runAccept and runDecline of the overlay, the    *)
(* list of the dashboard), unless it came up over calls in flight that it  *)
(* knows nothing of and that are not answered yet.                         *)
THEOREM AcceptIsNotDeclinedAlways == Spec => AcceptIsNotDeclined
<1>1. (program = "JobOffers" => OfferInv) /\ [Next]_vars =>
        [program = "JobOffers" => J!DeclineLeavesAccept]_vars
  BY DeclineStep DEF Next, OfferInv
<1>2. QED
  BY <1>1, OfferInvAlways, PTL DEF Spec, AcceptIsNotDeclined

-----------------------------------------------------------------------------
(* Records of the tables *)

LEMMA ButtonFields ==
  ASSUME NEW from, NEW to, NEW roles, NEW flag, NEW waits
  PROVE  LET b == Button(from, to, roles, flag, waits) IN
         /\ b.from = from /\ b.to = to /\ b.roles = roles
         /\ b.flag = flag /\ b.waits = waits /\ ~b.dialog
         /\ InDialog(b).from = from /\ InDialog(b).to = to /\ InDialog(b).roles = roles
         /\ InDialog(b).flag = flag /\ InDialog(b).waits = waits /\ InDialog(b).dialog
BY DEF Button, InDialog

LEMMA EndpointFields ==
  ASSUME NEW roles, NEW from
  PROVE  Endpoint(roles, from).roles = roles /\ Endpoint(roles, from).from = from
BY DEF Endpoint

-----------------------------------------------------------------------------
(* The server's tables, merged: no name is in two of them *)

Holds(whole, part) == \A x \in DOMAIN part : x \in DOMAIN whole /\ whole[x] = part[x]

LEMMA HoldsFirst ==
  ASSUME NEW f, NEW g PROVE Holds(Merged(f, g), f)
BY DEF Merged, Holds

LEMMA HoldsRest ==
  ASSUME NEW f, NEW g, NEW h, Holds(g, h), \A x \in DOMAIN h : x \notin DOMAIN f
  PROVE  Holds(Merged(f, g), h)
BY DEF Merged, Holds

LEMMA EndpointNames ==
  /\ DOMAIN PayoutEndpoints = {"approvePayout", "rejectPayout", "payPayout"}
  /\ DOMAIN EarningEndpoints = {"markPaid"}
  /\ DOMAIN OrderEndpoints = {"setStatus", "cancelOrder", "bulkCancel", "assign"}
  /\ DOMAIN RegistrationEndpoints = {"approveRegistration", "rejectRegistration"}
  /\ DOMAIN DocumentEndpoints = {"approveDocument", "rejectDocument"}
  /\ DOMAIN CourierEndpoints = {"setOnline", "setOffline"}
  /\ DOMAIN CustomerEndpoints = {"saveCustomer", "saveCredit"}
  /\ DOMAIN FormEndpoints = {"postTransaction", "postDebit", "createUser", "createRule"}
  /\ DOMAIN RuleEndpoints = {"updateRule", "deleteRule"}
  /\ DOMAIN CourierAppEndpoints = {"requestPayout", "goOnline", "goOffline", "saveBank",
                                   "upload", "submitReview", "pickUp", "leave",
                                   "deliver"}
  /\ DOMAIN PublicEndpoints = {"rate", "registerCourier", "registerCustomer"}
BY DEF PayoutEndpoints, EarningEndpoints, OrderEndpoints, RegistrationEndpoints,
       DocumentEndpoints, CourierEndpoints, CustomerEndpoints, FormEndpoints,
       RuleEndpoints, CourierAppEndpoints, PublicEndpoints

(* What is merged, from the last table on *)
Merged10 == Merged(CourierAppEndpoints, PublicEndpoints)
Merged9 == Merged(RuleEndpoints, Merged10)
Merged8 == Merged(FormEndpoints, Merged9)
Merged7 == Merged(CustomerEndpoints, Merged8)
Merged6 == Merged(CourierEndpoints, Merged7)
Merged5 == Merged(DocumentEndpoints, Merged6)
Merged4 == Merged(RegistrationEndpoints, Merged5)
Merged3 == Merged(OrderEndpoints, Merged4)
Merged2 == Merged(EarningEndpoints, Merged3)

LEMMA EndpointParts ==
  /\ Holds(AllEndpoints, PayoutEndpoints)
  /\ Holds(AllEndpoints, EarningEndpoints)
  /\ Holds(AllEndpoints, OrderEndpoints)
  /\ Holds(AllEndpoints, RegistrationEndpoints)
  /\ Holds(AllEndpoints, DocumentEndpoints)
  /\ Holds(AllEndpoints, CourierEndpoints)
  /\ Holds(AllEndpoints, CustomerEndpoints)
  /\ Holds(AllEndpoints, FormEndpoints)
  /\ Holds(AllEndpoints, RuleEndpoints)
  /\ Holds(AllEndpoints, CourierAppEndpoints)
  /\ Holds(AllEndpoints, PublicEndpoints)
<1>1. /\ Holds(Merged10, CourierAppEndpoints)
      /\ Holds(Merged10, PublicEndpoints)
  <2>1. Holds(PublicEndpoints, PublicEndpoints)
    BY DEF Holds
  <2>2. QED
    BY <2>1, HoldsFirst, HoldsRest, EndpointNames DEF Merged10
<1>2. /\ Holds(Merged9, RuleEndpoints)
      /\ Holds(Merged9, CourierAppEndpoints)
      /\ Holds(Merged9, PublicEndpoints)
  BY <1>1, HoldsFirst, HoldsRest, EndpointNames DEF Merged9
<1>3. /\ Holds(Merged8, FormEndpoints)
      /\ Holds(Merged8, RuleEndpoints)
      /\ Holds(Merged8, CourierAppEndpoints)
      /\ Holds(Merged8, PublicEndpoints)
  BY <1>2, HoldsFirst, HoldsRest, EndpointNames DEF Merged8
<1>4. /\ Holds(Merged7, CustomerEndpoints)
      /\ Holds(Merged7, FormEndpoints)
      /\ Holds(Merged7, RuleEndpoints)
      /\ Holds(Merged7, CourierAppEndpoints)
      /\ Holds(Merged7, PublicEndpoints)
  BY <1>3, HoldsFirst, HoldsRest, EndpointNames DEF Merged7
<1>5. /\ Holds(Merged6, CourierEndpoints)
      /\ Holds(Merged6, CustomerEndpoints)
      /\ Holds(Merged6, FormEndpoints)
      /\ Holds(Merged6, RuleEndpoints)
      /\ Holds(Merged6, CourierAppEndpoints)
      /\ Holds(Merged6, PublicEndpoints)
  BY <1>4, HoldsFirst, HoldsRest, EndpointNames DEF Merged6
<1>6. /\ Holds(Merged5, DocumentEndpoints)
      /\ Holds(Merged5, CourierEndpoints)
      /\ Holds(Merged5, CustomerEndpoints)
      /\ Holds(Merged5, FormEndpoints)
      /\ Holds(Merged5, RuleEndpoints)
      /\ Holds(Merged5, CourierAppEndpoints)
      /\ Holds(Merged5, PublicEndpoints)
  BY <1>5, HoldsFirst, HoldsRest, EndpointNames DEF Merged5
<1>7. /\ Holds(Merged4, RegistrationEndpoints)
      /\ Holds(Merged4, DocumentEndpoints)
      /\ Holds(Merged4, CourierEndpoints)
      /\ Holds(Merged4, CustomerEndpoints)
      /\ Holds(Merged4, FormEndpoints)
      /\ Holds(Merged4, RuleEndpoints)
      /\ Holds(Merged4, CourierAppEndpoints)
      /\ Holds(Merged4, PublicEndpoints)
  BY <1>6, HoldsFirst, HoldsRest, EndpointNames DEF Merged4
<1>8. /\ Holds(Merged3, OrderEndpoints)
      /\ Holds(Merged3, RegistrationEndpoints)
      /\ Holds(Merged3, DocumentEndpoints)
      /\ Holds(Merged3, CourierEndpoints)
      /\ Holds(Merged3, CustomerEndpoints)
      /\ Holds(Merged3, FormEndpoints)
      /\ Holds(Merged3, RuleEndpoints)
      /\ Holds(Merged3, CourierAppEndpoints)
      /\ Holds(Merged3, PublicEndpoints)
  BY <1>7, HoldsFirst, HoldsRest, EndpointNames DEF Merged3
<1>9. /\ Holds(Merged2, EarningEndpoints)
      /\ Holds(Merged2, OrderEndpoints)
      /\ Holds(Merged2, RegistrationEndpoints)
      /\ Holds(Merged2, DocumentEndpoints)
      /\ Holds(Merged2, CourierEndpoints)
      /\ Holds(Merged2, CustomerEndpoints)
      /\ Holds(Merged2, FormEndpoints)
      /\ Holds(Merged2, RuleEndpoints)
      /\ Holds(Merged2, CourierAppEndpoints)
      /\ Holds(Merged2, PublicEndpoints)
  BY <1>8, HoldsFirst, HoldsRest, EndpointNames DEF Merged2
<1>10. /\ Holds(AllEndpoints, PayoutEndpoints)
       /\ Holds(AllEndpoints, EarningEndpoints)
       /\ Holds(AllEndpoints, OrderEndpoints)
       /\ Holds(AllEndpoints, RegistrationEndpoints)
       /\ Holds(AllEndpoints, DocumentEndpoints)
       /\ Holds(AllEndpoints, CourierEndpoints)
       /\ Holds(AllEndpoints, CustomerEndpoints)
       /\ Holds(AllEndpoints, FormEndpoints)
       /\ Holds(AllEndpoints, RuleEndpoints)
       /\ Holds(AllEndpoints, CourierAppEndpoints)
       /\ Holds(AllEndpoints, PublicEndpoints)
  <2>1. AllEndpoints = Merged(PayoutEndpoints, Merged2)
    BY DEF AllEndpoints, Merged2, Merged3, Merged4, Merged5, Merged6, Merged7, Merged8,
           Merged9, Merged10
  <2>2. QED
    BY <1>9, <2>1, HoldsFirst, HoldsRest, EndpointNames
<1>11. QED
  BY <1>10

LEMMA ListParts ==
  Holds(AllLists, MoneyLists) /\ Holds(AllLists, CourierLists) /\ Holds(AllLists, OtherLists)
<1>1. /\ DOMAIN MoneyLists = {"payouts", "earnings", "accounts", "transactions"}
      /\ DOMAIN CourierLists = {"couriers", "registrations"}
      /\ DOMAIN OtherLists = {"orders", "customers", "rules", "users", "reports", "none"}
  BY DEF MoneyLists, CourierLists, OtherLists
<1>2. Holds(OtherLists, OtherLists)
  BY DEF Holds
<1>3. /\ Holds(Merged(CourierLists, OtherLists), CourierLists)
      /\ Holds(Merged(CourierLists, OtherLists), OtherLists)
  BY <1>1, <1>2, HoldsFirst, HoldsRest
<1>4. QED
  BY <1>1, <1>3, HoldsFirst, HoldsRest DEF AllLists

-----------------------------------------------------------------------------
(* Buttons and endpoints *)

(* Whom a button is shown, and for what, the server lets do it, but for    *)
(* the two exceptions.                                                     *)
MayCall(buttons) ==
  \A op \in DOMAIN buttons :
    /\ buttons[op].roles \subseteq AllEndpoints[op].roles
    /\ op # "submitReview" =>
         buttons[op].from \subseteq AllEndpoints[op].from \cup {"UNAPPROVED"}

(* A row that is not shown has none, and the bulk action cancels. *)
Proper(buttons) ==
  /\ \A op \in DOMAIN buttons : "nothing" \notin buttons[op].from
  /\ "bulkCancel" \in DOMAIN buttons => "CANCELLED" \in buttons["bulkCancel"].to

(* They enter no filling of a form. *)
EntersNothing(buttons) == \A op \in DOMAIN buttons : "POSTED" \notin buttons[op].to

(* All of them wait for one flag, and open dialogs or do not. *)
OneFlag(buttons) ==
  /\ "bulkCancel" \notin DOMAIN buttons
  /\ \A op \in DOMAIN buttons : buttons[op].waits = "page" /\ buttons[op].flag # "none"
  /\ \A op, other \in DOMAIN buttons :
       buttons[op].flag = buttons[other].flag /\ buttons[op].dialog = buttons[other].dialog

LEMMA MergedButtons ==
  ASSUME NEW f, NEW g, MayCall(f), MayCall(g), Proper(f), Proper(g), EntersNothing(f),
         EntersNothing(g)
  PROVE  LET m == Merged(f, g) IN MayCall(m) /\ Proper(m) /\ EntersNothing(m)
BY DEF Merged, MayCall, Proper, EntersNothing

LEMMA OrdersRowFit == MayCall(OrdersRow) /\ Proper(OrdersRow) /\ EntersNothing(OrdersRow)
BY EndpointParts, EndpointNames, ButtonFields, EndpointFields
   DEF Holds, MayCall, Proper, EntersNothing, OrdersRow, canAssignCourier, OrderStatuses,
       OrderEndpoints, ADMIN, OM, OS

LEMMA OrderDrawerFit == MayCall(OrderDrawer) /\ Proper(OrderDrawer) /\ EntersNothing(OrderDrawer)
BY EndpointParts, EndpointNames, ButtonFields, EndpointFields
   DEF Holds, MayCall, Proper, EntersNothing, OrderDrawer, canAssignCourier,
       OrderEndpoints, OrderStatuses, ADMIN, OM, OS

LEMMA OrdersBulkFit == MayCall(OrdersBulk) /\ Proper(OrdersBulk) /\ EntersNothing(OrdersBulk)
BY EndpointParts, EndpointNames, ButtonFields, EndpointFields
   DEF Holds, MayCall, Proper, EntersNothing, OrdersBulk, OrdersRow, canAssignCourier,
       OrderStatuses, OrderEndpoints, ADMIN, OM, OS

LEMMA OrderDetailFit == MayCall(OrderDetail) /\ Proper(OrderDetail) /\ EntersNothing(OrderDetail)
BY EndpointParts, EndpointNames, ButtonFields, EndpointFields
   DEF Holds, MayCall, Proper, EntersNothing, OrderDetail, canAssignCourier,
       OrderStatuses, OrderEndpoints, ADMIN, OM, OS

LEMMA OperationsDeskFit == MayCall(OperationsDesk) /\ Proper(OperationsDesk) /\ EntersNothing(OperationsDesk)
BY EndpointParts, EndpointNames, ButtonFields, EndpointFields
   DEF Holds, MayCall, Proper, EntersNothing, OperationsDesk, canAssignCourier,
       OrderEndpoints, OrderStatuses, ADMIN, OM, OS

LEMMA CommandMapFit == MayCall(CommandMap) /\ Proper(CommandMap) /\ EntersNothing(CommandMap)
BY EndpointParts, EndpointNames, ButtonFields, EndpointFields
   DEF Holds, MayCall, Proper, EntersNothing, CommandMap, canAssignCourier,
       OrderEndpoints, OrderStatuses, ADMIN, OM, OS

LEMMA PayoutRequestsFit == MayCall(PayoutRequests) /\ Proper(PayoutRequests) /\ EntersNothing(PayoutRequests)
BY EndpointParts, EndpointNames, ButtonFields, EndpointFields
   DEF Holds, MayCall, Proper, EntersNothing, PayoutRequests, canMarkCourierPaid,
       PayoutEndpoints, ADMIN, ACC

LEMMA CourierEarningsFit == MayCall(CourierEarnings) /\ Proper(CourierEarnings) /\ EntersNothing(CourierEarnings)
BY EndpointParts, EndpointNames, ButtonFields, EndpointFields
   DEF Holds, MayCall, Proper, EntersNothing, CourierEarnings, canMarkCourierPaid,
       EarningEndpoints, ADMIN, ACC

LEMMA RegistrationsFit == MayCall(Registrations) /\ Proper(Registrations) /\ EntersNothing(Registrations)
BY EndpointParts, EndpointNames, ButtonFields, EndpointFields
   DEF Holds, MayCall, Proper, EntersNothing, Registrations, canViewCouriers,
       RegistrationEndpoints, ADMIN, OM, OS

LEMMA DocumentReviewFit == MayCall(DocumentReview) /\ Proper(DocumentReview) /\ EntersNothing(DocumentReview)
BY EndpointParts, EndpointNames, ButtonFields, EndpointFields
   DEF Holds, MayCall, Proper, EntersNothing, DocumentReview, canViewCouriers,
       DocumentEndpoints, ADMIN, OM, OS

LEMMA CourierListFit == MayCall(CourierList) /\ Proper(CourierList) /\ EntersNothing(CourierList)
BY EndpointParts, EndpointNames, ButtonFields, EndpointFields
   DEF Holds, MayCall, Proper, EntersNothing, CourierList, canViewCouriers,
       CourierEndpoints, ADMIN, OM, OS

LEMMA CourierDetailFit == MayCall(CourierDetail) /\ Proper(CourierDetail) /\ EntersNothing(CourierDetail)
BY EndpointParts, EndpointNames, ButtonFields, EndpointFields
   DEF Holds, MayCall, Proper, EntersNothing, CourierDetail, canViewCouriers,
       CourierEndpoints, ADMIN, OM, OS

LEMMA CustomerProfileFit == MayCall(CustomerProfile) /\ Proper(CustomerProfile) /\ EntersNothing(CustomerProfile)
BY EndpointParts, EndpointNames, ButtonFields, EndpointFields
   DEF Holds, MayCall, Proper, EntersNothing, CustomerProfile, canEditCustomerProfile,
       CustomerTypes, CustomerEndpoints, ADMIN, OM, ACC

LEMMA CreditFormFit == MayCall(CreditForm) /\ Proper(CreditForm) /\ EntersNothing(CreditForm)
BY EndpointParts, EndpointNames, ButtonFields, EndpointFields
   DEF Holds, MayCall, Proper, EntersNothing, CreditForm, canManageCustomerCredit,
       CustomerEndpoints, CustomerTypes, ADMIN, OM, ACC

LEMMA PricingRulesFit == MayCall(PricingRules) /\ Proper(PricingRules) /\ EntersNothing(PricingRules)
BY EndpointParts, EndpointNames, ButtonFields, EndpointFields
   DEF Holds, MayCall, Proper, EntersNothing, PricingRules, canManagePricingRules,
       canDeletePricingRules, RuleEndpoints, ADMIN, OM, ACC

LEMMA PayoutScreenFit == MayCall(PayoutScreen) /\ Proper(PayoutScreen) /\ EntersNothing(PayoutScreen)
BY EndpointParts, EndpointNames, ButtonFields, EndpointFields
   DEF Holds, MayCall, Proper, EntersNothing, PayoutScreen, courier, CourierAppEndpoints

LEMMA OnlineSwitchFit == MayCall(OnlineSwitch) /\ Proper(OnlineSwitch) /\ EntersNothing(OnlineSwitch)
BY EndpointParts, EndpointNames, ButtonFields, EndpointFields
   DEF Holds, MayCall, Proper, EntersNothing, OnlineSwitch, courier, CourierAppEndpoints

LEMMA BankFormFit == MayCall(BankForm) /\ Proper(BankForm) /\ EntersNothing(BankForm)
BY EndpointParts, EndpointNames, ButtonFields, EndpointFields
   DEF Holds, MayCall, Proper, EntersNothing, BankForm, courier, CourierAppEndpoints

LEMMA DocumentUploadFit == MayCall(DocumentUpload) /\ Proper(DocumentUpload) /\ EntersNothing(DocumentUpload)
BY EndpointParts, EndpointNames, ButtonFields, EndpointFields
   DEF Holds, MayCall, Proper, EntersNothing, DocumentUpload, courier,
       CourierAppEndpoints

LEMMA DeliveryStepsFit == MayCall(DeliverySteps) /\ Proper(DeliverySteps) /\ EntersNothing(DeliverySteps)
BY EndpointParts, EndpointNames, ButtonFields, EndpointFields
   DEF Holds, MayCall, Proper, EntersNothing, DeliverySteps, courier, CourierAppEndpoints

LEMMA RateCourierFit == MayCall(RateCourier) /\ Proper(RateCourier) /\ EntersNothing(RateCourier)
BY EndpointParts, EndpointNames, ButtonFields, EndpointFields
   DEF Holds, MayCall, Proper, EntersNothing, RateCourier, customer, PublicEndpoints

LEMMA CustomerTransactionFit == MayCall(CustomerTransaction) /\ Proper(CustomerTransaction) /\ OneFlag(CustomerTransaction)
BY EndpointParts, EndpointNames, ButtonFields, EndpointFields
   DEF Holds, MayCall, Proper, OneFlag, CustomerTransaction, canPostFinanceTransaction,
       FormEndpoints, ADMIN, OM, ACC

LEMMA AccountTransactionsFit == MayCall(AccountTransactions) /\ Proper(AccountTransactions) /\ OneFlag(AccountTransactions)
BY EndpointParts, EndpointNames, ButtonFields, EndpointFields
   DEF Holds, MayCall, Proper, OneFlag, AccountTransactions, canPostFinanceTransaction,
       FormEndpoints, ADMIN, OM, ACC

LEMMA AccountLedgerFit == MayCall(AccountLedger) /\ Proper(AccountLedger) /\ OneFlag(AccountLedger)
BY EndpointParts, EndpointNames, ButtonFields, EndpointFields
   DEF Holds, MayCall, Proper, OneFlag, AccountLedger, canPostFinanceTransaction,
       FormEndpoints, ADMIN, OM, ACC

LEMMA StaffUsersFit == MayCall(StaffUsers) /\ Proper(StaffUsers) /\ OneFlag(StaffUsers)
BY EndpointParts, EndpointNames, ButtonFields, EndpointFields
   DEF Holds, MayCall, Proper, OneFlag, StaffUsers, canCreateStaffUsers, FormEndpoints,
       ADMIN, OM, ACC

LEMMA PricingFormFit == MayCall(PricingForm) /\ Proper(PricingForm) /\ OneFlag(PricingForm)
BY EndpointParts, EndpointNames, ButtonFields, EndpointFields
   DEF Holds, MayCall, Proper, OneFlag, PricingForm, canManagePricingRules,
       FormEndpoints, ADMIN, OM, ACC

LEMMA CourierRegistrationFit == MayCall(CourierRegistration) /\ Proper(CourierRegistration) /\ OneFlag(CourierRegistration)
BY EndpointParts, EndpointNames, ButtonFields, EndpointFields
   DEF Holds, MayCall, Proper, OneFlag, CourierRegistration, anybody, PublicEndpoints

LEMMA CustomerRegistrationFit == MayCall(CustomerRegistration) /\ Proper(CustomerRegistration) /\ OneFlag(CustomerRegistration)
BY EndpointParts, EndpointNames, ButtonFields, EndpointFields
   DEF Holds, MayCall, Proper, OneFlag, CustomerRegistration, anybody, PublicEndpoints

LEMMA NoButtonsFit == MayCall(NoButtons) /\ Proper(NoButtons) /\ EntersNothing(NoButtons)
BY DEF NoButtons, MayCall, Proper, EntersNothing

-----------------------------------------------------------------------------
(* Pages and lists *)

(* Whom a list is loaded for, the server lets read it. *)
MayRead(loads) == \A l \in DOMAIN loads : loads[l] \subseteq AllLists[l]

PageFits(scr) ==
  /\ MayCall(scr.buttons) /\ Proper(scr.buttons) /\ MayRead(scr.loads)
  /\ scr.form \in {"none", "clears", "keeps"}
  /\ scr.form = "none" =>
       EntersNothing(scr.buttons) /\ \A step \in scr.others : step[2] # "POSTED"
  /\ scr.form = "clears" => OneFlag(scr.buttons)
  /\ \A s \in DOMAIN scr.partial : scr.partial[s] \in scr.lists
  /\ scr.after = "patch" =>
       \A op \in DOMAIN scr.buttons : scr.buttons[op].to \subseteq scr.lists

LEMMA NobodyReads == MayRead(Nobody)
BY ListParts DEF MayRead, Nobody

LEMMA OrdersPageFits == PageFits(OrdersPage)
<1>1. /\ OrdersPage.buttons = Merged(OrdersRow, OrderDrawer)
      /\ DOMAIN OrdersPage.partial = {}
      /\ OrdersPage.form = "none" /\ OrdersPage.after = "patch"
      /\ OrdersPage.others = {}
      /\ OrdersPage.lists = OrderStatuses
      /\ OrdersPage.loads = [orders |-> hasStaffAccess]
  BY DEF OrdersPage, Panel, Screen
<1>2. MayRead(OrdersPage.loads)
  BY <1>1, ListParts DEF Holds, MayRead, hasStaffAccess, OtherLists, ADMIN, OM, OS, ACC
<1>3. \A op \in DOMAIN OrdersPage.buttons : OrdersPage.buttons[op].to \subseteq OrdersPage.lists
  <2>1. /\ \A op \in DOMAIN OrdersRow : OrdersRow[op].to \subseteq OrdersPage.lists
        /\ \A op \in DOMAIN OrderDrawer : OrderDrawer[op].to \subseteq OrdersPage.lists
    BY <1>1, ButtonFields DEF OrdersRow, OrderDrawer, OrderStatuses, canAssignCourier
  <2>2. QED
    BY <1>1, <2>1 DEF Merged
<1>4. QED
  BY <1>1, <1>2, <1>3, OrdersRowFit, OrderDrawerFit, MergedButtons DEF PageFits

LEMMA OrdersBulkPageFits == PageFits(OrdersBulkPage)
<1>1. /\ OrdersBulkPage.buttons = OrdersBulk
      /\ DOMAIN OrdersBulkPage.partial = {}
      /\ OrdersBulkPage.form = "none" /\ OrdersBulkPage.after = "patch"
      /\ OrdersBulkPage.others = {}
      /\ OrdersBulkPage.lists = OrderStatuses
      /\ OrdersBulkPage.loads = [orders |-> hasStaffAccess]
  BY DEF OrdersBulkPage, Panel, Screen
<1>2. MayRead(OrdersBulkPage.loads)
  BY <1>1, ListParts DEF Holds, MayRead, hasStaffAccess, OtherLists, ADMIN, OM, OS, ACC
<1>3. \A op \in DOMAIN OrdersBulkPage.buttons : OrdersBulkPage.buttons[op].to \subseteq OrdersBulkPage.lists
  BY <1>1, ButtonFields DEF OrdersBulk, OrdersRow, OrderStatuses
<1>4. QED
  BY <1>1, <1>2, <1>3, OrdersBulkFit DEF PageFits

LEMMA OrderPageFits == PageFits(OrderPage)
<1>1. /\ OrderPage.buttons = OrderDetail
      /\ DOMAIN OrderPage.partial = {}
      /\ OrderPage.form = "none" /\ OrderPage.after = "patch"
      /\ OrderPage.others = {}
      /\ OrderPage.lists = OrderStatuses
      /\ OrderPage.loads = [orders |-> hasStaffAccess, couriers |-> canAssignCourier]
  BY DEF OrderPage, Panel, Screen
<1>2. MayRead(OrderPage.loads)
  BY <1>1, ListParts DEF Holds, MayRead, hasStaffAccess, canAssignCourier, CourierLists,
       OtherLists, ADMIN, OM, OS, ACC
<1>3. \A op \in DOMAIN OrderPage.buttons : OrderPage.buttons[op].to \subseteq OrderPage.lists
  BY <1>1, ButtonFields DEF OrderDetail, OrderStatuses
<1>4. QED
  BY <1>1, <1>2, <1>3, OrderDetailFit DEF PageFits

LEMMA OperationsPageFits == PageFits(OperationsPage)
<1>1. /\ OperationsPage.buttons = OperationsDesk
      /\ DOMAIN OperationsPage.partial = {}
      /\ OperationsPage.form = "none" /\ OperationsPage.after = "patch"
      /\ OperationsPage.others = {}
      /\ OperationsPage.lists = OrderStatuses
      /\ OperationsPage.loads = [orders |-> canViewCouriers, couriers |-> canViewCouriers]
  BY DEF OperationsPage, Panel, Screen
<1>2. MayRead(OperationsPage.loads)
  BY <1>1, ListParts DEF Holds, MayRead, canViewCouriers, CourierLists, OtherLists,
       ADMIN, OM, OS, ACC
<1>3. \A op \in DOMAIN OperationsPage.buttons : OperationsPage.buttons[op].to \subseteq OperationsPage.lists
  BY <1>1, ButtonFields DEF OperationsDesk, OrderStatuses
<1>4. QED
  BY <1>1, <1>2, <1>3, OperationsDeskFit DEF PageFits

LEMMA CommandMapPageFits == PageFits(CommandMapPage)
<1>1. /\ CommandMapPage.buttons = CommandMap
      /\ DOMAIN CommandMapPage.partial = {}
      /\ CommandMapPage.form = "none" /\ CommandMapPage.after = "load"
      /\ CommandMapPage.others = {}
      /\ CommandMapPage.loads = [orders |-> canViewCouriers, couriers |-> canViewCouriers]
  BY DEF CommandMapPage, Panel, Screen
<1>2. MayRead(CommandMapPage.loads)
  BY <1>1, ListParts DEF Holds, MayRead, canViewCouriers, CourierLists, OtherLists,
       ADMIN, OM, OS, ACC
<1>3. QED
  BY <1>1, <1>2, CommandMapFit DEF PageFits

LEMMA PayoutRequestsPageFits == PageFits(PayoutRequestsPage)
<1>1. /\ PayoutRequestsPage.buttons = PayoutRequests
      /\ DOMAIN PayoutRequestsPage.partial = {}
      /\ PayoutRequestsPage.form = "none" /\ PayoutRequestsPage.after = "load"
      /\ PayoutRequestsPage.others = {}
      /\ PayoutRequestsPage.loads = [payouts |-> canViewCourierEarnings]
  BY DEF PayoutRequestsPage, Panel, Screen
<1>2. MayRead(PayoutRequestsPage.loads)
  BY <1>1, ListParts DEF Holds, MayRead, canViewCourierEarnings, MoneyLists, ADMIN, OM,
       OS, ACC
<1>3. QED
  BY <1>1, <1>2, PayoutRequestsFit DEF PageFits

LEMMA CourierEarningsPageFits == PageFits(CourierEarningsPage)
<1>1. /\ CourierEarningsPage.buttons = CourierEarnings
      /\ DOMAIN CourierEarningsPage.partial = {}
      /\ CourierEarningsPage.form = "none" /\ CourierEarningsPage.after = "load"
      /\ CourierEarningsPage.others = {}
      /\ CourierEarningsPage.loads = [earnings |-> canViewCourierEarnings]
  BY DEF CourierEarningsPage, Panel, Screen
<1>2. MayRead(CourierEarningsPage.loads)
  BY <1>1, ListParts DEF Holds, MayRead, canViewCourierEarnings, MoneyLists, ADMIN, OM,
       OS, ACC
<1>3. QED
  BY <1>1, <1>2, CourierEarningsFit DEF PageFits

LEMMA RegistrationsPageFits == PageFits(RegistrationsPage)
<1>1. /\ RegistrationsPage.buttons = Registrations
      /\ DOMAIN RegistrationsPage.partial = {}
      /\ RegistrationsPage.form = "none" /\ RegistrationsPage.after = "load"
      /\ RegistrationsPage.others = {}
      /\ RegistrationsPage.loads = [registrations |-> canViewCouriers]
  BY DEF RegistrationsPage, Panel, Screen
<1>2. MayRead(RegistrationsPage.loads)
  BY <1>1, ListParts DEF Holds, MayRead, canViewCouriers, CourierLists, ADMIN, OM, OS,
       ACC
<1>3. QED
  BY <1>1, <1>2, RegistrationsFit DEF PageFits

LEMMA DocumentReviewPageFits == PageFits(DocumentReviewPage)
<1>1. /\ DocumentReviewPage.buttons = DocumentReview
      /\ DOMAIN DocumentReviewPage.partial = {}
      /\ DocumentReviewPage.form = "none" /\ DocumentReviewPage.after = "load"
      /\ \A step \in DocumentReviewPage.others : step[2] # "POSTED"
      /\ DocumentReviewPage.loads = [registrations |-> canViewCouriers]
  BY DEF DocumentReviewPage, WithOthers, Panel, Screen
<1>2. MayRead(DocumentReviewPage.loads)
  BY <1>1, ListParts DEF Holds, MayRead, canViewCouriers, CourierLists, ADMIN, OM, OS,
       ACC
<1>3. QED
  BY <1>1, <1>2, DocumentReviewFit DEF PageFits

LEMMA CouriersPageFits == PageFits(CouriersPage)
<1>1. /\ CouriersPage.buttons = CourierList
      /\ DOMAIN CouriersPage.partial = {}
      /\ CouriersPage.form = "none" /\ CouriersPage.after = "patch"
      /\ CouriersPage.others = {}
      /\ CouriersPage.lists = OnlineStatuses
      /\ CouriersPage.loads = [couriers |-> canViewCouriers]
  BY DEF CouriersPage, Panel, Screen
<1>2. MayRead(CouriersPage.loads)
  BY <1>1, ListParts DEF Holds, MayRead, canViewCouriers, CourierLists, ADMIN, OM, OS,
       ACC
<1>3. \A op \in DOMAIN CouriersPage.buttons : CouriersPage.buttons[op].to \subseteq CouriersPage.lists
  BY <1>1, ButtonFields DEF CourierList, OnlineStatuses
<1>4. QED
  BY <1>1, <1>2, <1>3, CourierListFit DEF PageFits

LEMMA CourierPageFits == PageFits(CourierPage)
<1>1. /\ CourierPage.buttons = CourierDetail
      /\ DOMAIN CourierPage.partial = {}
      /\ CourierPage.form = "none" /\ CourierPage.after = "load"
      /\ CourierPage.others = {}
      /\ CourierPage.loads = [couriers |-> canViewCouriers]
  BY DEF CourierPage, Panel, Screen
<1>2. MayRead(CourierPage.loads)
  BY <1>1, ListParts DEF Holds, MayRead, canViewCouriers, CourierLists, ADMIN, OM, OS,
       ACC
<1>3. QED
  BY <1>1, <1>2, CourierDetailFit DEF PageFits

LEMMA CustomerPageFits == PageFits(CustomerPage)
<1>1. /\ CustomerPage.buttons = Merged(CustomerProfile, CreditForm)
      /\ DOMAIN CustomerPage.partial = {}
      /\ CustomerPage.form = "none" /\ CustomerPage.after = "patch"
      /\ CustomerPage.others = {}
      /\ CustomerPage.lists = CustomerTypes
      /\ CustomerPage.loads = CustomerLoads
  BY DEF CustomerPage, Panel, Screen
<1>2. MayRead(CustomerPage.loads)
  BY <1>1, ListParts DEF Holds, MayRead, CustomerLoads, canViewCustomers, canViewFinance,
       MoneyLists, OtherLists, ADMIN, OM, OS, ACC
<1>3. \A op \in DOMAIN CustomerPage.buttons : CustomerPage.buttons[op].to \subseteq CustomerPage.lists
  <2>1. /\ \A op \in DOMAIN CustomerProfile : CustomerProfile[op].to \subseteq CustomerPage.lists
        /\ \A op \in DOMAIN CreditForm : CreditForm[op].to \subseteq CustomerPage.lists
    BY <1>1, ButtonFields DEF CustomerProfile, CreditForm, CustomerTypes
  <2>2. QED
    BY <1>1, <2>1 DEF Merged
<1>4. QED
  BY <1>1, <1>2, <1>3, CustomerProfileFit, CreditFormFit, MergedButtons DEF PageFits

LEMMA CustomerTransactionPageFits == PageFits(CustomerTransactionPage)
<1>1. /\ CustomerTransactionPage.buttons = CustomerTransaction
      /\ DOMAIN CustomerTransactionPage.partial = {}
      /\ CustomerTransactionPage.form = "clears" /\ CustomerTransactionPage.after = "load"
      /\ CustomerTransactionPage.others = {}
      /\ CustomerTransactionPage.loads = CustomerLoads
  BY DEF CustomerTransactionPage, WithFields, Panel, Screen
<1>2. MayRead(CustomerTransactionPage.loads)
  BY <1>1, ListParts DEF Holds, MayRead, CustomerLoads, canViewCustomers, canViewFinance,
       MoneyLists, OtherLists, ADMIN, OM, OS, ACC
<1>3. QED
  BY <1>1, <1>2, CustomerTransactionFit DEF PageFits

LEMMA AccountsPageFits == PageFits(AccountsPage)
<1>1. /\ AccountsPage.buttons = AccountTransactions
      /\ DOMAIN AccountsPage.partial = {}
      /\ AccountsPage.form = "clears" /\ AccountsPage.after = "load"
      /\ AccountsPage.others = {}
      /\ AccountsPage.loads = [accounts |-> canViewFinance]
  BY DEF AccountsPage, WithFields, Panel, Screen
<1>2. MayRead(AccountsPage.loads)
  BY <1>1, ListParts DEF Holds, MayRead, canViewFinance, MoneyLists, ADMIN, OM, OS, ACC
<1>3. QED
  BY <1>1, <1>2, AccountTransactionsFit DEF PageFits

LEMMA AccountPageFits == PageFits(AccountPage)
<1>1. /\ AccountPage.buttons = AccountLedger
      /\ DOMAIN AccountPage.partial = {}
      /\ AccountPage.form = "clears" /\ AccountPage.after = "load"
      /\ AccountPage.others = {}
      /\ AccountPage.loads = [accounts |-> canViewFinance, transactions |-> canViewFinance]
  BY DEF AccountPage, WithFields, Panel, Screen
<1>2. MayRead(AccountPage.loads)
  BY <1>1, ListParts DEF Holds, MayRead, canViewFinance, MoneyLists, ADMIN, OM, OS, ACC
<1>3. QED
  BY <1>1, <1>2, AccountLedgerFit DEF PageFits

LEMMA UsersPageFits == PageFits(UsersPage)
<1>1. /\ UsersPage.buttons = StaffUsers
      /\ DOMAIN UsersPage.partial = {}
      /\ UsersPage.form = "clears" /\ UsersPage.after = "load"
      /\ UsersPage.others = {}
      /\ UsersPage.loads = [users |-> canViewUsers]
  BY DEF UsersPage, WithFields, Panel, Screen
<1>2. MayRead(UsersPage.loads)
  BY <1>1, ListParts DEF Holds, MayRead, canViewUsers, OtherLists, ADMIN, OM, OS, ACC
<1>3. QED
  BY <1>1, <1>2, StaffUsersFit DEF PageFits

LEMMA PricingRulesPageFits == PageFits(PricingRulesPage)
<1>1. /\ PricingRulesPage.buttons = PricingRules
      /\ DOMAIN PricingRulesPage.partial = {}
      /\ PricingRulesPage.form = "none" /\ PricingRulesPage.after = "load"
      /\ PricingRulesPage.others = {}
      /\ PricingRulesPage.loads = PricingLoads
  BY DEF PricingRulesPage, Panel, Screen
<1>2. MayRead(PricingRulesPage.loads)
  BY <1>1, ListParts DEF Holds, MayRead, PricingLoads, canViewCustomers, OtherLists,
       ADMIN, OM, OS, ACC
<1>3. QED
  BY <1>1, <1>2, PricingRulesFit DEF PageFits

LEMMA PricingFormPageFits == PageFits(PricingFormPage)
<1>1. /\ PricingFormPage.buttons = PricingForm
      /\ DOMAIN PricingFormPage.partial = {}
      /\ PricingFormPage.form = "keeps" /\ PricingFormPage.after = "load"
      /\ PricingFormPage.others = {}
      /\ PricingFormPage.loads = PricingLoads
  BY DEF PricingFormPage, WithFields, Panel, Screen
<1>2. MayRead(PricingFormPage.loads)
  BY <1>1, ListParts DEF Holds, MayRead, PricingLoads, canViewCustomers, OtherLists,
       ADMIN, OM, OS, ACC
<1>3. QED
  BY <1>1, <1>2, PricingFormFit DEF PageFits

LEMMA DashboardPageFits == PageFits(DashboardPage)
<1>1. /\ DashboardPage.buttons = NoButtons
      /\ DOMAIN DashboardPage.partial = {}
      /\ DashboardPage.form = "none" /\ DashboardPage.after = "load"
      /\ \A step \in DashboardPage.others : step[2] # "POSTED"
      /\ DashboardPage.loads = [orders |-> hasStaffAccess, couriers |-> canViewCouriers]
  BY DEF DashboardPage, WithOthers, Show, Panel, Screen, OrderMoves
<1>2. MayRead(DashboardPage.loads)
  BY <1>1, ListParts DEF Holds, MayRead, hasStaffAccess, canViewCouriers, CourierLists,
       OtherLists, ADMIN, OM, OS, ACC
<1>3. QED
  BY <1>1, <1>2, NoButtonsFit DEF PageFits

LEMMA CustomersPageFits == PageFits(CustomersPage)
<1>1. /\ CustomersPage.buttons = NoButtons
      /\ DOMAIN CustomersPage.partial = {}
      /\ CustomersPage.form = "none" /\ CustomersPage.after = "load"
      /\ \A step \in CustomersPage.others : step[2] # "POSTED"
      /\ CustomersPage.loads = [customers |-> canViewCustomers,
                                orders |-> canViewCustomers,
                                transactions |-> canViewFinance]
  BY DEF CustomersPage, WithOthers, Show, Panel, Screen, OrderMoves
<1>2. MayRead(CustomersPage.loads)
  BY <1>1, ListParts DEF Holds, MayRead, canViewCustomers, canViewFinance, MoneyLists,
       OtherLists, ADMIN, OM, OS, ACC
<1>3. QED
  BY <1>1, <1>2, NoButtonsFit DEF PageFits

LEMMA AwaitingDocumentsPageFits == PageFits(AwaitingDocumentsPage)
<1>1. /\ AwaitingDocumentsPage.buttons = NoButtons
      /\ DOMAIN AwaitingDocumentsPage.partial = {}
      /\ AwaitingDocumentsPage.form = "none" /\ AwaitingDocumentsPage.after = "load"
      /\ \A step \in AwaitingDocumentsPage.others : step[2] # "POSTED"
      /\ AwaitingDocumentsPage.loads = [registrations |-> canViewCouriers]
  BY DEF AwaitingDocumentsPage, WithOthers, Show, Panel, Screen
<1>2. MayRead(AwaitingDocumentsPage.loads)
  BY <1>1, ListParts DEF Holds, MayRead, canViewCouriers, CourierLists, ADMIN, OM, OS,
       ACC
<1>3. QED
  BY <1>1, <1>2, NoButtonsFit DEF PageFits

LEMMA TransactionsPageFits == PageFits(TransactionsPage)
<1>1. /\ TransactionsPage.buttons = NoButtons
      /\ DOMAIN TransactionsPage.partial = {}
      /\ TransactionsPage.form = "none" /\ TransactionsPage.after = "load"
      /\ TransactionsPage.others = {}
      /\ TransactionsPage.loads = [transactions |-> canViewFinance]
  BY DEF TransactionsPage, Show, Panel, Screen
<1>2. MayRead(TransactionsPage.loads)
  BY <1>1, ListParts DEF Holds, MayRead, canViewFinance, MoneyLists, ADMIN, OM, OS, ACC
<1>3. QED
  BY <1>1, <1>2, NoButtonsFit DEF PageFits

LEMMA EarningPageFits == PageFits(EarningPage)
<1>1. /\ EarningPage.buttons = NoButtons
      /\ DOMAIN EarningPage.partial = {}
      /\ EarningPage.form = "none" /\ EarningPage.after = "load"
      /\ \A step \in EarningPage.others : step[2] # "POSTED"
      /\ EarningPage.loads = [earnings |-> canViewCourierEarnings]
  BY DEF EarningPage, WithOthers, Show, Panel, Screen
<1>2. MayRead(EarningPage.loads)
  BY <1>1, ListParts DEF Holds, MayRead, canViewCourierEarnings, MoneyLists, ADMIN, OM,
       OS, ACC
<1>3. QED
  BY <1>1, <1>2, NoButtonsFit DEF PageFits

LEMMA ReportsPageFits == PageFits(ReportsPage)
<1>1. /\ ReportsPage.buttons = NoButtons
      /\ DOMAIN ReportsPage.partial = {}
      /\ ReportsPage.form = "none" /\ ReportsPage.after = "load"
      /\ ReportsPage.others = {}
      /\ ReportsPage.loads = [reports |-> canViewReports]
  BY DEF ReportsPage, Show, Panel, Screen
<1>2. MayRead(ReportsPage.loads)
  BY <1>1, ListParts DEF Holds, MayRead, canViewReports, OtherLists, ADMIN, OM, OS, ACC
<1>3. QED
  BY <1>1, <1>2, NoButtonsFit DEF PageFits

LEMMA EarningsTabFits == PageFits(EarningsTab)
<1>1. /\ EarningsTab.buttons = PayoutScreen
      /\ \A s \in DOMAIN EarningsTab.partial : EarningsTab.partial[s] \in EarningsTab.lists
      /\ EarningsTab.form = "none" /\ EarningsTab.after = "invalidate"
      /\ \A step \in EarningsTab.others : step[2] # "POSTED"
      /\ EarningsTab.loads = Nobody
  BY DEF EarningsTab, WithOthers, Screen
<1>2. MayRead(EarningsTab.loads)
  BY <1>1, NobodyReads
<1>3. QED
  BY <1>1, <1>2, PayoutScreenFit DEF PageFits

LEMMA OnlineTabFits == PageFits(OnlineTab)
<1>1. /\ OnlineTab.buttons = OnlineSwitch
      /\ DOMAIN OnlineTab.partial = {}
      /\ OnlineTab.form = "none" /\ OnlineTab.after = "invalidate"
      /\ OnlineTab.others = {}
      /\ OnlineTab.loads = Nobody
  BY DEF OnlineTab, Screen
<1>2. MayRead(OnlineTab.loads)
  BY <1>1, NobodyReads
<1>3. QED
  BY <1>1, <1>2, OnlineSwitchFit DEF PageFits

LEMMA BankTabFits == PageFits(BankTab)
<1>1. /\ BankTab.buttons = BankForm
      /\ DOMAIN BankTab.partial = {}
      /\ BankTab.form = "none" /\ BankTab.after = "invalidate"
      /\ BankTab.others = {}
      /\ BankTab.loads = Nobody
  BY DEF BankTab, Screen
<1>2. MayRead(BankTab.loads)
  BY <1>1, NobodyReads
<1>3. QED
  BY <1>1, <1>2, BankFormFit DEF PageFits

LEMMA DocumentsFlowFits == PageFits(DocumentsFlow)
<1>1. /\ DocumentsFlow.buttons = DocumentUpload
      /\ DOMAIN DocumentsFlow.partial = {}
      /\ DocumentsFlow.form = "none" /\ DocumentsFlow.after = "invalidate"
      /\ \A step \in DocumentsFlow.others : step[2] # "POSTED"
      /\ DocumentsFlow.loads = Nobody
  BY DEF DocumentsFlow, WithOthers, Screen
<1>2. MayRead(DocumentsFlow.loads)
  BY <1>1, NobodyReads
<1>3. QED
  BY <1>1, <1>2, DocumentUploadFit DEF PageFits

LEMMA DeliveryCardFits == PageFits(DeliveryCard)
<1>1. /\ DeliveryCard.buttons = DeliverySteps
      /\ DOMAIN DeliveryCard.partial = {}
      /\ DeliveryCard.form = "none" /\ DeliveryCard.after = "invalidate"
      /\ \A step \in DeliveryCard.others : step[2] # "POSTED"
      /\ DeliveryCard.loads = Nobody
  BY DEF DeliveryCard, WithOthers, Screen
<1>2. MayRead(DeliveryCard.loads)
  BY <1>1, NobodyReads
<1>3. QED
  BY <1>1, <1>2, DeliveryStepsFit DEF PageFits

LEMMA HistoryTabFits == PageFits(HistoryTab)
<1>1. /\ HistoryTab.buttons = RateCourier
      /\ DOMAIN HistoryTab.partial = {}
      /\ HistoryTab.form = "none" /\ HistoryTab.after = "invalidate"
      /\ \A step \in HistoryTab.others : step[2] # "POSTED"
      /\ HistoryTab.loads = Nobody
  BY DEF HistoryTab, WithOthers, Screen
<1>2. MayRead(HistoryTab.loads)
  BY <1>1, NobodyReads
<1>3. QED
  BY <1>1, <1>2, RateCourierFit DEF PageFits

LEMMA CourierRegisterFits == PageFits(CourierRegister)
<1>1. /\ CourierRegister.buttons = CourierRegistration
      /\ DOMAIN CourierRegister.partial = {}
      /\ CourierRegister.form = "clears" /\ CourierRegister.after = "leave"
      /\ CourierRegister.others = {}
      /\ CourierRegister.loads = Nobody
  BY DEF CourierRegister, WithFields, Screen
<1>2. MayRead(CourierRegister.loads)
  BY <1>1, NobodyReads
<1>3. QED
  BY <1>1, <1>2, CourierRegistrationFit DEF PageFits

LEMMA CustomerRegisterFits == PageFits(CustomerRegister)
<1>1. /\ CustomerRegister.buttons = CustomerRegistration
      /\ DOMAIN CustomerRegister.partial = {}
      /\ CustomerRegister.form = "clears" /\ CustomerRegister.after = "leave"
      /\ CustomerRegister.others = {}
      /\ CustomerRegister.loads = Nobody
  BY DEF CustomerRegister, WithFields, Screen
<1>2. MayRead(CustomerRegister.loads)
  BY <1>1, NobodyReads
<1>3. QED
  BY <1>1, <1>2, CustomerRegistrationFit DEF PageFits

(* Screens and controllers keep their roles and statuses in two programs:  *)
(* they agree.                                                             *)
LEMMA PagesFit == \A p \in DOMAIN AllScreens : PageFits(AllScreens[p])
<1>1. \A p \in DOMAIN PanelPages : PageFits(PanelPages[p])
  BY OrdersPageFits, OrdersBulkPageFits, OrderPageFits, OperationsPageFits,
     CommandMapPageFits, PayoutRequestsPageFits, CourierEarningsPageFits,
     EarningPageFits, RegistrationsPageFits, DocumentReviewPageFits,
     AwaitingDocumentsPageFits, CouriersPageFits, CourierPageFits, CustomersPageFits,
     CustomerPageFits, CustomerTransactionPageFits, AccountsPageFits, AccountPageFits,
     TransactionsPageFits, UsersPageFits, PricingRulesPageFits, PricingFormPageFits,
     DashboardPageFits, ReportsPageFits
     DEF PanelPages
<1>2. \A p \in DOMAIN AppScreens : PageFits(AppScreens[p])
  BY EarningsTabFits, OnlineTabFits, BankTabFits, DocumentsFlowFits, DeliveryCardFits,
     HistoryTabFits, CourierRegisterFits, CustomerRegisterFits
     DEF AppScreens
<1>3. QED
  BY <1>1, <1>2 DEF AllScreens, Merged

-----------------------------------------------------------------------------
(* The inductive invariant *)

Ops == DOMAIN S!Here.buttons
ShownStatuses == S!Here.lists \cup {"nothing"}
Dialog == [op : Ops, row : Rows, seen : S!Here.lists]

(* A call that was offered: the button of op, to this user, for a row in   *)
(* this status.                                                            *)
OfferedTo(op, seen) ==
  /\ op \in Ops
  /\ role \in S!Here.buttons[op].roles
  /\ seen \in S!Here.buttons[op].from

(* A request that may be: for what was offered, and refused only because   *)
(* the row had changed or for one of the two exceptions.                   *)
RequestFits(q) ==
  /\ q.at = "sent" => OfferedTo(q.op, q.seen)
  /\ q.at \in {"sent", "ok"} => q.to \in S!Here.buttons[q.op].to
  /\ q.at # "forbidden"
  /\ q.at = "refused" => q.found # q.seen \/ q.seen = "UNAPPROVED" \/ q.op = "submitReview"

CallsAreOffered ==
  /\ \A i \in S!Ids : RequestFits(requests[i])
  /\ dialog # S!NoDialog => OfferedTo(dialog.op, dialog.seen)
  /\ \A b \in bulk : OfferedTo("bulkCancel", b.seen)

(* The request of a button, until the flag it raised is lowered            *)
Pending(q) ==
  \/ q.at \in {"sent", "ok", "failed", "forbidden", "refused"}
  \/ q.at \in {"loading", "read"} /\ q.op # "load"

(* Where there is no form nothing is entered.  On a form that is cleared   *)
(* one button at a time is pressed, the flag is up meanwhile, no dialog is *)
(* open for a filling that is spent, and one that is not spent has not     *)
(* been entered, but for the request whose answer clears it.               *)
NothingEntered == \A r \in Rows : posts[r] = 0

OneAtATime ==
  \A i \in S!Ids : Pending(requests[i]) =>
    /\ \A j \in S!Ids : Pending(requests[j]) => i = j
    /\ \A op \in Ops : busy[S!Here.buttons[op].flag] # NoRow

DialogIsFresh ==
  dialog # S!NoDialog => dialog.row \notin spent /\ S!Here.buttons[dialog.op].dialog

EnteredIsSpent ==
  \A r \in Rows :
    /\ posts[r] <= 1
    /\ posts[r] = 1 => r \in spent \/ \E i \in S!Ids : requests[i].at = "ok" /\ requests[i].row = r
    /\ posts[r] = 1 => \A i \in S!Ids : ~(requests[i].at = "sent" /\ requests[i].row = r)

EnteredOnce ==
  /\ S!Here.form = "none" => NothingEntered
  /\ S!Here.form = "clears" => OneAtATime /\ DialogIsFresh /\ (~lost => EnteredIsSpent)

ScreenInv == S!TypeOK /\ CallsAreOffered /\ EnteredOnce

-----------------------------------------------------------------------------
(* Types *)

LEMMA Stays ==
  ASSUME UNCHANGED page
  PROVE  /\ S!Here' = S!Here /\ S!Known' = S!Known /\ S!Request' = S!Request
         /\ S!Flags' = S!Flags /\ Ops' = Ops /\ Dialog' = Dialog
BY DEF S!Here, S!Known, S!Request, S!Flags, Ops, Dialog

LEMMA LoadKinds ==
  ASSUME NEW op \in Ops \cup {"load"}, NEW list \in [Rows -> ShownStatuses]
  PROVE  /\ S!Idle \in S!Request /\ S!Loading(op) \in S!Request
         /\ [at |-> "read", op |-> op, row |-> NoRow, list |-> list] \in S!Request
BY DEF S!Request, Ops, S!Idle, S!Loading, ShownStatuses

LEMMA RequestParts ==
  ASSUME NEW q \in S!Request
  PROVE  /\ q.at \in {"idle", "loading", "read", "sent", "ok", "failed", "forbidden",
                      "refused"}
         /\ q.at = "idle" => q = S!Idle
         /\ q.at = "sent" => q.to \in S!Known /\ q.seen \in S!Here.lists
         /\ q.at = "ok" => q.to \in S!Known
         /\ q.at \in {"sent", "ok", "failed", "forbidden", "refused"} =>
              q.op \in Ops /\ q.row \in Rows
         /\ q.at \in {"loading", "read"} => q.op \in Ops \cup {"load"}
         /\ q.at = "read" => q.list \in [Rows -> ShownStatuses]
BY DEF S!Request, Ops, S!Idle, ShownStatuses

LEMMA HereFits == ASSUME S!TypeOK PROVE PageFits(S!Here)
BY PagesFit DEF S!TypeOK, S!Here

LEMMA Put ==
  ASSUME S!TypeOK, NEW i \in S!Ids, NEW q \in S!Request, requests' = [requests EXCEPT ![i] = q]
  PROVE  /\ requests' \in [S!Ids -> S!Request]
         /\ requests'[i] = q
         /\ \A j \in S!Ids : j # i => requests'[j] = requests[j]
BY DEF S!TypeOK

LEMMA ToIsKnown ==
  ASSUME NEW op \in Ops, NEW to \in S!Here.buttons[op].to PROVE to \in S!Known
BY DEF Ops, S!Known

LEMMA VisibleIsShown ==
  ASSUME S!TypeOK, NEW op \in Ops, NEW r \in Rows, S!Visible(op, r)
  PROVE  shown[r] \in S!Here.lists /\ OfferedTo(op, shown[r]) /\ r \notin spent
<1>1. shown[r] \in S!Here.buttons[op].from /\ shown[r] \in ShownStatuses
  BY DEF S!Visible, S!TypeOK, ShownStatuses
<1>2. shown[r] # "nothing"
  BY <1>1, HereFits DEF PageFits, Proper, Ops
<1>3. QED
  BY <1>1, <1>2 DEF S!Visible, OfferedTo, ShownStatuses

(* A call is a request more. *)
LEMMA CallPuts ==
  ASSUME S!TypeOK, NEW op \in Ops, NEW r \in Rows, NEW to \in S!Known, NEW seen \in S!Here.lists,
         S!Call(op, r, to, seen)
  PROVE  \E i \in S!Ids :
           LET q == [at |-> "sent", op |-> op, row |-> r, to |-> to, seen |-> seen] IN
           /\ requests[i] = S!Idle
           /\ requests' \in [S!Ids -> S!Request]
           /\ requests'[i] = q
           /\ \A j \in S!Ids : j # i => requests'[j] = requests[j]
<1> DEFINE q == [at |-> "sent", op |-> op, row |-> r, to |-> to, seen |-> seen]
<1>1. PICK i \in S!Ids : requests[i] = S!Idle /\ requests' = [requests EXCEPT ![i] = q]
  BY DEF S!Call
<1>2. ShownStatuses # {} /\ q \in S!Request
  BY DEF S!Request, Ops, ShownStatuses
<1>3. QED
  BY <1>1, <1>2, Put

LEMMA RaiseTyped ==
  ASSUME S!TypeOK, NEW op \in Ops, NEW r \in Rows, S!Raise(op, r)
  PROVE  busy' \in [S!Flags -> Rows \cup {NoRow}]
BY DEF S!Raise, S!TypeOK

LEMMA LowerTyped ==
  ASSUME S!TypeOK, NEW q, NEW failing \in BOOLEAN, S!Lower(q, failing)
  PROVE  /\ busy' \in [S!Flags -> Rows \cup {NoRow}]
         /\ bulk' \subseteq bulk
BY DEF S!Lower, S!TypeOK

LEMMA ApplyTyped ==
  ASSUME S!TypeOK, NEW r \in Rows, NEW to \in S!Known, S!Apply(r, to)
  PROVE  server' \in [Rows -> S!Known] /\ posts' \in [Rows -> 0 .. MaxPosts]
<1>1. posts[r] \in 0 .. MaxPosts /\ posts[r] < MaxPosts /\ MaxPosts \in Nat
  BY ClientsAssumption DEF S!Apply, S!TypeOK, NumbersFit
<1>2. posts[r] + 1 \in 0 .. MaxPosts
  BY <1>1
<1>3. QED
  BY <1>1, <1>2 DEF S!Apply, S!TypeOK

LEMMA ClearTyped ==
  ASSUME S!TypeOK, NEW q, q.row \in Rows, S!ClearFields(q)
  PROVE  /\ dialog' \in {dialog, S!NoDialog}
         /\ spent' \subseteq Rows
<1>1. dialog.row \in Rows \cup {NoRow}
  BY DEF S!TypeOK, S!NoDialog
<1>2. QED
  BY <1>1 DEF S!ClearFields, S!TypeOK

LEMMA TypedAfterPress ==
  ASSUME S!TypeOK, NEW op \in Ops, NEW r \in Rows, S!Press(op, r) PROVE S!TypeOK'
<1>1. PICK to \in S!Here.buttons[op].to : S!Call(op, r, to, shown[r])
  BY DEF S!Press
<1>2. shown[r] \in S!Here.lists
  BY VisibleIsShown DEF S!Press, S!Offered
<1>3. requests' \in [S!Ids -> S!Request]
  BY <1>1, <1>2, ToIsKnown, CallPuts
<1>4. busy' \in [S!Flags -> Rows \cup {NoRow}]
  BY RaiseTyped DEF S!Press
<1>5. UNCHANGED <<page, role, server, shown, dialog, bulk, spent, posts, lost, elsewhere>>
  BY DEF S!Press, S!rigid
<1>6. QED
  BY <1>3, <1>4, <1>5, Stays DEF S!TypeOK

LEMMA TypedAfterOpen ==
  ASSUME S!TypeOK, NEW op \in Ops, NEW r \in Rows, S!Open(op, r) PROVE S!TypeOK'
<1>1. shown[r] \in S!Here.lists
  BY VisibleIsShown DEF S!Open
<1>2. dialog' \in Dialog
  BY <1>1 DEF S!Open, Dialog
<1>3. UNCHANGED <<page, role, server, shown, busy, bulk, requests, spent, posts, lost, elsewhere>>
  BY DEF S!Open, S!rigid
<1>4. QED
  BY <1>2, <1>3, Stays DEF S!TypeOK, Dialog, Ops

LEMMA DialogParts ==
  ASSUME S!TypeOK, dialog # S!NoDialog
  PROVE  dialog.op \in Ops /\ dialog.row \in Rows /\ dialog.seen \in S!Here.lists
BY DEF S!TypeOK, Ops

LEMMA TypedAfterClose == ASSUME S!TypeOK, S!Close PROVE S!TypeOK'
<1>1. spent' \subseteq Rows /\ dialog' = S!NoDialog
  BY DialogParts DEF S!Close, S!TypeOK
<1>2. UNCHANGED <<page, role, server, shown, busy, bulk, requests, posts, lost, elsewhere>>
  BY DEF S!Close, S!rigid
<1>3. S!NoDialog' = S!NoDialog
  BY DEF S!NoDialog
<1>4. QED
  BY <1>1, <1>2, <1>3, Stays DEF S!TypeOK

LEMMA TypedAfterSubmit == ASSUME S!TypeOK, S!Submit PROVE S!TypeOK'
<1>1. dialog.op \in Ops /\ dialog.row \in Rows /\ dialog.seen \in S!Here.lists
  BY DialogParts DEF S!Submit
<1>2. PICK to \in S!Here.buttons[dialog.op].to : S!Call(dialog.op, dialog.row, to, dialog.seen)
  BY DEF S!Submit
<1>3. requests' \in [S!Ids -> S!Request]
  BY <1>1, <1>2, ToIsKnown, CallPuts
<1>4. busy' \in [S!Flags -> Rows \cup {NoRow}]
  BY <1>1, RaiseTyped DEF S!Submit
<1>5. UNCHANGED <<page, role, server, shown, dialog, bulk, spent, posts, lost, elsewhere>>
  BY DEF S!Submit, S!rigid
<1>6. QED
  BY <1>3, <1>4, <1>5, Stays DEF S!TypeOK

LEMMA TypedAfterBulkPress == ASSUME S!TypeOK, S!BulkPress PROVE S!TypeOK'
<1>1. PICK selected \in SUBSET Rows \ {{}} :
        /\ \A r \in selected : S!Offered("bulkCancel", r)
        /\ bulk' = {[row |-> r, seen |-> shown[r]] : r \in selected}
        /\ \E r \in selected : S!Raise("bulkCancel", r)
  BY DEF S!BulkPress
<1>2. "bulkCancel" \in Ops
  BY DEF S!BulkPress, Ops
<1>3. \A r \in selected : shown[r] \in S!Here.lists
  BY <1>1, <1>2, VisibleIsShown DEF S!Offered
<1>4. bulk' \subseteq [row : Rows, seen : S!Here.lists]
  BY <1>1, <1>3
<1>5. busy' \in [S!Flags -> Rows \cup {NoRow}]
  BY <1>1, <1>2, RaiseTyped
<1>6. UNCHANGED <<page, role, server, shown, dialog, requests, spent, posts, lost, elsewhere>>
  BY DEF S!BulkPress, S!rigid
<1>7. QED
  BY <1>4, <1>5, <1>6, Stays DEF S!TypeOK

LEMMA TypedAfterRefresh == ASSUME S!TypeOK, S!Refresh PROVE S!TypeOK'
<1>1. S!Loading("load") \in S!Request
  BY DEF S!Request, S!Loading
<1>2. requests' \in [S!Ids -> S!Request]
  BY <1>1, Put DEF S!Refresh
<1>3. UNCHANGED <<page, role, server, shown, busy, dialog, bulk, spent, posts, lost, elsewhere>>
  BY DEF S!Refresh, S!rigid
<1>4. QED
  BY <1>2, <1>3, Stays DEF S!TypeOK

LEMMA TypedAfterBulkNext ==
  ASSUME S!TypeOK, CallsAreOffered, NEW b \in bulk, S!BulkNext(b) PROVE S!TypeOK'
<1>1. b.row \in Rows /\ b.seen \in S!Here.lists
  BY DEF S!TypeOK
<1>2. "bulkCancel" \in Ops
  BY DEF CallsAreOffered, OfferedTo
<1>3. "CANCELLED" \in S!Known
  BY <1>2, HereFits, ToIsKnown DEF PageFits, Proper, Ops
<1>4. requests' \in [S!Ids -> S!Request]
  BY <1>1, <1>2, <1>3, CallPuts DEF S!BulkNext
<1>5. bulk' \subseteq [row : Rows, seen : S!Here.lists]
  BY DEF S!BulkNext, S!TypeOK
<1>6. UNCHANGED <<page, role, server, shown, busy, dialog, spent, posts, lost, elsewhere>>
  BY DEF S!BulkNext, S!rigid
<1>7. QED
  BY <1>4, <1>5, <1>6, Stays DEF S!TypeOK

LEMMA AnswerKinds ==
  ASSUME NEW op \in Ops, NEW r \in Rows
  PROVE  /\ \A to \in S!Known : [at |-> "ok", op |-> op, row |-> r, to |-> to] \in S!Request
         /\ [at |-> "failed", op |-> op, row |-> r] \in S!Request
         /\ [at |-> "forbidden", op |-> op, row |-> r] \in S!Request
         /\ \A seen \in S!Here.lists, found \in S!Known :
              [at |-> "refused", op |-> op, row |-> r, seen |-> seen, found |-> found]
                \in S!Request
BY DEF S!Request, Ops

LEMMA RequestAt ==
  ASSUME S!TypeOK, NEW i \in S!Ids
  PROVE  requests[i] \in S!Request
BY DEF S!TypeOK

LEMMA TypedAfterAccept == ASSUME S!TypeOK, NEW i \in S!Ids, S!Accept(i) PROVE S!TypeOK'
<1> DEFINE q == requests[i]
<1>1. /\ q \in S!Request /\ q.at = "sent"
      /\ q.op \in Ops /\ q.row \in Rows /\ q.to \in S!Known
  BY RequestAt, RequestParts DEF S!Accept
<1>2. server' \in [Rows -> S!Known] /\ posts' \in [Rows -> 0 .. MaxPosts]
  BY <1>1, ApplyTyped DEF S!Accept
<1>3. requests' \in [S!Ids -> S!Request]
  BY <1>1, AnswerKinds, Put DEF S!Accept, S!Answer
<1>4. lost' \in BOOLEAN
  BY DEF S!Accept, S!TypeOK, S!IsForm
<1>5. UNCHANGED <<page, role, shown, busy, dialog, bulk, spent, elsewhere>>
  BY DEF S!Accept, S!rigid
<1>6. QED
  BY <1>2, <1>3, <1>4, <1>5, Stays DEF S!TypeOK

LEMMA TypedAfterRefuse == ASSUME S!TypeOK, NEW i \in S!Ids, S!Refuse(i) PROVE S!TypeOK'
<1> DEFINE q == requests[i]
<1>1. /\ q \in S!Request /\ q.at = "sent"
      /\ q.op \in Ops /\ q.row \in Rows /\ q.to \in S!Known /\ q.seen \in S!Here.lists
  BY RequestAt, RequestParts DEF S!Refuse
<1>2. server[q.row] \in S!Known
  BY <1>1 DEF S!TypeOK
<1>3. requests' \in [S!Ids -> S!Request]
  BY <1>1, <1>2, AnswerKinds, Put DEF S!Refuse, S!Answer
<1>4. UNCHANGED <<page, role, server, shown, busy, dialog, bulk, spent, posts, lost, elsewhere>>
  BY DEF S!Refuse, S!rigid
<1>5. QED
  BY <1>3, <1>4, Stays DEF S!TypeOK

LEMMA TypedAfterFail == ASSUME S!TypeOK, NEW i \in S!Ids, S!Fail(i) PROVE S!TypeOK'
<1>1. /\ busy' \in [S!Flags -> Rows \cup {NoRow}]
      /\ bulk' \subseteq [row : Rows, seen : S!Here.lists]
  BY LowerTyped DEF S!Fail, S!TypeOK
<1>2. S!Idle \in S!Request
  BY DEF S!Request
<1>3. requests' \in [S!Ids -> S!Request]
  BY <1>2, Put DEF S!Fail
<1>4. UNCHANGED <<page, role, server, shown, dialog, spent, posts, lost, elsewhere>>
  BY DEF S!Fail, S!rigid
<1>5. QED
  BY <1>1, <1>3, <1>4, Stays DEF S!TypeOK

(* A finished request: what its handler clears *)
LEMMA ClearKeeps ==
  ASSUME S!TypeOK, NEW i \in S!Ids, requests[i].at = "ok", S!ClearFields(requests[i]),
         UNCHANGED page
  PROVE  /\ (dialog = S!NoDialog \/ dialog \in Dialog)'
         /\ spent' \subseteq Rows
<1>1. requests[i].row \in Rows
  BY RequestAt, RequestParts
<1>2. dialog' \in {dialog, S!NoDialog} /\ spent' \subseteq Rows
  BY <1>1, ClearTyped
<1>3. S!NoDialog' = S!NoDialog
  BY DEF S!NoDialog
<1>4. QED
  BY <1>2, <1>3, Stays DEF S!TypeOK, Dialog, Ops

LEMMA TypedAfterPatch ==
  ASSUME S!TypeOK, CallsAreOffered, NEW i \in S!Ids, S!Patch(i) PROVE S!TypeOK'
<1> DEFINE q == requests[i]
<1>1. q \in S!Request /\ q.at = "ok" /\ q.row \in Rows
  BY RequestAt, RequestParts DEF S!Patch
<1>2. shown' \in [Rows -> S!Here.lists \cup {"nothing"}]
  <2>1. q.op \in Ops /\ q.to \in S!Here.buttons[q.op].to
    BY <1>1, RequestParts DEF CallsAreOffered, RequestFits
  <2>2. q.to \in S!Here.lists
    BY <2>1, HereFits DEF PageFits, Ops, S!Patch
  <2>3. QED
    BY <1>1, <2>2 DEF S!Patch, S!TypeOK
<1>3. /\ busy' \in [S!Flags -> Rows \cup {NoRow}]
      /\ bulk' \subseteq [row : Rows, seen : S!Here.lists]
  BY LowerTyped DEF S!Patch, S!TypeOK
<1>4. S!Idle \in S!Request
  BY DEF S!Request
<1>5. requests' \in [S!Ids -> S!Request]
  BY <1>4, Put DEF S!Patch
<1>6. UNCHANGED <<page, role, server, posts, lost, elsewhere>>
  BY DEF S!Patch, S!rigid
<1>7. (dialog = S!NoDialog \/ dialog \in Dialog)' /\ spent' \subseteq Rows
  BY <1>1, <1>6, ClearKeeps DEF S!Patch
<1>8. QED
  BY <1>2, <1>3, <1>5, <1>6, <1>7, Stays DEF S!TypeOK, Dialog, Ops

LEMMA TypedAfterReload ==
  ASSUME S!TypeOK, NEW i \in S!Ids, S!Reload(i) \/ S!Invalidate(i) \/ S!Leave(i)
  PROVE  S!TypeOK'
<1> DEFINE q == requests[i]
<1>1. q \in S!Request /\ q.at = "ok" /\ q.row \in Rows /\ q.op \in Ops
  BY RequestAt, RequestParts DEF S!Reload, S!Invalidate, S!Leave
<1>2. S!Idle \in S!Request /\ S!Loading(q.op) \in S!Request /\ S!Loading("load") \in S!Request
  BY <1>1 DEF S!Request, S!Loading, Ops
<1>3. requests' \in [S!Ids -> S!Request]
  BY <1>2, Put DEF S!Reload, S!Invalidate, S!Leave
<1>4. /\ busy' \in [S!Flags -> Rows \cup {NoRow}]
      /\ bulk' \subseteq [row : Rows, seen : S!Here.lists]
  <2>1. S!Lower(q, FALSE) \/ UNCHANGED <<busy, bulk>>
    BY DEF S!Reload, S!Invalidate, S!Leave
  <2>2. QED
    BY <2>1, LowerTyped DEF S!TypeOK
<1>5. UNCHANGED <<page, role, server, shown, posts, lost, elsewhere>>
  BY DEF S!Reload, S!Invalidate, S!Leave, S!rigid
<1>6. (dialog = S!NoDialog \/ dialog \in Dialog)' /\ spent' \subseteq Rows
  BY <1>1, <1>5, ClearKeeps DEF S!Reload, S!Invalidate, S!Leave
<1>7. QED
  BY <1>3, <1>4, <1>5, <1>6, Stays DEF S!TypeOK, Dialog, Ops

LEMMA TypedAfterRead == ASSUME S!TypeOK, NEW i \in S!Ids, S!ReadList(i) PROVE S!TypeOK'
<1> DEFINE list(whole) == [r \in Rows |-> S!View(server[r], whole)]
           q(whole) == [at |-> "read", op |-> requests[i].op, row |-> NoRow,
                        list |-> list(whole)]
<1>1. requests[i].op \in Ops \cup {"load"}
  BY RequestAt, RequestParts DEF S!ReadList
<1>2. PICK whole \in BOOLEAN : requests' = [requests EXCEPT ![i] = q(whole)]
  BY DEF S!ReadList
<1>3. list(whole) \in [Rows -> ShownStatuses]
  <2>1. \A s : S!View(s, whole) \in ShownStatuses
    BY HereFits DEF S!View, PageFits, ShownStatuses
  <2>2. QED
    BY <2>1
<1>4. requests' \in [S!Ids -> S!Request]
  <2>1. q(whole) \in S!Request
    BY <1>1, <1>3, LoadKinds
  <2>2. QED
    BY <1>2, <2>1, Put
<1>5. UNCHANGED <<page, role, server, shown, busy, dialog, bulk, spent, posts, lost, elsewhere>>
  BY DEF S!ReadList, S!rigid
<1>6. QED
  BY <1>4, <1>5, Stays DEF S!TypeOK

LEMMA TypedAfterLoad ==
  ASSUME S!TypeOK, NEW i \in S!Ids, NEW list \in [Rows -> ShownStatuses], S!EndLoad(i, list)
  PROVE  S!TypeOK'
<1>1. shown' \in [Rows -> S!Here.lists \cup {"nothing"}]
  BY DEF S!EndLoad, S!TypeOK, ShownStatuses
<1>2. /\ busy' \in [S!Flags -> Rows \cup {NoRow}]
      /\ bulk' \subseteq [row : Rows, seen : S!Here.lists]
  <2>1. S!Lower(requests[i], FALSE) \/ UNCHANGED <<busy, bulk>>
    BY DEF S!EndLoad
  <2>2. QED
    BY <2>1, LowerTyped DEF S!TypeOK
<1>3. S!Idle \in S!Request
  BY DEF S!Request
<1>4. requests' \in [S!Ids -> S!Request]
  BY <1>3, Put DEF S!EndLoad
<1>5. UNCHANGED <<page, role, server, dialog, spent, posts, lost, elsewhere>>
  BY DEF S!EndLoad, S!rigid
<1>6. QED
  BY <1>1, <1>2, <1>4, <1>5, Stays DEF S!TypeOK

LEMMA EndsLoad ==
  ASSUME S!TypeOK, NEW i \in S!Ids, S!ShowList(i) \/ S!LoadFails(i)
  PROVE  /\ \E list \in [Rows -> ShownStatuses] : S!EndLoad(i, list)
         /\ requests[i].at \in {"loading", "read"}
<1>1. S!Nothing \in [Rows -> ShownStatuses] /\ shown \in [Rows -> ShownStatuses]
  BY DEF S!Nothing, ShownStatuses, S!TypeOK
<1>2. requests[i].at = "read" => requests[i].list \in [Rows -> ShownStatuses]
  BY RequestAt, RequestParts
<1>3. QED
  BY <1>1, <1>2 DEF S!ShowList, S!LoadFails

LEMMA TypedAfterElsewhere == ASSUME S!TypeOK, NEW r \in Rows, S!Elsewhere(r) PROVE S!TypeOK'
<1>1. PICK to \in S!Known : S!Apply(r, to)
  <2>1. CASE \E op \in Ops : \E to \in S!Here.buttons[op].to : S!Apply(r, to)
    BY <2>1, ToIsKnown
  <2>2. CASE \E step \in S!Here.others : S!Apply(r, step[2])
    <3>1. PICK step \in S!Here.others : S!Apply(r, step[2])
      BY <2>2
    <3>2. step[2] \in S!Known
      BY DEF S!Known
    <3>3. QED
      BY <3>1, <3>2
  <2>3. QED
    BY <2>1, <2>2 DEF S!Elsewhere, Ops
<1>2. server' \in [Rows -> S!Known] /\ posts' \in [Rows -> 0 .. MaxPosts]
  BY <1>1, ApplyTyped
<1>3. elsewhere' \in 0 .. MaxElsewhere
  BY ClientsAssumption DEF S!Elsewhere, S!TypeOK, NumbersFit
<1>4. UNCHANGED <<page, role, shown, busy, dialog, bulk, requests, spent, lost>>
  BY DEF S!Elsewhere, S!rigid
<1>5. QED
  BY <1>2, <1>3, <1>4, Stays DEF S!TypeOK

LEMMA TypedStep == ASSUME ScreenInv, S!Next PROVE S!TypeOK'
<1> USE DEF ScreenInv
<1>1. CASE \E op \in DOMAIN S!Here.buttons, r \in Rows : S!Press(op, r) \/ S!Open(op, r)
  BY <1>1, TypedAfterPress, TypedAfterOpen DEF Ops
<1>2. CASE \E b \in bulk : S!BulkNext(b)
  BY <1>2, TypedAfterBulkNext
<1>3. CASE S!Close \/ S!Submit \/ S!BulkPress \/ S!Refresh
  BY <1>3, TypedAfterClose, TypedAfterSubmit, TypedAfterBulkPress, TypedAfterRefresh
<1>4. ASSUME NEW i \in S!Ids, S!Accept(i) \/ S!Refuse(i) \/ S!Fail(i) \/ S!Patch(i)
      PROVE  S!TypeOK'
  BY <1>4, TypedAfterAccept, TypedAfterRefuse, TypedAfterFail, TypedAfterPatch
<1>5. ASSUME NEW i \in S!Ids, S!Reload(i) \/ S!Invalidate(i) \/ S!Leave(i) PROVE S!TypeOK'
  BY <1>5, TypedAfterReload
<1>6. ASSUME NEW i \in S!Ids, S!ReadList(i) PROVE S!TypeOK'
  BY <1>6, TypedAfterRead
<1>7. ASSUME NEW i \in S!Ids, S!ShowList(i) \/ S!LoadFails(i) PROVE S!TypeOK'
  BY <1>7, EndsLoad, TypedAfterLoad
<1>8. CASE \E r \in Rows : S!Elsewhere(r)
  BY <1>8, TypedAfterElsewhere
<1>9. QED
  BY <1>1, <1>2, <1>3, <1>4, <1>5, <1>6, <1>7, <1>8 DEF S!Next

-----------------------------------------------------------------------------
(* Calls are offered, and refused only if stale *)

LEMMA OfferedStays ==
  ASSUME UNCHANGED <<page, role>>,
         \A i \in S!Ids : RequestFits(requests'[i]),
         dialog' # S!NoDialog => OfferedTo(dialog'.op, dialog'.seen),
         \A b \in bulk' : OfferedTo("bulkCancel", b.seen)
  PROVE  CallsAreOffered'
<1>1. S!Here' = S!Here /\ Ops' = Ops /\ S!NoDialog' = S!NoDialog
  BY DEF S!Here, Ops, S!NoDialog
<1>2. QED
  BY <1>1 DEF CallsAreOffered, RequestFits, OfferedTo

LEMMA OtherKindsFit ==
  /\ RequestFits(S!Idle)
  /\ \A op : RequestFits(S!Loading(op))
  /\ \A op, list : RequestFits([at |-> "read", op |-> op, row |-> NoRow, list |-> list])
  /\ \A op, r : RequestFits([at |-> "failed", op |-> op, row |-> r])
BY DEF RequestFits, S!Idle, S!Loading

(* One request changes, and the rest of what was offered stays. *)
LEMMA OneOffered ==
  ASSUME S!TypeOK, CallsAreOffered, UNCHANGED <<page, role>>,
         NEW i \in S!Ids, NEW q, RequestFits(q), requests' = [requests EXCEPT ![i] = q],
         dialog' \in {dialog, S!NoDialog}, bulk' \subseteq bulk
  PROVE  CallsAreOffered'
<1>1. \A j \in S!Ids : requests'[j] = IF j = i THEN q ELSE requests[j]
  BY DEF S!TypeOK
<1>2. \A j \in S!Ids : RequestFits(requests'[j])
  BY <1>1 DEF CallsAreOffered
<1>3. QED
  BY <1>2, OfferedStays DEF CallsAreOffered

LEMMA CallOffered ==
  ASSUME S!TypeOK, CallsAreOffered, UNCHANGED <<page, role, dialog>>, bulk' \subseteq bulk,
         NEW op, NEW r, NEW seen, OfferedTo(op, seen), NEW to \in S!Here.buttons[op].to,
         S!Call(op, r, to, seen)
  PROVE  CallsAreOffered'
<1> DEFINE q == [at |-> "sent", op |-> op, row |-> r, to |-> to, seen |-> seen]
<1>1. RequestFits(q)
  BY DEF RequestFits
<1>2. PICK i \in S!Ids : requests' = [requests EXCEPT ![i] = q]
  BY DEF S!Call
<1> HIDE DEF q
<1>3. QED
  BY <1>1, <1>2, OneOffered

LEMMA OfferedStep == ASSUME ScreenInv, S!Next PROVE CallsAreOffered'
<1> USE DEF ScreenInv
<1>1. ASSUME NEW op \in Ops, NEW r \in Rows, S!Press(op, r) PROVE CallsAreOffered'
  <2>1. OfferedTo(op, shown[r])
    BY <1>1, VisibleIsShown DEF S!Press, S!Offered
  <2>2. PICK to \in S!Here.buttons[op].to : S!Call(op, r, to, shown[r])
    BY <1>1 DEF S!Press
  <2>3. UNCHANGED <<page, role, dialog, bulk>>
    BY <1>1 DEF S!Press, S!rigid
  <2>4. QED
    BY <2>1, <2>2, <2>3, CallOffered
<1>2. ASSUME NEW op \in Ops, NEW r \in Rows, S!Open(op, r) PROVE CallsAreOffered'
  <2>1. OfferedTo(op, shown[r])
    BY <1>2, VisibleIsShown DEF S!Open
  <2>2. /\ UNCHANGED <<page, role, requests, bulk>>
        /\ dialog' = [op |-> op, row |-> r, seen |-> shown[r]]
    BY <1>2 DEF S!Open, S!rigid
  <2>3. QED
    BY <2>1, <2>2, OfferedStays DEF CallsAreOffered
<1>3. ASSUME NEW b \in bulk, S!BulkNext(b) PROVE CallsAreOffered'
  <2>1. OfferedTo("bulkCancel", b.seen)
    BY DEF CallsAreOffered
  <2>2. "CANCELLED" \in S!Here.buttons["bulkCancel"].to
    BY <2>1, HereFits DEF PageFits, Proper, OfferedTo, Ops
  <2>3. /\ UNCHANGED <<page, role, dialog>> /\ bulk' \subseteq bulk
        /\ S!Call("bulkCancel", b.row, "CANCELLED", b.seen)
    BY <1>3 DEF S!BulkNext, S!rigid
  <2>4. QED
    BY <2>1, <2>2, <2>3, CallOffered
<1>4. CASE S!Close
  <2>1. UNCHANGED <<page, role, requests, bulk>> /\ dialog' = S!NoDialog
    BY <1>4 DEF S!Close, S!rigid
  <2>2. QED
    BY <2>1, OfferedStays DEF CallsAreOffered
<1>5. CASE S!Submit
  <2>1. OfferedTo(dialog.op, dialog.seen)
    BY <1>5 DEF S!Submit, CallsAreOffered
  <2>2. PICK to \in S!Here.buttons[dialog.op].to :
          S!Call(dialog.op, dialog.row, to, dialog.seen)
    BY <1>5 DEF S!Submit
  <2>3. UNCHANGED <<page, role, dialog, bulk>>
    BY <1>5 DEF S!Submit, S!rigid
  <2>4. QED
    BY <2>1, <2>2, <2>3, CallOffered
<1>6. CASE S!BulkPress
  <2>1. PICK selected \in SUBSET Rows :
          /\ \A r \in selected : S!Offered("bulkCancel", r)
          /\ bulk' = {[row |-> r, seen |-> shown[r]] : r \in selected}
    BY <1>6 DEF S!BulkPress
  <2>2. "bulkCancel" \in Ops
    BY <1>6 DEF S!BulkPress, Ops
  <2>3. \A r \in selected : OfferedTo("bulkCancel", shown[r])
    BY <2>1, <2>2, VisibleIsShown DEF S!Offered
  <2>4. \A b \in bulk' : OfferedTo("bulkCancel", b.seen)
    BY <2>1, <2>3
  <2>5. UNCHANGED <<page, role, dialog, requests>>
    BY <1>6 DEF S!BulkPress, S!rigid
  <2>6. QED
    BY <2>4, <2>5, OfferedStays DEF CallsAreOffered
<1>7. CASE S!Refresh
  <2>1. UNCHANGED <<page, role, dialog, bulk>>
    BY <1>7 DEF S!Refresh, S!rigid
  <2>2. QED
    BY <1>7, <2>1, OtherKindsFit, OneOffered DEF S!Refresh
<1>8. ASSUME NEW i \in S!Ids, S!Accept(i) PROVE CallsAreOffered'
  <2> DEFINE q == requests[i]
  <2>1. UNCHANGED <<page, role, dialog, bulk>>
    BY <1>8 DEF S!Accept, S!rigid
  <2>2. RequestFits([at |-> "ok", op |-> q.op, row |-> q.row, to |-> q.to])
    BY <1>8 DEF S!Accept, CallsAreOffered, RequestFits
  <2>3. QED
    BY <1>8, <2>1, <2>2, OtherKindsFit, OneOffered DEF S!Accept, S!Answer
<1>9. ASSUME NEW i \in S!Ids, S!Refuse(i) PROVE CallsAreOffered'
  <2> DEFINE q == requests[i]
  <2>1. UNCHANGED <<page, role, dialog, bulk>>
    BY <1>9 DEF S!Refuse, S!rigid
  <2>2. OfferedTo(q.op, q.seen)
    BY <1>9 DEF S!Refuse, CallsAreOffered, RequestFits
  <2>3. /\ role \in AllEndpoints[q.op].roles
        /\ q.op # "submitReview" => q.seen \in AllEndpoints[q.op].from \cup {"UNAPPROVED"}
    BY <2>2, HereFits DEF PageFits, MayCall, OfferedTo, Ops
  <2>4. CASE /\ server[q.row] \notin AllEndpoints[q.op].from
             /\ S!Answer(i, [at |-> "refused", op |-> q.op, row |-> q.row, seen |-> q.seen,
                             found |-> server[q.row]])
    <3>1. RequestFits([at |-> "refused", op |-> q.op, row |-> q.row, seen |-> q.seen,
                       found |-> server[q.row]])
      BY <2>3, <2>4 DEF RequestFits
    <3>2. QED
      BY <2>1, <2>4, <3>1, OneOffered DEF S!Answer
  <2>5. CASE S!Answer(i, [at |-> "failed", op |-> q.op, row |-> q.row])
    BY <2>1, <2>5, OtherKindsFit, OneOffered DEF S!Answer
  <2>6. QED
    BY <1>9, <2>3, <2>4, <2>5 DEF S!Refuse
<1>10. ASSUME NEW i \in S!Ids,
              S!Fail(i) \/ S!Patch(i) \/ S!Reload(i) \/ S!Invalidate(i) \/ S!Leave(i)
       PROVE  CallsAreOffered'
  <2>1. UNCHANGED <<page, role>>
    BY <1>10 DEF S!Fail, S!Patch, S!Reload, S!Invalidate, S!Leave, S!rigid
  <2>2. bulk' \subseteq bulk
    BY <1>10 DEF S!Fail, S!Patch, S!Reload, S!Invalidate, S!Leave, S!Lower
  <2>3. dialog' \in {dialog, S!NoDialog}
    BY <1>10 DEF S!Fail, S!Patch, S!Reload, S!Invalidate, S!Leave, S!ClearFields
  <2>4. \/ requests' = [requests EXCEPT ![i] = S!Idle]
        \/ requests' = [requests EXCEPT ![i] = S!Loading(requests[i].op)]
        \/ requests' = [requests EXCEPT ![i] = S!Loading("load")]
    BY <1>10 DEF S!Fail, S!Patch, S!Reload, S!Invalidate, S!Leave
  <2>5. QED
    BY <2>1, <2>2, <2>3, <2>4, OtherKindsFit, OneOffered
<1>11. ASSUME NEW i \in S!Ids, S!ReadList(i) PROVE CallsAreOffered'
  <2>1. UNCHANGED <<page, role, dialog, bulk>>
    BY <1>11 DEF S!ReadList, S!rigid
  <2>2. QED
    BY <1>11, <2>1, OtherKindsFit, OneOffered DEF S!ReadList
<1>12. ASSUME NEW i \in S!Ids, S!ShowList(i) \/ S!LoadFails(i) PROVE CallsAreOffered'
  <2>1. UNCHANGED <<page, role, dialog>> /\ bulk' \subseteq bulk
    BY <1>12 DEF S!ShowList, S!LoadFails, S!EndLoad, S!Lower, S!rigid
  <2>2. requests' = [requests EXCEPT ![i] = S!Idle]
    BY <1>12 DEF S!ShowList, S!LoadFails, S!EndLoad
  <2>3. QED
    BY <2>1, <2>2, OtherKindsFit, OneOffered
<1>13. ASSUME NEW r \in Rows, S!Elsewhere(r) PROVE CallsAreOffered'
  <2>1. UNCHANGED <<page, role, dialog, bulk, requests>>
    BY <1>13 DEF S!Elsewhere, S!rigid
  <2>2. QED
    BY <2>1, OfferedStays DEF CallsAreOffered
<1>14. QED
  BY <1>1, <1>2, <1>3, <1>4, <1>5, <1>6, <1>7, <1>8, <1>9, <1>10, <1>11, <1>12, <1>13
     DEF S!Next, Ops

(* What a screen offers is not refused, but for a row that has changed. *)
LEMMA RefusalsAreStale == ASSUME S!TypeOK, CallsAreOffered PROVE S!RefusedOnlyIfStale
<1>1. \A l \in DOMAIN S!Here.loads : S!Here.loads[l] \subseteq AllLists[l]
  BY HereFits DEF PageFits, MayRead
<1>2. QED
  BY <1>1 DEF S!RefusedOnlyIfStale, CallsAreOffered, RequestFits

-----------------------------------------------------------------------------
(* A filling is entered once *)

(* What of EnteredOnce a step must keep, on a form that is cleared *)
ClearedOnce == OneAtATime /\ DialogIsFresh /\ (~lost => EnteredIsSpent)

LEMMA FlagsOfForm ==
  ASSUME S!TypeOK, S!Here.form = "clears", NEW op \in Ops
  PROVE  /\ op # "bulkCancel"
         /\ S!Here.buttons[op].flag \in S!Flags \ {"none"}
         /\ S!Here.buttons[op].waits = "page"
         /\ \A x \in Ops : /\ S!Here.buttons[x].flag = S!Here.buttons[op].flag
                           /\ S!Here.buttons[x].dialog = S!Here.buttons[op].dialog
<1>1. OneFlag(S!Here.buttons)
  BY HereFits DEF PageFits
<1>2. S!Here.buttons[op].flag \in S!Flags
  BY DEF S!Flags, Ops
<1>3. QED
  BY <1>1, <1>2 DEF OneFlag, Ops

(* Nothing happens to the fillings. *)
LEMMA OnceStays ==
  ASSUME EnteredOnce, UNCHANGED <<page, busy, dialog, requests, spent, posts, lost>>
  PROVE  EnteredOnce'
BY DEF EnteredOnce, NothingEntered, OneAtATime, DialogIsFresh, EnteredIsSpent, Pending,
       S!Here, Ops, S!NoDialog

LEMMA NothingStays ==
  ASSUME EnteredOnce, S!Here.form # "clears", UNCHANGED <<page, posts>>
  PROVE  EnteredOnce'
BY DEF EnteredOnce, NothingEntered, S!Here

LEMMA ClearedStays ==
  ASSUME S!Here.form = "clears", UNCHANGED page, ClearedOnce'
  PROVE  EnteredOnce'
BY DEF EnteredOnce, ClearedOnce, S!Here

LEMMA OkIsPending ==
  ASSUME NEW q, q.at \in {"sent", "ok", "failed", "forbidden", "refused"} PROVE Pending(q)
BY DEF Pending

LEMMA IdleIsNot == ~Pending(S!Idle) /\ ~Pending(S!Loading("load"))
BY DEF Pending, S!Idle, S!Loading

(* With every flag down, the button is pressed. *)
LEMMA OncePressed ==
  ASSUME S!TypeOK, S!Here.form = "clears", ClearedOnce,
         NEW op \in Ops, NEW r \in Rows, r \notin spent, S!Enabled(op, r),
         NEW to \in S!Known, NEW seen \in S!Here.lists,
         S!Call(op, r, to, seen), S!Raise(op, r),
         UNCHANGED <<page, dialog, spent, posts, lost>>
  PROVE  ClearedOnce'
<1>1. busy[S!Here.buttons[op].flag] = NoRow
  BY FlagsOfForm DEF S!Enabled
<1>2. \A j \in S!Ids : ~Pending(requests[j])
  BY <1>1 DEF ClearedOnce, OneAtATime
<1>3. PICK i \in S!Ids :
        /\ requests'[i].at = "sent" /\ requests'[i].row = r
        /\ \A j \in S!Ids : j # i => requests'[j] = requests[j]
  <2> DEFINE q == [at |-> "sent", op |-> op, row |-> r, to |-> to, seen |-> seen]
  <2>1. q.at = "sent" /\ q.row = r
    OBVIOUS
  <2>2. PICK i \in S!Ids :
          requests'[i] = q /\ \A j \in S!Ids : j # i => requests'[j] = requests[j]
    BY CallPuts
  <2>3. QED
    BY <2>1, <2>2
<1>4. \A x \in Ops : busy'[S!Here.buttons[x].flag] # NoRow
  <2>1. busy'[S!Here.buttons[op].flag] = r
    BY FlagsOfForm DEF S!Raise, S!TypeOK
  <2>2. QED
    BY <2>1, FlagsOfForm, ClientsAssumption DEF NamesDiffer
<1>5. S!Here' = S!Here /\ Ops' = Ops
  BY Stays
<1>6. OneAtATime'
  BY <1>2, <1>3, <1>4, <1>5 DEF OneAtATime
<1>7. DialogIsFresh'
  BY <1>5 DEF ClearedOnce, DialogIsFresh, S!NoDialog
<1>8. ~lost => EnteredIsSpent'
  <2>1. \A j \in S!Ids : requests[j].at # "ok" /\ requests[j].at # "sent"
    BY <1>2, OkIsPending
  <2>2. \A j \in S!Ids : requests'[j].at = "sent" => requests'[j].row = r
    BY <1>3, <2>1
  <2>3. QED
    BY <2>1, <2>2 DEF ClearedOnce, EnteredIsSpent
<1>9. QED
  BY <1>6, <1>7, <1>8 DEF ClearedOnce

(* A request is finished: what it entered is spent, and no dialog is open  *)
(* for it.                                                                 *)
LEMMA OnceCleared ==
  ASSUME S!TypeOK, S!Here.form = "clears", ClearedOnce,
         NEW i \in S!Ids, requests[i].at = "ok", S!ClearFields(requests[i]),
         NEW q, q.at \notin {"sent", "ok"}, requests' = [requests EXCEPT ![i] = q],
         ~Pending(q) \/ UNCHANGED busy,
         UNCHANGED <<page, posts, lost>>
  PROVE  ClearedOnce'
<1>1. requests'[i] = q /\ \A j \in S!Ids : j # i => requests'[j] = requests[j]
  BY DEF S!TypeOK
<1>2. requests[i].op \in Ops /\ requests[i].row \in Rows
  BY RequestAt, RequestParts
<1>3. Pending(requests[i])
  BY OkIsPending
<1>4. \A j \in S!Ids : j # i => ~Pending(requests'[j])
  BY <1>1, <1>3 DEF ClearedOnce, OneAtATime
<1>5. S!Here' = S!Here /\ Ops' = Ops
  BY Stays
<1>6. OneAtATime'
  BY <1>1, <1>3, <1>4, <1>5 DEF ClearedOnce, OneAtATime
<1>7. DialogIsFresh'
  <2>1. CASE S!Here.buttons[requests[i].op].dialog
    BY <2>1 DEF S!ClearFields, DialogIsFresh, S!NoDialog
  <2>2. CASE ~S!Here.buttons[requests[i].op].dialog
    <3>1. dialog = S!NoDialog
      BY <1>2, <2>2, FlagsOfForm, DialogParts DEF ClearedOnce, DialogIsFresh
    <3>2. dialog' = dialog
      BY <2>2 DEF S!ClearFields
    <3>3. QED
      BY <3>1, <3>2 DEF DialogIsFresh, S!NoDialog
  <2>3. QED
    BY <2>1, <2>2
<1>8. ~lost => EnteredIsSpent'
  <2>1. requests[i].row \in spent' /\ spent \subseteq spent'
    BY <1>2, ClientsAssumption DEF S!ClearFields, NamesDiffer
  <2>2. \A j \in S!Ids : requests[j].at = "ok" => j = i
    BY <1>3, OkIsPending DEF ClearedOnce, OneAtATime
  <2>3. \A j \in S!Ids : requests'[j].at # "sent"
    BY <1>1, <1>4, OkIsPending
  <2>4. QED
    BY <2>1, <2>2, <2>3 DEF ClearedOnce, EnteredIsSpent
<1>9. QED
  BY <1>6, <1>7, <1>8 DEF ClearedOnce

(* A request goes on, or ends, without an answer that enters. *)
LEMMA OnceGoesOn ==
  ASSUME S!TypeOK, S!Here.form = "clears", ClearedOnce,
         NEW i \in S!Ids, requests[i].at # "ok", NEW q, q.at \notin {"sent", "ok"},
         requests' = [requests EXCEPT ![i] = q],
         Pending(q) => Pending(requests[i]) /\ UNCHANGED busy,
         Pending(requests[i]) \/ UNCHANGED busy,
         UNCHANGED <<page, dialog, spent, posts, lost>>
  PROVE  ClearedOnce'
<1>1. requests'[i] = q /\ \A j \in S!Ids : j # i => requests'[j] = requests[j]
  BY DEF S!TypeOK
<1>2. S!Here' = S!Here /\ Ops' = Ops
  BY Stays
<1>3. OneAtATime'
  BY <1>1, <1>2 DEF ClearedOnce, OneAtATime
<1>4. DialogIsFresh'
  BY <1>2 DEF ClearedOnce, DialogIsFresh, S!NoDialog
<1>5. ~lost => EnteredIsSpent'
  BY <1>1 DEF ClearedOnce, EnteredIsSpent
<1>6. QED
  BY <1>3, <1>4, <1>5 DEF ClearedOnce

LEMMA OnceAccepted ==
  ASSUME S!TypeOK, S!Here.form = "clears", ClearedOnce, NEW i \in S!Ids, S!Accept(i)
  PROVE  ClearedOnce'
<1> DEFINE r == requests[i].row
<1>1. requests[i].at = "sent" /\ r \in Rows
  BY RequestAt, RequestParts DEF S!Accept
<1>2. PICK q : /\ requests' = [requests EXCEPT ![i] = q]
               /\ q.at \in {"ok", "failed"} /\ q.row = r
               /\ q.at = "failed" => lost'
               /\ q.at = "ok" => lost' = lost
  BY DEF S!Accept, S!Answer, S!IsForm
<1>3. requests'[i] = q /\ \A j \in S!Ids : j # i => requests'[j] = requests[j]
  BY <1>2 DEF S!TypeOK
<1>4. UNCHANGED <<page, busy, dialog, spent>>
  BY DEF S!Accept, S!rigid
<1>5. S!Here' = S!Here /\ Ops' = Ops
  BY <1>4, Stays
<1>6. Pending(requests[i]) /\ Pending(q)
  BY <1>1, <1>2, OkIsPending
<1>7. OneAtATime'
  BY <1>3, <1>4, <1>5, <1>6 DEF ClearedOnce, OneAtATime
<1>8. DialogIsFresh'
  BY <1>4, <1>5 DEF ClearedOnce, DialogIsFresh, S!NoDialog
<1>9. ~lost' => EnteredIsSpent'
  <2> SUFFICES ASSUME ~lost' PROVE EnteredIsSpent'
    OBVIOUS
  <2>1. q.at = "ok" /\ ~lost
    BY <1>2
  <2>2. posts[r] = 0 /\ EnteredIsSpent
    <3>1. EnteredIsSpent
      BY <2>1 DEF ClearedOnce
    <3>2. posts[r] # 1 /\ posts[r] <= 1
      BY <1>1, <3>1 DEF EnteredIsSpent
    <3>3. posts[r] \in 0 .. MaxPosts /\ MaxPosts \in Nat
      BY <1>1, ClientsAssumption DEF S!TypeOK, NumbersFit
    <3>4. QED
      BY <3>1, <3>2, <3>3
  <2>3. posts'[r] \in {0, 1} /\ \A s \in Rows : s # r => posts'[s] = posts[s]
    BY <1>1, <2>2 DEF S!Accept, S!Apply, S!TypeOK
  <2>4. \A j \in S!Ids : requests[j].at \in {"sent", "ok"} => j = i
    BY <1>6, OkIsPending DEF ClearedOnce, OneAtATime
  <2>5. \A j \in S!Ids : requests'[j].at # "sent"
    BY <1>3, <2>1, <2>4
  <2>6. requests'[i].at = "ok" /\ requests'[i].row = r
    BY <1>2, <1>3, <2>1
  <2>7. \A s \in Rows : s # r /\ posts[s] = 1 => s \in spent
    BY <1>1, <2>2, <2>4 DEF EnteredIsSpent
  <2>8. QED
    BY <1>4, <2>2, <2>3, <2>5, <2>6, <2>7 DEF EnteredIsSpent
<1>10. QED
  BY <1>7, <1>8, <1>9 DEF ClearedOnce

LEMMA OnceStep == ASSUME ScreenInv, S!Next PROVE EnteredOnce'
<1> USE DEF ScreenInv
<1>1. UNCHANGED page
  BY DEF S!Next, S!Press, S!Open, S!BulkNext, S!Close, S!Submit, S!BulkPress, S!Refresh, S!Accept,
         S!Refuse, S!Fail, S!Patch, S!Reload, S!Invalidate, S!Leave, S!ReadList, S!ShowList,
         S!LoadFails, S!EndLoad, S!Elsewhere, S!rigid
<1>2. CASE S!Here.form = "clears"
  <2>1. ClearedOnce
    BY <1>2 DEF EnteredOnce, ClearedOnce
  <2>2. SUFFICES ClearedOnce' \/ EnteredOnce'
    BY <1>1, <1>2, ClearedStays
  <2>3. ASSUME NEW op \in Ops, NEW r \in Rows, S!Press(op, r) PROVE ClearedOnce'
    <3>1. shown[r] \in S!Here.lists /\ r \notin spent
      BY <2>3, VisibleIsShown DEF S!Press, S!Offered
    <3>2. PICK to \in S!Here.buttons[op].to : S!Call(op, r, to, shown[r])
      BY <2>3 DEF S!Press
    <3>3. S!Enabled(op, r) /\ S!Raise(op, r) /\ UNCHANGED <<dialog, spent, posts, lost>>
      BY <2>3 DEF S!Press, S!Offered
    <3>4. QED
      BY <1>1, <1>2, <2>1, <3>1, <3>2, <3>3, ToIsKnown, OncePressed
  <2>4. ASSUME NEW op \in Ops, NEW r \in Rows, S!Open(op, r) PROVE ClearedOnce'
    <3>1. r \notin spent
      BY <2>4, VisibleIsShown DEF S!Open
    <3>2. /\ dialog'.op = op /\ dialog'.row = r /\ S!Here.buttons[op].dialog
          /\ UNCHANGED <<page, busy, requests, spent, posts, lost>>
      BY <1>1, <2>4 DEF S!Open
    <3>3. S!Here' = S!Here /\ Ops' = Ops
      BY <1>1, Stays
    <3>4. OneAtATime' /\ DialogIsFresh' /\ (~lost' => EnteredIsSpent')
      BY <2>1, <3>1, <3>2, <3>3 DEF ClearedOnce, OneAtATime, DialogIsFresh, EnteredIsSpent
    <3>5. QED
      BY <3>4 DEF ClearedOnce
  <2>5. ASSUME NEW b \in bulk, S!BulkNext(b) PROVE ClearedOnce'
    <3>1. "bulkCancel" \in Ops
      BY DEF CallsAreOffered, OfferedTo
    <3>2. QED
      BY <1>2, <3>1, FlagsOfForm
  <2>6. CASE S!Close
    <3>1. /\ dialog' = S!NoDialog /\ spent \subseteq spent'
          /\ UNCHANGED <<page, busy, requests, posts, lost>>
      BY <1>1, <2>6 DEF S!Close
    <3>2. S!Here' = S!Here /\ Ops' = Ops /\ S!NoDialog' = S!NoDialog
      BY <1>1, Stays DEF S!NoDialog
    <3>3. OneAtATime' /\ DialogIsFresh' /\ (~lost' => EnteredIsSpent')
      BY <2>1, <3>1, <3>2 DEF ClearedOnce, OneAtATime, DialogIsFresh, EnteredIsSpent
    <3>4. QED
      BY <3>3 DEF ClearedOnce
  <2>7. CASE S!Submit
    <3>1. dialog.op \in Ops /\ dialog.row \in Rows /\ dialog.seen \in S!Here.lists
      BY <2>7, DialogParts DEF S!Submit
    <3>2. PICK to \in S!Here.buttons[dialog.op].to :
            S!Call(dialog.op, dialog.row, to, dialog.seen)
      BY <2>7 DEF S!Submit
    <3>3. /\ S!Enabled(dialog.op, dialog.row) /\ S!Raise(dialog.op, dialog.row)
          /\ UNCHANGED <<dialog, spent, posts, lost>>
      BY <2>7 DEF S!Submit
    <3>4. dialog.row \notin spent
      BY <2>1, <2>7 DEF ClearedOnce, DialogIsFresh, S!Submit
    <3>5. QED
      BY <1>1, <1>2, <2>1, <3>1, <3>2, <3>3, <3>4, ToIsKnown, OncePressed
  <2>8. CASE S!BulkPress
    BY <1>2, <2>8, FlagsOfForm DEF S!BulkPress, Ops
  <2>9. CASE S!Refresh
    <3>1. PICK i \in S!Ids : /\ requests[i] = S!Idle
                             /\ requests' = [requests EXCEPT ![i] = S!Loading("load")]
      BY <2>9 DEF S!Refresh
    <3>2. requests[i].at # "ok" /\ S!Loading("load").at \notin {"sent", "ok"}
      BY <3>1 DEF S!Idle, S!Loading
    <3>3. UNCHANGED <<busy, dialog, spent, posts, lost>>
      BY <2>9 DEF S!Refresh
    <3>4. QED
      BY <1>1, <1>2, <2>1, <3>1, <3>2, <3>3, IdleIsNot, OnceGoesOn
  <2>10. ASSUME NEW i \in S!Ids, S!Accept(i) PROVE ClearedOnce'
    BY <1>2, <2>1, <2>10, OnceAccepted
  <2>11. ASSUME NEW i \in S!Ids, S!Refuse(i) PROVE ClearedOnce'
    <3>1. PICK a : /\ a.at \in {"forbidden", "refused", "failed"}
                   /\ requests' = [requests EXCEPT ![i] = a]
      <4> DEFINE q == requests[i]
                 noRole == [at |-> "forbidden", op |-> q.op, row |-> q.row]
                 stale == [at |-> "refused", op |-> q.op, row |-> q.row,
                           seen |-> q.seen, found |-> server[q.row]]
                 noAnswer == [at |-> "failed", op |-> q.op, row |-> q.row]
      <4>1. /\ noRole.at = "forbidden"
            /\ stale.at = "refused"
            /\ noAnswer.at = "failed"
        OBVIOUS
      <4>2. \/ requests' = [requests EXCEPT ![i] = noRole]
            \/ requests' = [requests EXCEPT ![i] = stale]
            \/ requests' = [requests EXCEPT ![i] = noAnswer]
        BY <2>11 DEF S!Refuse, S!Answer
      <4> HIDE DEF noRole, stale, noAnswer
      <4>3. QED
        BY <4>1, <4>2
    <3>2. requests[i].at = "sent" /\ UNCHANGED <<busy, dialog, spent, posts, lost>>
      BY <2>11 DEF S!Refuse
    <3>3. Pending(requests[i])
      BY <3>2, OkIsPending
    <3>4. QED
      BY <1>1, <1>2, <2>1, <3>1, <3>2, <3>3, OnceGoesOn
  <2>12. ASSUME NEW i \in S!Ids, S!Fail(i) PROVE ClearedOnce'
    <3>1. /\ requests[i].at \in {"forbidden", "refused", "failed"}
          /\ requests' = [requests EXCEPT ![i] = S!Idle]
          /\ UNCHANGED <<dialog, spent, posts, lost>>
      BY <2>12 DEF S!Fail
    <3>2. Pending(requests[i]) /\ S!Idle.at \notin {"sent", "ok"}
      BY <3>1, OkIsPending DEF S!Idle
    <3>3. QED
      BY <1>1, <1>2, <2>1, <3>1, <3>2, IdleIsNot, OnceGoesOn
  <2>13. ASSUME NEW i \in S!Ids,
                S!Patch(i) \/ S!Reload(i) \/ S!Invalidate(i) \/ S!Leave(i)
         PROVE  ClearedOnce'
    <3>1. /\ requests[i].at = "ok" /\ S!ClearFields(requests[i])
          /\ UNCHANGED <<posts, lost>>
      BY <2>13 DEF S!Patch, S!Reload, S!Invalidate, S!Leave
    <3>2. /\ S!Idle.at \notin {"sent", "ok"}
          /\ \A op : S!Loading(op).at \notin {"sent", "ok"}
      BY DEF S!Idle, S!Loading
    <3>3. CASE S!Reload(i)
      <4>1. /\ requests' = [requests EXCEPT ![i] = S!Loading(requests[i].op)]
            /\ UNCHANGED busy
        BY <3>3 DEF S!Reload
      <4>2. QED
        BY <1>1, <1>2, <2>1, <3>1, <3>2, <4>1, OnceCleared
    <3>4. CASE S!Invalidate(i)
      <4>1. requests' = [requests EXCEPT ![i] = S!Loading("load")]
        BY <3>4 DEF S!Invalidate
      <4>2. QED
        BY <1>1, <1>2, <2>1, <3>1, <3>2, <4>1, IdleIsNot, OnceCleared
    <3>5. CASE S!Patch(i) \/ S!Leave(i)
      <4>1. requests' = [requests EXCEPT ![i] = S!Idle]
        BY <3>5 DEF S!Patch, S!Leave
      <4>2. QED
        BY <1>1, <1>2, <2>1, <3>1, <3>2, <4>1, IdleIsNot, OnceCleared
    <3>6. QED
      BY <2>13, <3>3, <3>4, <3>5
  <2>14. ASSUME NEW i \in S!Ids, S!ReadList(i) PROVE ClearedOnce'
    <3>1. PICK q : /\ q.at = "read" /\ q.op = requests[i].op
                   /\ requests' = [requests EXCEPT ![i] = q]
      BY <2>14 DEF S!ReadList
    <3>2. requests[i].at = "loading" /\ UNCHANGED <<busy, dialog, spent, posts, lost>>
      BY <2>14 DEF S!ReadList
    <3>3. Pending(q) => Pending(requests[i])
      BY <3>1, <3>2 DEF Pending
    <3>4. QED
      BY <1>1, <1>2, <2>1, <3>1, <3>2, <3>3, OnceGoesOn
  <2>15. ASSUME NEW i \in S!Ids, S!ShowList(i) \/ S!LoadFails(i) PROVE ClearedOnce'
    <3>1. requests[i].at \in {"loading", "read"}
      BY <2>15, EndsLoad
    <3>2. /\ requests' = [requests EXCEPT ![i] = S!Idle]
          /\ requests[i].op = "load" => UNCHANGED busy
          /\ UNCHANGED <<dialog, spent, posts, lost>>
      BY <2>15 DEF S!ShowList, S!LoadFails, S!EndLoad
    <3>3. Pending(requests[i]) \/ UNCHANGED busy
      BY <3>1, <3>2 DEF Pending
    <3>4. S!Idle.at \notin {"sent", "ok"}
      BY DEF S!Idle
    <3>5. QED
      BY <1>1, <1>2, <2>1, <3>1, <3>2, <3>3, <3>4, IdleIsNot, OnceGoesOn
  <2>16. ASSUME NEW r \in Rows, S!Elsewhere(r) PROVE ClearedOnce'
    BY <1>2, <2>16 DEF S!Elsewhere, S!IsForm
  <2>17. QED
    BY <2>3, <2>4, <2>5, <2>6, <2>7, <2>8, <2>9, <2>10, <2>11, <2>12, <2>13, <2>14, <2>15,
       <2>16 DEF S!Next, Ops
<1>3. CASE S!Here.form # "clears"
  <2>1. CASE UNCHANGED posts
    BY <1>1, <1>3, <2>1, NothingStays
  <2>2. ASSUME NEW i \in S!Ids, S!Accept(i) PROVE EnteredOnce'
    <3>1. /\ requests[i].at = "sent" /\ requests[i].op \in Ops
          /\ requests[i].to \in S!Here.buttons[requests[i].op].to
          /\ S!Apply(requests[i].row, requests[i].to)
      BY <2>2, RequestAt, RequestParts DEF S!Accept, CallsAreOffered, RequestFits
    <3>2. S!Here.form = "none" => requests[i].to # "POSTED"
      BY <3>1, HereFits DEF PageFits, EntersNothing, Ops
    <3>3. QED
      BY <1>1, <1>3, <3>1, <3>2 DEF S!Apply, S!TypeOK, EnteredOnce, NothingEntered, S!Here
  <2>3. ASSUME NEW r \in Rows, S!Elsewhere(r) PROVE EnteredOnce'
    <3>1. S!Here.form = "none"
      BY <2>3 DEF S!Elsewhere, S!IsForm
    <3>2. PICK to : to # "POSTED" /\ S!Apply(r, to)
      BY <2>3, <3>1, HereFits DEF S!Elsewhere, PageFits, EntersNothing
    <3>3. QED
      BY <1>1, <3>1, <3>2 DEF S!Apply, S!TypeOK, EnteredOnce, NothingEntered, S!Here
  <2>4. UNCHANGED posts \/ (\E i \in S!Ids : S!Accept(i)) \/ (\E r \in Rows : S!Elsewhere(r))
    BY DEF S!Next, S!Press, S!Open, S!BulkNext, S!Close, S!Submit, S!BulkPress, S!Refresh,
           S!Refuse, S!Fail, S!Patch, S!Reload, S!Invalidate, S!Leave, S!ReadList, S!ShowList,
           S!LoadFails, S!EndLoad
  <2>5. QED
    BY <2>1, <2>2, <2>3, <2>4
<1>4. QED
  BY <1>2, <1>3

LEMMA EnteredIsOnce == ASSUME S!TypeOK, EnteredOnce PROVE S!FormIsPostedOnce
<1>1. S!Here.form \in {"none", "clears", "keeps"}
  BY HereFits DEF PageFits
<1>2. S!Here.form = "none" => \A r \in Rows : posts[r] = 0
  BY DEF EnteredOnce, NothingEntered
<1>3. S!Here.form = "clears" /\ ~lost => \A r \in Rows : posts[r] <= 1
  BY DEF EnteredOnce, EnteredIsSpent
<1>4. QED
  BY <1>1, <1>2, <1>3 DEF S!FormIsPostedOnce

-----------------------------------------------------------------------------
(* Theorems *)

LEMMA ScreenInit == ASSUME S!Init PROVE ScreenInv
<1>1. page \in DOMAIN AllScreens /\ role \in S!Here.users
  BY DEF S!Init
<1>2. S!FirstStatuses \subseteq S!Here.lists /\ S!Here.lists \subseteq S!Known
  BY DEF S!FirstStatuses, S!Known
<1>3. server \in [Rows -> S!Known] /\ shown \in [Rows -> S!Here.lists \cup {"nothing"}]
  BY <1>2 DEF S!Init, S!Nothing
<1>4. requests \in [S!Ids -> S!Request]
  <2>1. S!Idle \in S!Request /\ S!Loading("load") \in S!Request
    BY DEF S!Request, S!Loading
  <2>2. QED
    BY <2>1 DEF S!Init
<1>5. posts \in [Rows -> 0 .. MaxPosts] /\ elsewhere \in 0 .. MaxElsewhere
  BY ClientsAssumption DEF S!Init, NumbersFit
<1>6. S!TypeOK
  BY <1>1, <1>3, <1>4, <1>5 DEF S!Init, S!TypeOK
<1>7. CallsAreOffered
  <2>1. \A i \in S!Ids : requests[i] \in {S!Idle, S!Loading("load")}
    BY DEF S!Init
  <2>2. QED
    BY <2>1, OtherKindsFit DEF S!Init, CallsAreOffered
<1>8. EnteredOnce
  <2>1. \A i \in S!Ids : ~Pending(requests[i])
    BY IdleIsNot DEF S!Init
  <2>2. \A r \in Rows : posts[r] = 0
    BY DEF S!Init
  <2>3. QED
    BY <2>1, <2>2 DEF S!Init, EnteredOnce, NothingEntered, OneAtATime, DialogIsFresh,
                      EnteredIsSpent
<1>9. QED
  BY <1>6, <1>7, <1>8 DEF ScreenInv

LEMMA ScreenStays == ASSUME ScreenInv, UNCHANGED S!vars PROVE ScreenInv'
<1>1. UNCHANGED <<page, role, server, shown, busy, dialog, bulk, requests, spent, posts, lost,
                  elsewhere>>
  BY DEF S!vars
<1>2. S!TypeOK'
  BY <1>1, Stays DEF ScreenInv, S!TypeOK, S!NoDialog
<1>3. CallsAreOffered'
  BY <1>1, OfferedStays DEF ScreenInv, CallsAreOffered
<1>4. EnteredOnce'
  BY <1>1, OnceStays DEF ScreenInv
<1>5. QED
  BY <1>2, <1>3, <1>4 DEF ScreenInv

(* The types, that every request was offered to its user for the status he *)
(* saw, and that on a form one request at a time is under way and what was *)
(* entered is spent, hold in every state of the screens.                   *)
THEOREM ScreenInvAlways == Spec => [](program = "Screens" => ScreenInv)
<1> DEFINE I == program = "Screens" => ScreenInv
<1>1. Init => I
  BY ScreenInit DEF Init
<1>2. I /\ [Next]_vars => I'
  <2> SUFFICES ASSUME I, [Next]_vars, program' = "Screens" PROVE ScreenInv'
    OBVIOUS
  <2>1. program = "Screens" /\ (S!Next \/ UNCHANGED S!vars)
    BY DEF Next, vars, S!vars, screenVars
  <2>2. CASE S!Next
    BY <2>1, <2>2, TypedStep, OfferedStep, OnceStep DEF ScreenInv
  <2>3. CASE UNCHANGED S!vars
    BY <2>1, <2>3, ScreenStays
  <2>4. QED
    BY <2>1, <2>2, <2>3
<1>3. QED
  BY <1>1, <1>2, PTL DEF Spec

(* What a screen of the panel or of an app offers its user, the server     *)
(* lets him do: the tables of both programs agree, and a call is refused   *)
(* only when the row is no longer what he saw.                             *)
THEOREM RefusedOnlyIfStaleAlways == Spec => []RefusedOnlyIfStale
<1>1. (program = "Screens" => ScreenInv) => RefusedOnlyIfStale
  BY RefusalsAreStale DEF ScreenInv, RefusedOnlyIfStale
<1>2. QED
  BY <1>1, ScreenInvAlways, PTL

(* One filling of a form is entered once, unless an answer was lost: by    *)
(* then it is spent, or the flag of the request that enters it is up.      *)
THEOREM FormIsPostedOnceAlways == Spec => []FormIsPostedOnce
<1>1. (program = "Screens" => ScreenInv) => FormIsPostedOnce
  BY EnteredIsOnce DEF ScreenInv, FormIsPostedOnce
<1>2. QED
  BY <1>1, ScreenInvAlways, PTL

(* Every variable of the program that runs has its type, whatever the      *)
(* constants: among it that a rule is never listed twice, that a position  *)
(* shown was measured before, that every order of the seed has a customer  *)
(* with an account, and that no screen shows a status its list has not.    *)
THEOREM TypeOKAlways == Spec => []TypeOK
<1> DEFINE P == program \in {"OrderQuote", "JobOffers", "LiveTracking", "Screens", "Branding",
                             "AppSession", "DemoSeed"}
<1>1. Init => P
  BY DEF Init
<1>2. P /\ [Next]_vars => P'
  BY DEF Next, vars
<1>3. (program = "JobOffers" => OfferInv) => (program = "JobOffers" => J!TypeOK)
  BY DEF OfferInv, OfferTyped, OfferCall, Overlay, J!TypeOK
<1>4. (program = "Screens" => ScreenInv) => (program = "Screens" => S!TypeOK)
  BY DEF ScreenInv
<1>5. (program = "Branding" => LogoInv) => (program = "Branding" => B!TypeOK)
  <2> SUFFICES ASSUME LogoTyped PROVE B!TypeOK
    BY DEF LogoInv
  <2>1. ASSUME NEW m \in Managers, NEW b \in DOMAIN work[m]
        PROVE  work[m][b].old \in B!Logos /\ work[m][b].new \in B!Logos
    <3>1. work[m] \in [B!Buttons -> Slot] /\ b \in B!Buttons
      BY <2>1 DEF LogoTyped
    <3>2. work[m][b] \in Slot
      BY <3>1
    <3>3. QED
      BY <3>2 DEF Slot
  <2>2. QED
    BY <2>1 DEF LogoTyped, B!TypeOK
<1>6. (program = "AppSession" => SessionInv) => (program = "AppSession" => A!TypeOK)
  BY DEF SessionInv, SessionTyped, Hydration, Job, A!TypeOK
<1>7. (program = "DemoSeed" => SeedInv) => (program = "DemoSeed" => D!TypeOK)
  BY SeedIsTyped
<1> DEFINE T ==
      /\ program = "OrderQuote" => Q!TypeOK
      /\ program = "JobOffers" => OfferInv
      /\ program = "LiveTracking" => L!TypeOK
      /\ program = "Screens" => ScreenInv
      /\ program = "Branding" => LogoInv
      /\ program = "AppSession" => SessionInv
      /\ program = "DemoSeed" => SeedInv
<1>8. P /\ T => TypeOK
  BY <1>3, <1>4, <1>5, <1>6, <1>7 DEF TypeOK
<1> HIDE DEF P
<1>9. Spec => []P
  BY <1>1, <1>2, PTL DEF Spec
<1>10. Spec => []T
  BY QuoteTypedAlways, OfferInvAlways, TrackingTypedAlways, ScreenInvAlways, LogoInvAlways,
     SessionInvAlways, SeedInvAlways, PTL
<1>11. QED
  BY <1>8, <1>9, <1>10, PTL

=============================================================================
