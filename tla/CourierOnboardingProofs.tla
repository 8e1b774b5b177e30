----------------------- MODULE CourierOnboardingProofs -----------------------
(***************************************************************************)
(* Proofs about CourierOnboarding: the file of a document is never deleted *)
(* while its row names it, however uploads overtake each other and die;    *)
(* and where people wait for their answers, approval means complete        *)
(* documents and decisions stay.                                           *)
(***************************************************************************)
EXTENDS CourierOnboarding, TLAPS

(* What a request in progress carries, by the step it has reached.         *)
LEMMA Fields ==
  ASSUME TypeOK, NEW h \in Handlers
  PROVE  /\ handler[h].at \in UploadSteps =>
              handler[h] \in [at : UploadSteps, courier : Couriers, type : DocTypes,
                              old : Files \cup {NoFile}, file : Files \cup {NoFile}]
         /\ handler[h].at \in ReviewSteps =>
              handler[h] \in [at : ReviewSteps, courier : Couriers, type : DocTypes]
         /\ handler[h].at \in DecideSteps \cup {"submit.read", "online.read"} =>
              handler[h] \in [at : DecideSteps \cup {"submit.read", "online.read"},
                              courier : Couriers]
  <1>1. handler[h] \in Requests
    BY DEF TypeOK
  <1> QED
    BY <1>1 DEF Requests, UploadSteps, ReviewSteps, DecideSteps

LEMMA NextStep ==
  ASSUME NEW R \in Requests, NEW h \in Handlers, TypeOK, Goto(h, R)
  PROVE  /\ handler' \in [Handlers -> Requests]
         /\ handler'[h] = R
         /\ \A g \in Handlers : g # h => handler'[g] = handler[g]
  BY DEF TypeOK, Goto

LEMMA IdleIsRequest == Idle \in Requests
  BY DEF Idle, Requests

(* The review of one document is set. *)
LEMMA SetReview ==
  ASSUME TypeOK, NEW c \in Couriers, NEW t \in DocTypes, NEW s \in ReviewStatus,
         review' = [review EXCEPT ![c][t] = s]
  PROVE  /\ review' \in [Couriers -> [DocTypes -> ReviewStatus \cup {"MISSING"}]]
         /\ review'[c][t] = s
         /\ \A d \in Couriers, u \in DocTypes :
              d # c \/ u # t => review'[d][u] = review[d][u]
  <1>1. review \in [Couriers -> [DocTypes -> ReviewStatus \cup {"MISSING"}]]
    BY DEF TypeOK
  <1>2. review' = [review EXCEPT ![c] = [review[c] EXCEPT ![t] = s]]
    OBVIOUS
  <1>3. [review[c] EXCEPT ![t] = s] \in [DocTypes -> ReviewStatus \cup {"MISSING"}]
    BY <1>1
  <1> QED
    BY <1>1, <1>2, <1>3

LEMMA SetFile ==
  ASSUME TypeOK, NEW c \in Couriers, NEW t \in DocTypes, NEW file \in Files \cup {NoFile},
         fileOf' = [fileOf EXCEPT ![c][t] = file]
  PROVE  /\ fileOf' \in [Couriers -> [DocTypes -> Files \cup {NoFile}]]
         /\ fileOf'[c][t] = file
         /\ \A d \in Couriers, u \in DocTypes :
              d # c \/ u # t => fileOf'[d][u] = fileOf[d][u]
  <1>1. fileOf \in [Couriers -> [DocTypes -> Files \cup {NoFile}]]
    BY DEF TypeOK
  <1>2. fileOf' = [fileOf EXCEPT ![c] = [fileOf[c] EXCEPT ![t] = file]]
    OBVIOUS
  <1>3. [fileOf[c] EXCEPT ![t] = file] \in [DocTypes -> Files \cup {NoFile}]
    BY <1>1
  <1> QED
    BY <1>1, <1>2, <1>3

LEMMA TypingInit == Init => TypeOK
  <1> SUFFICES ASSUME Init
               PROVE  TypeOK
    OBVIOUS
  <1>1. workflow \in [Couriers -> WorkflowStatus \cup {"ABSENT"}]
    BY DEF Init
  <1>0. applied \in SUBSET Couriers
    BY DEF Init
  <1>2. review \in [Couriers -> [DocTypes -> ReviewStatus \cup {"MISSING"}]]
    BY DEF Init
  <1>3. /\ fileOf \in [Couriers -> [DocTypes -> Files \cup {NoFile}]]
        /\ disk \in SUBSET Files
        /\ isOnline \in [Couriers -> BOOLEAN]
    BY DEF Init
  <1>4. handler \in [Handlers -> Requests]
    BY IdleIsRequest DEF Init
  <1>5. {orderly, died} \subseteq BOOLEAN
    BY DEF Init
  <1> QED
    BY <1>0, <1>1, <1>2, <1>3, <1>4, <1>5 DEF TypeOK

(* The request that a step leaves behind is well formed. *)
LEMMA Continues ==
  ASSUME TypeOK, NEW h \in Handlers
  PROVE  /\ \A f \in Files : handler[h].at = "upload.read" =>
              [handler[h] EXCEPT !.at = "upload.written", !.file = f] \in Requests
         /\ handler[h].at = "upload.written" =>
              [handler[h] EXCEPT !.at = "upload.saved"] \in Requests
         /\ handler[h].at = "approve.read" =>
              [handler[h] EXCEPT !.at = "approve.saved"] \in Requests
         /\ handler[h].at = "approve.saved" =>
              [handler[h] EXCEPT !.at = "approve.all"] \in Requests
  <1>1. ASSUME NEW f \in Files, handler[h].at = "upload.read"
        PROVE  [handler[h] EXCEPT !.at = "upload.written", !.file = f] \in Requests
    BY <1>1, Fields DEF Requests, UploadSteps
  <1>2. handler[h].at = "upload.written" =>
          [handler[h] EXCEPT !.at = "upload.saved"] \in Requests
    BY Fields DEF Requests, UploadSteps
  <1>3. handler[h].at = "approve.read" =>
          [handler[h] EXCEPT !.at = "approve.saved"] \in Requests
    BY Fields DEF Requests, ReviewSteps
  <1>4. handler[h].at = "approve.saved" =>
          [handler[h] EXCEPT !.at = "approve.all"] \in Requests
    BY Fields DEF Requests, ReviewSteps
  <1> QED
    BY <1>1, <1>2, <1>3, <1>4

LEMMA TypingStep == TypeOK /\ [Next]_vars => TypeOK'
  <1> SUFFICES ASSUME TypeOK, [Next]_vars
               PROVE  TypeOK'
    OBVIOUS
  <1> USE IdleIsRequest
  <1>1. CASE UNCHANGED vars
    BY <1>1 DEF TypeOK, vars, documentVars, kept
  <1>2. ASSUME NEW c \in Couriers, Register(c) \/ RegisterCourierOnboarding(c) \/ GoOffline(c)
        PROVE  TypeOK'
    BY <1>2 DEF Register, RegisterCourierOnboarding, GoOffline, TypeOK, WorkflowStatus,
                documentVars, kept
  <1>3. ASSUME NEW h \in Handlers, Abort(h)
        PROVE  TypeOK'
    BY <1>3, NextStep DEF Abort, TypeOK, documentVars
  <1>4. ASSUME NEW h \in Handlers, NEW c \in Couriers, SubmitRead(h, c) \/ OnlineRead(h, c)
        PROVE  TypeOK'
    <2>1. {[at |-> "submit.read", courier |-> c], [at |-> "online.read", courier |-> c]}
            \subseteq Requests
      BY DEF Requests
    <2> QED
      BY <1>4, <2>1, NextStep DEF SubmitRead, OnlineRead, TypeOK, documentVars, kept
  <1>5. ASSUME NEW h \in Handlers, NEW c \in Couriers, NEW d \in DecideSteps,
               DecideRead(h, c, d)
        PROVE  TypeOK'
    <2>1. [at |-> d, courier |-> c] \in Requests
      BY DEF Requests
    <2> QED
      BY <1>5, <2>1, NextStep DEF DecideRead, TypeOK, documentVars, kept
  <1>6. ASSUME NEW h \in Handlers, NEW c \in Couriers, NEW t \in DocTypes,
               UploadRead(h, c, t)
        PROVE  TypeOK'
    <2>1. fileOf[c][t] \in Files \cup {NoFile}
      BY DEF TypeOK
    <2>2. [at |-> "upload.read", courier |-> c, type |-> t,
           old |-> fileOf[c][t], file |-> NoFile] \in Requests
      BY <2>1 DEF Requests, UploadSteps
    <2> QED
      BY <1>6, <2>2, NextStep DEF UploadRead, TypeOK, documentVars, kept
  <1>7. ASSUME NEW h \in Handlers, NEW c \in Couriers, NEW t \in DocTypes,
               NEW d \in {"approve.read", "reject.read"}, ReviewRead(h, c, t, d)
        PROVE  TypeOK'
    <2>1. [at |-> d, courier |-> c, type |-> t] \in Requests
      BY DEF Requests, ReviewSteps
    <2> QED
      BY <1>7, <2>1, NextStep DEF ReviewRead, TypeOK, documentVars, kept
  <1>8. ASSUME NEW h \in Handlers, Advance(h)
        PROVE  TypeOK'
    <2>1. CASE ApproveRegistration(h) \/ RejectRegistration(h) \/ SubmitForReview(h)
               \/ ApproveCourier(h) \/ GoOnline(h)
      BY <2>1, NextStep DEF ApproveRegistration, RejectRegistration, SubmitForReview,
         ApproveCourier, GoOnline, TypeOK, WorkflowStatus, documentVars, kept
    <2>2. CASE UploadWrite(h)
      <3>1. PICK f \in FreshFiles :
              /\ disk' = disk \cup {f}
              /\ Goto(h, [handler[h] EXCEPT !.at = "upload.written", !.file = f])
        BY <2>2 DEF UploadWrite
      <3>2. f \in Files
        BY DEF FreshFiles
      <3> QED
        BY <2>2, <3>1, <3>2, NextStep, Continues DEF UploadWrite, TypeOK, kept
    <2>3. CASE UploadSave(h)
      <3>1. handler[h] \in [at : UploadSteps, courier : Couriers, type : DocTypes,
                            old : Files \cup {NoFile}, file : Files \cup {NoFile}]
        BY <2>3, Fields DEF UploadSave, UploadSteps
      <3>2. handler' \in [Handlers -> Requests]
        BY <2>3, NextStep, Continues DEF UploadSave
      <3>3. /\ review' \in [Couriers -> [DocTypes -> ReviewStatus \cup {"MISSING"}]]
            /\ fileOf' \in [Couriers -> [DocTypes -> Files \cup {NoFile}]]
        <4>1. CASE UNCHANGED <<review, fileOf>>
          BY <4>1 DEF TypeOK
        <4>2. CASE /\ review' = [review EXCEPT ![handler[h].courier][handler[h].type]
                                   = "PENDING_REVIEW"]
                   /\ fileOf' = [fileOf EXCEPT ![handler[h].courier][handler[h].type]
                                   = handler[h].file]
          <5>1. /\ handler[h].courier \in Couriers
                /\ handler[h].type \in DocTypes
                /\ handler[h].file \in Files \cup {NoFile}
            BY <3>1
          <5>2. review' \in [Couriers -> [DocTypes -> ReviewStatus \cup {"MISSING"}]]
            BY <4>2, <5>1, SetReview DEF ReviewStatus
          <5>3. fileOf' \in [Couriers -> [DocTypes -> Files \cup {NoFile}]]
            BY <4>2, <5>1, SetFile
          <5> QED
            BY <5>2, <5>3
        <4> QED
          BY <2>3, <4>1, <4>2 DEF UploadSave
      <3> QED
        BY <2>3, <3>2, <3>3 DEF UploadSave, TypeOK, kept
    <2>4. CASE UploadUnlink(h)
      BY <2>4, NextStep DEF UploadUnlink, TypeOK, kept
    <2>5. CASE ApproveDocument(h)
      <3>1. /\ handler[h].courier \in Couriers
            /\ handler[h].type \in DocTypes
        BY <2>5, Fields DEF ApproveDocument, ReviewSteps
      <3>2. review' \in [Couriers -> [DocTypes -> ReviewStatus \cup {"MISSING"}]]
        BY <2>5, <3>1, SetReview DEF ApproveDocument, ReviewStatus
      <3> QED
        BY <2>5, <3>2, NextStep, Continues DEF ApproveDocument, TypeOK, kept
    <2>6. CASE ApproveReadAll(h)
      BY <2>6, NextStep, Continues DEF ApproveReadAll, TypeOK, documentVars, kept
    <2>7. CASE RejectDocument(h)
      <3>1. /\ handler[h].courier \in Couriers
            /\ handler[h].type \in DocTypes
        BY <2>7, Fields DEF RejectDocument, ReviewSteps
      <3>2. review' \in [Couriers -> [DocTypes -> ReviewStatus \cup {"MISSING"}]]
        BY <2>7, <3>1, SetReview DEF RejectDocument, ReviewStatus
      <3> QED
        BY <2>7, <3>2, NextStep DEF RejectDocument, TypeOK, WorkflowStatus, kept
    <2> QED
      BY <1>8, <2>1, <2>2, <2>3, <2>4, <2>5, <2>6, <2>7 DEF Advance
  <1> QED
    BY <1>1, <1>2, <1>3, <1>4, <1>5, <1>6, <1>7, <1>8 DEF Next

(* Every reachable state of the applications, their documents and files    *)
(* and of the requests in progress is well typed.                          *)
THEOREM Typing == Spec => []TypeOK
  BY TypingInit, TypingStep, PTL DEF Spec

-----------------------------------------------------------------------------
(* Files: what an upload has written and not yet saved belongs to it       *)
(* alone, and what it found and has replaced is named by no row.           *)

Uploading(g) == handler[g].at \in UploadSteps

RowsDiffer ==
  \A c, d \in Couriers : \A t, u \in DocTypes :
    fileOf[c][t] # NoFile /\ fileOf[c][t] = fileOf[d][u] => c = d /\ t = u

FoundInItsRow ==
  \A g \in Handlers : Uploading(g) =>
    \A c \in Couriers, t \in DocTypes :
      fileOf[c][t] # NoFile /\ fileOf[c][t] = handler[g].old =>
        c = handler[g].courier /\ t = handler[g].type

WrittenIsNew ==
  \A g \in Handlers : handler[g].at = "upload.written" =>
    /\ handler[g].file # NoFile
    /\ handler[g].file \in disk
    /\ \A c \in Couriers, t \in DocTypes : fileOf[c][t] # handler[g].file
    /\ \A k \in Handlers : Uploading(k) => handler[k].old # handler[g].file
    /\ \A k \in Handlers :
         k # g /\ handler[k].at = "upload.written" => handler[k].file # handler[g].file

ReplacedIsUnnamed ==
  \A g \in Handlers : handler[g].at = "upload.saved" =>
    /\ handler[g].old # NoFile
    /\ \A c \in Couriers, t \in DocTypes : fileOf[c][t] # handler[g].old

ReviewedIsThere ==
  \A g \in Handlers : handler[g].at \in ReviewSteps =>
    review[handler[g].courier][handler[g].type] # "MISSING"

UploadsApart == RowsDiffer /\ FoundInItsRow /\ WrittenIsNew /\ ReplacedIsUnnamed

FileInv == DocumentFileExists /\ UploadsApart /\ ReviewedIsThere

LEMMA FileInvInit == Init => FileInv
  BY DEF Init, FileInv, DocumentFileExists, UploadsApart, RowsDiffer, FoundInItsRow, WrittenIsNew,
         ReplacedIsUnnamed, ReviewedIsThere, Uploading, Idle, UploadSteps, ReviewSteps

(* A step that leaves rows and files alone and begins no upload.           *)
LEMMA QuietStep ==
  ASSUME FileInv, NEW h \in Handlers, documentVars' = documentVars,
         \A g \in Handlers : g # h => handler'[g] = handler[g],
         handler'[h].at \notin UploadSteps,
         handler'[h].at \in ReviewSteps =>
           review[handler'[h].courier][handler'[h].type] # "MISSING"
  PROVE  FileInv'
  <1>1. UploadSteps = {"upload.read", "upload.written", "upload.saved"}
    BY DEF UploadSteps
  <1>2. DocumentFileExists' /\ RowsDiffer'
    BY DEF FileInv, UploadsApart, DocumentFileExists, RowsDiffer, documentVars
  <1>3. FoundInItsRow'
    BY DEF FileInv, UploadsApart, FoundInItsRow, Uploading, documentVars
  <1>4. WrittenIsNew'
    BY <1>1 DEF FileInv, UploadsApart, WrittenIsNew, Uploading, documentVars
  <1>5. ReplacedIsUnnamed'
    BY <1>1 DEF FileInv, UploadsApart, ReplacedIsUnnamed, documentVars
  <1>6. ReviewedIsThere'
    BY DEF FileInv, ReviewedIsThere, documentVars
  <1> QED
    BY <1>2, <1>3, <1>4, <1>5, <1>6 DEF FileInv, UploadsApart

(* A step that sets the review of a document that is there.                *)
LEMMA ReviewStep ==
  ASSUME FileInv, TypeOK, NEW h \in Handlers, fileOf' = fileOf, disk' = disk,
         handler[h].at \in ReviewSteps, NEW s \in ReviewStatus,
         review' = [review EXCEPT ![handler[h].courier][handler[h].type] = s],
         \A g \in Handlers : g # h => handler'[g] = handler[g],
         handler'[h] = Idle \/ (/\ handler'[h].courier = handler[h].courier
                               /\ handler'[h].type = handler[h].type
                               /\ handler'[h].at \in ReviewSteps)
  PROVE  FileInv'
  <1>1. UploadSteps = {"upload.read", "upload.written", "upload.saved"}
    BY DEF UploadSteps
  <1>2. handler'[h].at \notin UploadSteps
    BY DEF Idle, ReviewSteps, UploadSteps
  <1>3. /\ handler[h].courier \in Couriers
        /\ handler[h].type \in DocTypes
        /\ review[handler[h].courier][handler[h].type] # "MISSING"
    BY Fields DEF FileInv, ReviewedIsThere
  <1>4. s # "MISSING"
    BY DEF ReviewStatus
  <1>5. \A c \in Couriers, t \in DocTypes :
          /\ review[c][t] # "MISSING" => review'[c][t] # "MISSING"
          /\ (review'[c][t] = "MISSING") = (review[c][t] = "MISSING")
    BY <1>3, <1>4, SetReview
  <1>6. DocumentFileExists' /\ RowsDiffer'
    BY <1>5 DEF FileInv, UploadsApart, DocumentFileExists, RowsDiffer
  <1>7. FoundInItsRow'
    BY <1>2 DEF FileInv, UploadsApart, FoundInItsRow, Uploading
  <1>8. WrittenIsNew'
    BY <1>1, <1>2 DEF FileInv, UploadsApart, WrittenIsNew, Uploading
  <1>9. ReplacedIsUnnamed'
    BY <1>1, <1>2 DEF FileInv, UploadsApart, ReplacedIsUnnamed
  <1>10. ReviewedIsThere'
    <2>1. \A g \in Handlers : handler[g].at \in ReviewSteps =>
            handler[g].courier \in Couriers /\ handler[g].type \in DocTypes
      BY Fields
    <2>2. ASSUME NEW g \in Handlers, g # h, handler'[g].at \in ReviewSteps
          PROVE  review'[handler'[g].courier][handler'[g].type] # "MISSING"
      BY <1>5, <2>1, <2>2 DEF FileInv, ReviewedIsThere
    <2>3. handler'[h].at \in ReviewSteps =>
            review'[handler'[h].courier][handler'[h].type] # "MISSING"
      BY <1>3, <1>5 DEF Idle, ReviewSteps
    <2> QED
      BY <2>2, <2>3 DEF ReviewedIsThere
  <1> QED
    BY <1>6, <1>7, <1>8, <1>9, <1>10 DEF FileInv, UploadsApart

LEMMA UploadReadKeepsFiles ==
  ASSUME FileInv, TypeOK, NEW h \in Handlers, NEW c \in Couriers, NEW t \in DocTypes,
         UploadRead(h, c, t)
  PROVE  FileInv'
  <1> DEFINE R == [at |-> "upload.read", courier |-> c, type |-> t,
                   old |-> fileOf[c][t], file |-> NoFile]
  <1>1. /\ handler'[h] = R
        /\ \A g \in Handlers : g # h => handler'[g] = handler[g]
        /\ documentVars' = documentVars
    BY DEF UploadRead, Goto, TypeOK
  <1>2. /\ handler'[h].at = "upload.read"
        /\ handler'[h].courier = c
        /\ handler'[h].type = t
        /\ handler'[h].old = fileOf[c][t]
    BY <1>1
  <1> HIDE DEF R
  <1>3. DocumentFileExists' /\ RowsDiffer'
    BY <1>1 DEF FileInv, UploadsApart, DocumentFileExists, RowsDiffer, documentVars
  <1>4. FoundInItsRow'
    BY <1>1, <1>2 DEF FileInv, UploadsApart, FoundInItsRow, RowsDiffer, Uploading, documentVars
  <1>5. WrittenIsNew'
    BY <1>1, <1>2 DEF FileInv, UploadsApart, WrittenIsNew, Uploading, documentVars
  <1>6. ReplacedIsUnnamed' /\ ReviewedIsThere'
    BY <1>1, <1>2 DEF FileInv, UploadsApart, ReplacedIsUnnamed, ReviewedIsThere, ReviewSteps,
                      documentVars
  <1> QED
    BY <1>3, <1>4, <1>5, <1>6 DEF FileInv, UploadsApart

LEMMA UploadWriteKeepsFiles ==
  ASSUME FileInv, TypeOK, NEW h \in Handlers, UploadWrite(h)
  PROVE  FileInv'
  <1>1. PICK f \in FreshFiles :
          /\ disk' = disk \cup {f}
          /\ Goto(h, [handler[h] EXCEPT !.at = "upload.written", !.file = f])
    BY DEF UploadWrite
  <1>2. /\ f \in Files
        /\ f # NoFile
        /\ f \notin disk
        /\ \A c \in Couriers, t \in DocTypes : fileOf[c][t] # f
        /\ \A g \in Handlers : Uploading(g) => handler[g].old # f /\ handler[g].file # f
    BY OnboardingAssumption DEF FreshFiles, Uploading
  <1>3. /\ handler[h].at = "upload.read"
        /\ handler[h] \in [at : UploadSteps, courier : Couriers, type : DocTypes,
                           old : Files \cup {NoFile}, file : Files \cup {NoFile}]
    BY Fields DEF UploadWrite, UploadSteps
  <1>4. /\ \A g \in Handlers : g # h => handler'[g] = handler[g]
        /\ review' = review
        /\ fileOf' = fileOf
    BY <1>1 DEF UploadWrite, Goto
  <1>5. /\ handler'[h].at = "upload.written"
        /\ handler'[h].courier = handler[h].courier
        /\ handler'[h].type = handler[h].type
        /\ handler'[h].old = handler[h].old
        /\ handler'[h].file = f
    BY <1>1, <1>3 DEF Goto, TypeOK
  <1>6. Uploading(h)
    BY <1>3 DEF Uploading, UploadSteps
  <1>6a. disk' = disk \cup {f}
    BY <1>1
  <1>7. DocumentFileExists' /\ RowsDiffer'
    BY <1>1, <1>4 DEF FileInv, UploadsApart, DocumentFileExists, RowsDiffer
  <1>8. FoundInItsRow'
    <2>1. \A k \in Handlers : Uploading(k)' =>
            /\ Uploading(k)
            /\ handler'[k].old = handler[k].old
            /\ handler'[k].courier = handler[k].courier
            /\ handler'[k].type = handler[k].type
      BY <1>4, <1>5, <1>6 DEF Uploading
    <2>2. FoundInItsRow
      BY DEF FileInv, UploadsApart
    <2> QED
      BY <1>4, <2>1, <2>2 DEF FoundInItsRow
  <1>9. WrittenIsNew'
    <2>1. \A k \in Handlers : Uploading(k)' => Uploading(k) /\ handler'[k].old = handler[k].old
      BY <1>4, <1>5, <1>6 DEF Uploading
    <2>2. \A k \in Handlers : k # h /\ handler'[k].at = "upload.written" =>
            Uploading(k) /\ handler'[k].file = handler[k].file /\ handler[k].at = "upload.written"
      BY <1>4 DEF Uploading, UploadSteps
    <2>3. ASSUME NEW g \in Handlers, g # h, handler'[g].at = "upload.written"
          PROVE  /\ handler'[g].file # NoFile
                 /\ handler'[g].file \in disk'
                 /\ \A c \in Couriers, t \in DocTypes : fileOf'[c][t] # handler'[g].file
                 /\ \A k \in Handlers : Uploading(k)' => handler'[k].old # handler'[g].file
                 /\ \A k \in Handlers : k # g /\ handler'[k].at = "upload.written" =>
                      handler'[k].file # handler'[g].file
      <3>1. /\ handler[g].at = "upload.written"
            /\ handler'[g].file = handler[g].file
            /\ Uploading(g)
        BY <2>2, <2>3
      <3>2. /\ handler[g].file # NoFile
            /\ handler[g].file \in disk
            /\ \A c \in Couriers, t \in DocTypes : fileOf[c][t] # handler[g].file
            /\ \A k \in Handlers : Uploading(k) => handler[k].old # handler[g].file
            /\ \A k \in Handlers : k # g /\ handler[k].at = "upload.written" =>
                 handler[k].file # handler[g].file
        BY <3>1 DEF FileInv, UploadsApart, WrittenIsNew
      <3>3. \A k \in Handlers : k # g /\ handler'[k].at = "upload.written" =>
              handler'[k].file # handler[g].file
        <4>1. f # handler[g].file
          BY <1>2, <3>1
        <4> QED
          BY <1>5, <2>2, <3>2, <4>1
      <3> QED
        BY <1>4, <1>6a, <2>1, <3>1, <3>2, <3>3
    <2>4. /\ handler'[h].file # NoFile
          /\ handler'[h].file \in disk'
          /\ \A c \in Couriers, t \in DocTypes : fileOf'[c][t] # handler'[h].file
          /\ \A k \in Handlers : Uploading(k)' => handler'[k].old # handler'[h].file
          /\ \A k \in Handlers : k # h /\ handler'[k].at = "upload.written" =>
               handler'[k].file # handler'[h].file
      BY <1>1, <1>2, <1>4, <1>5, <2>1, <2>2
    <2> QED
      BY <2>3, <2>4 DEF WrittenIsNew
  <1>10. ReplacedIsUnnamed'
    <2>1. ReplacedIsUnnamed
      BY DEF FileInv, UploadsApart
    <2>2. \A g \in Handlers : handler'[g].at = "upload.saved" =>
            handler[g].at = "upload.saved" /\ handler'[g].old = handler[g].old
      BY <1>4, <1>5
    <2> QED
      BY <1>4, <2>1, <2>2 DEF ReplacedIsUnnamed
  <1>11. ReviewedIsThere'
    <2>1. ReviewedIsThere
      BY DEF FileInv
    <2>2. handler'[h].at \notin ReviewSteps
      BY <1>5 DEF ReviewSteps
    <2> QED
      BY <1>4, <2>1, <2>2 DEF ReviewedIsThere
  <1> QED
    BY <1>7, <1>8, <1>9, <1>10, <1>11 DEF FileInv, UploadsApart

(* The row is written: it names the new file, and no row names the old one.*)
LEMMA UploadSaveKeepsFiles ==
  ASSUME FileInv, TypeOK, NEW h \in Handlers, UploadSave(h)
  PROVE  FileInv'
  <1> DEFINE c0 == handler[h].courier
             t0 == handler[h].type
             f  == handler[h].file
             o  == handler[h].old
  <1>1. /\ handler[h].at = "upload.written"
        /\ c0 \in Couriers
        /\ t0 \in DocTypes
        /\ f \in Files \cup {NoFile}
        /\ Uploading(h)
    BY Fields DEF UploadSave, UploadSteps, Uploading
  <1>2. disk' = disk
    BY DEF UploadSave
  <1>3. CASE o = NoFile /\ review[c0][t0] # "MISSING"
    <2>1. /\ documentVars' = documentVars
          /\ \A g \in Handlers : g # h => handler'[g] = handler[g]
          /\ handler'[h] = Idle
      BY <1>2, <1>3 DEF UploadSave, documentVars, Goto, TypeOK
    <2>2. handler'[h].at \notin UploadSteps /\ handler'[h].at \notin ReviewSteps
      BY <2>1 DEF Idle, UploadSteps, ReviewSteps
    <2> QED
      BY <2>1, <2>2, QuietStep
  <1>4. CASE ~(o = NoFile /\ review[c0][t0] # "MISSING")
    <2>1. /\ review' = [review EXCEPT ![c0][t0] = "PENDING_REVIEW"]
          /\ fileOf' = [fileOf EXCEPT ![c0][t0] = f]
          /\ Goto(h, IF o = NoFile THEN Idle ELSE [handler[h] EXCEPT !.at = "upload.saved"])
      BY <1>4 DEF UploadSave
    <2>2. /\ f # NoFile
          /\ f \in disk
          /\ \A c \in Couriers, t \in DocTypes : fileOf[c][t] # f
          /\ \A k \in Handlers : Uploading(k) => handler[k].old # f
          /\ \A k \in Handlers : k # h /\ handler[k].at = "upload.written" =>
               handler[k].file # f
      BY <1>1 DEF FileInv, UploadsApart, WrittenIsNew
    <2>3. /\ fileOf'[c0][t0] = f
          /\ \A d \in Couriers, u \in DocTypes :
               d # c0 \/ u # t0 => fileOf'[d][u] = fileOf[d][u]
      <3>1. /\ handler[h].courier \in Couriers
            /\ handler[h].type \in DocTypes
            /\ handler[h].file \in Files \cup {NoFile}
            /\ fileOf' = [fileOf EXCEPT ![handler[h].courier][handler[h].type]
                            = handler[h].file]
        BY <1>1, <2>1
      <3>2. /\ fileOf'[handler[h].courier][handler[h].type] = handler[h].file
            /\ \A d \in Couriers, u \in DocTypes :
                 d # handler[h].courier \/ u # handler[h].type =>
                   fileOf'[d][u] = fileOf[d][u]
        <4>1. PICK c \in Couriers, t \in DocTypes, g \in Files \cup {NoFile} :
                c = handler[h].courier /\ t = handler[h].type /\ g = handler[h].file
          BY <3>1
        <4>2. fileOf' = [fileOf EXCEPT ![c][t] = g]
          BY <3>1, <4>1
        <4>3. /\ fileOf'[c][t] = g
              /\ \A d \in Couriers, u \in DocTypes :
                   d # c \/ u # t => fileOf'[d][u] = fileOf[d][u]
          <5>1. fileOf \in [Couriers -> [DocTypes -> Files \cup {NoFile}]]
            BY DEF TypeOK
          <5>2. fileOf' = [fileOf EXCEPT ![c] = [fileOf[c] EXCEPT ![t] = g]]
            BY <4>2
          <5> QED
            BY <4>1, <5>1, <5>2
        <4> QED
          BY <4>1, <4>3
      <3> QED
        BY <3>2
    <2>4. /\ review'[c0][t0] = "PENDING_REVIEW"
          /\ \A d \in Couriers, u \in DocTypes :
               d # c0 \/ u # t0 => review'[d][u] = review[d][u]
      BY <1>1, <2>1, SetReview DEF ReviewStatus
    <2>5. \A g \in Handlers : g # h => handler'[g] = handler[g]
      BY <2>1 DEF Goto
    <2>6. \/ handler'[h] = Idle
          \/ /\ o # NoFile
             /\ handler'[h].at = "upload.saved"
             /\ handler'[h].old = o
             /\ handler'[h].courier = c0
             /\ handler'[h].type = t0
      <3>1. handler'[h] = IF o = NoFile THEN Idle ELSE [handler[h] EXCEPT !.at = "upload.saved"]
        BY <2>1 DEF Goto, TypeOK
      <3>2. handler[h] \in [at : UploadSteps, courier : Couriers, type : DocTypes,
                            old : Files \cup {NoFile}, file : Files \cup {NoFile}]
        BY <1>1, Fields DEF Uploading
      <3> QED
        BY <3>1, <3>2
    <2>7. Idle.at \notin UploadSteps /\ Idle.at \notin ReviewSteps
      BY DEF Idle, UploadSteps, ReviewSteps
    <2> HIDE DEF c0, t0, f, o
    <2>8. DocumentFileExists'
      <3>1. DocumentFileExists
        BY DEF FileInv
      <3>2. ASSUME NEW d \in Couriers, NEW u \in DocTypes
            PROVE  /\ fileOf'[d][u] # NoFile => fileOf'[d][u] \in disk'
                   /\ (fileOf'[d][u] = NoFile) = (review'[d][u] = "MISSING")
        <4>1. CASE d = c0 /\ u = t0
          BY <1>2, <2>2, <2>3, <2>4, <4>1
        <4>2. CASE d # c0 \/ u # t0
          BY <1>2, <2>3, <2>4, <3>1, <4>2 DEF DocumentFileExists
        <4> QED
          BY <4>1, <4>2
      <3> QED
        BY <3>2 DEF DocumentFileExists
    <2>9. RowsDiffer'
      <3>1. RowsDiffer
        BY DEF FileInv, UploadsApart
      <3> QED
        BY <2>2, <2>3, <3>1 DEF RowsDiffer
    <2>10. \A g \in Handlers : Uploading(g)' =>
             /\ Uploading(g)
             /\ handler'[g].old = handler[g].old
             /\ handler'[g].courier = handler[g].courier
             /\ handler'[g].type = handler[g].type
      BY <1>1, <2>5, <2>6, <2>7 DEF Uploading, c0, t0, o
    <2>11. FoundInItsRow'
      <3>1. FoundInItsRow
        BY DEF FileInv, UploadsApart
      <3>2. ASSUME NEW g \in Handlers, Uploading(g), NEW d \in Couriers, NEW u \in DocTypes,
                   fileOf'[d][u] # NoFile, fileOf'[d][u] = handler[g].old
            PROVE  d = handler[g].courier /\ u = handler[g].type
        BY <2>2, <2>3, <3>1, <3>2 DEF FoundInItsRow
      <3> QED
        BY <2>10, <3>2 DEF FoundInItsRow
    <2>12. WrittenIsNew'
      <3>1. WrittenIsNew
        BY DEF FileInv, UploadsApart
      <3>2. \A g \in Handlers : handler'[g].at = "upload.written" =>
              g # h /\ handler[g].at = "upload.written" /\ handler'[g].file = handler[g].file
        BY <2>5, <2>6, <2>7 DEF UploadSteps
      <3>3. ASSUME NEW g \in Handlers, g # h, handler[g].at = "upload.written"
            PROVE  /\ handler[g].file # NoFile
                   /\ handler[g].file \in disk'
                   /\ \A c \in Couriers, t \in DocTypes : fileOf'[c][t] # handler[g].file
                   /\ \A k \in Handlers : Uploading(k) => handler[k].old # handler[g].file
                   /\ \A k \in Handlers : k # g /\ handler[k].at = "upload.written" =>
                        handler[k].file # handler[g].file
        BY <1>2, <2>2, <2>3, <3>1, <3>3 DEF WrittenIsNew
      <3> QED
        BY <2>10, <3>2, <3>3 DEF WrittenIsNew
    <2>13. ReplacedIsUnnamed'
      <3>1. ReplacedIsUnnamed /\ FoundInItsRow
        BY DEF FileInv, UploadsApart
      <3>2. ASSUME NEW g \in Handlers, g # h, handler[g].at = "upload.saved"
            PROVE  /\ handler[g].old # NoFile
                   /\ \A c \in Couriers, t \in DocTypes : fileOf'[c][t] # handler[g].old
        <4>1. handler[g].old # f
          BY <2>2, <3>2 DEF Uploading, UploadSteps
        <4> QED
          BY <2>3, <3>1, <3>2, <4>1 DEF ReplacedIsUnnamed
      <3>3. ASSUME o # NoFile, NEW c \in Couriers, NEW t \in DocTypes
            PROVE  fileOf'[c][t] # o
        BY <1>1, <2>2, <2>3, <3>1, <3>3 DEF FoundInItsRow, c0, t0, f, o
      <3>4. handler'[h].at = "upload.saved" => o # NoFile /\ handler'[h].old = o
        BY <2>6, <2>7 DEF UploadSteps
      <3> QED
        BY <2>5, <3>2, <3>3, <3>4 DEF ReplacedIsUnnamed
    <2>14. ReviewedIsThere'
      <3>1. ReviewedIsThere
        BY DEF FileInv
      <3>2. \A g \in Handlers : handler'[g].at \in ReviewSteps =>
              g # h /\ handler'[g] = handler[g]
        BY <2>5, <2>6, <2>7 DEF ReviewSteps
      <3>3. \A g \in Handlers : handler[g].at \in ReviewSteps =>
              handler[g].courier \in Couriers /\ handler[g].type \in DocTypes
        BY Fields
      <3> QED
        BY <2>4, <3>1, <3>2, <3>3 DEF ReviewedIsThere
    <2> QED
      BY <2>8, <2>9, <2>11, <2>12, <2>13, <2>14 DEF FileInv, UploadsApart
  <1> QED
    BY <1>3, <1>4

LEMMA UploadUnlinkKeepsFiles ==
  ASSUME FileInv, TypeOK, NEW h \in Handlers, UploadUnlink(h)
  PROVE  FileInv'
  <1>1. /\ handler[h].at = "upload.saved"
        /\ disk' = disk \ {handler[h].old}
        /\ fileOf' = fileOf
        /\ review' = review
        /\ handler'[h] = Idle
        /\ \A g \in Handlers : g # h => handler'[g] = handler[g]
    BY DEF UploadUnlink, OldFile, Goto, TypeOK
  <1>2. Idle.at \notin UploadSteps /\ Idle.at \notin ReviewSteps /\ Uploading(h)
    BY <1>1 DEF Idle, UploadSteps, ReviewSteps, Uploading
  <1>3. DocumentFileExists' /\ RowsDiffer'
    BY <1>1 DEF FileInv, UploadsApart, DocumentFileExists, RowsDiffer, ReplacedIsUnnamed
  <1>4. \A g \in Handlers : handler'[g].at \in UploadSteps \cup ReviewSteps =>
          g # h /\ handler'[g] = handler[g]
    BY <1>1, <1>2
  <1>5. FoundInItsRow'
    BY <1>1, <1>4 DEF FileInv, UploadsApart, FoundInItsRow, Uploading
  <1>6. WrittenIsNew'
    <2>1. WrittenIsNew
      BY DEF FileInv, UploadsApart
    <2>2. \A g \in Handlers : handler'[g].at = "upload.written" =>
            g # h /\ handler'[g] = handler[g]
      BY <1>4 DEF UploadSteps
    <2>3. \A g \in Handlers : handler[g].at = "upload.written" =>
            handler[g].file # handler[h].old
      BY <1>2, <2>1 DEF WrittenIsNew
    <2>4. \A g \in Handlers : Uploading(g)' => Uploading(g) /\ handler'[g] = handler[g]
      BY <1>4 DEF Uploading
    <2> QED
      BY <1>1, <2>1, <2>2, <2>3, <2>4 DEF WrittenIsNew
  <1>7. ReplacedIsUnnamed'
    <2>1. \A g \in Handlers : handler'[g].at = "upload.saved" =>
            g # h /\ handler'[g] = handler[g]
      BY <1>4 DEF UploadSteps
    <2> QED
      BY <1>1, <2>1 DEF FileInv, UploadsApart, ReplacedIsUnnamed
  <1>8. ReviewedIsThere'
    BY <1>1, <1>4 DEF FileInv, ReviewedIsThere
  <1> QED
    BY <1>3, <1>5, <1>6, <1>7, <1>8 DEF FileInv, UploadsApart

LEMMA FileInvStep == TypeOK /\ FileInv /\ [Next]_vars => FileInv'
  <1> SUFFICES ASSUME TypeOK, FileInv, [Next]_vars
               PROVE  FileInv'
    OBVIOUS
  <1> USE DEF documentVars, kept
  <1>1. ASSUME UNCHANGED <<documentVars, handler>>
        PROVE  FileInv'
    BY <1>1 DEF FileInv, UploadsApart, DocumentFileExists, RowsDiffer, FoundInItsRow,
                WrittenIsNew, ReplacedIsUnnamed, ReviewedIsThere, Uploading
  <1>2. ASSUME NEW c \in Couriers, Register(c) \/ RegisterCourierOnboarding(c) \/ GoOffline(c)
        PROVE  FileInv'
    BY <1>1, <1>2 DEF Register, RegisterCourierOnboarding, GoOffline
  <1>3. ASSUME NEW h \in Handlers, NEW R, Goto(h, R), documentVars' = documentVars,
               R.at \notin UploadSteps \cup ReviewSteps
        PROVE  FileInv'
    BY <1>3, QuietStep DEF Goto, TypeOK
  <1>4. Idle.at \notin UploadSteps \cup ReviewSteps
    BY DEF Idle, UploadSteps, ReviewSteps
  <1>5. ASSUME NEW h \in Handlers, Abort(h)
        PROVE  FileInv'
    BY <1>3, <1>4, <1>5 DEF Abort
  <1>6. ASSUME NEW h \in Handlers, NEW c \in Couriers, SubmitRead(h, c) \/ OnlineRead(h, c)
        PROVE  FileInv'
    <2>1. \A s \in {"submit.read", "online.read"} :
            [at |-> s, courier |-> c].at \notin UploadSteps \cup ReviewSteps
      BY DEF UploadSteps, ReviewSteps
    <2> QED
      BY <1>3, <1>6, <2>1 DEF SubmitRead, OnlineRead
  <1>7. ASSUME NEW h \in Handlers, NEW c \in Couriers, NEW d \in DecideSteps,
               DecideRead(h, c, d)
        PROVE  FileInv'
    <2>1. [at |-> d, courier |-> c].at \notin UploadSteps \cup ReviewSteps
      BY DEF UploadSteps, ReviewSteps, DecideSteps
    <2> QED
      BY <1>3, <1>7, <2>1 DEF DecideRead
  <1>8. ASSUME NEW h \in Handlers, NEW c \in Couriers, NEW t \in DocTypes,
               UploadRead(h, c, t)
        PROVE  FileInv'
    BY <1>8, UploadReadKeepsFiles
  <1>9. ASSUME NEW h \in Handlers, NEW c \in Couriers, NEW t \in DocTypes,
               NEW d \in {"approve.read", "reject.read"}, ReviewRead(h, c, t, d)
        PROVE  FileInv'
    <2>1. /\ handler'[h] = [at |-> d, courier |-> c, type |-> t]
          /\ \A g \in Handlers : g # h => handler'[g] = handler[g]
          /\ documentVars' = documentVars
          /\ review[c][t] # "MISSING"
      BY <1>9 DEF ReviewRead, Goto, TypeOK
    <2>2. handler'[h].at = d /\ handler'[h].courier = c /\ handler'[h].type = t
      BY <2>1
    <2>3. d \notin UploadSteps
      BY DEF UploadSteps
    <2> QED
      BY <2>1, <2>2, <2>3, QuietStep
  <1>10. ASSUME NEW h \in Handlers, Advance(h)
         PROVE  FileInv'
    <2>1. CASE ApproveRegistration(h) \/ RejectRegistration(h) \/ SubmitForReview(h)
               \/ ApproveCourier(h) \/ GoOnline(h)
      BY <1>3, <1>4, <2>1 DEF ApproveRegistration, RejectRegistration, SubmitForReview,
                              ApproveCourier, GoOnline
    <2>2. CASE UploadWrite(h)
      BY <2>2, UploadWriteKeepsFiles
    <2>3. CASE UploadSave(h)
      BY <2>3, UploadSaveKeepsFiles
    <2>4. CASE UploadUnlink(h)
      BY <2>4, UploadUnlinkKeepsFiles
    <2>5. CASE ApproveDocument(h) \/ RejectDocument(h)
      <3>0. /\ handler[h].at \in ReviewSteps
            /\ fileOf' = fileOf
            /\ disk' = disk
        BY <2>5 DEF ApproveDocument, RejectDocument, ReviewSteps
      <3>1. \A g \in Handlers : g # h => handler'[g] = handler[g]
        <4>1. \E R : Goto(h, R)
          BY <2>5 DEF ApproveDocument, RejectDocument
        <4> QED
          BY <4>1 DEF Goto
      <3>2. PICK s \in ReviewStatus :
              review' = [review EXCEPT ![handler[h].courier][handler[h].type] = s]
        BY <2>5 DEF ApproveDocument, RejectDocument, ReviewStatus
      <3>3. handler[h] \in [at : ReviewSteps, courier : Couriers, type : DocTypes]
        BY <3>0, Fields
      <3>4. handler'[h] = Idle \/ handler'[h] = [handler[h] EXCEPT !.at = "approve.saved"]
        BY <2>5 DEF ApproveDocument, RejectDocument, Goto, TypeOK
      <3>5. handler'[h] = Idle \/ (/\ handler'[h].courier = handler[h].courier
                                  /\ handler'[h].type = handler[h].type
                                  /\ handler'[h].at \in ReviewSteps)
        BY <3>3, <3>4 DEF ReviewSteps
      <3> QED
        BY <3>0, <3>1, <3>2, <3>5, ReviewStep
    <2>6. CASE ApproveReadAll(h)
      <3>1. /\ handler[h].at \in ReviewSteps
            /\ documentVars' = documentVars
            /\ \A g \in Handlers : g # h => handler'[g] = handler[g]
        BY <2>6 DEF ApproveReadAll, ReviewSteps, Goto
      <3>2. handler[h] \in [at : ReviewSteps, courier : Couriers, type : DocTypes]
        BY <3>1, Fields
      <3>3. handler'[h] = Idle \/ handler'[h] = [handler[h] EXCEPT !.at = "approve.all"]
        BY <2>6 DEF ApproveReadAll, Goto, TypeOK
      <3>4. handler'[h] = Idle \/ (/\ handler'[h].courier = handler[h].courier
                                  /\ handler'[h].type = handler[h].type
                                  /\ handler'[h].at = "approve.all")
        BY <3>2, <3>3
      <3>5. /\ handler'[h].at \notin UploadSteps
            /\ handler'[h].at \in ReviewSteps =>
                 review[handler'[h].courier][handler'[h].type] # "MISSING"
        BY <1>4, <3>1, <3>4 DEF UploadSteps, FileInv, ReviewedIsThere
      <3> QED
        BY <3>1, <3>5, QuietStep
    <2> QED
      BY <1>10, <2>1, <2>2, <2>3, <2>4, <2>5, <2>6 DEF Advance
  <1> QED
    BY <1>1, <1>2, <1>5, <1>6, <1>7, <1>8, <1>9, <1>10 DEF Next, vars

(* However uploads of one document overtake each other, wherever requests  *)
(* die: the file a document names is there, for any numbers of couriers,   *)
(* documents, files and requests.                                          *)
THEOREM DocumentFileExistsAlways == Spec => []DocumentFileExists
  <1>1. Init => TypeOK /\ FileInv
    BY TypingInit, FileInvInit
  <1>2. TypeOK /\ FileInv /\ [Next]_vars => (TypeOK /\ FileInv)'
    BY TypingStep, FileInvStep
  <1>3. FileInv => DocumentFileExists
    BY DEF FileInv
  <1> QED
    BY <1>1, <1>2, <1>3, PTL DEF Spec

-----------------------------------------------------------------------------
(* Where courier and staff each wait for their answers, what a request has *)
(* read is still so when it writes.                                        *)

StaffSteps == ReviewSteps \cup DecideSteps
OwnSteps   == UploadSteps \cup {"submit.read"}

(* One request of the courier and one of the staff at a time.              *)
Alone ==
  \A S \in {StaffSteps, OwnSteps} : \A g, k \in Handlers :
    g # k /\ handler[g].at \in S /\ handler[k].at \in S =>
      handler[g].courier # handler[k].courier

Current(g) ==
  LET c == handler[g].courier
  IN  /\ handler[g].at \in DecideSteps => workflow[c] = "PENDING"
      /\ handler[g].at \in ReviewSteps => workflow[c] = "DOCUMENT_REVIEW"
      /\ handler[g].at \in {"approve.read", "reject.read"} =>
           review[c][handler[g].type] = "PENDING_REVIEW"
      /\ handler[g].at = "approve.all" => AllApproved(c)
      /\ handler[g].at \in {"upload.read", "upload.written"} =>
           MayUpload(c) /\ review[c][handler[g].type] # "APPROVED"
      /\ handler[g].at = "submit.read" => MayUpload(c)
      /\ handler[g].at = "online.read" => workflow[c] = "APPROVED"

ApprovalFits(c) ==
  /\ workflow[c] = "ABSENT" => c \notin applied
  /\ c \in applied /\ workflow[c] = "APPROVED" => AllApproved(c)
  /\ isOnline[c] => workflow[c] = "APPROVED"

OrderlyInv ==
  orderly => /\ Alone
             /\ \A g \in Handlers : Current(g)
             /\ \A c \in Couriers : ApprovalFits(c)

LEMMA Steps ==
  /\ StaffSteps = {"approve.read", "approve.saved", "approve.all", "reject.read",
                   "register.approve", "register.reject"}
  /\ OwnSteps = {"upload.read", "upload.written", "upload.saved", "submit.read"}
  /\ ReviewSteps = {"approve.read", "approve.saved", "approve.all", "reject.read"}
  /\ DecideSteps = {"register.approve", "register.reject"}
  BY DEF StaffSteps, OwnSteps, ReviewSteps, DecideSteps, UploadSteps

LEMMA OrderlyInit == Init => OrderlyInv
  BY Steps DEF Init, OrderlyInv, Alone, Current, ApprovalFits, Idle

LEMMA AloneStep ==
  ASSUME Alone, NEW h \in Handlers,
         \A g \in Handlers : g # h => handler'[g] = handler[g],
         \A S \in {StaffSteps, OwnSteps} : handler'[h].at \in S =>
           \A g \in Handlers : g # h /\ handler[g].at \in S =>
             handler[g].courier # handler'[h].courier
  PROVE  Alone'
  BY DEF Alone, StaffSteps, OwnSteps

(* A step of a request about c leaves every other courier alone.           *)
LEMMA OneCourier ==
  ASSUME TypeOK, OrderlyInv, orderly, applied' = applied,
         NEW h \in Handlers, NEW c \in Couriers, Alone',
         \A g \in Handlers : g # h => handler'[g] = handler[g],
         handler'[h] = Idle \/ handler'[h].courier = c,
         \A d \in Couriers : d # c =>
           /\ workflow'[d] = workflow[d]
           /\ isOnline'[d] = isOnline[d]
           /\ \A t \in DocTypes : review'[d][t] = review[d][t],
         ApprovalFits(c)',
         \A g \in Handlers : handler'[g].courier = c => Current(g)'
  PROVE  OrderlyInv'
  <1>1. \A d \in Couriers : ApprovalFits(d)'
    BY DEF OrderlyInv, ApprovalFits, AllApproved
  <1>2. ASSUME NEW g \in Handlers
        PROVE  Current(g)'
    <2>1. CASE handler'[g].courier = c
      BY <2>1
    <2>2. CASE handler'[g].courier # c /\ g # h
      <3>1. handler'[g] = handler[g] /\ Current(g)
        BY <2>2 DEF OrderlyInv
      <3>2. handler[g].at \in UploadSteps \cup ReviewSteps =>
              handler[g].courier \in Couriers /\ handler[g].type \in DocTypes
        BY Fields
      <3>3. handler[g].at \in DecideSteps \cup {"submit.read", "online.read"} =>
              handler[g].courier \in Couriers
        BY Fields
      <3> QED
        BY <2>2, <3>1, <3>2, <3>3
           DEF Current, AllApproved, MayUpload, UploadSteps, ReviewSteps, DecideSteps
    <2>3. CASE handler'[g].courier # c /\ g = h
      <3>1. handler'[g].at = "idle"
        BY <2>3 DEF Idle
      <3> QED
        BY <3>1, Steps DEF Current
    <2> QED
      BY <2>1, <2>2, <2>3
  <1> QED
    BY <1>1, <1>2 DEF OrderlyInv

(* A step that only reads.                                                 *)
LEMMA OnlyReads ==
  ASSUME TypeOK, OrderlyInv, orderly, applied' = applied, NEW h \in Handlers,
         Alone',
         \A g \in Handlers : g # h => handler'[g] = handler[g],
         workflow' = workflow, review' = review, isOnline' = isOnline,
         Current(h)'
  PROVE  OrderlyInv'
  <1>1. \A g \in Handlers : Current(g)'
    BY DEF OrderlyInv, Current, AllApproved, MayUpload
  <1>2. \A c \in Couriers : ApprovalFits(c)'
    BY DEF OrderlyInv, ApprovalFits, AllApproved
  <1> QED
    BY <1>1, <1>2 DEF OrderlyInv

(* A step that ends a request.                                             *)
LEMMA EndsAlone ==
  ASSUME TypeOK, Alone, NEW h \in Handlers, Goto(h, Idle)
  PROVE  /\ Alone'
         /\ handler'[h] = Idle
         /\ Current(h)'
         /\ \A g \in Handlers : g # h => handler'[g] = handler[g]
  <1>1. /\ handler'[h] = Idle
        /\ \A g \in Handlers : g # h => handler'[g] = handler[g]
    BY DEF Goto, TypeOK
  <1>2. \A S \in {StaffSteps, OwnSteps} : handler'[h].at \notin S
    BY <1>1, Steps DEF Idle
  <1>3. Alone'
    BY <1>1, <1>2, AloneStep
  <1>4. Current(h)'
    <2>1. handler'[h].at = "idle"
      BY <1>1 DEF Idle
    <2> QED
      BY <2>1, Steps DEF Current
  <1> QED
    BY <1>1, <1>3, <1>4

(* A request that begins is the only one of its person.                    *)
LEMMA BeginsAlone ==
  ASSUME TypeOK, Alone, orderly, NEW h \in Handlers, NEW c \in Couriers, NEW R,
         Goto(h, R), R.courier = c,
         R.at \in StaffSteps => StaffWaits(c),
         R.at \in OwnSteps => CourierWaits(c)
  PROVE  /\ Alone'
         /\ handler'[h] = R
         /\ \A g \in Handlers : g # h => handler'[g] = handler[g]
  <1>1. /\ handler'[h] = R
        /\ \A g \in Handlers : g # h => handler'[g] = handler[g]
    BY DEF Goto, TypeOK
  <1>2. /\ R.at \in StaffSteps => \A g \in Handlers :
             handler[g].at \in StaffSteps => handler[g].courier # c
        /\ R.at \in OwnSteps => \A g \in Handlers :
             handler[g].at \in OwnSteps => handler[g].courier # c
    BY DEF StaffWaits, CourierWaits, InProgress, StaffSteps, OwnSteps
  <1>3. Alone'
    BY <1>1, <1>2, AloneStep
  <1> QED
    BY <1>1, <1>3

(* A request that goes on stays the only one of its person.                *)
LEMMA GoesOnAlone ==
  ASSUME TypeOK, Alone, NEW h \in Handlers, NEW R, Goto(h, R),
         R.courier = handler[h].courier,
         \A S \in {StaffSteps, OwnSteps} : R.at \in S => handler[h].at \in S
  PROVE  /\ Alone'
         /\ handler'[h] = R
         /\ \A g \in Handlers : g # h => handler'[g] = handler[g]
  <1>1. /\ handler'[h] = R
        /\ \A g \in Handlers : g # h => handler'[g] = handler[g]
    BY DEF Goto, TypeOK
  <1>2. \A S \in {StaffSteps, OwnSteps} : handler'[h].at \in S =>
          \A g \in Handlers : g # h /\ handler[g].at \in S =>
            handler[g].courier # handler'[h].courier
    BY <1>1 DEF Alone
  <1>3. Alone'
    BY <1>1, <1>2, AloneStep
  <1> QED
    BY <1>1, <1>3

LEMMA BeginningsStayOrderly ==
  ASSUME TypeOK, OrderlyInv, orderly, orderly' = orderly, applied' = applied,
         NEW h \in Handlers, NEW c \in Couriers,
         \/ SubmitRead(h, c)
         \/ OnlineRead(h, c)
         \/ \E d \in DecideSteps : DecideRead(h, c, d)
         \/ \E t \in DocTypes : UploadRead(h, c, t)
         \/ \E t \in DocTypes, d \in {"approve.read", "reject.read"} : ReviewRead(h, c, t, d)
  PROVE  OrderlyInv'
  <1> USE DEF documentVars
  <1>0. Alone
    BY DEF OrderlyInv
  <1>1. CASE SubmitRead(h, c)
    <2> DEFINE R == [at |-> "submit.read", courier |-> c]
    <2>1. Goto(h, R) /\ CourierWaits(c) /\ MayUpload(c) /\ R.at = "submit.read" /\ R.courier = c
      BY <1>1 DEF SubmitRead
    <2>2. workflow' = workflow /\ review' = review /\ isOnline' = isOnline
      BY <1>1 DEF SubmitRead
    <2> HIDE DEF R
    <2>3. /\ Alone'
          /\ handler'[h] = R
          /\ \A g \in Handlers : g # h => handler'[g] = handler[g]
      BY <1>0, <2>1, BeginsAlone, Steps
    <2>4. Current(h)'
      BY <2>1, <2>2, <2>3, Steps DEF Current, MayUpload
    <2> QED
      BY <2>2, <2>3, <2>4, OnlyReads
  <1>2. CASE OnlineRead(h, c)
    <2> DEFINE R == [at |-> "online.read", courier |-> c]
    <2>1. Goto(h, R) /\ workflow[c] = "APPROVED" /\ R.at = "online.read" /\ R.courier = c
      BY <1>2 DEF OnlineRead
    <2>2. workflow' = workflow /\ review' = review /\ isOnline' = isOnline
      BY <1>2 DEF OnlineRead
    <2> HIDE DEF R
    <2>3. /\ Alone'
          /\ handler'[h] = R
          /\ \A g \in Handlers : g # h => handler'[g] = handler[g]
      BY <1>0, <2>1, BeginsAlone, Steps
    <2>4. Current(h)'
      BY <2>1, <2>2, <2>3, Steps DEF Current
    <2> QED
      BY <2>2, <2>3, <2>4, OnlyReads
  <1>3. ASSUME NEW d \in DecideSteps, DecideRead(h, c, d)
        PROVE  OrderlyInv'
    <2> DEFINE R == [at |-> d, courier |-> c]
    <2>1. Goto(h, R) /\ StaffWaits(c) /\ workflow[c] = "PENDING" /\ R.at = d /\ R.courier = c
      BY <1>3 DEF DecideRead
    <2>2. workflow' = workflow /\ review' = review /\ isOnline' = isOnline
      BY <1>3 DEF DecideRead
    <2> HIDE DEF R
    <2>3. /\ Alone'
          /\ handler'[h] = R
          /\ \A g \in Handlers : g # h => handler'[g] = handler[g]
      BY <1>0, <2>1, BeginsAlone, Steps
    <2>4. Current(h)'
      BY <2>1, <2>2, <2>3, Steps DEF Current
    <2> QED
      BY <2>2, <2>3, <2>4, OnlyReads
  <1>4. ASSUME NEW t \in DocTypes, UploadRead(h, c, t)
        PROVE  OrderlyInv'
    <2> DEFINE R == [at |-> "upload.read", courier |-> c, type |-> t,
                     old |-> fileOf[c][t], file |-> NoFile]
    <2>1. /\ Goto(h, R)
          /\ CourierWaits(c)
          /\ MayUpload(c)
          /\ review[c][t] # "APPROVED"
          /\ R.at = "upload.read"
          /\ R.courier = c
          /\ R.type = t
      BY <1>4 DEF UploadRead
    <2>2. workflow' = workflow /\ review' = review /\ isOnline' = isOnline
      BY <1>4 DEF UploadRead
    <2> HIDE DEF R
    <2>3. /\ Alone'
          /\ handler'[h] = R
          /\ \A g \in Handlers : g # h => handler'[g] = handler[g]
      BY <1>0, <2>1, BeginsAlone, Steps
    <2>4. Current(h)'
      BY <2>1, <2>2, <2>3, Steps DEF Current, MayUpload
    <2> QED
      BY <2>2, <2>3, <2>4, OnlyReads
  <1>5. ASSUME NEW t \in DocTypes, NEW d \in {"approve.read", "reject.read"},
               ReviewRead(h, c, t, d)
        PROVE  OrderlyInv'
    <2> DEFINE R == [at |-> d, courier |-> c, type |-> t]
    <2>1. /\ Goto(h, R)
          /\ StaffWaits(c)
          /\ workflow[c] = "DOCUMENT_REVIEW"
          /\ review[c][t] = "PENDING_REVIEW"
          /\ R.at = d
          /\ R.courier = c
          /\ R.type = t
      BY <1>5 DEF ReviewRead
    <2>2. workflow' = workflow /\ review' = review /\ isOnline' = isOnline
      BY <1>5 DEF ReviewRead
    <2> HIDE DEF R
    <2>3. /\ Alone'
          /\ handler'[h] = R
          /\ \A g \in Handlers : g # h => handler'[g] = handler[g]
      BY <1>0, <2>1, BeginsAlone, Steps
    <2>4. Current(h)'
      BY <2>1, <2>2, <2>3, Steps DEF Current
    <2> QED
      BY <2>2, <2>3, <2>4, OnlyReads
  <1> QED
    BY <1>1, <1>2, <1>3, <1>4, <1>5

(* Requests that end with a change of c's status or of one document of c.  *)
LEMMA EndingsStayOrderly ==
  ASSUME TypeOK, OrderlyInv, orderly, orderly' = orderly, applied' = applied, NEW h \in Handlers,
         \/ ApproveRegistration(h)
         \/ RejectRegistration(h)
         \/ SubmitForReview(h)
         \/ ApproveCourier(h)
         \/ RejectDocument(h)
         \/ GoOnline(h)
  PROVE  OrderlyInv'
  <1>1. handler[h].at \in DecideSteps \cup {"submit.read", "online.read", "approve.all",
                                           "reject.read"}
    BY DEF ApproveRegistration, RejectRegistration, SubmitForReview, ApproveCourier,
           RejectDocument, GoOnline, DecideSteps
  <1>2. PICK c \in Couriers : c = handler[h].courier
    <2>1. handler[h].at \in ReviewSteps \/
          handler[h].at \in DecideSteps \cup {"submit.read", "online.read"}
      BY <1>1 DEF ReviewSteps
    <2> QED
      BY <2>1, Fields
  <1>3. /\ Alone
        /\ \A g \in Handlers : Current(g)
        /\ \A d \in Couriers : ApprovalFits(d)
    BY <1>2 DEF OrderlyInv
  <1>4. Goto(h, Idle)
    BY <1>2 DEF ApproveRegistration, RejectRegistration, SubmitForReview, ApproveCourier,
           RejectDocument, GoOnline
  <1>5. /\ Alone'
        /\ handler'[h] = Idle
        /\ Current(h)'
        /\ \A g \in Handlers : g # h => handler'[g] = handler[g]
    BY <1>2, <1>3, <1>4, EndsAlone
  <1> DEFINE Others == \A d \in Couriers : d # c =>
               /\ workflow'[d] = workflow[d]
               /\ isOnline'[d] = isOnline[d]
               /\ \A t \in DocTypes : review'[d][t] = review[d][t]
  <1>6. \A g \in Handlers : g # h /\ handler[g].courier = c =>
          /\ handler[h].at \in StaffSteps => handler[g].at \notin StaffSteps
          /\ handler[h].at \in OwnSteps => handler[g].at \notin OwnSteps
    BY <1>2, <1>3 DEF Alone
  <1>7. ASSUME Others, ApprovalFits(c)',
               \A g \in Handlers : g # h /\ handler[g].courier = c => Current(g)'
        PROVE  OrderlyInv'
    <2>1. \A g \in Handlers : handler'[g].courier = c => Current(g)'
      BY <1>2, <1>5, <1>7
    <2> QED
      BY <1>2, <1>5, <1>7, <2>1, OneCourier
  <1>8. CASE ApproveRegistration(h) \/ RejectRegistration(h)
    <2>1. /\ handler[h].at \in DecideSteps
          /\ workflow[c] = "PENDING"
          /\ review' = review
      BY <1>2, <1>3, <1>8 DEF ApproveRegistration, RejectRegistration, Current, documentVars,
                        DecideSteps
    <2>2. /\ workflow'[c] \in {"PRE_APPROVED", "REJECTED"}
          /\ \A d \in Couriers : d # c => workflow'[d] = workflow[d]
          /\ isOnline'[c] => isOnline[c]
          /\ \A d \in Couriers : d # c => isOnline'[d] = isOnline[d]
      BY <1>2, <1>8 DEF ApproveRegistration, RejectRegistration, TypeOK
    <2>3. ApprovalFits(c)'
      BY <1>2, <1>3, <2>1, <2>2 DEF ApprovalFits
    <2>4. ASSUME NEW g \in Handlers, g # h, handler[g].courier = c
          PROVE  Current(g)'
      <3>1. Current(g) /\ handler'[g] = handler[g] /\ handler[g].at \notin StaffSteps
        BY <1>2, <1>3, <1>5, <1>6, <2>1, <2>4 DEF StaffSteps
      <3> QED
        BY <1>2, <2>1, <2>4, <3>1, Steps DEF Current, MayUpload
    <2> QED
      BY <1>2, <1>7, <2>1, <2>2, <2>3, <2>4
  <1>9. CASE SubmitForReview(h)
    <2>1. /\ handler[h].at = "submit.read"
          /\ MayUpload(c)
          /\ review' = review
          /\ isOnline' = isOnline
      BY <1>2, <1>3, <1>9 DEF SubmitForReview, Current, documentVars
    <2>2. /\ workflow'[c] = "DOCUMENT_REVIEW"
          /\ \A d \in Couriers : d # c => workflow'[d] = workflow[d]
      BY <1>2, <1>9 DEF SubmitForReview, TypeOK
    <2>3. ApprovalFits(c)'
      BY <1>2, <1>3, <2>1, <2>2 DEF ApprovalFits, MayUpload
    <2>4. ASSUME NEW g \in Handlers, g # h, handler[g].courier = c
          PROVE  Current(g)'
      <3>1. Current(g) /\ handler'[g] = handler[g] /\ handler[g].at \notin OwnSteps
        BY <1>2, <1>3, <1>5, <1>6, <2>1, <2>4, Steps
      <3> QED
        BY <1>2, <2>1, <2>4, <3>1, Steps DEF Current, MayUpload
    <2> QED
      BY <1>2, <1>7, <2>1, <2>2, <2>3, <2>4
  <1>10. CASE ApproveCourier(h)
    <2>1. /\ handler[h].at = "approve.all"
          /\ workflow[c] = "DOCUMENT_REVIEW"
          /\ AllApproved(c)
          /\ review' = review
          /\ isOnline' = isOnline
      BY <1>2, <1>3, <1>10, Steps DEF ApproveCourier, Current, documentVars
    <2>2. /\ workflow'[c] = "APPROVED"
          /\ \A d \in Couriers : d # c => workflow'[d] = workflow[d]
      BY <1>2, <1>10 DEF ApproveCourier, TypeOK
    <2>3. ApprovalFits(c)'
      BY <1>2, <2>1, <2>2 DEF ApprovalFits, AllApproved
    <2>4. ASSUME NEW g \in Handlers, g # h, handler[g].courier = c
          PROVE  Current(g)'
      <3>1. Current(g) /\ handler'[g] = handler[g] /\ handler[g].at \notin StaffSteps
        BY <1>2, <1>3, <1>5, <1>6, <2>1, <2>4, Steps
      <3> QED
        BY <1>2, <2>1, <2>2, <2>4, <3>1, Steps DEF Current, MayUpload
    <2> QED
      BY <1>2, <1>7, <2>1, <2>2, <2>3, <2>4
  <1>11. CASE RejectDocument(h)
    <2>1. /\ handler[h].at = "reject.read"
          /\ workflow[c] = "DOCUMENT_REVIEW"
      BY <1>2, <1>3, <1>11, Steps DEF RejectDocument, Current
    <2>2. /\ workflow'[c] = "DOCUMENT_PENDING"
          /\ isOnline'[c] = FALSE
          /\ \A d \in Couriers : d # c => workflow'[d] = workflow[d] /\ isOnline'[d] = isOnline[d]
      BY <1>2, <1>11 DEF RejectDocument, TypeOK
    <2>3. handler[h].type \in DocTypes
      BY <1>2, <2>1, Fields, Steps
    <2>4. \A d \in Couriers, u \in DocTypes : d # c => review'[d][u] = review[d][u]
      <3> DEFINE t == handler[h].type
      <3>1. review' = [review EXCEPT ![c][t] = "REJECTED"]
        BY <1>2, <1>11 DEF RejectDocument
      <3>2. t \in DocTypes /\ "REJECTED" \in ReviewStatus
        BY <1>2, <2>3 DEF ReviewStatus
      <3> HIDE DEF t
      <3> QED
        BY <1>2, <3>1, <3>2, SetReview
    <2>5. ApprovalFits(c)'
      BY <1>2, <2>2 DEF ApprovalFits
    <2>6. ASSUME NEW g \in Handlers, g # h, handler[g].courier = c
          PROVE  Current(g)'
      <3>1. Current(g) /\ handler'[g] = handler[g] /\ handler[g].at \notin StaffSteps
        BY <1>2, <1>3, <1>5, <1>6, <2>1, <2>6, Steps
      <3> QED
        BY <1>2, <2>1, <2>2, <2>6, <3>1, Steps DEF Current, MayUpload
    <2> QED
      BY <1>2, <1>7, <2>2, <2>4, <2>5, <2>6
  <1>12. CASE GoOnline(h)
    <2>1. /\ workflow[c] = "APPROVED"
          /\ workflow' = workflow
          /\ review' = review
          /\ \A d \in Couriers : d # c => isOnline'[d] = isOnline[d]
      BY <1>2, <1>3, <1>12 DEF GoOnline, Current, documentVars, TypeOK
    <2>2. ApprovalFits(c)'
      BY <1>2, <1>3, <2>1 DEF ApprovalFits, AllApproved
    <2>3. ASSUME NEW g \in Handlers, g # h, handler[g].courier = c
          PROVE  Current(g)'
      BY <1>2, <1>3, <1>5, <2>1, <2>3 DEF Current, AllApproved, MayUpload
    <2> QED
      BY <1>2, <1>7, <2>1, <2>2, <2>3
  <1> QED
    BY <1>2, <1>8, <1>9, <1>10, <1>11, <1>12

(* The steps in the middle of an upload or of an approval.                 *)
LEMMA MiddlesStayOrderly ==
  ASSUME TypeOK, OrderlyInv, orderly, orderly' = orderly, applied' = applied, NEW h \in Handlers,
         \/ UploadWrite(h)
         \/ UploadSave(h)
         \/ UploadUnlink(h)
         \/ ApproveDocument(h)
         \/ ApproveReadAll(h)
  PROVE  OrderlyInv'
  <1>1. /\ handler[h].at \in UploadSteps \cup {"approve.read", "approve.saved"}
        /\ workflow' = workflow
        /\ isOnline' = isOnline
    BY DEF UploadWrite, UploadSave, UploadUnlink, ApproveDocument, ApproveReadAll,
           UploadSteps, documentVars
  <1>2. PICK c \in Couriers, t \in DocTypes :
          c = handler[h].courier /\ t = handler[h].type
    BY <1>1, Fields DEF ReviewSteps
  <1>3. /\ Alone
        /\ \A g \in Handlers : Current(g)
        /\ \A d \in Couriers : ApprovalFits(d)
    BY <1>2 DEF OrderlyInv
  <1>4. \A g \in Handlers : g # h /\ handler[g].courier = c =>
          /\ handler[h].at \in StaffSteps => handler[g].at \notin StaffSteps
          /\ handler[h].at \in OwnSteps => handler[g].at \notin OwnSteps
    BY <1>2, <1>3 DEF Alone
  <1>5. CASE UploadWrite(h)
    <2>1. PICK f \in FreshFiles :
            Goto(h, [handler[h] EXCEPT !.at = "upload.written", !.file = f])
      BY <1>2, <1>5 DEF UploadWrite
    <2> DEFINE R == [handler[h] EXCEPT !.at = "upload.written", !.file = f]
    <2>2. /\ handler[h].at = "upload.read"
          /\ review' = review
      BY <1>2, <1>5 DEF UploadWrite
    <2>3. handler[h] \in [at : UploadSteps, courier : Couriers, type : DocTypes,
                          old : Files \cup {NoFile}, file : Files \cup {NoFile}]
      BY <1>2, <2>2, Fields, Steps DEF UploadSteps
    <2>4. R.at = "upload.written" /\ R.courier = c /\ R.type = t
      BY <1>2, <2>3
    <2>5. Goto(h, R)
      BY <1>2, <2>1
    <2> HIDE DEF R
    <2>6. /\ Alone'
          /\ handler'[h] = R
          /\ \A g \in Handlers : g # h => handler'[g] = handler[g]
      BY <1>2, <1>3, <2>2, <2>4, <2>5, GoesOnAlone, Steps
    <2>7. Current(h)'
      BY <1>1, <1>2, <1>3, <2>2, <2>4, <2>6, Steps DEF Current, MayUpload
    <2> QED
      BY <1>1, <1>2, <2>2, <2>6, <2>7, OnlyReads
  <1>6. CASE UploadUnlink(h)
    <2>1. Goto(h, Idle) /\ review' = review
      BY <1>2, <1>6 DEF UploadUnlink
    <2> QED
      BY <1>1, <1>2, <1>3, <2>1, EndsAlone, OnlyReads
  <1>7. CASE ApproveReadAll(h)
    <2> DEFINE R == [handler[h] EXCEPT !.at = "approve.all"]
    <2>1. /\ handler[h].at = "approve.saved"
          /\ review' = review
          /\ Goto(h, IF AllApproved(c) THEN R ELSE Idle)
      BY <1>2, <1>7 DEF ApproveReadAll, CompleteAfter, documentVars
    <2>2. handler[h] \in [at : ReviewSteps, courier : Couriers, type : DocTypes]
      BY <1>2, <2>1, Fields, Steps
    <2>3. R.at = "approve.all" /\ R.courier = c /\ R.type = t
      BY <1>2, <2>2
    <2> HIDE DEF R
    <2>4. CASE AllApproved(c)
      <3>1. Goto(h, R)
        BY <1>2, <2>1, <2>4
      <3>2. /\ Alone'
            /\ handler'[h] = R
            /\ \A g \in Handlers : g # h => handler'[g] = handler[g]
        BY <1>2, <1>3, <2>1, <2>3, <3>1, GoesOnAlone, Steps
      <3>3. Current(h)'
        BY <1>1, <1>2, <1>3, <2>1, <2>3, <2>4, <3>2, Steps DEF Current, AllApproved
      <3> QED
        BY <1>1, <1>2, <2>1, <3>2, <3>3, OnlyReads
    <2>5. CASE ~AllApproved(c)
      <3>1. Goto(h, Idle)
        BY <1>2, <2>1, <2>5
      <3> QED
        BY <1>1, <1>2, <1>3, <2>1, <3>1, EndsAlone, OnlyReads
    <2> QED
      BY <1>2, <2>4, <2>5
  <1>8. CASE ApproveDocument(h)
    <2> DEFINE R == [handler[h] EXCEPT !.at = "approve.saved"]
    <2>1. /\ handler[h].at = "approve.read"
          /\ review' = [review EXCEPT ![c][t] = "APPROVED"]
          /\ Goto(h, R)
      BY <1>2, <1>8 DEF ApproveDocument
    <2>2. handler[h] \in [at : ReviewSteps, courier : Couriers, type : DocTypes]
      BY <1>2, <2>1, Fields, Steps
    <2>3. R.at = "approve.saved" /\ R.courier = c /\ R.type = t
      BY <1>2, <2>2
    <2>4. workflow[c] = "DOCUMENT_REVIEW"
      BY <1>2, <1>3, <2>1, Steps DEF Current
    <2> HIDE DEF R
    <2>5. /\ Alone'
          /\ handler'[h] = R
          /\ \A g \in Handlers : g # h => handler'[g] = handler[g]
      BY <1>2, <1>3, <2>1, <2>3, GoesOnAlone, Steps
    <2>6. \A d \in Couriers, u \in DocTypes : d # c \/ u # t => review'[d][u] = review[d][u]
      <3>1. "APPROVED" \in ReviewStatus
        BY <1>2 DEF ReviewStatus
      <3> QED
        BY <1>2, <2>1, <3>1, SetReview
    <2>7. ApprovalFits(c)'
      BY <1>1, <1>2, <1>3, <2>4 DEF ApprovalFits
    <2>8. ASSUME NEW g \in Handlers, handler'[g].courier = c
          PROVE  Current(g)'
      <3>1. CASE g = h
        BY <1>1, <1>2, <2>3, <2>4, <2>5, <3>1, Steps DEF Current
      <3>2. CASE g # h
        <4>1. Current(g) /\ handler'[g] = handler[g] /\ handler[g].at \notin StaffSteps
              /\ handler[g].courier = c
          BY <1>2, <1>3, <1>4, <2>1, <2>5, <2>8, <3>2, Steps
        <4> QED
          BY <1>1, <1>2, <2>4, <4>1, Steps DEF Current, MayUpload
      <3> QED
        BY <1>2, <3>1, <3>2
    <2> QED
      BY <1>1, <1>2, <2>3, <2>5, <2>6, <2>7, <2>8, OneCourier
  <1>9. CASE UploadSave(h)
    <2>1. /\ handler[h].at = "upload.written"
          /\ MayUpload(c)
          /\ review[c][t] # "APPROVED"
      BY <1>2, <1>3, <1>9 DEF UploadSave, Current
    <2>2. handler[h] \in [at : UploadSteps, courier : Couriers, type : DocTypes,
                          old : Files \cup {NoFile}, file : Files \cup {NoFile}]
      BY <1>2, <2>1, Fields DEF UploadSteps
    <2> DEFINE R == [handler[h] EXCEPT !.at = "upload.saved"]
    <2>3. R.at = "upload.saved" /\ R.courier = c
      BY <1>2, <2>2
    <2>4. Goto(h, Idle) \/ Goto(h, R)
      BY <1>2, <1>9 DEF UploadSave
    <2>5. \/ review' = review
          \/ review' = [review EXCEPT ![c][t] = "PENDING_REVIEW"]
      BY <1>2, <1>9 DEF UploadSave
    <2> HIDE DEF R
    <2>6. /\ Alone'
          /\ handler'[h] = Idle \/ handler'[h].courier = c
          /\ Current(h)'
          /\ \A g \in Handlers : g # h => handler'[g] = handler[g]
      <3>1. CASE Goto(h, Idle)
        BY <1>2, <1>3, <3>1, EndsAlone
      <3>2. CASE Goto(h, R)
        <4>1. /\ Alone'
              /\ handler'[h] = R
              /\ \A g \in Handlers : g # h => handler'[g] = handler[g]
          BY <1>2, <1>3, <2>1, <2>3, <3>2, GoesOnAlone, Steps
        <4>2. Current(h)'
          BY <1>2, <2>3, <4>1, Steps DEF Current
        <4> QED
          BY <1>2, <2>3, <4>1, <4>2
      <3> QED
        BY <1>2, <2>4, <3>1, <3>2
    <2>7. /\ \A d \in Couriers, u \in DocTypes :
               d # c \/ u # t => review'[d][u] = review[d][u]
          /\ review'[c][t] # "APPROVED"
      <3>1. "PENDING_REVIEW" \in ReviewStatus
        BY <1>2 DEF ReviewStatus
      <3>2. CASE review' = review
        BY <1>2, <2>1, <3>2
      <3>3. CASE review' = [review EXCEPT ![c][t] = "PENDING_REVIEW"]
        <4>1. review \in [Couriers -> [DocTypes -> ReviewStatus \cup {"MISSING"}]]
          BY <1>2 DEF TypeOK
        <4>2. review'[c][t] = "PENDING_REVIEW"
          BY <3>3, <4>1
        <4>3. \A d \in Couriers, u \in DocTypes :
                d # c \/ u # t => review'[d][u] = review[d][u]
          BY <3>3, <4>1
        <4> QED
          BY <4>2, <4>3
      <3> QED
        BY <1>2, <2>5, <3>2, <3>3
    <2>8. ApprovalFits(c)'
      BY <1>1, <1>2, <1>3, <2>1 DEF ApprovalFits, MayUpload
    <2>9. ASSUME NEW g \in Handlers, handler'[g].courier = c
          PROVE  Current(g)'
      <3>1. CASE g # h
        <4>1. Current(g) /\ handler'[g] = handler[g] /\ handler[g].at \notin OwnSteps
              /\ handler[g].courier = c
          BY <1>2, <1>3, <1>4, <2>1, <2>6, <2>9, <3>1, Steps
        <4> QED
          BY <1>1, <1>2, <2>1, <4>1, Steps DEF Current, MayUpload
      <3> QED
        BY <1>2, <2>6, <3>1
    <2> QED
      BY <1>1, <1>2, <2>6, <2>7, <2>8, <2>9, OneCourier
  <1> QED
    BY <1>2, <1>5, <1>6, <1>7, <1>8, <1>9

LEMMA OrderlyStep == TypeOK /\ OrderlyInv /\ [Next]_vars => OrderlyInv'
  <1> SUFFICES ASSUME TypeOK, OrderlyInv, [Next]_vars, orderly'
               PROVE  OrderlyInv'
    BY DEF OrderlyInv
  <1>0. /\ orderly' = orderly
        /\ orderly
    BY DEF Next, vars, kept, Advance, Abort, Register, RegisterCourierOnboarding, GoOffline, SubmitRead,
           OnlineRead, DecideRead, UploadRead, ReviewRead, ApproveRegistration,
           RejectRegistration, UploadWrite, UploadSave, UploadUnlink, SubmitForReview,
           ApproveDocument, ApproveReadAll, ApproveCourier, RejectDocument, GoOnline
  <1>1. /\ Alone
        /\ \A g \in Handlers : Current(g)
        /\ \A d \in Couriers : ApprovalFits(d)
    BY <1>0 DEF OrderlyInv
  <1>2. CASE UNCHANGED vars
    BY <1>2 DEF OrderlyInv, Alone, Current, ApprovalFits, AllApproved, MayUpload, vars,
                documentVars, kept
  <1>9. \A d \in Couriers : workflow[d] = "ABSENT" => d \notin applied
    BY <1>1 DEF ApprovalFits
  <1>3. ASSUME NEW c \in Couriers, Register(c) \/ RegisterCourierOnboarding(c)
        PROVE  OrderlyInv'
    <2>1. /\ workflow[c] = "ABSENT"
          /\ workflow'[c] \in {"PENDING", "APPROVED"}
          /\ workflow'[c] = "APPROVED" => c \notin applied'
          /\ \A d \in Couriers : d # c =>
               workflow'[d] = workflow[d] /\ (d \in applied' <=> d \in applied)
          /\ review' = review
          /\ isOnline' = isOnline
          /\ handler' = handler
      BY <1>3, <1>9 DEF Register, RegisterCourierOnboarding, TypeOK, documentVars, kept
    <2>2. \A d \in Couriers : ApprovalFits(d)'
      BY <1>1, <2>1 DEF ApprovalFits, AllApproved
    <2>3. ASSUME NEW g \in Handlers
          PROVE  Current(g)'
      <3>1. handler[g].at \in UploadSteps \cup ReviewSteps =>
              handler[g].courier \in Couriers /\ handler[g].type \in DocTypes
        BY Fields
      <3>2. handler[g].at \in DecideSteps \cup {"submit.read", "online.read"} =>
              handler[g].courier \in Couriers
        BY Fields
      <3>3. Current(g) /\ handler'[g] = handler[g]
        BY <1>1, <2>1
      <3> QED
        BY <2>1, <3>1, <3>2, <3>3
           DEF Current, AllApproved, MayUpload, UploadSteps, ReviewSteps, DecideSteps
    <2>4. Alone'
      BY <1>1, <2>1 DEF Alone
    <2> QED
      BY <2>2, <2>3, <2>4 DEF OrderlyInv
  <1>4. ASSUME NEW c \in Couriers, GoOffline(c)
        PROVE  OrderlyInv'
    <2>1. /\ isOnline'[c] = FALSE
          /\ \A d \in Couriers : d # c => isOnline'[d] = isOnline[d]
          /\ workflow' = workflow
          /\ applied' = applied
          /\ review' = review
          /\ handler' = handler
      BY <1>4 DEF GoOffline, TypeOK, documentVars, kept
    <2>2. \A d \in Couriers : ApprovalFits(d)'
      BY <1>1, <2>1 DEF ApprovalFits, AllApproved
    <2>3. Alone' /\ \A g \in Handlers : Current(g)'
      BY <1>1, <2>1 DEF Alone, Current, AllApproved, MayUpload
    <2> QED
      BY <2>2, <2>3 DEF OrderlyInv
  <1>5. ASSUME NEW h \in Handlers, Abort(h)
        PROVE  OrderlyInv'
    <2>1. /\ Goto(h, Idle)
          /\ workflow' = workflow
          /\ applied' = applied
          /\ review' = review
          /\ isOnline' = isOnline
      BY <1>5 DEF Abort, documentVars
    <2> QED
      BY <1>0, <1>1, <2>1, EndsAlone, OnlyReads
  <1>6. ASSUME NEW h \in Handlers, Advance(h)
        PROVE  OrderlyInv'
    <2>1. applied' = applied
      BY <1>6 DEF Advance, kept, ApproveRegistration, RejectRegistration, UploadWrite,
           UploadSave, UploadUnlink, SubmitForReview, ApproveDocument, ApproveReadAll,
           ApproveCourier, RejectDocument, GoOnline
    <2> QED
      BY <1>0, <1>6, <2>1, EndingsStayOrderly, MiddlesStayOrderly DEF Advance
  <1>7. ASSUME NEW h \in Handlers, NEW c \in Couriers,
               \/ SubmitRead(h, c)
               \/ OnlineRead(h, c)
               \/ \E d \in DecideSteps : DecideRead(h, c, d)
               \/ \E t \in DocTypes : UploadRead(h, c, t)
               \/ \E t \in DocTypes, d \in {"approve.read", "reject.read"} :
                    ReviewRead(h, c, t, d)
        PROVE  OrderlyInv'
    <2>1. applied' = applied
      BY <1>7 DEF SubmitRead, OnlineRead, DecideRead, UploadRead, ReviewRead, kept
    <2> QED
      BY <1>0, <1>7, <2>1, BeginningsStayOrderly
  <1> QED
    BY <1>2, <1>3, <1>4, <1>5, <1>6, <1>7 DEF Next

(* Where courier and staff each wait for their answers, a courier who came *)
(* by an application is approved only with every document approved, and    *)
(* only approved couriers are online, although the two do not wait for     *)
(* each other and requests die at any step.                                *)
THEOREM ApprovedApplicantHasDocumentsAlways == Spec => []ApprovedApplicantHasDocuments
  <1>1. Init => TypeOK /\ OrderlyInv
    BY TypingInit, OrderlyInit
  <1>2. TypeOK /\ OrderlyInv /\ [Next]_vars => (TypeOK /\ OrderlyInv)'
    BY TypingStep, OrderlyStep
  <1>3. OrderlyInv => ApprovedApplicantHasDocuments
    BY DEF OrderlyInv, ApprovalFits, ApprovedApplicantHasDocuments
  <1> QED
    BY <1>1, <1>2, <1>3, PTL DEF Spec

(* What a step may do to an approved document and to a decided application. *)
DocumentStays(c, t) ==
  review[c][t] = "APPROVED" => review'[c][t] = "APPROVED" /\ fileOf'[c][t] = fileOf[c][t]

DecidesOnce(c) ==
  /\ workflow'[c] = "REJECTED" => workflow[c] \in {"PENDING", "REJECTED"}
  /\ workflow'[c] = "PRE_APPROVED" => workflow[c] \in {"PENDING", "PRE_APPROVED"}

LEMMA StepKeepsDocuments ==
  ASSUME TypeOK, OrderlyInv, orderly, [Next]_vars, NEW c \in Couriers, NEW t \in DocTypes
  PROVE  DocumentStays(c, t)
  <1>1. \A g \in Handlers : Current(g)
    BY DEF OrderlyInv
  <1>2. ASSUME review' = review, fileOf' = fileOf
        PROVE  DocumentStays(c, t)
    BY <1>2 DEF DocumentStays
  <1>3. ASSUME NEW h \in Handlers, UploadSave(h)
        PROVE  DocumentStays(c, t)
    <2>1. PICK d \in Couriers, u \in DocTypes, f \in Files \cup {NoFile} :
            d = handler[h].courier /\ u = handler[h].type /\ f = handler[h].file
      BY <1>3, Fields DEF UploadSave, UploadSteps
    <2>2. review[d][u] # "APPROVED"
      BY <1>1, <1>3, <2>1 DEF UploadSave, Current
    <2>3. \/ UNCHANGED <<review, fileOf>>
          \/ /\ review' = [review EXCEPT ![d][u] = "PENDING_REVIEW"]
             /\ fileOf' = [fileOf EXCEPT ![d][u] = f]
      BY <1>3, <2>1 DEF UploadSave
    <2>4. CASE /\ review' = [review EXCEPT ![d][u] = "PENDING_REVIEW"]
               /\ fileOf' = [fileOf EXCEPT ![d][u] = f]
      <3>1. "PENDING_REVIEW" \in ReviewStatus
        BY DEF ReviewStatus
      <3>2. c # d \/ t # u => review'[c][t] = review[c][t]
        BY <2>4, <3>1, SetReview
      <3>3. c # d \/ t # u => fileOf'[c][t] = fileOf[c][t]
        BY <2>4, SetFile
      <3> QED
        BY <2>2, <3>2, <3>3 DEF DocumentStays
    <2> QED
      BY <1>2, <2>3, <2>4
  <1>4. ASSUME NEW h \in Handlers, ApproveDocument(h) \/ RejectDocument(h)
        PROVE  DocumentStays(c, t)
    <2>1. PICK d \in Couriers, u \in DocTypes : d = handler[h].courier /\ u = handler[h].type
      BY <1>4, Fields DEF ApproveDocument, RejectDocument, ReviewSteps
    <2>2. review[d][u] # "APPROVED"
      BY <1>1, <1>4, <2>1 DEF ApproveDocument, RejectDocument, Current
    <2>3. PICK s \in ReviewStatus : review' = [review EXCEPT ![d][u] = s]
      BY <1>4, <2>1 DEF ApproveDocument, RejectDocument, ReviewStatus
    <2>4. c # d \/ t # u => review'[c][t] = review[c][t]
      BY <2>3, SetReview
    <2>5. fileOf' = fileOf
      BY <1>4 DEF ApproveDocument, RejectDocument
    <2> QED
      BY <2>2, <2>4, <2>5 DEF DocumentStays
  <1>5. \/ review' = review /\ fileOf' = fileOf
        \/ \E h \in Handlers : UploadSave(h) \/ ApproveDocument(h) \/ RejectDocument(h)
    BY DEF Next, vars, documentVars, Advance, Abort, Register, RegisterCourierOnboarding, GoOffline,
           SubmitRead, OnlineRead, DecideRead, UploadRead, ReviewRead, ApproveRegistration,
           RejectRegistration, UploadWrite, UploadUnlink, SubmitForReview, ApproveReadAll,
           ApproveCourier, GoOnline
  <1> QED
    BY <1>2, <1>3, <1>4, <1>5

LEMMA StepDecidesOnce ==
  ASSUME TypeOK, OrderlyInv, orderly, [Next]_vars, NEW c \in Couriers
  PROVE  DecidesOnce(c)
  <1>1. \A g \in Handlers : Current(g)
    BY DEF OrderlyInv
  <1>2. ASSUME NEW h \in Handlers, ApproveRegistration(h) \/ RejectRegistration(h)
        PROVE  DecidesOnce(c)
    <2>1. workflow[handler[h].courier] = "PENDING"
      BY <1>1, <1>2 DEF ApproveRegistration, RejectRegistration, Current, DecideSteps
    <2>2. c # handler[h].courier => workflow'[c] = workflow[c]
      BY <1>2 DEF ApproveRegistration, RejectRegistration, TypeOK
    <2> QED
      BY <2>1, <2>2 DEF DecidesOnce
  <1>3. ASSUME workflow'[c] \notin {"REJECTED", "PRE_APPROVED"} \/ workflow'[c] = workflow[c]
        PROVE  DecidesOnce(c)
    BY <1>3 DEF DecidesOnce
  <1>4. ASSUME NEW h \in Handlers,
               SubmitForReview(h) \/ ApproveCourier(h) \/ RejectDocument(h)
        PROVE  DecidesOnce(c)
    <2>1. \A d \in Couriers : workflow'[d] # workflow[d] =>
            workflow'[d] \in {"DOCUMENT_REVIEW", "APPROVED", "DOCUMENT_PENDING"}
      BY <1>4 DEF SubmitForReview, ApproveCourier, RejectDocument, TypeOK
    <2> QED
      BY <1>3, <2>1
  <1>5. ASSUME NEW d \in Couriers, Register(d) \/ RegisterCourierOnboarding(d)
        PROVE  DecidesOnce(c)
    <2>1. workflow'[c] # workflow[c] => workflow'[c] \in {"PENDING", "APPROVED"}
      BY <1>5 DEF Register, RegisterCourierOnboarding, TypeOK
    <2> QED
      BY <1>3, <2>1
  <1>6. \/ workflow' = workflow
        \/ \E d \in Couriers : Register(d) \/ RegisterCourierOnboarding(d)
        \/ \E h \in Handlers : \/ ApproveRegistration(h) \/ RejectRegistration(h)
                               \/ SubmitForReview(h) \/ ApproveCourier(h)
                               \/ RejectDocument(h)
    BY DEF Next, vars, Advance, Abort, GoOffline, SubmitRead, OnlineRead, DecideRead,
           UploadRead, ReviewRead, UploadWrite, UploadSave, UploadUnlink, ApproveDocument,
           ApproveReadAll, GoOnline
  <1> QED
    BY <1>2, <1>3, <1>4, <1>5, <1>6

(* Where courier and staff each wait for their answers, an approved        *)
(* document is not changed, and an application is decided once: no upload  *)
(* that began before ends after the approval, no decision comes twice.     *)
THEOREM DecisionsStayAlways == Spec => DecisionsStay
  <1>1. Init => TypeOK /\ OrderlyInv
    BY TypingInit, OrderlyInit
  <1>2. TypeOK /\ OrderlyInv /\ [Next]_vars => (TypeOK /\ OrderlyInv)'
    BY TypingStep, OrderlyStep
  <1>3. TypeOK /\ OrderlyInv /\ [Next]_vars =>
          [orderly =>
             \A c \in Couriers, t \in DocTypes :
               review[c][t] = "APPROVED" =>
                 review'[c][t] = "APPROVED" /\ fileOf'[c][t] = fileOf[c][t]]_vars
    BY StepKeepsDocuments DEF DocumentStays
  <1>4. TypeOK /\ OrderlyInv /\ [Next]_vars =>
          [orderly =>
             \A c \in Couriers :
               /\ workflow'[c] = "REJECTED" => workflow[c] \in {"PENDING", "REJECTED"}
               /\ workflow'[c] = "PRE_APPROVED" =>
                    workflow[c] \in {"PENDING", "PRE_APPROVED"}]_vars
    BY StepDecidesOnce DEF DecidesOnce
  <1>5. Spec => ApprovedDocumentStays
    BY <1>1, <1>2, <1>3, PTL DEF Spec, ApprovedDocumentStays
  <1>6. Spec => DecidedOnce
    BY <1>1, <1>2, <1>4, PTL DEF Spec, DecidedOnce
  <1> QED
    BY <1>5, <1>6 DEF DecisionsStay

=============================================================================
