------------------------- MODULE CourierOnboarding -------------------------
(***************************************************************************)
(* From a courier's registration to the first time online: application,    *)
(* documents and their review, src/src/couriers, and the registration      *)
(* without an application, src/src/auth.                                   *)
(*                                                                         *)
(* Every request reads the courier and the documents, decides, and then    *)
(* updates by id; approveDocument is four statements without a             *)
(* transaction, uploadMyDocument also writes and unlinks files.  A request *)
(* in progress is a handler that remembers what it read.                   *)
(***************************************************************************)
EXTENDS Naturals, FiniteSets

CONSTANTS
  Couriers,       \* couriers who register
  DocTypes,       \* ALL_COURIER_DOCUMENT_TYPES
  Files,          \* names randomUUID may give an upload (a bound)
  Handlers,       \* requests the server works on at the same time
  NoFile,
  SubmitRouted,   \* does POST me/documents/submit-review reach submitForReview?
  MayCrash        \* may a request die between two steps?

ASSUME OnboardingAssumption ==
  /\ NoFile \notin Files
  /\ {SubmitRouted, MayCrash} \subseteq BOOLEAN

WorkflowStatus == {"PENDING", "PRE_APPROVED", "DOCUMENT_PENDING",
                   "DOCUMENT_REVIEW", "APPROVED", "REJECTED"}
ReviewStatus   == {"PENDING_REVIEW", "APPROVED", "REJECTED"}

VARIABLES
  workflow,    \* workflow[c]: workflowStatus, "ABSENT" before the registration
  applied,     \* couriers who registered by an application (their tcNo is set)
  review,      \* review[c][t]: reviewStatus of the document, "MISSING" without a row
  fileOf,      \* fileOf[c][t]: fileUrl of the document, or NoFile
  disk,        \* files in uploads/courier-documents
  isOnline,    \* isOnline[c]
  handler,     \* handler[h]: the request in progress and what it has read
  orderly,     \* does everybody wait for an answer before the next request?
               \* chosen at the start, never changed
  died         \* has a request died?  (history, for the liveness properties)

documentVars == <<review, fileOf, disk>>
kept == <<applied, orderly, died>>
vars == <<workflow, documentVars, isOnline, handler, kept>>

Idle == [at |-> "idle"]

UploadSteps == {"upload.read", "upload.written", "upload.saved"}
ReviewSteps == {"approve.read", "approve.saved", "approve.all", "reject.read"}
DecideSteps == {"register.approve", "register.reject"}

Requests ==
  [at : {"idle"}]
    \cup [at : UploadSteps, courier : Couriers, type : DocTypes,
          old : Files \cup {NoFile}, file : Files \cup {NoFile}]
    \cup [at : ReviewSteps, courier : Couriers, type : DocTypes]
    \cup [at : DecideSteps \cup {"submit.read", "online.read"}, courier : Couriers]

TypeOK ==
  /\ workflow \in [Couriers -> WorkflowStatus \cup {"ABSENT"}]
  /\ applied \in SUBSET Couriers
  /\ review \in [Couriers -> [DocTypes -> ReviewStatus \cup {"MISSING"}]]
  /\ fileOf \in [Couriers -> [DocTypes -> Files \cup {NoFile}]]
  /\ disk \in SUBSET Files
  /\ isOnline \in [Couriers -> BOOLEAN]
  /\ handler \in [Handlers -> Requests]
  /\ {orderly, died} \subseteq BOOLEAN

Init ==
  /\ workflow = [c \in Couriers |-> "ABSENT"]
  /\ applied = {}
  /\ review = [c \in Couriers |-> [t \in DocTypes |-> "MISSING"]]
  /\ fileOf = [c \in Couriers |-> [t \in DocTypes |-> NoFile]]
  /\ disk = {}
  /\ isOnline = [c \in Couriers |-> FALSE]
  /\ handler = [h \in Handlers |-> Idle]
  /\ orderly \in BOOLEAN
  /\ died = FALSE

Goto(h, request) == handler' = [handler EXCEPT ![h] = request]

InProgress(c, steps) ==
  \E g \in Handlers : handler[g].at \in steps /\ handler[g].courier = c

(* A person who waits for each answer before sending the next request. *)
CourierWaits(c) == orderly => ~InProgress(c, UploadSteps \cup {"submit.read"})
StaffWaits(c)   == orderly => ~InProgress(c, ReviewSteps \cup DecideSteps)

MayUpload(c) == workflow[c] \in {"PRE_APPROVED", "DOCUMENT_PENDING"}

AllApproved(c) == \A t \in DocTypes : review[c][t] = "APPROVED"

ReadyToSubmit(c) ==
  /\ \A t \in DocTypes : review[c][t] \in {"PENDING_REVIEW", "APPROVED"}
  /\ \E t \in DocTypes : review[c][t] = "PENDING_REVIEW"

-----------------------------------------------------------------------------
(* Registration: POST auth/register with role COURIER makes a courier who  *)
(* is approved at once and has no documents, POST auth/register/courier an *)
(* application, on which staff decide.                                     *)

Register(c) ==
  /\ workflow[c] = "ABSENT"
  /\ workflow' = [workflow EXCEPT ![c] = "APPROVED"]
  /\ UNCHANGED <<documentVars, isOnline, handler, kept>>

RegisterCourierOnboarding(c) ==
  /\ workflow[c] = "ABSENT"
  /\ workflow' = [workflow EXCEPT ![c] = "PENDING"]
  /\ applied' = applied \cup {c}
  /\ UNCHANGED <<documentVars, isOnline, handler, orderly, died>>

(* Mutation: any application can be decided again. *)
DecideReadAnyStatus(h, c, decision) ==
  /\ handler[h] = Idle
  /\ StaffWaits(c)
  /\ workflow[c] # "ABSENT"
  /\ Goto(h, [at |-> decision, courier |-> c])
  /\ UNCHANGED <<workflow, documentVars, isOnline, kept>>

DecideRead(h, c, decision) ==
  /\ handler[h] = Idle
  /\ StaffWaits(c)
  /\ workflow[c] = "PENDING"
  /\ Goto(h, [at |-> decision, courier |-> c])
  /\ UNCHANGED <<workflow, documentVars, isOnline, kept>>

ApproveRegistration(h) ==
  /\ handler[h].at = "register.approve"
  /\ workflow' = [workflow EXCEPT ![handler[h].courier] = "PRE_APPROVED"]
  /\ Goto(h, Idle)
  /\ UNCHANGED <<documentVars, isOnline, kept>>

RejectRegistration(h) ==
  /\ handler[h].at = "register.reject"
  /\ workflow' = [workflow EXCEPT ![handler[h].courier] = "REJECTED"]
  /\ isOnline' = [isOnline EXCEPT ![handler[h].courier] = FALSE]
  /\ Goto(h, Idle)
  /\ UNCHANGED <<documentVars, kept>>

-----------------------------------------------------------------------------
(* POST couriers/me/documents/:docType *)

UploadRead(h, c, t) ==
  /\ handler[h] = Idle
  /\ CourierWaits(c)
  /\ MayUpload(c)
  /\ review[c][t] # "APPROVED"
  /\ Goto(h, [at |-> "upload.read", courier |-> c, type |-> t,
              old |-> fileOf[c][t], file |-> NoFile])
  /\ UNCHANGED <<workflow, documentVars, isOnline, kept>>

(* A name nobody has used yet; names of deleted files that nobody          *)
(* remembers stand for new ones.                                           *)
FreshFiles ==
  {f \in Files : /\ f \notin disk
                 /\ \A c \in Couriers, t \in DocTypes : fileOf[c][t] # f
                 /\ \A g \in Handlers : handler[g].at \in UploadSteps =>
                      handler[g].old # f /\ handler[g].file # f}

UploadWrite(h) ==
  /\ handler[h].at = "upload.read"
  /\ \E f \in FreshFiles :
       /\ disk' = disk \cup {f}
       /\ Goto(h, [handler[h] EXCEPT !.at = "upload.written", !.file = f])
  /\ UNCHANGED <<workflow, review, fileOf, isOnline, kept>>

(* Mutation: a status the schema does not know. *)
UploadSaveAsUploaded(h) ==
  /\ handler[h].at = "upload.written"
  /\ LET c == handler[h].courier
         t == handler[h].type
     IN  /\ review' = [review EXCEPT ![c][t] = "UPLOADED"]
         /\ fileOf' = [fileOf EXCEPT ![c][t] = handler[h].file]
  /\ Goto(h, Idle)
  /\ UNCHANGED <<workflow, disk, isOnline, kept>>

(* The row found before is updated, or a row created, which the unique key *)
(* (courierId, type) refuses if somebody created it meanwhile.             *)
UploadSave(h) ==
  /\ handler[h].at = "upload.written"
  /\ LET c == handler[h].courier
         t == handler[h].type
     IN  IF handler[h].old = NoFile /\ review[c][t] # "MISSING"
           THEN Goto(h, Idle) /\ UNCHANGED <<review, fileOf>>
           ELSE /\ review' = [review EXCEPT ![c][t] = "PENDING_REVIEW"]
                /\ fileOf' = [fileOf EXCEPT ![c][t] = handler[h].file]
                /\ Goto(h, IF handler[h].old = NoFile THEN Idle
                           ELSE [handler[h] EXCEPT !.at = "upload.saved"])
  /\ UNCHANGED <<workflow, disk, isOnline, kept>>

(* Mutation: the file to delete is read again from the row. *)
OldFileCurrent(h) == fileOf[handler[h].courier][handler[h].type]

OldFile(h) == handler[h].old

UploadUnlink(h) ==
  /\ handler[h].at = "upload.saved"
  /\ disk' = disk \ {OldFile(h)}
  /\ Goto(h, Idle)
  /\ UNCHANGED <<workflow, review, fileOf, isOnline, kept>>

-----------------------------------------------------------------------------
(* POST couriers/me/documents/submit-review.  The controller declares this *)
(* route after me/documents/:docType, which takes the request first, finds *)
(* no file in it and refuses: SubmitRouted is FALSE for the code as it is, *)
(* TRUE for the service method it was written for.                         *)

SubmitRead(h, c) ==
  /\ SubmitRouted
  /\ handler[h] = Idle
  /\ CourierWaits(c)
  /\ MayUpload(c)
  /\ ReadyToSubmit(c)
  /\ Goto(h, [at |-> "submit.read", courier |-> c])
  /\ UNCHANGED <<workflow, documentVars, isOnline, kept>>

SubmitForReview(h) ==
  /\ handler[h].at = "submit.read"
  /\ workflow' = [workflow EXCEPT ![handler[h].courier] = "DOCUMENT_REVIEW"]
  /\ Goto(h, Idle)
  /\ UNCHANGED <<documentVars, isOnline, kept>>

-----------------------------------------------------------------------------
(* The review of one document *)

ReviewRead(h, c, t, decision) ==
  /\ handler[h] = Idle
  /\ StaffWaits(c)
  /\ workflow[c] = "DOCUMENT_REVIEW"
  /\ review[c][t] = "PENDING_REVIEW"
  /\ Goto(h, [at |-> decision, courier |-> c, type |-> t])
  /\ UNCHANGED <<workflow, documentVars, isOnline, kept>>

ApproveDocument(h) ==
  /\ handler[h].at = "approve.read"
  /\ review' = [review EXCEPT ![handler[h].courier][handler[h].type] = "APPROVED"]
  /\ Goto(h, [handler[h] EXCEPT !.at = "approve.saved"])
  /\ UNCHANGED <<workflow, fileOf, disk, isOnline, kept>>

(* Mutation: only a rejected document is an obstacle. *)
CompleteAfterUnlessRejected(c) == \A t \in DocTypes : review[c][t] # "REJECTED"

CompleteAfter(c) == AllApproved(c)

(* Mutation: the documents read before the update are judged, and this one *)
(* is still waiting among them.                                            *)
ApproveReadAllBefore(h) ==
  /\ handler[h].at = "approve.saved"
  /\ Goto(h, Idle)
  /\ UNCHANGED <<workflow, documentVars, isOnline, kept>>

ApproveReadAll(h) ==
  /\ handler[h].at = "approve.saved"
  /\ Goto(h, IF CompleteAfter(handler[h].courier)
               THEN [handler[h] EXCEPT !.at = "approve.all"] ELSE Idle)
  /\ UNCHANGED <<workflow, documentVars, isOnline, kept>>

ApproveCourier(h) ==
  /\ handler[h].at = "approve.all"
  /\ workflow' = [workflow EXCEPT ![handler[h].courier] = "APPROVED"]
  /\ Goto(h, Idle)
  /\ UNCHANGED <<documentVars, isOnline, kept>>

RejectDocument(h) ==
  /\ handler[h].at = "reject.read"
  /\ LET c == handler[h].courier
     IN  /\ review' = [review EXCEPT ![c][handler[h].type] = "REJECTED"]
         /\ workflow' = [workflow EXCEPT ![c] = "DOCUMENT_PENDING"]
         /\ isOnline' = [isOnline EXCEPT ![c] = FALSE]
  /\ Goto(h, Idle)
  /\ UNCHANGED <<fileOf, disk, kept>>

-----------------------------------------------------------------------------
(* PATCH couriers/me and couriers/:id: going online asks for an approved   *)
(* courier, going offline for nothing.                                     *)

OnlineRead(h, c) ==
  /\ handler[h] = Idle
  /\ workflow[c] = "APPROVED"
  /\ Goto(h, [at |-> "online.read", courier |-> c])
  /\ UNCHANGED <<workflow, documentVars, isOnline, kept>>

GoOnline(h) ==
  /\ handler[h].at = "online.read"
  /\ isOnline' = [isOnline EXCEPT ![handler[h].courier] = TRUE]
  /\ Goto(h, Idle)
  /\ UNCHANGED <<workflow, documentVars, kept>>

GoOffline(c) ==
  /\ isOnline[c]
  /\ isOnline' = [isOnline EXCEPT ![c] = FALSE]
  /\ UNCHANGED <<workflow, documentVars, handler, kept>>

(* The process stops, or a statement fails. *)
Abort(h) ==
  /\ MayCrash
  /\ handler[h] # Idle
  /\ Goto(h, Idle)
  /\ died' = TRUE
  /\ UNCHANGED <<workflow, applied, documentVars, isOnline, orderly>>

Advance(h) ==
  \/ ApproveRegistration(h)
  \/ RejectRegistration(h)
  \/ UploadWrite(h)
  \/ UploadSave(h)
  \/ UploadUnlink(h)
  \/ SubmitForReview(h)
  \/ ApproveDocument(h)
  \/ ApproveReadAll(h)
  \/ ApproveCourier(h)
  \/ RejectDocument(h)
  \/ GoOnline(h)

Next ==
  \/ \E h \in Handlers : Advance(h) \/ Abort(h)
  \/ \E c \in Couriers : Register(c) \/ RegisterCourierOnboarding(c) \/ GoOffline(c)
  \/ \E h \in Handlers, c \in Couriers :
       \/ SubmitRead(h, c)
       \/ OnlineRead(h, c)
       \/ \E d \in DecideSteps : DecideRead(h, c, d)
       \/ \E t \in DocTypes : UploadRead(h, c, t)
       \/ \E t \in DocTypes, d \in {"approve.read", "reject.read"} : ReviewRead(h, c, t, d)

Spec == Init /\ [][Next]_vars

-----------------------------------------------------------------------------
(* Properties *)

(* The file of every document exists: however uploads of one document      *)
(* overtake each other, an upload deletes only a file that no row names    *)
(* any more.                                                               *)
DocumentFileExists ==
  \A c \in Couriers, t \in DocTypes :
    /\ fileOf[c][t] # NoFile => fileOf[c][t] \in disk
    /\ (fileOf[c][t] = NoFile) = (review[c][t] = "MISSING")

(* A courier who came by an application is approved only with every        *)
(* document approved, and nobody is online who is not approved.  It holds  *)
(* when each person waits for the answers, although courier and staff do   *)
(* not wait for each other and requests may die at any step; otherwise a   *)
(* rejection may slip in before the approval.  Of couriers who came by     *)
(* POST auth/register nothing is asked: they are approved without any      *)
(* document.                                                               *)
ApprovedApplicantHasDocuments ==
  orderly =>
    \A c \in Couriers :
      /\ c \in applied /\ workflow[c] = "APPROVED" => AllApproved(c)
      /\ isOnline[c] => workflow[c] = "APPROVED"

(* An approved document is not changed any more, under the same condition: *)
(* uploadMyDocument refuses with "Onaylanmis evrak degistirilemez", but an *)
(* upload that began before the submission may end after the approval.     *)
ApprovedDocumentStays ==
  [][orderly =>
       \A c \in Couriers, t \in DocTypes :
         review[c][t] = "APPROVED" =>
           review'[c][t] = "APPROVED" /\ fileOf'[c][t] = fileOf[c][t]]_vars

(* The application is decided once, under the same condition:              *)
(* approveRegistration and rejectRegistration refuse with "Bu basvuru      *)
(* beklemede degil", but two of them may both read PENDING.                *)
DecidedOnce ==
  [][orderly =>
       \A c \in Couriers :
         /\ workflow'[c] = "REJECTED" => workflow[c] \in {"PENDING", "REJECTED"}
         /\ workflow'[c] = "PRE_APPROVED" => workflow[c] \in {"PENDING", "PRE_APPROVED"}]_vars

(* What staff have decided, about a document or an application, stays.     *)
DecisionsStay == ApprovedDocumentStays /\ DecidedOnce

-----------------------------------------------------------------------------
(* The server finishes the requests it began.                              *)
FairSpec == Spec /\ \A h \in Handlers : WF_vars(Advance(h))

(* In addition a courier who may submit presses the button some day.       *)
SubmittingSpec ==
  FairSpec /\ \A c \in Couriers : SF_vars(\E h \in Handlers : SubmitRead(h, c))

(* A courier with every document approved becomes active: "tum evraklar    *)
(* onaylaninca kurye aktif olur" on the review page.  It holds if people   *)
(* wait for answers and no request dies: one that dies between approving   *)
(* the last document and approving the courier leaves nothing to take that *)
(* step later.                                                             *)
AllApprovedBecomesActive ==
  \A c \in Couriers :
    (orderly /\ AllApproved(c)) ~> (workflow[c] = "APPROVED" \/ died)

(* Documents that are complete come to the review: "Incelemeye gonder ile  *)
(* operasyon ekibine iletin" in the courier app.  It fails however often   *)
(* the courier presses: the route of the button is not reached.            *)
CompleteIsReviewed ==
  \A c \in Couriers :
    (orderly /\ MayUpload(c) /\ ReadyToSubmit(c))
      ~> (~(MayUpload(c) /\ ReadyToSubmit(c)) \/ died)

=============================================================================
