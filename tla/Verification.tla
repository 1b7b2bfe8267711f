---------------------------- MODULE Verification ----------------------------
(***************************************************************************)
(* The verification of one tutor: documents uploaded, the case submitted,  *)
(* and an administrator's decisions, which are one transaction each.       *)
(*                                                                         *)
(* Requests of the tutor execute one statement per step, on what they read *)
(* first.  A decision locks the checks it updates until it commits, so     *)
(* that its statements are one step; whether the case exists, which it     *)
(* looks up before, never changes.                                         *)
(***************************************************************************)
EXTENDS Naturals, FiniteSets

CONSTANTS
  Types,      \* types of checks
  Required,   \* the types a submission needs, and a decision covers
  Documents,  \* ids of VerificationDocument rows
  Requests,   \* requests the API serves at the same time
  MaxFaults,  \* bound on abandoned requests
  NULL

VARIABLES
  tutor,      \* Tutor: status
  checks,     \* VerificationCheck: status per type
  documents,  \* VerificationDocument: status and type
  requests,   \* the requests in flight
  submitted,  \* history: a submission came to its end and was not decided on,
              \* "whole" if nothing else happened to the case meanwhile
  met,        \* history: a decision was made while the tutor's request was in flight
  faults      \* abandoned requests so far

tables == <<tutor, checks, documents>>
vars == <<tables, requests, submitted, met, faults>>

NoDocument == [status |-> "NONE", type |-> NULL]
Idle == [pc |-> "idle", type |-> NULL, todo |-> {}, alone |-> TRUE]

INSTANCE RequestSteps

TutorStatus == {"DRAFT", "PENDING_VERIFICATION", "CHANGES_REQUESTED", "ACTIVE", "REJECTED"}
CheckStatus == {"NONE", "SUBMITTED", "CHANGES_REQUESTED", "APPROVED", "REJECTED"}
DocumentStatus == {"NONE", "UPLOADED", "VERIFIED", "REJECTED"}

Uploaded == {d \in Documents : documents[d] # NoDocument}
Covered(type) == \E d \in Uploaded : documents[d].type = type

-----------------------------------------------------------------------------
\* Mutant: an active tutor may upload.
UploadReadAny(r, type) ==
  /\ Begin(r, [Idle EXCEPT !.pc = "check", !.type = type])
  /\ UNCHANGED <<tables, submitted, met, faults>>

UploadRead(r, type) ==
  /\ tutor # "ACTIVE"
  /\ Begin(r, [Idle EXCEPT !.pc = "check", !.type = type])
  /\ UNCHANGED <<tables, submitted, met, faults>>

UploadCheck(r) ==
  /\ At(r, "check")
  /\ checks' = [checks EXCEPT ![requests[r].type] = "SUBMITTED"]
  /\ Continue(r, "document")
  /\ UNCHANGED <<tutor, documents, submitted, met, faults>>

UploadDocument(r, d) ==
  /\ At(r, "document")
  /\ documents[d] = NoDocument
  /\ documents' = [documents EXCEPT ![d] = [status |-> "UPLOADED", type |-> requests[r].type]]
  /\ Finish(r)
  /\ UNCHANGED <<tutor, checks, submitted, met, faults>>

\* Both reads come before the first write, and what they found stays true:
\* documents are never deleted.  The status may change in between.
SubmitRead(r) ==
  /\ tutor # "ACTIVE"
  /\ Begin(r, [Idle EXCEPT !.pc = "documents"])
  /\ UNCHANGED <<tables, submitted, met, faults>>

SubmitReadDocuments(r) ==
  /\ At(r, "documents")
  /\ IF \A type \in Required : Covered(type)
       THEN requests' = [requests EXCEPT ![r].pc = "submit", ![r].todo = Required]
       ELSE Finish(r)
  /\ UNCHANGED <<tables, submitted, met, faults>>

\* One statement per type.  Nothing reads the checks in between, so that the
\* order of the list does not matter.
SubmitCheck(r, type) ==
  /\ At(r, "submit")
  /\ type \in requests[r].todo
  /\ checks' = [checks EXCEPT ![type] = "SUBMITTED"]
  /\ requests' = [requests EXCEPT ![r].todo = @ \ {type}]
  /\ UNCHANGED <<tutor, documents, submitted, met, faults>>

\* Mutant: the checks left over are not waited for.
SubmitEndEarly(r) ==
  /\ At(r, "submit")
  /\ submitted' = IF requests[r].alone THEN "whole" ELSE "disturbed"
  /\ Finish(r)
  /\ UNCHANGED <<tables, met, faults>>

\* The last statement updates the tutor's row, but the repository does not
\* write the status it is given.
SubmitEnd(r) ==
  /\ At(r, "submit")
  /\ requests[r].todo = {}
  /\ submitted' = IF requests[r].alone THEN "whole" ELSE "disturbed"
  /\ Finish(r)
  /\ UNCHANGED <<tables, met, faults>>

-----------------------------------------------------------------------------
(* The decisions. *)

ChecksDecided(status) ==
  [type \in Types |-> IF type \in Required /\ checks[type] # "NONE" THEN status ELSE checks[type]]

\* Mutant: documents get the status of the checks, which is none of theirs.
DocumentsAsChecks(status) ==
  [d \in Documents |->
     IF d \in Uploaded /\ documents[d].type \in Required
       THEN [documents[d] EXCEPT !.status = checks'[documents[d].type]] ELSE documents[d]]

DocumentsDecided(status) ==
  [d \in Documents |->
     IF d \in Uploaded /\ documents[d].type \in Required
       THEN [documents[d] EXCEPT !.status = status] ELSE documents[d]]

\* The requests in flight learn that the case moved under them.
Decided ==
  /\ requests' = [r \in Requests |-> [requests[r] EXCEPT !.alone = FALSE]]
  /\ submitted' = "no"
  /\ met' = Busy
  /\ UNCHANGED faults

Approve ==
  /\ checks' = ChecksDecided("APPROVED")
  /\ documents' = DocumentsDecided("VERIFIED")
  /\ tutor' = "ACTIVE"
  /\ Decided

Reject ==
  /\ checks' = ChecksDecided("REJECTED")
  /\ documents' = DocumentsDecided("REJECTED")
  /\ tutor' = "REJECTED"
  /\ Decided

RequestChanges ==
  /\ checks' = ChecksDecided("CHANGES_REQUESTED")
  /\ tutor' = "CHANGES_REQUESTED"
  /\ Decided /\ UNCHANGED documents

Abandon(r) ==
  /\ ~At(r, "idle")
  /\ faults < MaxFaults
  /\ faults' = faults + 1
  /\ Finish(r)
  /\ UNCHANGED <<tables, submitted, met>>

Init ==
  /\ tutor = "DRAFT"
  /\ checks = [type \in Types |-> "NONE"]
  /\ documents = [d \in Documents |-> NoDocument]
  /\ requests = [r \in Requests |-> Idle]
  /\ submitted = "no" /\ met = FALSE /\ faults = 0

Tutor(r) ==
  \/ \E type \in Types : UploadRead(r, type) \/ SubmitCheck(r, type)
  \/ UploadCheck(r)
  \/ \E d \in Documents : UploadDocument(r, d)
  \/ SubmitRead(r)
  \/ SubmitReadDocuments(r)
  \/ SubmitEnd(r)
  \/ Abandon(r)

Admin == Approve \/ Reject \/ RequestChanges

Next == Admin \/ \E r \in Requests : Tutor(r)

Spec == Init /\ [][Next]_vars

-----------------------------------------------------------------------------
(* Properties. *)

\* Every column and every request holds a value of its type.
TypeOK ==
  /\ tutor \in TutorStatus
  /\ checks \in [Types -> CheckStatus]
  /\ documents \in [Documents -> [status : DocumentStatus, type : Types \union {NULL}]]
  /\ requests \in [Requests -> [pc : {"idle", "check", "document", "documents", "submit"},
                                type : Types \union {NULL}, todo : SUBSET Types,
                                alone : BOOLEAN]]
  /\ submitted \in {"no", "whole", "disturbed"}
  /\ met \in BOOLEAN /\ faults \in Nat

\* An active tutor is verified as decided: nothing is submitted or uploaded
\* behind the decision, unless a request of the tutor had looked at the
\* status before it.
ActiveIsVerified ==
  tutor = "ACTIVE" /\ ~met =>
    /\ \A type \in Required : checks[type] \in {"NONE", "APPROVED"}
    /\ \A d \in Uploaded : documents[d].type \in Required => documents[d].status = "VERIFIED"

\* A submission nobody decided on meanwhile or since, has every required
\* check submitted and backed by a document.
SubmissionIsWhole ==
  submitted = "whole" =>
    \A type \in Required : checks[type] = "SUBMITTED" /\ Covered(type)

\* A submitted case waits in the queue of pending cases, as the test of the
\* submission asserts.
SubmittedIsPending == submitted = "whole" => tutor = "PENDING_VERIFICATION"
=============================================================================
