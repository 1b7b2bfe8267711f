-------------------------- MODULE VerificationProofs --------------------------
(***************************************************************************)
(* Theorems about Verification, for every value of its constants: the      *)
(* types of checks a submission needs are types of checks.                 *)
(***************************************************************************)
EXTENDS Verification, TLAPS

Request == [pc : {"idle", "check", "document", "documents", "submit"},
            type : Types \union {NULL}, todo : SUBSET Types, alone : BOOLEAN]
Document == [status : DocumentStatus, type : Types \union {NULL}]

-----------------------------------------------------------------------------
(* The inductive invariant *)

\* What nobody looked at before the decision, nobody touches after it.
ActiveRests ==
  tutor = "ACTIVE" /\ ~met => ActiveIsVerified /\ \A r \in Requests : At(r, "idle")

\* A submission nobody decided on meanwhile lacks only what it has yet to do.
SubmissionGoesOn ==
  \A r \in Requests : At(r, "submit") /\ requests[r].alone =>
    /\ \A type \in Required \ requests[r].todo : checks[type] = "SUBMITTED"
    /\ \A type \in Required : Covered(type)

IInv == TypeOK /\ ActiveRests /\ SubmissionGoesOn /\ SubmissionIsWhole

-----------------------------------------------------------------------------
\* A tutor who has just started satisfies the invariant.
LEMMA InitIInv == Init => IInv
<1>1. Idle \in Request /\ NoDocument \in Document
  BY DEF Idle, Request, NoDocument, Document, DocumentStatus
<1>2. Init => TypeOK
  <2>1. Init => /\ documents \in [Documents -> Document] /\ requests \in [Requests -> Request]
                /\ checks \in [Types -> CheckStatus]
    BY <1>1 DEF Init, CheckStatus
  <2>2. Init => /\ tutor \in TutorStatus /\ submitted \in {"no", "whole", "disturbed"}
                /\ faults \in Nat
    BY DEF Init, TutorStatus
  <2>3. Init => met \in BOOLEAN
    BY Zenon DEF Init
  <2>4. QED
    BY <2>1, <2>2, <2>3 DEF TypeOK, Request, Document
<1>3. Init => ActiveRests /\ SubmissionGoesOn /\ SubmissionIsWhole
  BY DEF Init, ActiveRests, SubmissionGoesOn, SubmissionIsWhole, Idle, At
<1>4. QED
  BY <1>2, <1>3 DEF IInv

\* Every step keeps the types.
LEMMA NextTypeOK ==
  ASSUME Required \subseteq Types, TypeOK, [Next]_vars
  PROVE  TypeOK'
<1> USE DEF TypeOK, Request, Document, TutorStatus, CheckStatus, DocumentStatus
<1>1. Idle \in Request
  BY DEF Idle
<1>2. ASSUME NEW r \in Requests, Finish(r)
      PROVE  requests' \in [Requests -> Request]
  BY <1>1, <1>2 DEF Finish
<1>3. ASSUME NEW r \in Requests, NEW type \in Types, UploadRead(r, type)
      PROVE  TypeOK'
  BY <1>3 DEF UploadRead, Begin, Idle, tables
<1>4. ASSUME NEW r \in Requests, UploadCheck(r)
      PROVE  TypeOK'
  BY <1>4 DEF UploadCheck, Continue
<1>5. ASSUME NEW r \in Requests, NEW d \in Documents, UploadDocument(r, d)
      PROVE  TypeOK'
  BY <1>2, <1>5 DEF UploadDocument
<1>6. ASSUME NEW r \in Requests, SubmitRead(r)
      PROVE  TypeOK'
  BY <1>6 DEF SubmitRead, Begin, Idle, tables
<1>7. ASSUME NEW r \in Requests, SubmitReadDocuments(r)
      PROVE  TypeOK'
  BY <1>2, <1>7 DEF SubmitReadDocuments, tables
<1>8. ASSUME NEW r \in Requests, NEW type \in Types, SubmitCheck(r, type)
      PROVE  TypeOK'
  BY <1>8 DEF SubmitCheck
<1>9. ASSUME NEW r \in Requests, SubmitEnd(r) \/ Abandon(r)
      PROVE  TypeOK'
  BY <1>2, <1>9 DEF SubmitEnd, Abandon, tables
<1>10. ASSUME Admin
       PROVE  TypeOK'
  <2>1. Decided
    BY <1>10 DEF Admin, Approve, Reject, RequestChanges
  <2>2. requests' \in [Requests -> Request] /\ UNCHANGED faults /\ submitted' = "no"
    BY <2>1 DEF Decided
  <2>3. met' \in BOOLEAN
    BY <2>1, Zenon DEF Decided, Busy
  <2>4. checks' \in [Types -> CheckStatus]
    BY <1>10 DEF Admin, Approve, Reject, RequestChanges, ChecksDecided
  <2>5. documents' \in [Documents -> Document]
    <3>1. ASSUME NEW status \in {"VERIFIED", "REJECTED"}, documents' = DocumentsDecided(status)
          PROVE  documents' \in [Documents -> Document]
      <4>1. ASSUME NEW d \in Documents
            PROVE  [documents[d] EXCEPT !.status = status] \in Document
        OBVIOUS
      <4>2. QED
        BY <3>1, <4>1 DEF DocumentsDecided
    <3>2. QED
      BY <1>10, <3>1 DEF Admin, Approve, Reject, RequestChanges
  <2>6. tutor' \in TutorStatus
    BY <1>10 DEF Admin, Approve, Reject, RequestChanges
  <2>7. QED
    BY <2>2, <2>3, <2>4, <2>5, <2>6
<1>11. CASE UNCHANGED vars
  BY <1>11 DEF vars, tables
<1>12. QED
  BY <1>3, <1>4, <1>5, <1>6, <1>7, <1>8, <1>9, <1>10, <1>11 DEF Next, Tutor

\* A decision covers what the tutor had submitted, and outdates what is in flight.
LEMMA AdminKeeps ==
  ASSUME Required \subseteq Types, IInv, Admin
  PROVE  ActiveRests' /\ SubmissionGoesOn' /\ SubmissionIsWhole'
<1>1. /\ requests \in [Requests -> Request] /\ documents \in [Documents -> Document]
      /\ checks \in [Types -> CheckStatus]
  BY DEF IInv, TypeOK, Request, Document
<1>2. \A r \in Requests : requests'[r].pc = requests[r].pc /\ requests'[r].alone = FALSE
  BY <1>1 DEF Admin, Approve, Reject, RequestChanges, Decided, Request
<1>3. SubmissionGoesOn' /\ SubmissionIsWhole'
  BY <1>2 DEF Admin, Approve, Reject, RequestChanges, Decided, SubmissionGoesOn, SubmissionIsWhole
<1>4. ASSUME tutor' = "ACTIVE", ~met'
      PROVE  ActiveIsVerified' /\ \A r \in Requests : At(r, "idle")'
  <2>1. Approve
    BY <1>4 DEF Admin, Approve, Reject, RequestChanges
  <2>2. \A r \in Requests : At(r, "idle")'
    BY <1>2, <1>4, <2>1 DEF Approve, Decided, Busy, At
  <2>3. ASSUME NEW type \in Required
        PROVE  checks'[type] \in {"NONE", "APPROVED"}
    BY <2>1 DEF Approve, ChecksDecided
  <2>4. ASSUME NEW d \in Uploaded', documents'[d].type \in Required
        PROVE  documents'[d].status = "VERIFIED"
    <3>1. d \in Documents /\ documents[d] \in Document
      BY <1>1 DEF Uploaded
    <3>2. d \in Uploaded /\ documents[d].type \in Required
          => documents'[d] = [documents[d] EXCEPT !.status = "VERIFIED"]
      BY <2>1, <3>1 DEF Approve, DocumentsDecided
    <3>3. ~(d \in Uploaded /\ documents[d].type \in Required) => documents'[d] = documents[d]
      BY <2>1, <3>1 DEF Approve, DocumentsDecided
    <3>4. d \in Uploaded /\ documents[d].type \in Required
      BY <2>4, <3>1, <3>3 DEF Uploaded
    <3>5. QED
      BY <3>1, <3>2, <3>4 DEF Document
  <2>5. QED
    BY <2>2, <2>3, <2>4 DEF ActiveIsVerified
<1>5. QED
  BY <1>3, <1>4 DEF ActiveRests

\* What the tutor does leaves an active case alone.
LEMMA TutorRests ==
  ASSUME IInv, NEW r \in Requests, Tutor(r)
  PROVE  ActiveRests'
<1>1. CASE tutor = "ACTIVE" /\ ~met
  <2>1. At(r, "idle")
    BY <1>1 DEF IInv, ActiveRests
  <2>2. QED
    BY <1>1, <2>1 DEF Tutor, UploadRead, SubmitCheck, UploadCheck, UploadDocument, SubmitRead,
       SubmitReadDocuments, SubmitEnd, Abandon, At
<1>2. CASE ~(tutor = "ACTIVE" /\ ~met)
  <2>1. UNCHANGED <<tutor, met>>
    BY DEF Tutor, UploadRead, SubmitCheck, UploadCheck, UploadDocument, SubmitRead,
       SubmitReadDocuments, SubmitEnd, Abandon, tables
  <2>2. QED
    BY <1>2, <2>1 DEF ActiveRests
<1>3. QED
  BY <1>1, <1>2

\* What is submitted and covered stays so while the tutor goes on.
LEMMA TutorSubmits ==
  ASSUME Required \subseteq Types, IInv, NEW r \in Requests, Tutor(r)
  PROVE  SubmissionGoesOn' /\ SubmissionIsWhole'
<1>1. /\ requests \in [Requests -> Request] /\ documents \in [Documents -> Document]
      /\ checks \in [Types -> CheckStatus] /\ SubmissionGoesOn /\ SubmissionIsWhole
  BY DEF IInv, TypeOK, Request, Document
<1>2. ASSUME NEW type \in Types, Covered(type)
      PROVE  Covered(type)'
  <2>1. PICK d \in Uploaded : documents[d].type = type
    BY <1>2 DEF Covered
  <2>2. d \in Documents /\ documents'[d] = documents[d]
    BY <1>1, <2>1 DEF Uploaded, Tutor, UploadRead, SubmitCheck, UploadCheck, UploadDocument,
       SubmitRead, SubmitReadDocuments, SubmitEnd, Abandon, tables
  <2>3. d \in Uploaded'
    BY <2>1, <2>2 DEF Uploaded
  <2>4. QED
    BY <2>1, <2>2, <2>3 DEF Covered
<1>3. ASSUME NEW type \in Types, checks[type] = "SUBMITTED"
      PROVE  checks'[type] = "SUBMITTED"
  BY <1>1, <1>3 DEF Tutor, UploadRead, SubmitCheck, UploadCheck, UploadDocument, SubmitRead,
     SubmitReadDocuments, SubmitEnd, Abandon, tables
<1>4. ASSUME NEW q \in Requests, At(q, "submit")', requests'[q].alone,
             ~SubmitReadDocuments(q)
      PROVE  /\ At(q, "submit") /\ requests[q].alone
             /\ \A type \in requests[q].todo \ requests'[q].todo : checks'[type] = "SUBMITTED"
  <2>1. CASE requests'[q] = requests[q]
    BY <1>4, <2>1 DEF At
  <2>2. ASSUME NEW type \in Types, SubmitCheck(q, type)
        PROVE  /\ At(q, "submit") /\ requests[q].alone
               /\ \A t \in requests[q].todo \ requests'[q].todo : checks'[t] = "SUBMITTED"
    BY <1>1, <1>4, <2>2 DEF SubmitCheck, At, Request
  <2>3. ASSUME NEW new, Begin(q, new), new.pc # "submit" PROVE FALSE
    BY <1>1, <1>4, <2>3 DEF Begin, At
  <2>4. ASSUME Finish(q) PROVE FALSE
    BY <1>1, <1>4, <2>4 DEF Finish, At, Idle
  <2>5. ASSUME Continue(q, "document") PROVE FALSE
    BY <1>1, <1>4, <2>5 DEF Continue, At, Request
  <2>6. CASE q = r
    BY <1>4, <2>2, <2>3, <2>4, <2>5, <2>6
       DEF Tutor, UploadRead, UploadCheck, UploadDocument, SubmitRead, SubmitEnd, Abandon, Idle
  <2>7. CASE q # r
    <3>1. requests'[q] = requests[q]
      BY <1>1, <2>7 DEF Tutor, UploadRead, SubmitCheck, UploadCheck, UploadDocument, SubmitRead,
         SubmitReadDocuments, SubmitEnd, Abandon, Begin, Continue, Finish
    <3>2. QED
      BY <2>1, <3>1
  <2>8. QED
    BY <2>6, <2>7
<1>5. ASSUME NEW q \in Requests, SubmitReadDocuments(q), At(q, "submit")'
      PROVE  requests'[q].todo = Required /\ \A type \in Required : Covered(type)
  BY <1>1, <1>5 DEF SubmitReadDocuments, At, Finish, Idle, Request
<1>6. SubmissionGoesOn'
  <2>1. SUFFICES ASSUME NEW q \in Requests, At(q, "submit")', requests'[q].alone
                 PROVE  /\ \A type \in Required \ requests'[q].todo : checks'[type] = "SUBMITTED"
                        /\ \A type \in Required : Covered(type)'
    BY DEF SubmissionGoesOn
  <2>2. CASE SubmitReadDocuments(q)
    BY <1>2, <1>5, <2>1, <2>2
  <2>3. CASE ~SubmitReadDocuments(q)
    <3>1. /\ \A type \in Required \ requests[q].todo : checks[type] = "SUBMITTED"
          /\ \A type \in Required : Covered(type)
      BY <1>1, <1>4, <2>1, <2>3 DEF SubmissionGoesOn
    <3>2. QED
      BY <1>2, <1>3, <1>4, <2>1, <2>3, <3>1
  <2>4. QED
    BY <2>2, <2>3
<1>7. SubmissionIsWhole'
  <2>1. CASE submitted' = submitted
    BY <1>1, <1>2, <1>3, <2>1 DEF SubmissionIsWhole
  <2>2. CASE SubmitEnd(r)
    <3>1. (requests[r].alone /\ submitted' = "whole") \/ submitted' # "whole"
      BY <2>2 DEF SubmitEnd
    <3>2. requests[r].alone => \A type \in Required : checks[type] = "SUBMITTED" /\ Covered(type)
      BY <1>1, <2>2 DEF SubmitEnd, SubmissionGoesOn
    <3>3. QED
      BY <1>2, <1>3, <3>1, <3>2 DEF SubmissionIsWhole
  <2>3. QED
    BY <2>1, <2>2 DEF Tutor, UploadRead, SubmitCheck, UploadCheck, UploadDocument, SubmitRead,
       SubmitReadDocuments, Abandon
<1>8. QED
  BY <1>6, <1>7

\* Every step keeps the invariant.
LEMMA NextIInv ==
  ASSUME Required \subseteq Types
  PROVE  IInv /\ [Next]_vars => IInv'
<1> SUFFICES ASSUME IInv, [Next]_vars
             PROVE  IInv'
  OBVIOUS
<1>1. TypeOK'
  BY NextTypeOK DEF IInv
<1>2. CASE UNCHANGED vars
  BY <1>1, <1>2 DEF vars, tables, IInv, ActiveRests, ActiveIsVerified, SubmissionGoesOn,
     SubmissionIsWhole, Covered, Uploaded, At
<1>3. QED
  BY <1>1, <1>2, AdminKeeps, TutorRests, TutorSubmits DEF Next, IInv

-----------------------------------------------------------------------------
\* Each row and request has its type, for any set of types and documents.
THEOREM TypeCorrect == ASSUME Required \subseteq Types
                       PROVE  Spec => []TypeOK
<1>1. IInv => TypeOK
  BY DEF IInv
<1>2. QED
  BY <1>1, InitIInv, NextIInv, PTL DEF Spec

\* An active tutor is verified as decided, unless a request of the tutor had
\* looked at the status before the decision.
THEOREM ActiveVerified == ASSUME Required \subseteq Types
                          PROVE  Spec => []ActiveIsVerified
<1>1. IInv => ActiveIsVerified
  BY DEF IInv, ActiveRests, ActiveIsVerified
<1>2. QED
  BY <1>1, InitIInv, NextIInv, PTL DEF Spec

\* A submission nobody decided on is complete and backed by documents.
THEOREM SubmissionWhole == ASSUME Required \subseteq Types
                           PROVE  Spec => []SubmissionIsWhole
<1>1. IInv => SubmissionIsWhole
  BY DEF IInv
<1>2. QED
  BY <1>1, InitIInv, NextIInv, PTL DEF Spec
=============================================================================
