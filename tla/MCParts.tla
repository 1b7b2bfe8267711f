------------------------------ MODULE MCParts ------------------------------
(***************************************************************************)
(* Components that share no table, for TLC: a behaviour is one of one part *)
(* of one component, chosen at the start, so that their states add up and  *)
(* do not multiply.  The variables of the others stay NULL, and those of   *)
(* Sessions, which this module extends, as they are initially.             *)
(*                                                                         *)
(* Signing in is explored twice: with codes, passwords and administrators  *)
(* over two sessions, and with refreshing and signing out over three.  The *)
(* tables of the timetable and of the profiles are explored one by one.    *)
(***************************************************************************)
EXTENDS Sessions, Integers, TLC

CONSTANTS
  Parts,                                              \* what is explored
  Ids,                                                \* of whatever rows there are
  Types, Required,                                    \* Verification
  Days, Modes, Times,                                 \* WeeklyAvailability
  Events, Named, OfPayment, MaxDeliveries,            \* Webhooks
  Fields, Names,                                      \* Profiles
  Hooks, Queries, First, MaxRows, Limit               \* ListPages

\* NULL is none of the values a column or a cursor may have, and nothing the
\* tables are given is infinite.
ASSUME VerificationAssumption == Required \subseteq Types
ASSUME AvailabilityAssumption == IsFiniteSet(Ids) /\ Times \subseteq Int
ASSUME WebhooksAssumption == NULL \notin Events
ASSUME ProfilesAssumption ==
  /\ IsFiniteSet(Fields) /\ NULL \notin Names /\ \A fill \in SUBSET Fields : fill # NULL
ASSUME ListsAssumption ==
  First \in Queries /\ MaxRows \in Nat /\ Limit \in Nat \ {0} /\ NULL \notin Nat

VARIABLES
  part,                          \* what this behaviour is of
  work, clashes, broken, failed, \* requests, met, torn and faults of all but Sessions
  tutor, checks, documents, submitted,
  reviews, rating, owed, accounted,
  slots, breaks,
  rows, deliveries, answered,
  filled, score, isTutor, estranged, students,
  hook, total, query, shown, next, loading, more, fetches, mixed

ofVerification == <<tutor, checks, documents, submitted>>
ofReviews == <<reviews, rating, owed, accounted>>
ofAvailability == <<slots, breaks>>
ofWebhooks == <<rows, deliveries, answered>>
ofProfiles == <<filled, score, isTutor, estranged, students>>
ofLists == <<hook, total, query, shown, next, loading, more, fetches, mixed>>
allVars == <<part, vars, work, clashes, broken, failed, ofVerification, ofReviews,
             ofAvailability, ofWebhooks, ofProfiles, ofLists>>

V == INSTANCE Verification WITH
       Documents <- Ids, requests <- work, met <- clashes, faults <- failed
R == INSTANCE Reviews WITH
       Completed <- Ids, requests <- work, faults <- failed
W == INSTANCE WeeklyAvailability WITH
       SlotIds <- Ids, BreakIds <- Ids, requests <- work, met <- clashes
H == INSTANCE Webhooks WITH
       Rows <- Ids, requests <- work, torn <- broken, faults <- failed
P == INSTANCE Profiles WITH
       StudentIds <- Ids,
       requests <- work, met <- clashes, torn <- broken, faults <- failed
L == INSTANCE ListPages WITH Fetches <- Requests

NoSessions == Init /\ users = [c \in Contacts |-> NoUser]
NoVerification == tutor = NULL /\ checks = NULL /\ documents = NULL /\ submitted = NULL
NoReviews == reviews = NULL /\ rating = NULL /\ owed = NULL /\ accounted = NULL
NoAvailability == slots = NULL /\ breaks = NULL
NoWebhooks == rows = NULL /\ deliveries = NULL /\ answered = NULL
NoProfiles ==
  /\ filled = NULL /\ score = NULL /\ isTutor = NULL
  /\ estranged = NULL /\ students = NULL
NoLists ==
  /\ hook = NULL /\ total = NULL /\ query = NULL /\ shown = NULL /\ next = NULL
  /\ loading = NULL /\ more = NULL /\ fetches = NULL /\ mixed = NULL

InitSessions ==
  /\ part \in Parts \intersect {"codes", "rotation"} /\ Init
  /\ work = NULL /\ clashes = {} /\ broken = {} /\ failed = 0
  /\ NoVerification /\ NoReviews /\ NoAvailability /\ NoWebhooks /\ NoProfiles /\ NoLists
InitVerification ==
  /\ part \in Parts \intersect {"verification"} /\ V!Init /\ broken = {}
  /\ NoSessions /\ NoReviews /\ NoAvailability /\ NoWebhooks /\ NoProfiles /\ NoLists
InitReviews ==
  /\ part \in Parts \intersect {"reviews"} /\ R!Init /\ clashes = {} /\ broken = {}
  /\ NoSessions /\ NoVerification /\ NoAvailability /\ NoWebhooks /\ NoProfiles /\ NoLists
\* To see the breaks there is one slot, whichever.
InitAvailability ==
  /\ broken = {} /\ failed = 0
  /\ \/ part \in Parts \intersect {"slots"} /\ W!Init
     \/ /\ part \in Parts \intersect {"breaks"}
        /\ slots \in {[i \in Ids |-> IF i = id THEN slot ELSE W!NoSlot] :
                         id \in Ids, slot \in W!Slot}
        /\ breaks = [id \in Ids |-> W!NoBreak]
        /\ work = [r \in Requests |-> W!Idle]
        /\ clashes = {}
  /\ NoSessions /\ NoVerification /\ NoReviews /\ NoWebhooks /\ NoProfiles /\ NoLists
InitWebhooks ==
  /\ part \in Parts \intersect {"webhooks"} /\ H!Init /\ clashes = {}
  /\ NoSessions /\ NoVerification /\ NoReviews /\ NoAvailability /\ NoProfiles /\ NoLists
InitProfiles ==
  /\ part \in Parts \intersect {"tutors", "students"} /\ P!Init
  /\ NoSessions /\ NoVerification /\ NoReviews /\ NoAvailability /\ NoWebhooks /\ NoLists
InitLists ==
  /\ part \in Parts \intersect {"lists"} /\ L!Init
  /\ work = NULL /\ clashes = {} /\ broken = {} /\ failed = 0
  /\ NoSessions /\ NoVerification /\ NoReviews /\ NoAvailability /\ NoWebhooks /\ NoProfiles

PartsInit ==
  \/ InitSessions \/ InitVerification \/ InitReviews \/ InitAvailability \/ InitWebhooks
  \/ InitProfiles \/ InitLists

MaySign == part = "rotation" \/ Cardinality({s \in SessionIds : sessions[s] # NoSession}) < 2

InSigning ==
  /\ part \in {"codes", "rotation"}
  /\ UNCHANGED <<part, work, clashes, broken, failed,
                 ofVerification, ofReviews, ofAvailability, ofWebhooks, ofProfiles, ofLists>>
Signing ==
  \/ InSigning /\ \E r \in Requests : Rotate(r)
  \/ InSigning /\ \E r \in Requests : RevokeExpired(r)
  \/ InSigning /\ \E r \in Requests : Abandon(r)
  \/ InSigning /\ \E r \in Requests : \E s \in SessionIds : RefreshRead(r, s)
  \/ InSigning /\ \E r \in Requests : \E s \in SessionIds : MaySign /\ Reissue(r, s)
  \/ InSigning /\ \E r \in Requests : \E s \in SessionIds : MaySign /\ OpenSession(r, s)
  \/ InSigning /\ \E r \in Requests : \E c \in Contacts : LoginRead(r, c)
  \/ InSigning /\ \E s \in SessionIds : RevokeSession(s)
  \/ InSigning /\ \E s \in SessionIds : SessionExpires(s)
  \/ InSigning /\ \E c \in Contacts : part = "rotation" /\ LogoutAll(c)

InCodes ==
  /\ part = "codes"
  /\ UNCHANGED <<part, work, clashes, broken, failed,
                 ofVerification, ofReviews, ofAvailability, ofWebhooks, ofProfiles, ofLists>>
Codes ==
  \/ InCodes /\ \E h \in Challenges : \E c \in Contacts : \E p \in {"LOGIN", "SIGNUP"} :
       OtpStart(h, c, p)
  \/ InCodes /\ \E h \in Challenges : ChallengeExpires(h)
  \/ InCodes /\ \E r \in Requests : \E h \in Challenges : VerifyRead(r, h)
  \/ InCodes /\ \E r \in Requests : VerifyWrong(r)
  \/ InCodes /\ \E r \in Requests : VerifyConsume(r)
  \/ InCodes /\ \E r \in Requests : VerifyFindUser(r)
  \/ InCodes /\ \E r \in Requests : VerifyCreateUser(r)
  \/ InCodes /\ \E r \in Requests : VerifyAssignRole(r)
  \/ InCodes /\ \E r \in Requests : VerifyTouch(r)
  \/ InCodes /\ \E r \in Requests : \E c \in Contacts : \E t \in {"SUSPENDED", "ACTIVE"} :
       ReadStatus(r, c, t)
  \/ InCodes /\ \E r \in Requests : SetStatus(r)
  \/ InCodes /\ \E r \in Requests : Log(r)

InVerifying ==
  /\ part = "verification"
  /\ UNCHANGED <<part, broken, vars, ofReviews, ofAvailability, ofWebhooks, ofProfiles, ofLists>>
Verifying ==
  \/ InVerifying /\ V!Approve
  \/ InVerifying /\ V!Reject
  \/ InVerifying /\ V!RequestChanges
  \/ InVerifying /\ \E r \in Requests : \E type \in Types : V!UploadRead(r, type)
  \/ InVerifying /\ \E r \in Requests : V!UploadCheck(r)
  \/ InVerifying /\ \E r \in Requests : \E d \in Ids : V!UploadDocument(r, d)
  \/ InVerifying /\ \E r \in Requests : V!SubmitRead(r)
  \/ InVerifying /\ \E r \in Requests : V!SubmitReadDocuments(r)
  \/ InVerifying /\ \E r \in Requests : \E type \in Types : V!SubmitCheck(r, type)
  \/ InVerifying /\ \E r \in Requests : V!SubmitEnd(r)
  \/ InVerifying /\ \E r \in Requests : V!Abandon(r)

InReviewing ==
  /\ part = "reviews"
  /\ UNCHANGED <<part, clashes, broken, vars,
                 ofVerification, ofAvailability, ofWebhooks, ofProfiles, ofLists>>
Reviewing ==
  \/ InReviewing /\ \E r \in Requests : \E b \in Ids : R!SubmitRead(r, b)
  \/ InReviewing /\ \E r \in Requests : R!SubmitCreate(r)
  \/ InReviewing /\ \E b \in Ids : R!Publish(b)
  \/ InReviewing /\ \E r \in Requests : \E b \in Ids : \E t \in {"HIDDEN", "FLAGGED"} :
       R!TakeBack(r, b, t)
  \/ InReviewing /\ \E r \in Requests : R!Aggregate(r)
  \/ InReviewing /\ \E r \in Requests : R!Store(r)
  \/ InReviewing /\ \E r \in Requests : R!Abandon(r)

InTimetable ==
  /\ part = "slots"
  /\ UNCHANGED <<part, broken, failed, vars,
                 ofVerification, ofReviews, ofWebhooks, ofProfiles, ofLists>>
Timetable ==
  \/ InTimetable /\ \E r \in Requests : \E slot \in W!Slot : W!AddRead(r, slot)
  \/ InTimetable /\ \E r \in Requests : \E id \in Ids : \E slot \in W!Slot :
       W!UpdateRead(r, id, slot)
  \/ InTimetable /\ \E r \in Requests : \E id \in Ids : W!AddCreate(r, id)
  \/ InTimetable /\ \E r \in Requests : W!UpdateWrite(r)
  \/ InTimetable /\ \E r \in Requests : W!Abandon(r)
  \/ InTimetable /\ \E id \in Ids : W!RemoveSlot(id)

InBreaks ==
  /\ part = "breaks"
  /\ UNCHANGED <<part, broken, failed, vars,
                 ofVerification, ofReviews, ofWebhooks, ofProfiles, ofLists>>
Breaks ==
  \/ InBreaks /\ \E id \in Ids : \E break \in W!Break : W!AddBreak(id, break)
  \/ InBreaks /\ \E id \in Ids : W!RemoveBreak(id)

InReceiving ==
  /\ part = "webhooks"
  /\ UNCHANGED <<part, clashes, vars,
                 ofVerification, ofReviews, ofAvailability, ofProfiles, ofLists>>
Receiving ==
  \/ InReceiving /\ \E r \in Requests : \E e \in Events : H!Receive(r, e)
  \/ InReceiving /\ \E r \in Requests : \E w \in Ids : H!Save(r, w)
  \/ InReceiving /\ \E r \in Requests : H!MarkProcessed(r)
  \/ InReceiving /\ \E r \in Requests : H!MarkFailed(r)
  \/ InReceiving /\ \E r \in Requests : H!StatementFails(r)

InProfiles(p) ==
  /\ part = p
  /\ UNCHANGED <<part, vars, ofVerification, ofReviews, ofAvailability, ofWebhooks, ofLists>>
Profiling ==
  \/ InProfiles("tutors") /\ \E r \in Requests : \E fill \in SUBSET Fields : P!CreateRead(r, fill)
  \/ InProfiles("tutors") /\ \E r \in Requests : \E fill, clear, null \in SUBSET Fields :
       /\ fill \intersect (clear \union null) = {} /\ clear \intersect null = {}
       /\ P!UpdateRead(r, fill, clear, null)
  \/ InProfiles("tutors") /\ \E r \in Requests : P!CreateProfile(r)
  \/ InProfiles("tutors") /\ \E r \in Requests : P!AssignRole(r)
  \/ InProfiles("tutors") /\ \E r \in Requests : P!UpdateProfile(r)
  \/ InProfiles("tutors") /\ \E r \in Requests : P!Abandon(r)
  \/ InProfiles("students") /\ \E r \in Requests : \E name \in Names : P!StudentRead(r, name)
  \/ InProfiles("students") /\ \E r \in Requests : \E i \in Ids : P!StudentCreate(r, i)
  \/ InProfiles("students") /\ \E r \in Requests : P!StudentLink(r)
  \/ InProfiles("students") /\ \E i \in Ids : \E name \in Names : P!RenameStudent(i, name)
  \/ InProfiles("students") /\ \E i \in Ids : P!DeleteStudent(i)
  \/ InProfiles("students") /\ \E r \in Requests : P!Abandon(r)

InLists ==
  /\ part = "lists"
  /\ UNCHANGED <<part, work, clashes, broken, failed, vars,
                 ofVerification, ofReviews, ofAvailability, ofWebhooks, ofProfiles>>
Listing ==
  \/ InLists /\ \E q \in Queries : L!ChangeSort(q)
  \/ InLists /\ \E f \in Requests : \E q \in Queries : L!ChangeFilters(f, q)
  \/ InLists /\ \E f \in Requests : L!FetchFirst(f)
  \/ InLists /\ \E f \in Requests : L!LoadMore(f)
  \/ InLists /\ \E f \in Requests : L!Respond(f)
  \/ InLists /\ \E f \in Requests : L!Fail(f)

PartsNext ==
  \/ Signing \/ Codes \/ Verifying \/ Reviewing \/ Timetable \/ Breaks \/ Receiving
  \/ Profiling \/ Listing

PartsSpec == PartsInit /\ [][PartsNext]_allVars

\* Sessions have the ids of the other rows.
Symmetry == Permutations(Requests) \union Permutations(Ids)

-----------------------------------------------------------------------------
(* The properties of each other component, for its behaviours. *)

\* Every column and every request of the component holds a value of its type.
PartsTypeOK ==
  /\ part = "verification" => V!TypeOK
  /\ part = "reviews" => R!TypeOK
  /\ part \in {"slots", "breaks"} => W!TypeOK
  /\ part = "webhooks" => H!TypeOK
  /\ part \in {"tutors", "students"} => P!TypeOK
  /\ part = "lists" => L!TypeOK

\* Nothing of an active tutor is undecided unless requests met the decision.
ActiveIsVerified == part = "verification" => V!ActiveIsVerified

\* A submission nothing disturbed has every required check and document.
SubmissionIsWhole == part = "verification" => V!SubmissionIsWhole

\* A submitted case waits in the queue of pending cases.
SubmittedIsPending == part = "verification" => V!SubmittedIsPending

\* The stored rating lacks at most the reviews published since it was stored.
RatingOwesPublications == part = "reviews" => R!RatingOwesPublications

\* Slots of one day and mode overlap only when two requests did.
SlotsApartUnlessMet == part = "slots" => W!SlotsApartUnlessMet

\* The public windows are the slots minus the breaks.
WindowsAreSlotsMinusBreaks ==
  part \in {"slots", "breaks"} => W!WindowsAreSlotsMinusBreaks

\* An event answered with success is recorded, and processed but for the
\* reasons named.
AnsweredIsProcessed == part = "webhooks" => H!AnsweredIsProcessed

\* The completion score counts the filled fields but for the reasons named.
ScoreCountsFields == part = "tutors" => P!ScoreCountsFields

\* Students have different names unless renamed or created at the same time.
StudentNamesDiffer == part = "students" => P!StudentNamesDiffer

\* A profile has its role and a student a guardian unless a request was torn.
NothingHalfMade == part \in {"tutors", "students"} => P!NothingHalfMade

\* A list shows the first rows of its query but for the reasons named.
ListIsPrefix == part = "lists" => L!ListIsPrefix

\* So does the queue of reviews.
ReviewsArePrefix == part = "lists" => L!ReviewsArePrefix
=============================================================================
