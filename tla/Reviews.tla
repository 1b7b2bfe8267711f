------------------------------ MODULE Reviews ------------------------------
(***************************************************************************)
(* The reviews of one tutor and the rating stored with the tutor.          *)
(*                                                                         *)
(* A review is named by its booking: the index on booking and parent is    *)
(* unique, and a booking has one parent.  The stored average and count are *)
(* kept as the set of reviews they were computed from; the stars, the text *)
(* and the name of the moderator are left out.                             *)
(***************************************************************************)
EXTENDS Naturals, FiniteSets

CONSTANTS
  Completed,  \* completed bookings of the tutor
  Requests,   \* requests the API serves at the same time
  MaxFaults,  \* bound on abandoned requests
  NULL

VARIABLES
  reviews,    \* Review: status per booking
  rating,     \* Tutor: the reviews the stored average and count stand for
  requests,   \* the requests in flight
  owed,       \* history: reviews published since the reviews were last read
  accounted,  \* history: no recomputation was abandoned or overtaken since
              \* the last one that ran undisturbed
  faults      \* abandoned requests so far

vars == <<reviews, rating, requests, owed, accounted, faults>>

Idle == [pc |-> "idle", review |-> NULL, read |-> {}, overtaken |-> FALSE]

INSTANCE RequestSteps

Decisions == {"PUBLISHED", "HIDDEN", "FLAGGED"}
ReviewStatus == {"NONE", "PENDING_MODERATION"} \union Decisions

Written == {b \in Completed : reviews[b] # "NONE"}
Published == {b \in Completed : reviews[b] = "PUBLISHED"}

-----------------------------------------------------------------------------
\* The booking is completed and stays so; it must have no review yet.
SubmitRead(r, b) ==
  /\ reviews[b] = "NONE"
  /\ Begin(r, [Idle EXCEPT !.pc = "create", !.review = b])
  /\ UNCHANGED <<reviews, rating, owed, accounted, faults>>

\* The second of two inserts for one booking fails on the unique index.
SubmitCreate(r) ==
  /\ At(r, "create")
  /\ LET b == requests[r].review IN
     IF b \in Written
       THEN Finish(r) /\ UNCHANGED reviews
       ELSE reviews' = [reviews EXCEPT ![b] = "PENDING_MODERATION"] /\ Continue(r, "aggregate")
  /\ UNCHANGED <<rating, owed, accounted, faults>>

\* Publishing does not recompute the rating.
Publish(b) ==
  /\ b \in Written
  /\ reviews' = [reviews EXCEPT ![b] = "PUBLISHED"]
  /\ owed' = owed \union {b}
  /\ UNCHANGED <<rating, requests, accounted, faults>>

\* Mutant: neither does taking back.
TakeBackOnly(r, b, status) ==
  /\ b \in Written
  /\ reviews' = [reviews EXCEPT ![b] = status]
  /\ Begin(r, Idle)
  /\ UNCHANGED <<rating, owed, accounted, faults>>

\* Whatever the review's status was, it is HIDDEN or FLAGGED now.
TakeBack(r, b, status) ==
  /\ b \in Written
  /\ reviews' = [reviews EXCEPT ![b] = status]
  /\ Begin(r, [Idle EXCEPT !.pc = "aggregate", !.review = b])
  /\ UNCHANGED <<rating, owed, accounted, faults>>

\* The rating is recomputed in two statements, outside any transaction.
Aggregate(r) ==
  /\ At(r, "aggregate")
  /\ requests' = [requests EXCEPT ![r].pc = "store", ![r].read = Published]
  /\ owed' = {}
  /\ UNCHANGED <<reviews, rating, accounted, faults>>

\* Requests that have read the reviews and not yet stored the rating learn
\* that another one did, or gave up.
Overtake(r) ==
  requests' = [q \in Requests |->
                 IF q = r THEN Idle
                 ELSE [requests[q] EXCEPT !.overtaken = @ \/ At(q, "store")]]

Store(r) ==
  /\ At(r, "store")
  /\ rating' = requests[r].read
  /\ accounted' = ~requests[r].overtaken
  /\ Overtake(r)
  /\ UNCHANGED <<reviews, owed, faults>>

\* A statement fails, or the process stops.
Abandon(r) ==
  /\ ~At(r, "idle")
  /\ faults < MaxFaults
  /\ faults' = faults + 1
  /\ accounted' = (accounted /\ At(r, "create"))
  /\ Overtake(r)
  /\ UNCHANGED <<reviews, rating, owed>>

Init ==
  /\ reviews = [b \in Completed |-> "NONE"]
  /\ rating = {}
  /\ requests = [r \in Requests |-> Idle]
  /\ owed = {} /\ accounted = TRUE /\ faults = 0

Next ==
  \/ \E b \in Completed :
       \/ Publish(b)
       \/ \E r \in Requests : SubmitRead(r, b)
       \/ \E r \in Requests : \E status \in {"HIDDEN", "FLAGGED"} : TakeBack(r, b, status)
  \/ \E r \in Requests : SubmitCreate(r) \/ Aggregate(r) \/ Store(r) \/ Abandon(r)

Spec == Init /\ [][Next]_vars

-----------------------------------------------------------------------------
(* Properties. *)

\* Every column and every request holds a value of its type.
TypeOK ==
  /\ reviews \in [Completed -> ReviewStatus]
  /\ rating \subseteq Completed
  /\ requests \in [Requests -> [pc : {"idle", "create", "aggregate", "store"},
                                review : Completed \union {NULL},
                                read : SUBSET Completed, overtaken : BOOLEAN]]
  /\ owed \subseteq Completed /\ accounted \in BOOLEAN /\ faults \in Nat

\* Once no request is in flight, the stored rating is that of the published
\* reviews but for those published since, unless a recomputation was
\* abandoned or overtook another and none ran undisturbed after it.
RatingOwesPublications ==
  ~Busy /\ accounted => rating \ owed = Published \ owed
=============================================================================
