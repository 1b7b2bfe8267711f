---------------------------- MODULE ReviewsProofs ----------------------------
(***************************************************************************)
(* Theorems about Reviews, for every value of its constants.               *)
(***************************************************************************)
EXTENDS Reviews, TLAPS

-----------------------------------------------------------------------------
(* The inductive invariant *)

Recomputing(r) == requests[r].pc \in {"aggregate", "store"}

\* A set of reviews is up to date but for those published since the last look.
UpToDate(read) == read \ owed = Published \ owed

\* Nobody recomputes, and the rating is up to date.
RatingRests ==
  accounted /\ (\A r \in Requests : ~Recomputing(r)) => UpToDate(rating)

\* A request that is the only one to recompute, and was not overtaken, is
\* about to store what is up to date.
LastIsUpToDate ==
  \A r \in Requests :
    (/\ requests[r].pc = "store"
     /\ ~requests[r].overtaken
     /\ \A q \in Requests \ {r} : ~Recomputing(q)) => UpToDate(requests[r].read)

IInv == TypeOK /\ RatingRests /\ LastIsUpToDate

Request == [pc : {"idle", "create", "aggregate", "store"}, review : Completed \union {NULL},
            read : SUBSET Completed, overtaken : BOOLEAN]

-----------------------------------------------------------------------------
\* A tutor without reviews satisfies the invariant.
LEMMA InitIInv == Init => IInv
  BY DEF Init, IInv, TypeOK, RatingRests, LastIsUpToDate, UpToDate, Published, Idle,
         ReviewStatus, Decisions

\* Overtaking keeps requests what they are, and ends the one that overtakes.
LEMMA OvertakeOthers ==
  ASSUME TypeOK, NEW r \in Requests, Overtake(r)
  PROVE  /\ requests' \in [Requests -> Request]
         /\ requests'[r] = Idle
         /\ \A q \in Requests \ {r} :
              /\ requests'[q].pc = requests[q].pc
              /\ requests'[q].read = requests[q].read
              /\ requests'[q].overtaken = (requests[q].overtaken \/ requests[q].pc = "store")
<1>1. requests'[r] = Idle /\ Idle \in Request
  BY DEF Overtake, Idle, Request
<1>2. ASSUME NEW q \in Requests \ {r}
      PROVE  /\ requests'[q] \in Request
             /\ requests'[q].pc = requests[q].pc
             /\ requests'[q].read = requests[q].read
             /\ requests'[q].overtaken = (requests[q].overtaken \/ requests[q].pc = "store")
  <2>1. requests'[q] = [requests[q] EXCEPT !.overtaken = @ \/ requests[q].pc = "store"]
    BY DEF Overtake, At
  <2>2. requests[q] \in Request
    BY DEF TypeOK, Request
  <2>3. QED
    BY <2>1, <2>2 DEF Request
<1>3. requests' \in [Requests -> Request]
  BY <1>1, <1>2 DEF Overtake
<1>4. QED
  BY <1>1, <1>2, <1>3

\* Every step keeps the types.
LEMMA NextTypeOK ==
  ASSUME TypeOK, [Next]_vars
  PROVE  TypeOK'
<1> USE DEF TypeOK, Request
<1>1. Idle \in Request
  BY DEF Idle
<1>2. ASSUME NEW b \in Completed, Publish(b)
      PROVE  TypeOK'
  BY <1>2 DEF Publish, ReviewStatus, Decisions
<1>3. ASSUME NEW r \in Requests, NEW b \in Completed, SubmitRead(r, b)
      PROVE  TypeOK'
  BY <1>3 DEF SubmitRead, Begin, Idle
<1>4. ASSUME NEW r \in Requests, NEW b \in Completed, NEW status \in {"HIDDEN", "FLAGGED"},
             TakeBack(r, b, status)
      PROVE  TypeOK'
  BY <1>4 DEF TakeBack, Begin, Idle, ReviewStatus, Decisions
<1>5. ASSUME NEW r \in Requests, SubmitCreate(r)
      PROVE  TypeOK'
  BY <1>1, <1>5 DEF SubmitCreate, Finish, Continue, ReviewStatus
<1>6. ASSUME NEW r \in Requests, Aggregate(r)
      PROVE  TypeOK'
  BY <1>6 DEF Aggregate, Published
<1>7. ASSUME NEW r \in Requests, Store(r)
      PROVE  TypeOK'
  BY <1>7, OvertakeOthers DEF Store
<1>8. ASSUME NEW r \in Requests, Abandon(r)
      PROVE  TypeOK'
  BY <1>8, OvertakeOthers DEF Abandon
<1>9. CASE UNCHANGED vars
  BY <1>9 DEF vars
<1>10. QED
  BY <1>2, <1>3, <1>4, <1>5, <1>6, <1>7, <1>8, <1>9 DEF Next

\* Where nobody's recomputation begins or ends, what is up to date stays so.
LEMMA NothingRecomputed ==
  ASSUME IInv, UNCHANGED <<rating, accounted>>,
         \A s \in SUBSET Completed : UpToDate(s) => UpToDate(s)',
         \A r \in Requests : Recomputing(r) \/ Recomputing(r)' =>
           /\ requests'[r].pc = requests[r].pc
           /\ requests'[r].read = requests[r].read
           /\ requests'[r].overtaken = requests[r].overtaken
  PROVE  RatingRests' /\ LastIsUpToDate'
<1>1. \A r \in Requests : Recomputing(r)' <=> Recomputing(r)
  BY DEF Recomputing
<1>2. rating \in SUBSET Completed /\ \A r \in Requests : requests[r].read \in SUBSET Completed
  BY DEF IInv, TypeOK
<1>3. RatingRests'
  <2>1. SUFFICES ASSUME accounted', \A r \in Requests : ~Recomputing(r)'
                 PROVE  UpToDate(rating)'
    BY DEF RatingRests
  <2>2. UpToDate(rating)
    BY <1>1, <2>1 DEF IInv, RatingRests
  <2>3. QED
    BY <1>2, <2>2 DEF UpToDate
<1>4. LastIsUpToDate'
  <2>1. SUFFICES ASSUME NEW r \in Requests, requests'[r].pc = "store", ~requests'[r].overtaken,
                        \A q \in Requests \ {r} : ~Recomputing(q)'
                 PROVE  UpToDate(requests[r].read)'
    BY DEF LastIsUpToDate
  <2>2. /\ requests[r].pc = "store"
        /\ ~requests[r].overtaken
        /\ requests'[r].read = requests[r].read
    BY <2>1 DEF Recomputing
  <2>3. UpToDate(requests[r].read)
    BY <1>1, <2>1, <2>2 DEF IInv, LastIsUpToDate
  <2>4. QED
    BY <1>2, <2>2, <2>3 DEF UpToDate
<1>5. QED
  BY <1>3, <1>4

\* A request that starts recomputing leaves nothing to show.
LEMMA RecomputingStarts ==
  ASSUME IInv, NEW r \in Requests, requests'[r].pc = "aggregate"
  PROVE  RatingRests' /\ LastIsUpToDate'
  BY DEF RatingRests, LastIsUpToDate, Recomputing

\* Publishing a review makes it one published since the last look.
LEMMA PublishKeeps ==
  ASSUME IInv, NEW b \in Completed, Publish(b)
  PROVE  RatingRests' /\ LastIsUpToDate'
<1>1. Published' = Published \union {b} /\ owed' = owed \union {b}
  BY DEF Publish, Published, IInv, TypeOK
<1>2. \A s \in SUBSET Completed : UpToDate(s) => UpToDate(s)'
  BY <1>1 DEF UpToDate
<1>3. QED
  BY <1>2, NothingRecomputed DEF Publish

\* Reading the reviews: what was read is up to date.
LEMMA AggregateKeeps ==
  ASSUME IInv, NEW r \in Requests, Aggregate(r)
  PROVE  RatingRests' /\ LastIsUpToDate'
<1>1. /\ requests'[r].pc = "store" /\ requests'[r].read = Published
      /\ \A q \in Requests \ {r} : requests'[q] = requests[q]
  BY DEF Aggregate, IInv, TypeOK
<1>2. Recomputing(r)' /\ requests[r].pc = "aggregate"
  BY <1>1 DEF Recomputing, Aggregate, At
<1>3. RatingRests'
  BY <1>2 DEF RatingRests
<1>4. LastIsUpToDate'
  <2>1. SUFFICES ASSUME NEW k \in Requests, \A q \in Requests \ {k} : ~Recomputing(q)'
                 PROVE  UpToDate(requests[k].read)'
    BY DEF LastIsUpToDate
  <2>2. k = r
    BY <1>2, <2>1
  <2>3. Published' = Published
    BY DEF Aggregate, Published
  <2>4. QED
    BY <1>1, <2>2, <2>3 DEF UpToDate
<1>5. QED
  BY <1>3, <1>4

\* Where the last request to recompute ends, another is overtaken.
LEMMA OvertakeKeeps ==
  ASSUME IInv, NEW r \in Requests, Recomputing(r), Overtake(r),
         UNCHANGED <<reviews, owed>>
  PROVE  LastIsUpToDate'
<1>1. SUFFICES ASSUME NEW k \in Requests, requests'[k].pc = "store", ~requests'[k].overtaken
               PROVE  FALSE
  BY DEF LastIsUpToDate
<1>2. k # r
  BY <1>1, OvertakeOthers DEF IInv, Idle
<1>3. QED
  BY <1>1, <1>2, OvertakeOthers DEF IInv

\* Storing a rating: the last one who read it, undisturbed, is up to date.
LEMMA StoreKeeps ==
  ASSUME IInv, NEW r \in Requests, Store(r)
  PROVE  RatingRests' /\ LastIsUpToDate'
<1>1. requests[r].pc = "store" /\ Recomputing(r)
  BY DEF Store, At, Recomputing
<1>2. LastIsUpToDate'
  BY <1>1, OvertakeKeeps DEF Store
<1>3. ASSUME accounted', \A q \in Requests : ~Recomputing(q)'
      PROVE  UpToDate(rating)'
  <2>1. \A q \in Requests \ {r} : ~Recomputing(q)
    BY <1>3, OvertakeOthers DEF IInv, Store, Recomputing
  <2>2. UpToDate(requests[r].read)
    BY <1>1, <1>3, <2>1 DEF IInv, LastIsUpToDate, Store
  <2>3. QED
    BY <2>2 DEF Store, UpToDate, Published
<1>4. QED
  BY <1>2, <1>3 DEF RatingRests

\* Giving up: a recomputation given up is not accounted for.
LEMMA AbandonKeeps ==
  ASSUME IInv, NEW r \in Requests, Abandon(r)
  PROVE  RatingRests' /\ LastIsUpToDate'
<1>1. CASE Recomputing(r)
  <2>1. ~accounted'
    BY <1>1 DEF Abandon, At, Recomputing
  <2>2. QED
    BY <1>1, <2>1, OvertakeKeeps DEF Abandon, RatingRests
<1>2. CASE ~Recomputing(r)
  <2>1. requests[r].pc = "create"
    BY <1>2 DEF Abandon, At, Recomputing, IInv, TypeOK
  <2>2. accounted' = accounted /\ rating' = rating
    BY <2>1 DEF Abandon, At, IInv, TypeOK
  <2>3. /\ ~Recomputing(r)'
        /\ \A q \in Requests \ {r} : Recomputing(q)' <=> Recomputing(q)
    BY OvertakeOthers DEF Abandon, IInv, Recomputing, Idle
  <2>4. RatingRests'
    BY <1>2, <2>2, <2>3 DEF IInv, RatingRests, UpToDate, Published, Abandon
  <2>5. LastIsUpToDate'
    <3>1. SUFFICES ASSUME NEW k \in Requests, requests'[k].pc = "store", ~requests'[k].overtaken
                   PROVE  FALSE
      BY DEF LastIsUpToDate
    <3>2. QED
      BY <2>3, <3>1, OvertakeOthers DEF Abandon, IInv, Recomputing
  <2>6. QED
    BY <2>4, <2>5
<1>3. QED
  BY <1>1, <1>2

\* Every step keeps the invariant.
LEMMA NextIInv == IInv /\ [Next]_vars => IInv'
<1> SUFFICES ASSUME IInv, [Next]_vars
             PROVE  IInv'
  OBVIOUS
<1>1. TypeOK'
  BY NextTypeOK DEF IInv
<1>2. requests \in [Requests -> Request] /\ reviews \in [Completed -> ReviewStatus]
  BY DEF IInv, TypeOK, Request
<1>3. ASSUME UNCHANGED <<rating, accounted, owed, reviews>>, NEW r \in Requests, NEW q \in Request,
             requests' = [requests EXCEPT ![r] = q],
             requests[r].pc \in {"idle", "create"}, q.pc \in {"idle", "create"}
      PROVE  RatingRests' /\ LastIsUpToDate'
  BY <1>2, <1>3, NothingRecomputed DEF UpToDate, Published, Recomputing
<1>4. ASSUME NEW r \in Requests, NEW b \in Completed, SubmitRead(r, b)
      PROVE  RatingRests' /\ LastIsUpToDate'
  BY <1>3, <1>4 DEF SubmitRead, Begin, At, Idle, Request
<1>5. ASSUME NEW r \in Requests, NEW b \in Completed, NEW status \in {"HIDDEN", "FLAGGED"},
             TakeBack(r, b, status)
      PROVE  RatingRests' /\ LastIsUpToDate'
  BY <1>2, <1>5, RecomputingStarts DEF TakeBack, Begin, Idle
<1>6. ASSUME NEW r \in Requests, SubmitCreate(r)
      PROVE  RatingRests' /\ LastIsUpToDate'
  <2>1. CASE requests[r].review \in Written
    BY <1>3, <1>6, <2>1 DEF SubmitCreate, Finish, At, Idle, Request
  <2>2. CASE requests[r].review \notin Written
    <3>1. requests'[r].pc = "aggregate"
      BY <1>2, <1>6, <2>2 DEF SubmitCreate, Continue, Request
    <3>2. QED
      BY <3>1, RecomputingStarts
  <2>3. QED
    BY <2>1, <2>2
<1>7. ASSUME UNCHANGED vars
      PROVE  RatingRests' /\ LastIsUpToDate'
  BY <1>7, NothingRecomputed DEF vars, UpToDate, Published
<1>8. RatingRests' /\ LastIsUpToDate'
  BY <1>4, <1>5, <1>6, <1>7, PublishKeeps, AggregateKeeps, StoreKeeps, AbandonKeeps DEF Next
<1>9. QED
  BY <1>1, <1>8 DEF IInv

-----------------------------------------------------------------------------
\* Each row and request has its type, for any number of reviews and requests.
THEOREM TypeCorrect == Spec => []TypeOK
<1>1. Init => TypeOK
  BY InitIInv DEF IInv
<1>2. TypeOK /\ [Next]_vars => TypeOK'
  BY NextTypeOK
<1>3. QED
  BY <1>1, <1>2, PTL DEF Spec

\* The invariant: the last one who recomputes undisturbed has it right.
THEOREM InductiveInvariant == Spec => []IInv
<1>1. QED
  BY InitIInv, NextIInv, PTL DEF Spec

\* At rest the stored rating lacks at most the reviews published since the
\* last look, unless a recomputation was abandoned or overtaken.
THEOREM RatingOwes == Spec => []RatingOwesPublications
<1>1. IInv => RatingOwesPublications
  BY DEF IInv, RatingRests, RatingOwesPublications, UpToDate, Recomputing, Busy, At
<1>2. QED
  BY <1>1, InductiveInvariant, PTL
=============================================================================
