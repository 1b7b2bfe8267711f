------------------------------ MODULE PartsProofs ------------------------------
(***************************************************************************)
(* Theorems about the components that share no table, as MCParts composes  *)
(* them, for every value of the constants: the receiver of webhooks, the   *)
(* profiles and the lists are proved here, and of verification, reviews    *)
(* and weekly availability what their own modules prove is carried over.   *)
(***************************************************************************)
EXTENDS MCParts, TLAPS, FiniteSetTheorems, SequenceTheorems

-----------------------------------------------------------------------------
(* Webhooks *)

\* What a row of an event and a delivery are.
EventRow == [status : {"NONE", "RECEIVED", "PROCESSED", "FAILED"}, event : Events \union {NULL}]
Delivery == [pc : {"idle", "save", "mark", "fail"}, event : Events \union {NULL},
             row : Ids \union {NULL}]

\* A delivery has an event, and past the insert the row of that event; what it
\* will mark as failed names a payment, or a statement failed.
DeliveryCarries(q) ==
  /\ q.pc # "idle" => q.event \in Events
  /\ q.pc \in {"mark", "fail"} => q.row \in Ids /\ rows[q.row].event = q.event
  /\ q.pc = "fail" => q.event \in OfPayment \union broken

\* A row that is not processed is about to be, or is excused.
RowSettles(w) ==
  \/ rows[w].event \in OfPayment \union broken \union {NULL}
  \/ rows[w].status = "PROCESSED"
  \/ \E r \in Requests : H!At(r, "mark") /\ work[r].row = w

WebhooksInvariant ==
  /\ H!TypeOK
  /\ \A r \in Requests : DeliveryCarries(work[r])
  /\ \A w \in Ids : RowSettles(w)
  /\ \A e \in answered : H!RowsOf(e) # {}

-----------------------------------------------------------------------------
\* Before the first delivery the invariant holds.
LEMMA WebhooksInit == H!Init => WebhooksInvariant
<1> SUFFICES ASSUME H!Init PROVE WebhooksInvariant
  OBVIOUS
<1>1. H!NoRow \in EventRow /\ H!Idle \in Delivery
  BY DEF H!NoRow, EventRow, H!Idle, Delivery
<1>2. H!TypeOK
  BY <1>1 DEF H!Init, H!TypeOK, EventRow, Delivery
<1>3. QED
  BY <1>2 DEF H!Init, WebhooksInvariant, DeliveryCarries, RowSettles, H!NoRow, H!Idle

\* Every step keeps the types.
LEMMA WebhooksTypes ==
  ASSUME WebhooksInvariant, [H!Next]_(H!vars)
  PROVE  H!TypeOK'
<1> USE DEF WebhooksInvariant, H!TypeOK, EventRow, Delivery
<1>1. H!Idle \in Delivery
  BY DEF H!Idle
<1>2. ASSUME NEW r \in Requests, H!Finish(r)
      PROVE  work' \in [Requests -> Delivery]
  BY <1>1, <1>2 DEF H!Finish
<1>3. ASSUME NEW r \in Requests, NEW e \in Events, H!Receive(r, e)
      PROVE  H!TypeOK'
  <2>1. [H!Idle EXCEPT !.pc = "save", !.event = e] \in Delivery
    BY DEF H!Idle
  <2>2. work' \in [Requests -> Delivery]
    <3>1. CASE H!Known(e)
      BY <1>3, <3>1 DEF H!Receive
    <3>2. CASE ~H!Known(e)
      <4>1. H!Begin(r, [H!Idle EXCEPT !.pc = "save", !.event = e])
        BY <1>3, <3>2 DEF H!Receive
      <4>2. QED
        BY <2>1, <4>1 DEF H!Begin
    <3>3. QED
      BY <3>1, <3>2
  <2>3. deliveries' \in [Events -> Nat] /\ answered' \subseteq Events
    BY <1>3 DEF H!Receive
  <2>4. QED
    BY <1>3, <2>2, <2>3 DEF H!Receive
<1>4. ASSUME NEW r \in Requests, NEW w \in Ids, H!Save(r, w)
      PROVE  H!TypeOK'
  <2>1. CASE H!Known(work[r].event)
    BY <1>2, <1>4, <2>1 DEF H!Save
  <2>2. CASE ~H!Known(work[r].event)
    <3>1. work[r] \in Delivery /\ work[r].event \in Events
      BY <1>4 DEF H!Save, DeliveryCarries, H!At
    <3>2. rows' \in [Ids -> EventRow]
      BY <1>4, <2>2, <3>1 DEF H!Save
    <3>3. work' \in [Requests -> Delivery]
      BY <1>4, <2>2, <3>1 DEF H!Save
    <3>4. QED
      BY <1>4, <2>2, <3>2, <3>3 DEF H!Save
  <2>3. QED
    BY <2>1, <2>2
<1>5. ASSUME NEW r \in Requests, H!MarkProcessed(r) \/ H!MarkFailed(r)
      PROVE  H!TypeOK'
  <2>1. work[r].event \in Events /\ work[r].row \in Ids
    BY <1>5 DEF H!MarkProcessed, H!MarkFailed, DeliveryCarries, H!At
  <2>2. rows' \in [Ids -> EventRow]
    BY <1>5, <2>1 DEF H!MarkProcessed, H!MarkFailed
  <2>3. QED
    BY <1>2, <1>5, <2>1, <2>2 DEF H!MarkProcessed, H!MarkFailed
<1>6. ASSUME NEW r \in Requests, H!StatementFails(r)
      PROVE  H!TypeOK'
  <2>1. work[r].event \in Events
    BY <1>6 DEF H!StatementFails, DeliveryCarries, H!At
  <2>2. work' \in [Requests -> Delivery]
    <3>1. CASE H!Finish(r)
      BY <1>2, <3>1
    <3>2. CASE H!Continue(r, "fail")
      BY <3>2 DEF H!Continue
    <3>3. QED
      BY <1>6, <3>1, <3>2 DEF H!StatementFails
  <2>3. QED
    BY <1>6, <2>1, <2>2 DEF H!StatementFails
<1>7. CASE UNCHANGED H!vars
  BY <1>7 DEF H!vars
<1>8. QED
  BY <1>3, <1>4, <1>5, <1>6, <1>7 DEF H!Next

\* What a step does to a row that is there.
LEMMA EventRowsStay ==
  ASSUME NULL \notin Events, WebhooksInvariant, [H!Next]_(H!vars), NEW w \in Ids,
         rows[w].event # NULL
  PROVE  /\ rows'[w].event = rows[w].event
         /\ rows[w].status = "PROCESSED"
              => rows'[w].status = "PROCESSED" \/ rows[w].event \in OfPayment \union broken
<1>1. rows \in [Ids -> EventRow] /\ \A q \in Requests : DeliveryCarries(work[q])
  BY DEF WebhooksInvariant, H!TypeOK, EventRow
<1>2. CASE rows'[w] = rows[w]
  BY <1>2
<1>3. ASSUME NEW r \in Requests, NEW v \in Ids, H!Save(r, v)
      PROVE  rows'[w] = rows[w]
  BY <1>1, <1>3 DEF H!Save, H!NoRow
<1>4. ASSUME NEW r \in Requests, H!MarkProcessed(r)
      PROVE  rows'[w] = rows[w] \/ rows'[w] = [rows[w] EXCEPT !.status = "PROCESSED"]
  BY <1>1, <1>4 DEF H!MarkProcessed
<1>5. ASSUME NEW r \in Requests, H!MarkFailed(r)
      PROVE  \/ rows'[w] = rows[w]
             \/ rows'[w] = [rows[w] EXCEPT !.status = "FAILED"]
                /\ rows[w].event \in OfPayment \union broken
  BY <1>1, <1>5 DEF H!MarkFailed, DeliveryCarries, H!At
<1>6. QED
  BY <1>1, <1>2, <1>3, <1>4, <1>5 DEF H!Next, H!Receive, H!StatementFails, H!vars, EventRow

\* The deliveries that do not move keep what they carry.
LEMMA OtherDeliveriesCarry ==
  ASSUME NULL \notin Events, WebhooksInvariant, [H!Next]_(H!vars), broken \subseteq broken',
         NEW q \in Requests,
         work'[q] = work[q]
  PROVE  DeliveryCarries(work[q])'
<1>1. DeliveryCarries(work[q])
  BY DEF WebhooksInvariant
<1>2. work[q].pc \in {"mark", "fail"} => /\ work[q].row \in Ids
                                         /\ rows[work[q].row].event # NULL
  BY <1>1 DEF DeliveryCarries
<1>3. QED
  BY <1>1, <1>2, EventRowsStay DEF DeliveryCarries

\* A delivery finds its row at each step.
LEMMA DeliveriesCarry ==
  ASSUME NULL \notin Events, WebhooksInvariant, [H!Next]_(H!vars), NEW q \in Requests
  PROVE  DeliveryCarries(work[q])'
<1>1. /\ rows \in [Ids -> EventRow] /\ work \in [Requests -> Delivery]
      /\ broken \subseteq broken' /\ DeliveryCarries(work[q])
  BY DEF WebhooksInvariant, H!TypeOK, EventRow, Delivery, H!Next, H!Receive, H!Save,
         H!MarkProcessed, H!MarkFailed, H!StatementFails, H!vars
<1>2. CASE work'[q] = work[q]
  BY <1>1, <1>2, OtherDeliveriesCarry
<1>3. ASSUME NEW r \in Requests, H!Finish(r)
      PROVE  DeliveryCarries(work[q])'
  <2>1. work'[q] = work[q] \/ work'[q] = H!Idle
    BY <1>1, <1>3 DEF H!Finish
  <2>2. QED
    BY <1>2, <2>1 DEF DeliveryCarries, H!Idle
<1>4. ASSUME NEW r \in Requests, NEW e \in Events, H!Receive(r, e)
      PROVE  DeliveryCarries(work[q])'
  <2>1. \/ work'[q] = work[q]
        \/ work'[q] = [H!Idle EXCEPT !.pc = "save", !.event = e]
    BY <1>1, <1>4 DEF H!Receive, H!Begin
  <2>2. QED
    BY <1>2, <2>1 DEF DeliveryCarries, H!Idle
<1>5. ASSUME NEW r \in Requests, NEW w \in Ids, H!Save(r, w), ~H!Known(work[r].event)
      PROVE  DeliveryCarries(work[q])'
  <2>1. CASE q # r
    BY <1>1, <1>2, <1>5, <2>1 DEF H!Save
  <2>2. CASE q = r
    <3>1. /\ work'[r].event = work[r].event /\ work'[r].row = w
          /\ work'[r].pc = IF work[r].event \in OfPayment THEN "fail" ELSE "mark"
      BY <1>1, <1>5 DEF H!Save, Delivery
    <3>2. rows'[w].event = work[r].event
      BY <1>1, <1>5 DEF H!Save
    <3>3. work[r].event \in Events
      BY <1>1, <1>5, <2>2 DEF H!Save, DeliveryCarries, H!At
    <3>4. QED
      BY <2>2, <3>1, <3>2, <3>3 DEF DeliveryCarries
  <2>3. QED
    BY <2>1, <2>2
<1>6. ASSUME NEW r \in Requests, H!StatementFails(r), H!At(r, "mark"), H!Continue(r, "fail")
      PROVE  DeliveryCarries(work[q])'
  <2>1. CASE q # r
    BY <1>1, <1>2, <1>6, <2>1 DEF H!Continue
  <2>2. CASE q = r
    <3>1. /\ work'[r].event = work[r].event /\ work'[r].row = work[r].row
          /\ work'[r].pc = "fail" /\ rows' = rows /\ work[r].event \in broken'
      BY <1>1, <1>6 DEF H!Continue, H!StatementFails, Delivery
    <3>2. QED
      BY <1>1, <1>6, <2>2, <3>1 DEF DeliveryCarries, H!At
  <2>3. QED
    BY <2>1, <2>2
<1>7. QED
  BY <1>2, <1>3, <1>4, <1>5, <1>6
     DEF H!Next, H!Save, H!MarkProcessed, H!MarkFailed, H!StatementFails, H!vars

\* A row is settled, or being settled, after every step.
LEMMA RowsSettle ==
  ASSUME NULL \notin Events, WebhooksInvariant, [H!Next]_(H!vars), NEW w \in Ids
  PROVE  RowSettles(w)'
<1>1. /\ rows \in [Ids -> EventRow] /\ work \in [Requests -> Delivery]
      /\ broken \subseteq broken' /\ RowSettles(w) /\ \A q \in Requests : DeliveryCarries(work[q])
  BY DEF WebhooksInvariant, H!TypeOK, EventRow, Delivery, H!Next, H!Receive, H!Save,
         H!MarkProcessed, H!MarkFailed, H!StatementFails, H!vars
<1>2. CASE rows[w].event \in OfPayment \union broken /\ rows[w].event # NULL
  BY <1>1, <1>2, EventRowsStay DEF RowSettles
<1>3. CASE rows[w].status = "PROCESSED" /\ rows[w].event # NULL
  BY <1>1, <1>3, EventRowsStay DEF RowSettles
<1>4. CASE rows[w].event = NULL
  <2>1. ASSUME NEW r \in Requests, H!Save(r, w), rows'[w] # rows[w]
        PROVE  RowSettles(w)'
    <3>1. /\ rows'[w].event = work[r].event /\ work'[r].row = w
          /\ work'[r].pc = IF work[r].event \in OfPayment THEN "fail" ELSE "mark"
      BY <1>1, <2>1 DEF H!Save, Delivery
    <3>2. QED
      BY <3>1 DEF RowSettles, H!At
  <2>2. ASSUME NEW r \in Requests, NEW v \in Ids \ {w}, H!Save(r, v)
        PROVE  rows'[w] = rows[w]
    BY <1>1, <2>2 DEF H!Save
  <2>3. ASSUME NEW r \in Requests, H!MarkProcessed(r) \/ H!MarkFailed(r)
        PROVE  rows'[w] = rows[w]
    <3>1. work[r].row # w
      BY <1>1, <1>4, <2>3 DEF H!MarkProcessed, H!MarkFailed, DeliveryCarries, H!At
    <3>2. QED
      BY <1>1, <2>3, <3>1 DEF H!MarkProcessed, H!MarkFailed
  <2>4. rows'[w] = rows[w] => RowSettles(w)'
    BY <1>4 DEF RowSettles
  <2>5. QED
    BY <2>1, <2>2, <2>3, <2>4 DEF H!Next, H!Receive, H!StatementFails, H!vars
<1>5. ASSUME NEW r \in Requests, H!At(r, "mark"), work[r].row = w
      PROVE  RowSettles(w)'
  <2>1. rows[w].event = work[r].event /\ rows[w].event # NULL
        /\ rows'[w].event = rows[w].event
    BY <1>1, <1>5, EventRowsStay DEF DeliveryCarries, H!At
  <2>2. CASE work'[r] = work[r]
    BY <1>5, <2>2 DEF RowSettles, H!At
  <2>3. CASE H!MarkProcessed(r)
    BY <1>1, <1>5, <2>3 DEF H!MarkProcessed, RowSettles, EventRow
  <2>4. CASE H!StatementFails(r)
    BY <2>1, <2>4 DEF H!StatementFails, RowSettles
  <2>5. work'[r] = work[r] \/ H!MarkProcessed(r) \/ H!StatementFails(r)
    <3>1. ASSUME NEW q \in Requests \ {r}, NEW new, work' = [work EXCEPT ![q] = new]
          PROVE  work'[r] = work[r]
      BY <1>1, <3>1
    <3>2. ASSUME NEW q \in Requests \ {r}, NEW v \in Ids, H!Save(q, v)
          PROVE  work'[r] = work[r]
      BY <1>1, <3>1, <3>2 DEF H!Save, H!Finish
    <3>3. ASSUME NEW q \in Requests \ {r}, H!StatementFails(q)
          PROVE  work'[r] = work[r]
      BY <1>1, <3>1, <3>3 DEF H!StatementFails, H!Finish, H!Continue
    <3>4. ASSUME NEW q \in Requests, NEW e \in Events, H!Receive(q, e)
          PROVE  work'[r] = work[r]
      <4>1. q # r
        BY <1>5, <3>4 DEF H!Receive, H!At
      <4>2. QED
        BY <3>1, <3>4, <4>1 DEF H!Receive, H!Begin
    <3>5. ASSUME NEW q \in Requests \ {r}, H!MarkProcessed(q) \/ H!MarkFailed(q)
          PROVE  work'[r] = work[r]
      BY <3>1, <3>5 DEF H!MarkProcessed, H!MarkFailed, H!Finish
    <3>6. ~H!MarkFailed(r) /\ \A v \in Ids : ~H!Save(r, v)
      BY <1>5 DEF H!MarkFailed, H!Save, H!At
    <3>7. CASE UNCHANGED H!vars
      BY <3>7 DEF H!vars
    <3>8. QED
      BY <3>2, <3>3, <3>4, <3>5, <3>6, <3>7 DEF H!Next
  <2>6. QED
    BY <2>2, <2>3, <2>4, <2>5
<1>6. QED
  BY <1>1, <1>2, <1>3, <1>4, <1>5 DEF RowSettles

\* What is answered is recorded.
LEMMA AnsweredStay ==
  ASSUME NULL \notin Events, WebhooksInvariant, [H!Next]_(H!vars), NEW e \in answered'
  PROVE  H!RowsOf(e)' # {}
<1>1. /\ answered \subseteq Events /\ \A q \in Requests : DeliveryCarries(work[q])
      /\ \A d \in answered : H!RowsOf(d) # {}
  BY DEF WebhooksInvariant, H!TypeOK
<1>2. ASSUME e \in Events, H!RowsOf(e) # {}
      PROVE  H!RowsOf(e)' # {}
  <2>1. PICK w \in Ids : rows[w].event = e
    BY <1>2 DEF H!RowsOf
  <2>2. rows'[w].event = e
    BY <1>2, <2>1, EventRowsStay
  <2>3. QED
    BY <2>2 DEF H!RowsOf
<1>3. ASSUME NEW r \in Requests, H!MarkProcessed(r), e = work[r].event
      PROVE  e \in Events /\ H!RowsOf(e) # {}
  BY <1>1, <1>3 DEF H!MarkProcessed, DeliveryCarries, H!At, H!RowsOf
<1>4. ASSUME NEW r \in Requests, NEW d \in Events, H!Receive(r, d)
      PROVE  e \in answered \/ (e \in Events /\ H!RowsOf(e) # {})
  BY <1>4 DEF H!Receive, H!Known
<1>5. e \in answered => e \in Events /\ H!RowsOf(e) # {}
  BY <1>1
<1>6. QED
  BY <1>2, <1>3, <1>4, <1>5
     DEF H!Next, H!Save, H!MarkProcessed, H!MarkFailed, H!StatementFails, H!vars

\* Every step keeps the invariant.
LEMMA WebhooksNext ==
  ASSUME NULL \notin Events
  PROVE  WebhooksInvariant /\ [H!Next]_(H!vars) => WebhooksInvariant'
  BY WebhooksTypes, DeliveriesCarry, RowsSettle, AnsweredStay DEF WebhooksInvariant

-----------------------------------------------------------------------------
\* What the provider was told is received is recorded, and processed but for
\* the events that name a payment and those with a failed statement.
LEMMA WebhooksAnswer == ASSUME NULL \notin Events, WebhooksInvariant
                        PROVE  H!AnsweredIsProcessed
<1>1. ASSUME NEW e \in answered, e \notin OfPayment, e \notin broken, ~H!BeingServed(e),
             NEW w \in H!RowsOf(e)
      PROVE  rows[w].status = "PROCESSED"
  <2>1. w \in Ids /\ rows[w].event = e /\ e # NULL
    BY <1>1 DEF H!RowsOf, WebhooksInvariant, H!TypeOK
  <2>2. ~\E r \in Requests : H!At(r, "mark") /\ work[r].row = w
    BY <1>1, <2>1 DEF H!BeingServed, WebhooksInvariant, DeliveryCarries, H!At
  <2>3. QED
    BY <1>1, <2>1, <2>2 DEF WebhooksInvariant, RowSettles
<1>2. QED
  BY <1>1 DEF WebhooksInvariant, H!AnsweredIsProcessed

\* Of a receiver on its own: each row and delivery has its type, and what it
\* answered with success is recorded and processed, for any events.
THEOREM WebhooksHold == H!Spec => [](H!TypeOK /\ H!AnsweredIsProcessed)
<1>1. WebhooksInvariant => H!TypeOK /\ H!AnsweredIsProcessed
  BY WebhooksAssumption, WebhooksAnswer DEF WebhooksInvariant
<1>2. QED
  BY <1>1, WebhooksAssumption, WebhooksInit, WebhooksNext, PTL DEF H!Spec

-----------------------------------------------------------------------------
(* Profiles *)

\* What a request and a student are.
ProfileRequest ==
  [pc : {"idle", "create", "role", "update", "student", "guardian"},
   fill : SUBSET Fields, clear : SUBSET Fields, score : Nat, nulls : BOOLEAN,
   name : Names \union {NULL}, id : Ids \union {NULL}, stale : BOOLEAN]

Student == [name : Names \union {NULL}, guarded : BOOLEAN, deleted : BOOLEAN]

\* What a request that updates the profile, and has not been outrun, will write.
Scored(q) ==
  q.pc = "update" =>
    /\ filled # NULL
    /\ ~q.stale /\ ~q.nulls => q.score = Cardinality((filled \union q.fill) \ q.clear)

\* A request that creates a student found nobody of the name; between its two
\* writes the student has no guardian.
Naming(q) ==
  /\ q.pc \in {"student", "guardian"} =>
       /\ q.name \in Names
       /\ ~q.stale => \A i \in P!Listed \ clashes : students[i].name # q.name
  /\ q.pc = "guardian" =>
       /\ q.id \in Ids
       /\ students[q.id].name = q.name
       /\ ~students[q.id].guarded

LinksApart ==
  \A q, r \in Requests :
    P!At(q, "guardian") /\ P!At(r, "guardian") /\ work[q].id = work[r].id => q = r

\* What is half made is being made, or was abandoned.
BeingMade ==
  \/ broken
  \/ /\ filled # NULL => isTutor \/ \E r \in Requests : P!At(r, "role")
     /\ \A i \in Ids : students[i] # P!NoStudent =>
          \/ students[i].guarded
          \/ \E r \in Requests : P!At(r, "guardian") /\ work[r].id = i

RequestsKnow == \A r \in Requests : Scored(work[r]) /\ Naming(work[r])

ProfilesInvariant ==
  /\ P!TypeOK /\ RequestsKnow
  /\ P!ScoreCountsFields
  /\ LinksApart /\ P!StudentNamesDiffer
  /\ BeingMade

-----------------------------------------------------------------------------
\* The number of elements of a set, which Profiles takes from the library too.
LEMMA CardinalityIsTheSame == ASSUME NEW S
                              PROVE  P!Cardinality(S) = Cardinality(S)
  BY DEF P!Cardinality, Cardinality

\* Before anything is made the invariant holds.
LEMMA ProfilesInit == P!Init => ProfilesInvariant
<1> SUFFICES ASSUME P!Init PROVE ProfilesInvariant
  OBVIOUS
<1>1. P!TypeOK
  <2>1. P!Idle \in ProfileRequest /\ P!NoStudent \in Student
    BY DEF P!Idle, ProfileRequest, P!NoStudent, Student
  <2>2. work \in [Requests -> ProfileRequest] /\ students \in [Ids -> Student]
    BY <2>1 DEF P!Init
  <2>3. QED
    BY <2>2 DEF P!Init, P!TypeOK, ProfileRequest, Student
<1>2. RequestsKnow /\ LinksApart
  BY DEF P!Init, RequestsKnow, Scored, Naming, LinksApart, P!At, P!Idle
<1>3. P!ScoreCountsFields /\ BeingMade
  BY DEF P!Init, P!ScoreCountsFields, BeingMade
<1>4. P!StudentNamesDiffer
  BY DEF P!Init, P!StudentNamesDiffer, P!Listed, P!NoStudent
<1>5. QED
  BY <1>1, <1>2, <1>3, <1>4 DEF ProfilesInvariant

\* A request that at most learns that it was outrun.
Stays(k) ==
  /\ work'[k].pc = work[k].pc /\ work'[k].fill = work[k].fill
  /\ work'[k].clear = work[k].clear /\ work'[k].score = work[k].score
  /\ work'[k].nulls = work[k].nulls
  /\ work'[k].name = work[k].name /\ work'[k].id = work[k].id
  /\ work[k].stale => work'[k].stale

\* While the profile stays, so does what requests know of it.
LEMMA ProfileStays ==
  ASSUME ProfilesInvariant, UNCHANGED <<filled, score, estranged>>
  PROVE  /\ P!ScoreCountsFields'
         /\ \A k \in Requests : Stays(k) => Scored(work[k])'
  BY DEF ProfilesInvariant, P!ScoreCountsFields, RequestsKnow, Scored, Stays

\* So it is with students while none is listed or, but for those in clashes, named.
LEMMA StudentsStay ==
  ASSUME ProfilesInvariant,
         \A i \in P!Listed' \ clashes' :
           i \in P!Listed \ clashes /\ students'[i].name = students[i].name,
         \A i \in Ids : students[i].name \in Names /\ ~students[i].guarded
                         => students'[i] = students[i]
  PROVE  /\ P!StudentNamesDiffer'
         /\ \A k \in Requests : Stays(k) => Naming(work[k])'
<1>1. P!StudentNamesDiffer'
  BY DEF ProfilesInvariant, P!StudentNamesDiffer
<1>2. ASSUME NEW k \in Requests, Stays(k)
      PROVE  Naming(work[k])'
  <2>1. Naming(work[k])
    BY DEF ProfilesInvariant, RequestsKnow
  <2>2. QED
    BY <1>2, <2>1 DEF Naming, Stays
<1>3. QED
  BY <1>1, <1>2

\* A step after which nobody else is between the two writes of a student.
LEMMA LinksStay ==
  ASSUME ProfilesInvariant, \A k \in Requests : Stays(k) \/ work'[k].pc # "guardian"
  PROVE  LinksApart'
  BY DEF ProfilesInvariant, LinksApart, P!At, Stays

\* What is being made goes on.
LEMMA MakingGoesOn ==
  ASSUME ProfilesInvariant, broken => broken',
         filled' # NULL => filled # NULL, isTutor => isTutor',
         \A i \in Ids : /\ students'[i] # P!NoStudent => students[i] # P!NoStudent
                        /\ students[i].guarded => students'[i].guarded,
         \A k \in Requests : work[k].pc \in {"role", "guardian"} => Stays(k)
  PROVE  BeingMade'
  BY DEF ProfilesInvariant, BeingMade, P!At, Stays

-----------------------------------------------------------------------------
\* A request that begins knows what it has just read.
LEMMA BeginKeeps ==
  ASSUME ProfilesInvariant, NEW r \in Requests, NEW q, P!Begin(r, q),
         q \in ProfileRequest, q.pc # "guardian",
         Scored(q), Naming(q),
         UNCHANGED <<P!profileVars, students, clashes, broken, failed>>
  PROVE  ProfilesInvariant'
<1>1. work \in [Requests -> ProfileRequest]
  BY DEF ProfilesInvariant, P!TypeOK, ProfileRequest
<1>2. work'[r] = q /\ \A k \in Requests \ {r} : work'[k] = work[k]
  BY <1>1 DEF P!Begin
<1>3. /\ work[r].pc = "idle"
      /\ UNCHANGED <<filled, score, isTutor, estranged, students, clashes, broken, failed>>
  BY DEF P!Begin, P!At, P!profileVars
<1>4. \A k \in Requests \ {r} : Stays(k)
  BY <1>2 DEF Stays
<1>5. P!TypeOK'
  BY <1>1, <1>3 DEF ProfilesInvariant, P!TypeOK, P!Begin, ProfileRequest
<1>6. Scored(q)' /\ Naming(q)'
  BY <1>3 DEF Scored, Naming, P!Listed
<1>7. RequestsKnow' /\ P!ScoreCountsFields' /\ P!StudentNamesDiffer'
  BY <1>2, <1>3, <1>4, <1>6, ProfileStays, StudentsStay
     DEF RequestsKnow, P!Listed
<1>8. LinksApart'
  BY <1>2, <1>4, LinksStay
<1>9. BeingMade'
  BY <1>3, <1>4, MakingGoesOn
<1>10. QED
  BY <1>5, <1>7, <1>8, <1>9 DEF ProfilesInvariant

\* A request that ends knows nothing.
LEMMA IdleKnows ==
  P!Idle \in ProfileRequest /\ Scored(P!Idle)' /\ Naming(P!Idle)'
  BY DEF P!Idle, ProfileRequest, Scored, Naming

\* What the requests that begin have read.
LEMMA ReadsKeep ==
  ASSUME ProfilesInvariant, NEW r \in Requests,
         \/ \E fill \in SUBSET Fields :
              \/ P!CreateRead(r, fill)
              \/ \E clear \in SUBSET (Fields \ fill) :
                   \E null \in SUBSET (Fields \ (fill \union clear)) :
                     P!UpdateRead(r, fill, clear, null)
         \/ \E name \in Names : P!StudentRead(r, name)
  PROVE  ProfilesInvariant'
<1> USE DEF ProfileRequest, P!Idle, Scored, Naming
<1>1. ASSUME NEW fill \in SUBSET Fields, P!CreateRead(r, fill)
      PROVE  ProfilesInvariant'
  BY <1>1, BeginKeeps DEF P!CreateRead
<1>2. ASSUME NEW fill \in SUBSET Fields, NEW clear \in SUBSET (Fields \ fill),
             NEW null \in SUBSET (Fields \ (fill \union clear)), P!UpdateRead(r, fill, clear, null)
      PROVE  ProfilesInvariant'
  <2> DEFINE score1 == Cardinality((filled \union fill) \ (clear \union null))
             q == [P!Idle EXCEPT !.pc = "update", !.fill = fill, !.clear = clear,
                                 !.score = score1, !.nulls = (null \intersect filled) # {}]
  <2>1. filled \in SUBSET Fields
    <3>1. filled # NULL
      BY <1>2 DEF P!UpdateRead
    <3>2. QED
      BY <3>1 DEF ProfilesInvariant, P!TypeOK
  <2>2. score1 \in Nat
    <3>1. IsFiniteSet((filled \union fill) \ (clear \union null))
      BY <2>1, ProfilesAssumption, FS_Subset
    <3>2. QED
      BY <3>1, FS_CardinalityType
  <2>3. q \in ProfileRequest
    BY <2>2
  <2>4. ASSUME ~q.nulls
        PROVE  score1 = Cardinality((filled \union fill) \ clear)
    <3>1. (filled \union fill) \ (clear \union null) = (filled \union fill) \ clear
      BY <2>4
    <3>2. QED
      BY <3>1
  <2>5. Scored(q)
    BY <1>2, <2>4 DEF P!UpdateRead
  <2>6. P!Begin(r, q) /\ UNCHANGED <<P!profileVars, students, clashes, broken, failed>>
    BY <1>2, CardinalityIsTheSame DEF P!UpdateRead
  <2>7. q.pc = "update"
    OBVIOUS
  <2> HIDE DEF q
  <2>8. QED
    BY <2>3, <2>5, <2>6, <2>7, BeginKeeps
<1>3. ASSUME NEW name \in Names, P!StudentRead(r, name)
      PROVE  ProfilesInvariant'
  <2> DEFINE q == [P!Idle EXCEPT !.pc = "student", !.name = name]
  <2>1. q \in ProfileRequest /\ q.pc = "student" /\ Naming(q)
    BY <1>3 DEF P!StudentRead
  <2>2. P!Begin(r, q) /\ UNCHANGED <<P!profileVars, students, clashes, broken, failed>>
    BY <1>3 DEF P!StudentRead
  <2> HIDE DEF q
  <2>3. QED
    BY <2>1, <2>2, BeginKeeps
<1>4. QED
  BY <1>1, <1>2, <1>3

-----------------------------------------------------------------------------
\* What a request carries, and what the tables hold.
LEMMA RequestCarries ==
  ASSUME ProfilesInvariant, NEW r \in Requests
  PROVE  /\ work \in [Requests -> ProfileRequest] /\ work[r] \in ProfileRequest
         /\ students \in [Ids -> Student]
         /\ Scored(work[r]) /\ Naming(work[r])
         /\ filled \in (SUBSET Fields) \union {NULL} /\ clashes \subseteq Ids \union Ids
  BY DEF ProfilesInvariant, P!TypeOK, RequestsKnow, ProfileRequest, Student

\* A request ends and no other learns anything.
LEMMA FinishStays ==
  ASSUME ProfilesInvariant, NEW r \in Requests, P!Finish(r)
  PROVE  /\ work'[r] = P!Idle /\ \A k \in Requests \ {r} : Stays(k)
         /\ work' \in [Requests -> ProfileRequest]
  BY RequestCarries, IdleKnows DEF P!Finish, Stays

\* A request ends and those at pc are outrun.
LEMMA OutdateStays ==
  ASSUME ProfilesInvariant, NEW r \in Requests, NEW pc, P!Outdate(r, pc, P!Idle)
  PROVE  /\ work'[r] = P!Idle /\ \A k \in Requests \ {r} : Stays(k)
         /\ \A k \in Requests \ {r} : work[k].pc = pc => work'[k].stale
         /\ work' \in [Requests -> ProfileRequest]
<1>1. work \in [Requests -> ProfileRequest] /\ P!Idle \in ProfileRequest
  BY RequestCarries, IdleKnows
<1>2. ASSUME NEW k \in Requests \ {r}
      PROVE  /\ work'[k] \in ProfileRequest /\ Stays(k)
             /\ work[k].pc = pc => work'[k].stale
  <2>1. work'[k] = [work[k] EXCEPT !.stale = @ \/ P!At(k, pc)]
    BY <1>2 DEF P!Outdate
  <2>2. work[k] \in ProfileRequest
    BY <1>1
  <2>3. QED
    BY <2>1, <2>2 DEF ProfileRequest, Stays, P!At
<1>3. QED
  BY <1>1, <1>2 DEF P!Outdate

\* The profile is made, or was already.
LEMMA CreateProfileKeeps ==
  ASSUME ProfilesInvariant, NEW r \in Requests, P!CreateProfile(r)
  PROVE  ProfilesInvariant'
<1>1. UNCHANGED <<isTutor, students, clashes, broken, failed>> /\ work[r].pc = "create"
  BY DEF P!CreateProfile, P!At
<1>2. CASE filled # NULL
  <2>1. P!Finish(r) /\ UNCHANGED <<filled, score, estranged>>
    BY <1>2 DEF P!CreateProfile
  <2>2. /\ work'[r] = P!Idle /\ \A k \in Requests \ {r} : Stays(k)
        /\ work' \in [Requests -> ProfileRequest]
    BY <2>1, FinishStays
  <2>3. P!TypeOK'
    BY <1>1, <2>1, <2>2 DEF ProfilesInvariant, P!TypeOK, ProfileRequest
  <2>4. RequestsKnow' /\ P!ScoreCountsFields' /\ P!StudentNamesDiffer'
    BY <1>1, <2>1, <2>2, IdleKnows, ProfileStays, StudentsStay
       DEF RequestsKnow, P!Listed
  <2>5. LinksApart'
    BY <2>2, LinksStay DEF P!Idle
  <2>6. BeingMade'
    BY <1>1, <2>1, <2>2, MakingGoesOn
  <2>7. QED
    BY <2>3, <2>4, <2>5, <2>6 DEF ProfilesInvariant
<1>3. CASE filled = NULL
  <2>1. /\ filled' = work[r].fill /\ score' = 0 /\ estranged' = (work[r].fill # {})
        /\ work' = [work EXCEPT ![r].pc = "role"]
    BY <1>3 DEF P!CreateProfile, P!Continue
  <2>2. work[r] \in ProfileRequest /\ work \in [Requests -> ProfileRequest]
    BY RequestCarries
  <2>3. /\ work'[r].pc = "role" /\ work' \in [Requests -> ProfileRequest]
        /\ \A k \in Requests \ {r} : work'[k] = work[k]
    BY <2>1, <2>2 DEF ProfileRequest
  <2>4. \A k \in Requests \ {r} : Stays(k)
    BY <2>3 DEF Stays
  <2>5. P!TypeOK'
    BY <1>1, <2>1, <2>2, <2>3 DEF ProfilesInvariant, P!TypeOK, ProfileRequest
  <2>6. ASSUME NEW k \in Requests
        PROVE  Scored(work[k])'
    BY <1>3, <2>3, RequestCarries DEF Scored
  <2>7. Naming(work[r])'
    BY <2>3 DEF Naming
  <2>8. RequestsKnow' /\ P!StudentNamesDiffer'
    BY <1>1, <2>4, <2>6, <2>7, StudentsStay DEF RequestsKnow, P!Listed
  <2>9. P!ScoreCountsFields'
    BY <2>1, FS_EmptySet, CardinalityIsTheSame DEF P!ScoreCountsFields
  <2>10. LinksApart'
    BY <2>3, <2>4, LinksStay
  <2>11. BeingMade'
    <3>1. \A k \in Requests :
            P!At(k, "guardian") => P!At(k, "guardian")' /\ work'[k].id = work[k].id
      BY <1>1, <2>3 DEF P!At
    <3>2. P!At(r, "role")'
      BY <2>3 DEF P!At
    <3>3. QED
      BY <1>1, <3>1, <3>2 DEF ProfilesInvariant, BeingMade
  <2>12. QED
    BY <2>5, <2>8, <2>9, <2>10, <2>11 DEF ProfilesInvariant
<1>4. QED
  BY <1>2, <1>3

\* The role is given.
LEMMA AssignRoleKeeps ==
  ASSUME ProfilesInvariant, NEW r \in Requests, P!AssignRole(r)
  PROVE  ProfilesInvariant'
<1>1. /\ UNCHANGED <<filled, score, estranged, students, clashes, broken, failed>>
      /\ work[r].pc = "role" /\ isTutor' = TRUE /\ P!Finish(r)
  BY DEF P!AssignRole, P!At
<1>2. /\ work'[r] = P!Idle /\ \A k \in Requests \ {r} : Stays(k)
      /\ work' \in [Requests -> ProfileRequest]
  BY <1>1, FinishStays
<1>3. P!TypeOK'
  BY <1>1, <1>2 DEF ProfilesInvariant, P!TypeOK, ProfileRequest
<1>4. RequestsKnow' /\ P!ScoreCountsFields' /\ P!StudentNamesDiffer'
  BY <1>1, <1>2, IdleKnows, ProfileStays, StudentsStay
     DEF RequestsKnow, P!Listed
<1>5. LinksApart'
  BY <1>2, LinksStay DEF P!Idle
<1>6. BeingMade'
  BY <1>1, <1>2 DEF ProfilesInvariant, BeingMade, P!At, Stays
<1>7. QED
  BY <1>3, <1>4, <1>5, <1>6 DEF ProfilesInvariant

\* The profile is updated, and the updates that read it before are outrun.
LEMMA UpdateProfileKeeps ==
  ASSUME ProfilesInvariant, NEW r \in Requests, P!UpdateProfile(r)
  PROVE  ProfilesInvariant'
<1> DEFINE q == work[r]
<1>1. /\ UNCHANGED <<isTutor, students, clashes, broken, failed>>
      /\ q.pc = "update" /\ filled' = (filled \union q.fill) \ q.clear
      /\ score' = q.score /\ estranged' = (q.stale \/ q.nulls) /\ P!Outdate(r, "update", P!Idle)
  BY DEF P!UpdateProfile, P!At
<1>2. /\ work'[r] = P!Idle /\ \A k \in Requests \ {r} : Stays(k)
      /\ \A k \in Requests \ {r} : work[k].pc = "update" => work'[k].stale
      /\ work' \in [Requests -> ProfileRequest]
  BY <1>1, OutdateStays
<1>3. q \in ProfileRequest /\ Scored(q) /\ filled \in (SUBSET Fields) \union {NULL}
  BY RequestCarries
<1>4. filled \in SUBSET Fields /\ filled' \in SUBSET Fields /\ filled' # NULL
  BY <1>1, <1>3, ProfilesAssumption DEF Scored, ProfileRequest
<1>5. P!TypeOK'
  BY <1>1, <1>2, <1>3, <1>4 DEF ProfilesInvariant, P!TypeOK, ProfileRequest
<1>6. ASSUME NEW k \in Requests
      PROVE  Scored(work[k])'
  <2>1. CASE k = r
    BY <1>2, <2>1, IdleKnows
  <2>2. CASE k # r
    BY <1>2, <1>4, <2>2 DEF Scored, Stays
  <2>3. QED
    BY <2>1, <2>2
<1>7. RequestsKnow' /\ P!StudentNamesDiffer'
  BY <1>1, <1>2, <1>6, IdleKnows, StudentsStay DEF RequestsKnow, P!Listed
<1>8. P!ScoreCountsFields'
  BY <1>1, <1>3, CardinalityIsTheSame DEF P!ScoreCountsFields, Scored, ProfileRequest
<1>9. LinksApart'
  BY <1>2, LinksStay DEF P!Idle
<1>10. BeingMade'
  BY <1>1, <1>2, <1>3, <1>4, MakingGoesOn DEF Scored
<1>11. QED
  BY <1>5, <1>7, <1>8, <1>9, <1>10 DEF ProfilesInvariant

-----------------------------------------------------------------------------
\* A listed student is renamed or deleted.
LEMMA StudentChangesKeep ==
  ASSUME ProfilesInvariant, NEW i \in Ids,
         P!DeleteStudent(i) \/ \E name \in Names : P!RenameStudent(i, name)
  PROVE  ProfilesInvariant'
<1>1. /\ UNCHANGED <<filled, score, isTutor, estranged, work, broken, failed>>
      /\ students[i].guarded
  BY DEF P!DeleteStudent, P!RenameStudent, P!profileVars, P!Listed
<1>2. students \in [Ids -> Student] /\ clashes \subseteq Ids \union Ids
  BY DEF ProfilesInvariant, P!TypeOK, Student
<1>3. \/ clashes' = clashes /\ students' = [students EXCEPT ![i].deleted = TRUE]
      \/ clashes' = clashes \union {i}
         /\ \E name \in Names : students' = [students EXCEPT ![i].name = name]
  BY DEF P!DeleteStudent, P!RenameStudent
<1>4. /\ students' \in [Ids -> Student] /\ clashes' \subseteq Ids \union Ids
      /\ clashes \subseteq clashes' /\ students'[i].guarded
      /\ \A j \in Ids \ {i} : students'[j] = students[j]
      /\ students'[i].deleted \/ i \in clashes'
  BY <1>1, <1>2, <1>3 DEF Student
<1>5. P!TypeOK'
  BY <1>1, <1>4 DEF ProfilesInvariant, P!TypeOK, Student
<1>6. \A k \in Requests : Stays(k)
  BY <1>1 DEF Stays
<1>7. /\ \A j \in P!Listed' \ clashes' :
           j \in P!Listed \ clashes /\ students'[j].name = students[j].name
      /\ \A j \in Ids : ~students[j].guarded => students'[j] = students[j]
  BY <1>1, <1>4 DEF P!Listed
<1>8. RequestsKnow' /\ P!ScoreCountsFields' /\ P!StudentNamesDiffer'
  BY <1>1, <1>4, <1>6, <1>7, ProfileStays, StudentsStay DEF RequestsKnow
<1>9. /\ \A j \in Ids : students[j].guarded => students'[j].guarded
      /\ \A j \in Ids : students'[j] # P!NoStudent => students[j] # P!NoStudent
  BY <1>1, <1>4 DEF P!NoStudent
<1>10. LinksApart' /\ BeingMade'
  BY <1>1, <1>6, <1>9, LinksStay, MakingGoesOn
<1>11. QED
  BY <1>5, <1>8, <1>10 DEF ProfilesInvariant

\* A student is made, without a guardian yet.
LEMMA StudentCreateKeeps ==
  ASSUME ProfilesInvariant, NEW r \in Requests, NEW i \in Ids, P!StudentCreate(r, i)
  PROVE  ProfilesInvariant'
<1> DEFINE q == work[r]
<1>1. /\ UNCHANGED <<filled, score, isTutor, estranged, clashes, broken, failed>>
      /\ q.pc = "student" /\ students[i] = P!NoStudent
      /\ students' = [students EXCEPT ![i].name = q.name]
      /\ work' = [work EXCEPT ![r].pc = "guardian", ![r].id = i]
  BY DEF P!StudentCreate, P!At, P!profileVars
<1>2. /\ work \in [Requests -> ProfileRequest] /\ q \in ProfileRequest
      /\ students \in [Ids -> Student]
      /\ q.name \in Names /\ Naming(q)
  BY <1>1, RequestCarries DEF Naming
<1>3. /\ work' \in [Requests -> ProfileRequest] /\ work'[r].pc = "guardian"
      /\ work'[r].id = i /\ work'[r].name = q.name /\ work'[r].stale = q.stale
      /\ \A k \in Requests \ {r} : work'[k] = work[k]
  BY <1>1, <1>2 DEF ProfileRequest
<1>4. /\ students' \in [Ids -> Student] /\ students'[i].name = q.name
      /\ ~students'[i].guarded /\ ~students[i].guarded
      /\ \A j \in Ids \ {i} : students'[j] = students[j]
  <2>1. students'[i] = [P!NoStudent EXCEPT !.name = q.name]
    BY <1>1, <1>2
  <2>2. students'[i] = [name |-> q.name, guarded |-> FALSE, deleted |-> FALSE]
    BY <2>1 DEF P!NoStudent
  <2>3. ~students[i].guarded
    BY <1>1 DEF P!NoStudent
  <2>4. students'[i] \in Student /\ students'[i].name = q.name /\ ~students'[i].guarded
    BY <1>2, <2>2 DEF Student
  <2>5. QED
    BY <1>1, <1>2, <2>3, <2>4
<1>5. P!TypeOK'
  BY <1>1, <1>3, <1>4 DEF ProfilesInvariant, P!TypeOK, ProfileRequest, Student
<1>6. \A k \in Requests \ {r} : Stays(k)
  BY <1>3 DEF Stays
<1>7. P!Listed' = P!Listed /\ \A j \in P!Listed : students'[j] = students[j] /\ j # i
  BY <1>4 DEF P!Listed
<1>8. \A j \in Ids : students[j].name \in Names => students'[j] = students[j]
  BY <1>1, <1>4, ProfilesAssumption DEF P!NoStudent
<1>9. Scored(work[r])'
  BY <1>3 DEF Scored
<1>10. Naming(work[r])'
  BY <1>1, <1>2, <1>3, <1>4, <1>7 DEF Naming
<1>11. RequestsKnow' /\ P!ScoreCountsFields' /\ P!StudentNamesDiffer'
  BY <1>1, <1>6, <1>7, <1>8, <1>9, <1>10, ProfileStays, StudentsStay DEF RequestsKnow
<1>12. \A k \in Requests : P!At(k, "guardian") => work[k].id # i
  BY <1>1, RequestCarries, ProfilesAssumption DEF P!At, Naming, P!NoStudent
<1>13. LinksApart'
  BY <1>3, <1>12 DEF ProfilesInvariant, LinksApart, P!At
<1>14. BeingMade'
  <2>1. \A k \in Requests : P!At(k, "role") => P!At(k, "role")'
    BY <1>1, <1>3 DEF P!At
  <2>2. \A k \in Requests :
          P!At(k, "guardian") => P!At(k, "guardian")' /\ work'[k].id = work[k].id
    BY <1>1, <1>3 DEF P!At
  <2>3. P!At(r, "guardian")' /\ work'[r].id = i
    BY <1>3 DEF P!At
  <2>4. ASSUME NEW j \in Ids, students'[j] # P!NoStudent, ~broken
        PROVE  students'[j].guarded \/ \E k \in Requests : P!At(k, "guardian")' /\ work'[k].id = j
    <3>1. CASE j = i
      BY <2>3, <3>1
    <3>2. CASE j # i
      BY <1>4, <2>2, <2>4, <3>2 DEF ProfilesInvariant, BeingMade
    <3>3. QED
      BY <3>1, <3>2
  <2>5. ~broken /\ filled # NULL => isTutor \/ \E k \in Requests : P!At(k, "role")'
    BY <2>1 DEF ProfilesInvariant, BeingMade
  <2>6. QED
    BY <1>1, <2>4, <2>5 DEF BeingMade
<1>15. QED
  BY <1>5, <1>11, <1>13, <1>14 DEF ProfilesInvariant

\* The student is listed, and the requests that compared names before are outrun.
LEMMA StudentLinkKeeps ==
  ASSUME ProfilesInvariant, NEW r \in Requests, P!StudentLink(r)
  PROVE  ProfilesInvariant'
<1> DEFINE q == work[r]
           i == q.id
<1>1. /\ UNCHANGED <<filled, score, isTutor, estranged, broken, failed>>
      /\ q.pc = "guardian" /\ students' = [students EXCEPT ![i].guarded = TRUE]
      /\ clashes' = IF q.stale THEN clashes \union {i} ELSE clashes
  BY DEF P!StudentLink, P!At, P!profileVars
<1>2. /\ work \in [Requests -> ProfileRequest] /\ q \in ProfileRequest
      /\ students \in [Ids -> Student]
      /\ clashes \subseteq Ids \union Ids
      /\ i \in Ids /\ students[i].name = q.name /\ q.name \in Names
      /\ ~q.stale => \A j \in P!Listed \ clashes : students[j].name # q.name
  BY <1>1, RequestCarries DEF Naming
<1>3. ASSUME NEW k \in Requests \ {r}
      PROVE  /\ work'[k] \in ProfileRequest /\ Stays(k)
             /\ work[k].pc \in {"student", "guardian"} => work'[k].stale
  <2>1. work'[k] = [work[k] EXCEPT !.stale = @ \/ P!At(k, "student") \/ P!At(k, "guardian")]
    BY <1>3 DEF P!StudentLink
  <2>2. work[k] \in ProfileRequest
    BY <1>2
  <2>3. QED
    BY <2>1, <2>2 DEF ProfileRequest, Stays, P!At
<1>4. work'[r] = P!Idle /\ work' \in [Requests -> ProfileRequest]
  BY <1>3, IdleKnows DEF P!StudentLink
<1>5. /\ students' \in [Ids -> Student] /\ students'[i].guarded
      /\ students'[i].name = students[i].name
      /\ clashes' \subseteq Ids \union Ids /\ clashes \subseteq clashes'
      /\ \A j \in Ids \ {i} : students'[j] = students[j]
  BY <1>1, <1>2 DEF Student
<1>6. P!TypeOK'
  BY <1>1, <1>4, <1>5 DEF ProfilesInvariant, P!TypeOK, ProfileRequest, Student
<1>7. ASSUME NEW k \in Requests
      PROVE  Naming(work[k])'
  <2>1. CASE k = r
    BY <1>4, <2>1, IdleKnows
  <2>2. CASE k # r
    <3>1. Naming(work[k]) /\ Stays(k)
      BY <1>3, <2>2, RequestCarries
    <3>2. work[k].pc = "guardian" => work[k].id # i
      BY <1>1, <2>2 DEF ProfilesInvariant, LinksApart, P!At
    <3>3. QED
      BY <1>3, <1>5, <2>2, <3>1, <3>2 DEF Naming, Stays
  <2>3. QED
    BY <2>1, <2>2
<1>8. P!StudentNamesDiffer'
  <2>1. \A j \in P!Listed' \ clashes' :
          j # i => j \in P!Listed \ clashes /\ students'[j] = students[j]
    BY <1>5 DEF P!Listed
  <2>2. i \notin clashes' => ~q.stale
    BY <1>1
  <2>3. QED
    BY <1>2, <1>5, <2>1, <2>2 DEF ProfilesInvariant, P!StudentNamesDiffer
<1>9. RequestsKnow' /\ P!ScoreCountsFields'
  BY <1>1, <1>3, <1>4, <1>5, <1>7, IdleKnows, ProfileStays DEF RequestsKnow
<1>10. LinksApart'
  BY <1>3, <1>4, LinksStay DEF P!Idle
<1>11. BeingMade'
  <2>1. \A k \in Requests : P!At(k, "role") => P!At(k, "role")'
    BY <1>1, <1>3 DEF P!At, Stays
  <2>2. \A k \in Requests \ {r} :
          P!At(k, "guardian") => P!At(k, "guardian")' /\ work'[k].id = work[k].id
    BY <1>3 DEF P!At, Stays
  <2>3. ASSUME NEW j \in Ids, j # i, students'[j] # P!NoStudent, ~broken
        PROVE  students'[j].guarded \/ \E k \in Requests : P!At(k, "guardian")' /\ work'[k].id = j
    BY <1>5, <2>2, <2>3 DEF ProfilesInvariant, BeingMade
  <2>4. QED
    BY <1>1, <1>5, <2>1, <2>3 DEF ProfilesInvariant, BeingMade
<1>12. QED
  BY <1>6, <1>8, <1>9, <1>10, <1>11 DEF ProfilesInvariant

\* A request is abandoned, and what it had half made stays so.
LEMMA AbandonKeeps ==
  ASSUME ProfilesInvariant, NEW r \in Requests, P!Abandon(r)
  PROVE  ProfilesInvariant'
<1>1. /\ UNCHANGED <<filled, score, isTutor, estranged, students, clashes>>
      /\ broken' = (broken \/ P!At(r, "role") \/ P!At(r, "guardian"))
      /\ failed' = failed + 1 /\ P!Finish(r)
  BY DEF P!Abandon, P!profileVars
<1>2. /\ work'[r] = P!Idle /\ \A k \in Requests \ {r} : Stays(k)
      /\ work' \in [Requests -> ProfileRequest]
  BY <1>1, FinishStays
<1>3. P!TypeOK'
  BY <1>1, <1>2 DEF ProfilesInvariant, P!TypeOK, ProfileRequest, P!At
<1>4. RequestsKnow' /\ P!ScoreCountsFields' /\ P!StudentNamesDiffer'
  BY <1>1, <1>2, IdleKnows, ProfileStays, StudentsStay
     DEF RequestsKnow, P!Listed
<1>5. LinksApart'
  BY <1>2, LinksStay DEF P!Idle
<1>6. BeingMade'
  <2>1. CASE work[r].pc \in {"role", "guardian"}
    BY <1>1, <2>1 DEF BeingMade, P!At
  <2>2. CASE work[r].pc \notin {"role", "guardian"}
    BY <1>1, <1>2, <2>2, MakingGoesOn
  <2>3. QED
    BY <2>1, <2>2
<1>7. QED
  BY <1>3, <1>4, <1>5, <1>6 DEF ProfilesInvariant

\* Every step keeps the invariant.
LEMMA ProfilesNext == ProfilesInvariant /\ [P!Next]_(P!vars) => ProfilesInvariant'
<1> SUFFICES ASSUME ProfilesInvariant, [P!Next]_(P!vars)
             PROVE  ProfilesInvariant'
  OBVIOUS
<1>1. CASE UNCHANGED P!vars
  <2> USE <1>1 DEF P!vars, P!profileVars
  <2>1. P!TypeOK' /\ BeingMade' /\ LinksApart'
    BY DEF ProfilesInvariant, P!TypeOK, BeingMade, LinksApart, P!At
  <2>2. RequestsKnow' /\ P!ScoreCountsFields' /\ P!StudentNamesDiffer'
    <3>1. \A k \in Requests : Stays(k)
      BY DEF Stays
    <3>2. QED
      BY <3>1, ProfileStays, StudentsStay
         DEF RequestsKnow, P!Listed
  <2>3. QED
    BY <2>1, <2>2 DEF ProfilesInvariant
<1>2. QED
  BY <1>1, ReadsKeep, CreateProfileKeeps, AssignRoleKeeps, UpdateProfileKeeps,
     StudentChangesKeep, StudentCreateKeeps,
     StudentLinkKeeps, AbandonKeeps DEF P!Next

\* What the invariant says of each property.
LEMMA ProfilesProperties ==
  ProfilesInvariant => /\ P!TypeOK /\ P!ScoreCountsFields
                       /\ P!StudentNamesDiffer /\ P!NothingHalfMade
<1> SUFFICES ASSUME ProfilesInvariant
             PROVE  P!NothingHalfMade
  BY DEF ProfilesInvariant
<1>1. QED
  BY DEF ProfilesInvariant, BeingMade, P!NothingHalfMade

\* Of a profile and its students on their own: everything has its type, and the
\* three properties hold for any fields and names.
THEOREM ProfilesHold ==
  P!Spec => [](/\ P!TypeOK /\ P!ScoreCountsFields
               /\ P!StudentNamesDiffer /\ P!NothingHalfMade)
<1>1. QED
  BY ProfilesInit, ProfilesNext, ProfilesProperties, PTL DEF P!Spec

-----------------------------------------------------------------------------
(* Lists *)

\* What a request of the page and a row on it are.
Fetch == [query : Queries \union {NULL}, cursor : 0..MaxRows, append : BOOLEAN, aborted : BOOLEAN]
Shown == [query : Queries, place : L!Places]

\* A request whose answer will count.
Alive(f) == f \in L!InFlight /\ ~fetches[f].aborted

\* Requests ask for rows that there are, and for the first page from its start.
Asked(f) ==
  f \in L!InFlight =>
    /\ fetches[f].query \in Queries
    /\ fetches[f].cursor <= total
    /\ ~fetches[f].append => fetches[f].cursor = 0

\* The answer of one request at most will count, unless several were let run.
OneAlive == hook = "search" \/ ~mixed => \A f, g \in Requests : Alive(f) /\ Alive(g) => f = g

\* It continues what is shown, or replaces it by the same query.
Continues ==
  hook # "reviews" /\ ~mixed =>
    \A f \in Requests : Alive(f) =>
      /\ fetches[f].query = query
      /\ fetches[f].append => fetches[f].cursor = Len(shown)

\* The cursor is at the end of what is shown, which is the first rows.
Shows ==
  hook # "reviews" /\ ~mixed =>
    /\ L!IsPrefix
    /\ Len(shown) <= total
    /\ next \in {NULL, Len(shown)}

ListsInvariant ==
  /\ L!TypeOK
  /\ shown \in Seq(Shown)
  /\ next \in (0..total) \union {NULL}
  /\ \A f \in Requests : Asked(f)
  /\ OneAlive /\ Continues /\ Shows

-----------------------------------------------------------------------------
(* Rows and pages *)

\* The rows of a query from one position to another.
LEMMA RowsAre ==
  ASSUME NEW q \in Queries, NEW m \in Nat, NEW n \in Nat, m <= n, n <= MaxRows
  PROVE  /\ L!Rows(q, m, n) \in Seq(Shown) /\ Len(L!Rows(q, m, n)) = n - m
         /\ \A i \in 1..(n - m) : L!Rows(q, m, n)[i] = L!Row(q, m + i)
<1>1. n - m \in Nat /\ \A i \in 1..(n - m) : m + i \in L!Places
  BY ListsAssumption DEF L!Places
<1>2. L!Rows(q, m, n) \in [1..(n - m) -> Shown]
  BY <1>1 DEF L!Rows, L!Row, Shown
<1>3. L!Rows(q, m, n) \in Seq(Shown) /\ Len(L!Rows(q, m, n)) = n - m
  BY <1>1, <1>2
<1>4. QED
  BY <1>3 DEF L!Rows

\* A page continues the rows before it.
LEMMA RowsGoOn ==
  ASSUME NEW q \in Queries, NEW m \in Nat, NEW n \in Nat, m <= n, n <= MaxRows
  PROVE  L!Rows(q, 0, m) \o L!Rows(q, m, n) = L!Rows(q, 0, n)
<1> DEFINE s == L!Rows(q, 0, m)
           t == L!Rows(q, m, n)
           u == L!Rows(q, 0, n)
<1>1. /\ s \in Seq(Shown) /\ Len(s) = m /\ \A i \in 1..m : s[i] = L!Row(q, 0 + i)
      /\ t \in Seq(Shown) /\ Len(t) = n - m /\ \A i \in 1..(n - m) : t[i] = L!Row(q, m + i)
      /\ u \in Seq(Shown) /\ Len(u) = n /\ \A i \in 1..n : u[i] = L!Row(q, 0 + i)
  <2>1. 0 \in Nat /\ m <= MaxRows /\ m - 0 = m /\ n - 0 = n /\ 0 <= m /\ 0 <= n
    BY ListsAssumption
  <2>2. s \in Seq(Shown) /\ Len(s) = m - 0 /\ \A i \in 1..(m - 0) : s[i] = L!Row(q, 0 + i)
    BY <2>1, RowsAre
  <2>3. t \in Seq(Shown) /\ Len(t) = n - m /\ \A i \in 1..(n - m) : t[i] = L!Row(q, m + i)
    BY RowsAre
  <2>4. u \in Seq(Shown) /\ Len(u) = n - 0 /\ \A i \in 1..(n - 0) : u[i] = L!Row(q, 0 + i)
    BY <2>1, RowsAre
  <2>5. QED
    BY <2>1, <2>2, <2>3, <2>4
<1> HIDE DEF s, t, u
<1>2. /\ s \o t \in Seq(Shown) /\ Len(s \o t) = n
      /\ \A i \in 1..n : (s \o t)[i] = IF i <= m THEN s[i] ELSE t[i - m]
  <2>1. Len(s) + Len(t) = n
    BY <1>1
  <2>2. /\ s \o t \in Seq(Shown) /\ Len(s \o t) = Len(s) + Len(t)
        /\ \A i \in 1..(Len(s) + Len(t)) :
             (s \o t)[i] = IF i <= Len(s) THEN s[i] ELSE t[i - Len(s)]
    BY <1>1, ConcatProperties
  <2>3. QED
    BY <1>1, <2>1, <2>2
<1>3. ASSUME NEW i \in 1..n
      PROVE  (s \o t)[i] = u[i]
  <2>1. CASE i <= m
    BY <1>1, <1>2, <2>1
  <2>2. CASE ~(i <= m)
    <3>1. i - m \in 1..(n - m) /\ m + (i - m) = 0 + i
      BY <2>2
    <3>2. t[i - m] = L!Row(q, 0 + i)
      BY <1>1, <3>1
    <3>3. QED
      BY <1>1, <1>2, <2>2, <3>2
  <2>3. QED
    BY <2>1, <2>2
<1>4. s \o t = u
  BY <1>1, <1>2, <1>3, SeqEqual
<1>5. QED
  BY <1>4 DEF s, t, u

\* Where the page behind a cursor ends, and what is said to follow.
LEMMA PagesEnd ==
  ASSUME NEW c \in Nat, c <= total, total \in 0..MaxRows
  PROVE  /\ L!PageEnd(c) \in Nat /\ c <= L!PageEnd(c) /\ L!PageEnd(c) <= total
         /\ L!NextCursor(c) \in (0..total) \union {NULL}
         /\ hook # "reviews" => /\ L!NextCursor(c) \in {NULL, L!PageEnd(c)}
                                /\ L!NextCursor(c) = NULL => L!PageEnd(c) = total
<1>1. L!PageEnd(c) = IF c + Limit <= total THEN c + Limit ELSE total
  <2> DEFINE S == {c + Limit, total}
  <2>1. c + Limit \in Nat /\ total \in Nat
    BY ListsAssumption
  <2>2. L!PageEnd(c) = CHOOSE x \in S : \A y \in S : x <= y
    BY DEF L!PageEnd, L!Min
  <2>3. \E x \in S : \A y \in S : x <= y
    BY <2>1
  <2>4. L!PageEnd(c) \in S /\ \A y \in S : L!PageEnd(c) <= y
    BY <2>2, <2>3
  <2>5. QED
    BY <2>1, <2>4
<1>2. L!PageEnd(c) \in Nat /\ c <= L!PageEnd(c) /\ L!PageEnd(c) <= total
  BY <1>1, ListsAssumption
<1>3. hook # "reviews" =>
        L!NextCursor(c) = IF L!PageEnd(c) < total THEN L!PageEnd(c)
                          ELSE IF hook = "search" /\ L!PageEnd(c) - c = Limit THEN total ELSE NULL
  BY DEF L!NextCursor
<1>4. hook = "reviews" => L!NextCursor(c) = IF L!PageEnd(c) - c = Limit THEN Limit ELSE NULL
  BY DEF L!NextCursor
<1>5. hook # "reviews" => /\ L!NextCursor(c) \in {NULL, L!PageEnd(c)}
                          /\ L!NextCursor(c) = NULL => L!PageEnd(c) = total
  BY <1>2, <1>3, ListsAssumption
<1>6. L!NextCursor(c) \in (0..total) \union {NULL}
  BY <1>2, <1>4, <1>5, ListsAssumption
<1>7. QED
  BY <1>2, <1>5, <1>6

-----------------------------------------------------------------------------
\* Rows of a type are rows that TypeOK allows.
LEMMA ShownTyped ==
  ASSUME NEW s \in Seq(Shown)
  PROVE  Len(s) \in Nat /\ \A i \in DOMAIN s : s[i] \in [query : Queries, place : L!Places]
  BY LenProperties DEF Shown

\* The page that opens satisfies the invariant.
LEMMA ListsInit == L!Init => ListsInvariant
<1> SUFFICES ASSUME L!Init PROVE ListsInvariant
  OBVIOUS
<1>1. PICK f \in Requests :
        fetches = [g \in Requests |->
                     IF g = f THEN [L!NoFetch EXCEPT !.query = First] ELSE L!NoFetch]
  BY DEF L!Init
<1>2. /\ L!NoFetch \in Fetch /\ [L!NoFetch EXCEPT !.query = First] \in Fetch
      /\ [L!NoFetch EXCEPT !.query = First].query = First
      /\ [L!NoFetch EXCEPT !.query = First].cursor = 0
      /\ ~[L!NoFetch EXCEPT !.query = First].append
  <2>1. L!NoFetch \in Fetch /\ L!NoFetch.cursor = 0 /\ ~L!NoFetch.append
    <3>1. 0 \in 0..MaxRows
      BY ListsAssumption
    <3>2. QED
      BY <3>1 DEF L!NoFetch, Fetch
  <2>2. QED
    BY <2>1, ListsAssumption DEF Fetch
<1> HIDE DEF L!NoFetch
<1>3. fetches \in [Requests -> Fetch] /\ \A g \in L!InFlight : g = f
  BY <1>1, <1>2 DEF L!InFlight
<1>4. shown = <<>> /\ shown \in Seq(Shown) /\ Len(shown) = 0 /\ total \in 0..MaxRows /\ next = NULL
      /\ query = First
  BY EmptySeq DEF L!Init
<1>5. L!TypeOK
  BY <1>3, <1>4, ListsAssumption, ShownTyped DEF L!Init, L!TypeOK, Fetch
<1>6. \A g \in Requests : Asked(g)
  BY <1>1, <1>2, <1>3, <1>4, ListsAssumption DEF Asked
<1>7. OneAlive
  BY <1>3 DEF OneAlive, Alive
<1>8. Continues
  BY <1>1, <1>2, <1>3, <1>4 DEF Continues, Alive
<1>9. L!Rows(First, 0, 0) = shown
  <2>1. L!Rows(First, 0, 0) \in Seq(Shown) /\ Len(L!Rows(First, 0, 0)) = 0 - 0
    BY RowsAre, ListsAssumption
  <2>2. QED
    BY <1>4, <2>1, EmptySeq
<1>10. Shows
  BY <1>4, <1>9 DEF Shows, L!IsPrefix
<1>11. QED
  BY <1>4, <1>5, <1>6, <1>7, <1>8, <1>10 DEF ListsInvariant

-----------------------------------------------------------------------------
\* A request is sent.
LEMMA SendKeeps ==
  ASSUME ListsInvariant, NEW f \in Requests, NEW q \in Queries, NEW c \in 0..total,
         NEW append \in BOOLEAN,
         ~append => c = 0,
         L!Send(f, q, c, append), UNCHANGED <<hook, total, shown, next>>,
         query' \in Queries, loading' \in BOOLEAN, more' \in BOOLEAN, mixed' \in BOOLEAN,
         ~mixed' => ~mixed /\ (hook = "search" \/ L!InFlight = {}) /\ q = query /\ query' = query,
         ~mixed' /\ append => c = next
  PROVE  ListsInvariant'
<1> DEFINE new == [L!NoFetch EXCEPT !.query = q, !.cursor = c, !.append = append]
<1>1. fetches \in [Requests -> Fetch] /\ total \in 0..MaxRows /\ shown \in Seq(Shown)
  BY DEF ListsInvariant, L!TypeOK, Fetch
<1>2. fetches' = [g \in Requests |-> IF g = f THEN new
                    ELSE IF hook = "search" /\ g \in L!InFlight
                      THEN [fetches[g] EXCEPT !.aborted = TRUE]
                    ELSE fetches[g]]
  BY DEF L!Send
<1>3. /\ new \in Fetch /\ new.query = q /\ new.cursor = c /\ new.append = append
      /\ c <= total
  <2>1. c \in 0..MaxRows /\ c <= total
    BY <1>1, ListsAssumption
  <2>2. QED
    BY <2>1 DEF L!NoFetch, Fetch
<1> HIDE DEF new
<1>4. fetches'[f] = new
  BY <1>2
<1>5. ASSUME NEW g \in Requests \ {f}
      PROVE  /\ fetches'[g] \in Fetch
             /\ fetches'[g].query = fetches[g].query
             /\ fetches'[g].cursor = fetches[g].cursor
             /\ fetches'[g].append = fetches[g].append
             /\ g \in L!InFlight' => g \in L!InFlight
             /\ Alive(g)' => Alive(g) /\ hook # "search"
  <2>1. fetches[g] \in Fetch
    BY <1>1
  <2>2. CASE hook = "search" /\ g \in L!InFlight
    <3>1. fetches'[g] = [fetches[g] EXCEPT !.aborted = TRUE]
      BY <1>2, <2>2
    <3>2. QED
      BY <2>1, <2>2, <3>1 DEF Fetch, Alive
  <2>3. CASE ~(hook = "search" /\ g \in L!InFlight)
    <3>1. fetches'[g] = fetches[g]
      BY <1>2, <2>3
    <3>2. QED
      BY <2>1, <2>3, <3>1 DEF L!InFlight, Alive
  <2>4. QED
    BY <2>2, <2>3
<1>6. fetches' \in [Requests -> Fetch]
  BY <1>2, <1>3, <1>4, <1>5
<1>7. L!TypeOK' /\ shown' \in Seq(Shown) /\ next' \in (0..total') \union {NULL}
  BY <1>6 DEF ListsInvariant, L!TypeOK, Fetch
<1>8. ASSUME NEW g \in Requests
      PROVE  Asked(g)'
  <2>1. CASE g = f
    BY <1>3, <1>4, <2>1 DEF Asked
  <2>2. CASE g # f
    BY <1>5, <2>2 DEF ListsInvariant, Asked
  <2>3. QED
    BY <2>1, <2>2
<1>9. ~mixed' \/ hook = "search" => \A g \in Requests \ {f} : ~Alive(g)'
  BY <1>5 DEF Alive
<1>10. OneAlive'
  BY <1>9 DEF OneAlive
<1>11. Continues'
  <2> SUFFICES ASSUME hook # "reviews", ~mixed'
               PROVE  /\ fetches'[f].query = query'
                      /\ fetches'[f].append => fetches'[f].cursor = Len(shown')
    BY <1>9 DEF Continues
  <2>1. append => c = Len(shown)
    BY ListsAssumption DEF ListsInvariant, Shows
  <2>2. QED
    BY <1>3, <1>4, <2>1
<1>12. Shows'
  BY DEF ListsInvariant, Shows, L!IsPrefix
<1>13. QED
  BY <1>7, <1>8, <1>10, <1>11, <1>12 DEF ListsInvariant

\* The operations that send a request.
LEMMA OperationsKeep ==
  ASSUME ListsInvariant, NEW f \in Requests,
         L!FetchFirst(f) \/ L!LoadMore(f) \/ \E q \in Queries : L!ChangeFilters(f, q)
  PROVE  ListsInvariant'
<1>1. /\ query \in Queries /\ total \in Nat
      /\ more \in BOOLEAN /\ mixed \in BOOLEAN /\ loading \in BOOLEAN
      /\ next \in (0..total) \union {NULL}
  BY ListsAssumption DEF ListsInvariant, L!TypeOK
<1>2. CASE L!FetchFirst(f)
  <2>1. /\ L!Send(f, query, 0, FALSE) /\ UNCHANGED <<hook, total, query, shown, next, more>>
        /\ loading' = TRUE /\ mixed' = (mixed \/ (hook # "search" /\ L!InFlight # {}))
    BY <1>2 DEF L!FetchFirst
  <2>2. mixed' \in BOOLEAN /\ (~mixed' => ~mixed /\ (hook = "search" \/ L!InFlight = {}))
    BY <1>1, <2>1
  <2>3. 0 \in 0..total
    BY <1>1
  <2>4. QED
    BY <1>1, <2>1, <2>2, <2>3, SendKeeps
<1>3. CASE L!LoadMore(f)
  <2>1. /\ L!Send(f, query, next, TRUE) /\ UNCHANGED <<hook, total, query, shown, next, loading>>
        /\ more' = (hook = "search") /\ mixed' = (mixed \/ (hook # "search" /\ L!InFlight # {}))
        /\ next # NULL
    BY <1>3 DEF L!LoadMore
  <2>2. mixed' \in BOOLEAN /\ (~mixed' => ~mixed /\ (hook = "search" \/ L!InFlight = {}))
    BY <1>1, <2>1
  <2>3. next \in 0..total /\ more' \in BOOLEAN /\ loading' \in BOOLEAN
    BY <1>1, <2>1
  <2>4. QED
    BY <1>1, <2>1, <2>2, <2>3, SendKeeps
<1>4. ASSUME NEW q \in Queries, L!ChangeFilters(f, q)
      PROVE  ListsInvariant'
  <2>1. /\ L!Send(f, q, 0, FALSE) /\ UNCHANGED <<hook, total, shown, next, more>> /\ query' = q
        /\ loading' = TRUE /\ mixed' = TRUE
    BY <1>4 DEF L!ChangeFilters
  <2>2. 0 \in 0..total
    BY <1>1
  <2>3. QED
    BY <1>1, <2>1, <2>2, SendKeeps
<1>5. QED
  BY <1>2, <1>3, <1>4

\* A request ends.
LEMMA RequestEnds ==
  ASSUME ListsInvariant, NEW f \in Requests, fetches' = [fetches EXCEPT ![f] = L!NoFetch],
         UNCHANGED total
  PROVE  /\ fetches' \in [Requests -> Fetch] /\ \A g \in Requests : Asked(g)'
         /\ ~Alive(f)' /\ \A g \in Requests \ {f} : fetches'[g] = fetches[g]
         /\ \A g \in Requests : Alive(g)' => Alive(g)
<1>1. fetches \in [Requests -> Fetch] /\ L!NoFetch \in Fetch
  <2>1. 0 \in 0..MaxRows
    BY ListsAssumption
  <2>2. QED
    BY <2>1 DEF ListsInvariant, L!TypeOK, L!NoFetch, Fetch
<1>2. /\ fetches' \in [Requests -> Fetch] /\ fetches'[f] = L!NoFetch
      /\ \A g \in Requests \ {f} : fetches'[g] = fetches[g]
  BY <1>1
<1>3. f \notin L!InFlight' /\ \A g \in Requests \ {f} : g \in L!InFlight' <=> g \in L!InFlight
  BY <1>2 DEF L!InFlight
<1>4. QED
  BY <1>2, <1>3 DEF ListsInvariant, Asked, Alive

\* The answer to a request that was cancelled changes nothing, and an error
\* nothing of what is shown.
LEMMA NothingShown ==
  ASSUME ListsInvariant, NEW f \in Requests, fetches' = [fetches EXCEPT ![f] = L!NoFetch],
         UNCHANGED <<hook, total, query, shown, next, mixed>>,
         loading' \in BOOLEAN, more' \in BOOLEAN
  PROVE  ListsInvariant'
<1>1. /\ fetches' \in [Requests -> Fetch] /\ \A g \in Requests : Asked(g)'
      /\ ~Alive(f)' /\ \A g \in Requests \ {f} : fetches'[g] = fetches[g]
      /\ \A g \in Requests : Alive(g)' => Alive(g)
  BY RequestEnds
<1>2. L!TypeOK' /\ shown' \in Seq(Shown) /\ next' \in (0..total') \union {NULL}
  BY <1>1 DEF ListsInvariant, L!TypeOK, Fetch
<1>3. OneAlive'
  BY <1>1 DEF ListsInvariant, OneAlive
<1>4. Continues'
  BY <1>1 DEF ListsInvariant, Continues
<1>5. Shows'
  BY DEF ListsInvariant, Shows, L!IsPrefix
<1>6. QED
  BY <1>1, <1>2, <1>3, <1>4, <1>5 DEF ListsInvariant

\* An answer that counts shows a page.
LEMMA AnswerShown ==
  ASSUME ListsInvariant, NEW f \in Requests, Alive(f), L!Respond(f)
  PROVE  ListsInvariant'
<1> DEFINE q == fetches[f].query
           c == fetches[f].cursor
           page == L!Rows(q, c, L!PageEnd(c))
<1>1. /\ fetches' = [fetches EXCEPT ![f] = L!NoFetch] /\ UNCHANGED <<hook, total, query>>
      /\ fetches[f].append => shown' = shown \o page /\ mixed' = mixed
      /\ ~fetches[f].append => /\ shown' = page
                              /\ mixed' = (q # query \/ (hook # "search" /\ L!InFlight # {f}))
      /\ next' = L!NextCursor(c) /\ loading' = FALSE /\ more' = FALSE
  BY DEF L!Respond, Alive
<1>2. /\ fetches' \in [Requests -> Fetch] /\ \A g \in Requests : Asked(g)'
      /\ ~Alive(f)' /\ \A g \in Requests \ {f} : fetches'[g] = fetches[g]
      /\ \A g \in Requests : Alive(g)' => Alive(g)
  BY <1>1, RequestEnds
<1>3. /\ fetches \in [Requests -> Fetch] /\ fetches[f] \in Fetch /\ shown \in Seq(Shown)
      /\ total \in 0..MaxRows /\ mixed \in BOOLEAN /\ query \in Queries
  BY DEF ListsInvariant, L!TypeOK, Fetch
<1>4. q \in Queries /\ c \in Nat /\ c <= total /\ (~fetches[f].append => c = 0)
  BY <1>3, ListsAssumption DEF ListsInvariant, Asked, Alive, Fetch
<1> HIDE DEF q, c, page
<1>5. /\ L!PageEnd(c) \in Nat /\ c <= L!PageEnd(c)
      /\ L!PageEnd(c) <= total /\ L!PageEnd(c) <= MaxRows
      /\ L!NextCursor(c) \in (0..total) \union {NULL}
      /\ hook # "reviews" => /\ L!NextCursor(c) \in {NULL, L!PageEnd(c)}
                             /\ L!NextCursor(c) = NULL => L!PageEnd(c) = total
  BY <1>3, <1>4, PagesEnd, ListsAssumption
<1>6. page \in Seq(Shown) /\ Len(page) = L!PageEnd(c) - c
  BY <1>4, <1>5, RowsAre DEF page
<1>7. shown' \in Seq(Shown)
  BY <1>1, <1>3, <1>6, ConcatProperties
<1>8. L!TypeOK'
  <2>1. next' \in (0..MaxRows) \union {NULL}
    BY <1>1, <1>3, <1>5, ListsAssumption
  <2>2. mixed' \in BOOLEAN
    BY <1>1, <1>3
  <2>3. fetches' \in [Requests -> [query : Queries \union {NULL}, cursor : 0..MaxRows,
                                   append : BOOLEAN, aborted : BOOLEAN]]
    BY <1>2 DEF Fetch
  <2>4. \A i \in DOMAIN shown' : shown'[i] \in [query : Queries, place : L!Places]
    BY <1>7, ShownTyped
  <2>5. hook' \in Hooks /\ total' \in 0..MaxRows /\ query' \in Queries
    BY <1>1 DEF ListsInvariant, L!TypeOK
  <2>6. loading' \in BOOLEAN /\ more' \in BOOLEAN
    BY <1>1
  <2>7. QED
    BY <2>1, <2>2, <2>3, <2>4, <2>5, <2>6 DEF L!TypeOK
<1>9. hook = "search" \/ ~mixed' => \A g \in Requests : ~Alive(g)'
  <2>1. CASE hook = "search" \/ ~mixed
    BY <1>2, <2>1 DEF ListsInvariant, OneAlive
  <2>2. CASE hook # "search" /\ mixed /\ ~mixed'
    <3>1. L!InFlight = {f}
      BY <1>1, <2>2
    <3>2. QED
      BY <1>2, <3>1 DEF Alive
  <2>3. QED
    BY <2>1, <2>2
<1>10. OneAlive' /\ Continues'
  BY <1>1, <1>9 DEF OneAlive, Continues
<1>11. Shows'
  <2> SUFFICES ASSUME hook # "reviews", ~mixed'
               PROVE  /\ shown' = L!Rows(query, 0, L!PageEnd(c))
                      /\ Len(shown') = L!PageEnd(c)
    <3>1. ASSUME hook # "reviews", ~mixed', shown' = L!Rows(query, 0, L!PageEnd(c)),
                 Len(shown') = L!PageEnd(c)
          PROVE  /\ shown' = L!Rows(query', 0, Len(shown')) /\ Len(shown') <= total'
                 /\ next' \in {NULL, Len(shown')} /\ (next' = NULL => Len(shown') = total')
      <4>1. query' = query /\ total' = total /\ next' = L!NextCursor(c)
        BY <1>1
      <4>2. shown' = L!Rows(query', 0, Len(shown'))
        <5>1. Len(shown') = L!PageEnd(c) /\ shown' = L!Rows(query, 0, L!PageEnd(c))
          BY <3>1
        <5>2. QED
          BY <4>1, <5>1
      <4>3. Len(shown') <= total'
        BY <1>5, <3>1, <4>1
      <4>4. next' \in {NULL, Len(shown')} /\ (next' = NULL => Len(shown') = total')
        BY <1>5, <3>1, <4>1
      <4>5. QED
        BY <4>2, <4>3, <4>4
    <3>2. hook' = hook
      BY <1>1
    <3>3. QED
      BY <3>1, <3>2 DEF Shows, L!IsPrefix
  <2>1. Len(L!Rows(query, 0, L!PageEnd(c))) = L!PageEnd(c)
    <3>1. query \in Queries /\ 0 \in Nat /\ L!PageEnd(c) \in Nat
          /\ 0 <= L!PageEnd(c) /\ L!PageEnd(c) <= MaxRows
      BY <1>3, <1>5
    <3>2. Len(L!Rows(query, 0, L!PageEnd(c))) = L!PageEnd(c) - 0
      BY <3>1, RowsAre
    <3>3. QED
      BY <3>1, <3>2
  <2>2. CASE ~fetches[f].append
    <3>1. q = query /\ c = 0
      BY <1>1, <1>4, <2>2
    <3>2. shown' = L!Rows(query, 0, L!PageEnd(c))
      BY <1>1, <2>2, <3>1 DEF page
    <3>3. QED
      BY <2>1, <3>2
  <2>3. CASE fetches[f].append
    <3>1. ~mixed /\ q = query /\ c = Len(shown) /\ shown = L!Rows(query, 0, Len(shown))
      BY <1>1, <2>3 DEF ListsInvariant, Continues, Shows, L!IsPrefix, q, c
    <3>2. shown' = L!Rows(query, 0, c) \o L!Rows(query, c, L!PageEnd(c))
      BY <1>1, <2>3, <3>1 DEF page
    <3>3. shown' = L!Rows(query, 0, L!PageEnd(c))
      BY <1>3, <1>4, <1>5, <3>2, RowsGoOn
    <3>4. QED
      BY <2>1, <3>3
  <2>4. QED
    BY <2>2, <2>3
<1>12. QED
  BY <1>1, <1>2, <1>5, <1>7, <1>8, <1>10, <1>11 DEF ListsInvariant

\* Every step keeps the invariant.
LEMMA ListsNext == ListsInvariant /\ [L!Next]_(L!vars) => ListsInvariant'
<1> SUFFICES ASSUME ListsInvariant, [L!Next]_(L!vars)
             PROVE  ListsInvariant'
  OBVIOUS
<1>1. ASSUME NEW f \in Requests, L!Respond(f)
      PROVE  ListsInvariant'
  <2>1. CASE fetches[f].aborted
    <3>1. /\ fetches' = [fetches EXCEPT ![f] = L!NoFetch]
          /\ UNCHANGED <<hook, total, query, shown, next, mixed, loading, more>>
      BY <1>1, <2>1 DEF L!Respond
    <3>2. loading' \in BOOLEAN /\ more' \in BOOLEAN
      BY <3>1 DEF ListsInvariant, L!TypeOK
    <3>3. QED
      BY <3>1, <3>2, NothingShown
  <2>2. CASE ~fetches[f].aborted
    BY <1>1, <2>2, AnswerShown DEF L!Respond, Alive
  <2>3. QED
    BY <2>1, <2>2
<1>2. ASSUME NEW f \in Requests, L!Fail(f)
      PROVE  ListsInvariant'
  <2>1. loading' \in BOOLEAN /\ more' \in BOOLEAN
    BY <1>2 DEF L!Fail, ListsInvariant, L!TypeOK
  <2>2. /\ fetches' = [fetches EXCEPT ![f] = L!NoFetch]
        /\ UNCHANGED <<hook, total, query, shown, next, mixed>>
    BY <1>2 DEF L!Fail
  <2>3. QED
    BY <2>1, <2>2, NothingShown
<1>3. ASSUME NEW q \in Queries, L!ChangeSort(q)
      PROVE  ListsInvariant'
  <2>1. /\ hook = "search" /\ query' = q /\ mixed' = TRUE
        /\ UNCHANGED <<hook, total, shown, next, loading, more, fetches>>
    BY <1>3 DEF L!ChangeSort
  <2>2. L!TypeOK' /\ shown' \in Seq(Shown) /\ next' \in (0..total') \union {NULL}
    BY <2>1 DEF ListsInvariant, L!TypeOK
  <2>3. OneAlive'
    BY <2>1 DEF ListsInvariant, OneAlive, Alive, L!InFlight
  <2>4. \A f \in Requests : Asked(f)'
    BY <2>1 DEF ListsInvariant, Asked, L!InFlight
  <2>5. QED
    BY <2>1, <2>2, <2>3, <2>4 DEF ListsInvariant, Continues, Shows
<1>4. CASE UNCHANGED L!vars
  <2> USE <1>4 DEF L!vars
  <2>1. L!TypeOK' /\ shown' \in Seq(Shown) /\ next' \in (0..total') \union {NULL}
    BY DEF ListsInvariant, L!TypeOK
  <2>2. OneAlive' /\ \A f \in Requests : Asked(f)'
    BY DEF ListsInvariant, OneAlive, Alive, L!InFlight, Asked
  <2>3. Continues' /\ Shows'
    BY DEF ListsInvariant, Continues, Alive, L!InFlight, Shows, L!IsPrefix
  <2>4. QED
    BY <2>1, <2>2, <2>3 DEF ListsInvariant
<1>5. QED
  BY <1>1, <1>2, <1>3, <1>4, OperationsKeep DEF L!Next

\* Of a list on its own: everything on it has its type, and what it shows are the
\* first rows, for any queries, rows and pages.
THEOREM ListsHold == L!Spec => [](L!TypeOK /\ L!ListIsPrefix)
<1>1. ListsInvariant => L!TypeOK /\ L!ListIsPrefix
  BY DEF ListsInvariant, Shows, L!ListIsPrefix
<1>2. QED
  BY <1>1, ListsInit, ListsNext, PTL DEF L!Spec

-----------------------------------------------------------------------------
(* The components together *)

VP == INSTANCE VerificationProofs WITH
        Documents <- Ids, requests <- work, met <- clashes, faults <- failed
RP == INSTANCE ReviewsProofs WITH
        Completed <- Ids, requests <- work, faults <- failed
WP == INSTANCE WeeklyAvailabilityProofs WITH
        SlotIds <- Ids, BreakIds <- Ids, requests <- work, met <- clashes

\* Verification, as it is explored and as it is proved about, is the same.
LEMMA VerificationIsTheSame ==
  /\ V!Init <=> VP!Init
  /\ [V!Next]_(V!vars) <=> [VP!Next]_(VP!vars)
  /\ V!TypeOK <=> VP!TypeOK
  /\ V!ActiveIsVerified <=> VP!ActiveIsVerified
  /\ V!SubmissionIsWhole <=> VP!SubmissionIsWhole
<1> USE DEF V!tables, V!vars, V!NoDocument, V!Idle, V!TutorStatus, V!CheckStatus,
            V!DocumentStatus, V!Uploaded, V!Covered, V!UploadRead, V!UploadCheck,
            V!UploadDocument, V!SubmitRead, V!SubmitReadDocuments, V!SubmitCheck, V!SubmitEnd,
            V!ChecksDecided, V!DocumentsAsChecks, V!DocumentsDecided, V!Decided, V!Approve,
            V!Reject, V!RequestChanges, V!Abandon, V!Init, V!Tutor, V!Admin, V!Next, V!TypeOK,
            V!ActiveIsVerified, V!SubmissionIsWhole, V!SubmittedIsPending, V!At, V!Begin,
            V!Continue, V!Finish, V!Busy,
            VP!tables, VP!vars, VP!NoDocument, VP!Idle, VP!TutorStatus, VP!CheckStatus,
            VP!DocumentStatus, VP!Uploaded, VP!Covered, VP!UploadRead, VP!UploadCheck,
            VP!UploadDocument, VP!SubmitRead, VP!SubmitReadDocuments, VP!SubmitCheck,
            VP!SubmitEnd, VP!ChecksDecided, VP!DocumentsAsChecks, VP!DocumentsDecided,
            VP!Decided, VP!Approve, VP!Reject, VP!RequestChanges, VP!Abandon, VP!Init,
            VP!Tutor, VP!Admin, VP!Next, VP!TypeOK, VP!ActiveIsVerified, VP!SubmissionIsWhole,
            VP!SubmittedIsPending, VP!At, VP!Begin, VP!Continue, VP!Finish, VP!Busy
<1>1. V!Init <=> VP!Init
  OBVIOUS
<1>2. [V!Next]_(V!vars) <=> [VP!Next]_(VP!vars)
  OBVIOUS
<1>3. V!TypeOK <=> VP!TypeOK
  OBVIOUS
<1>4. V!ActiveIsVerified <=> VP!ActiveIsVerified
  OBVIOUS
<1>5. V!SubmissionIsWhole <=> VP!SubmissionIsWhole
  OBVIOUS
<1>6. QED
  BY <1>1, <1>2, <1>3, <1>4, <1>5

\* So are the reviews.
LEMMA ReviewsAreTheSame ==
  /\ R!Init <=> RP!Init
  /\ [R!Next]_(R!vars) <=> [RP!Next]_(RP!vars)
  /\ R!TypeOK <=> RP!TypeOK
  /\ R!RatingOwesPublications <=> RP!RatingOwesPublications
<1> USE DEF R!vars, R!Idle, R!Decisions, R!ReviewStatus, R!Written, R!Published, R!SubmitRead,
            R!SubmitCreate, R!Publish, R!TakeBack, R!Aggregate, R!Overtake, R!Store, R!Abandon,
            R!Init, R!Next, R!TypeOK, R!RatingOwesPublications, R!At, R!Begin, R!Continue,
            R!Finish, R!Busy,
            RP!vars, RP!Idle, RP!Decisions, RP!ReviewStatus, RP!Written, RP!Published,
            RP!SubmitRead, RP!SubmitCreate, RP!Publish, RP!TakeBack, RP!Aggregate, RP!Overtake,
            RP!Store, RP!Abandon, RP!Init, RP!Next, RP!TypeOK, RP!RatingOwesPublications,
            RP!At, RP!Begin, RP!Continue, RP!Finish, RP!Busy
<1>1. R!Init <=> RP!Init
  OBVIOUS
<1>2. [R!Next]_(R!vars) <=> [RP!Next]_(RP!vars)
  OBVIOUS
<1>3. R!TypeOK <=> RP!TypeOK
  OBVIOUS
<1>4. R!RatingOwesPublications <=> RP!RatingOwesPublications
  OBVIOUS
<1>5. QED
  BY <1>1, <1>2, <1>3, <1>4

\* And so is weekly availability.
LEMMA AvailabilityIsTheSame ==
  /\ W!Init <=> WP!Init
  /\ [W!Next]_(W!vars) <=> [WP!Next]_(WP!vars)
  /\ W!TypeOK <=> WP!TypeOK
  /\ W!SlotsApartUnlessMet <=> WP!SlotsApartUnlessMet
  /\ W!WindowsAreSlotsMinusBreaks <=> WP!WindowsAreSlotsMinusBreaks
<1> USE DEF W!vars, W!Valid, W!Slot, W!Break, W!NoSlot, W!NoBreak, W!Idle, W!rangesOverlap,
            W!SameRow, W!Stored, W!Conflicts, W!Taken, W!AddRead, W!UpdateRead, W!Write,
            W!AddCreate, W!UpdateWrite, W!RemoveSlot, W!AddBreak, W!RemoveBreak, W!Window,
            W!Split, W!Applicable, W!Windows, W!Init, W!Abandon, W!Next, W!TypeOK,
            W!SlotsApartUnlessMet, W!Covers, W!WindowsAreSlotsMinusBreaks, W!At, W!Begin,
            W!Continue, W!Finish, W!Busy, W!Cardinality, W!FoldSet, W!MapThenFoldSet,
            WP!vars, WP!Valid, WP!Slot, WP!Break, WP!NoSlot, WP!NoBreak, WP!Idle,
            WP!rangesOverlap, WP!SameRow, WP!Stored, WP!Conflicts, WP!Taken, WP!AddRead,
            WP!UpdateRead, WP!Write, WP!AddCreate, WP!UpdateWrite, WP!RemoveSlot, WP!AddBreak,
            WP!RemoveBreak, WP!Window, WP!Split, WP!Applicable, WP!Windows, WP!Init,
            WP!Abandon, WP!Next, WP!TypeOK, WP!SlotsApartUnlessMet, WP!Covers,
            WP!WindowsAreSlotsMinusBreaks, WP!At, WP!Begin, WP!Continue, WP!Finish, WP!Busy,
            WP!Cardinality, WP!FoldSet, WP!MapThenFoldSet
<1>1. W!Init <=> WP!Init
  OBVIOUS
<1>2. [W!Next]_(W!vars) <=> [WP!Next]_(WP!vars)
  OBVIOUS
<1>3. W!TypeOK <=> WP!TypeOK
  OBVIOUS
<1>4. W!SlotsApartUnlessMet <=> WP!SlotsApartUnlessMet
  OBVIOUS
<1>5. W!WindowsAreSlotsMinusBreaks <=> WP!WindowsAreSlotsMinusBreaks
  OBVIOUS
<1>6. QED
  BY <1>1, <1>2, <1>3, <1>4, <1>5

\* What each component keeps, in the part that explores it.
PartsInvariant ==
  /\ part = "verification" => VP!IInv
  /\ part = "reviews" => RP!IInv
  /\ part \in {"slots", "breaks"} => WP!IInv
  /\ part = "webhooks" => WebhooksInvariant
  /\ part \in {"tutors", "students"} => ProfilesInvariant
  /\ part = "lists" => ListsInvariant

\* A timetable of one slot satisfies the invariant too.
LEMMA OneSlot ==
  ASSUME NEW id \in Ids, NEW slot \in WP!Slot,
         slots = [i \in Ids |-> IF i = id THEN slot ELSE WP!NoSlot],
         breaks = [i \in Ids |-> WP!NoBreak], work = [r \in Requests |-> WP!Idle], clashes = {}
  PROVE  WP!IInv
<1>1. WP!TypeOK
  BY DEF WP!TypeOK, WP!Idle
<1>2. WP!RequestsSound
  BY DEF WP!RequestsSound, WP!Sound, WP!Idle
<1>3. WP!SlotsApartUnlessMet
  BY DEF WP!SlotsApartUnlessMet, WP!Stored
<1>4. QED
  BY <1>1, <1>2, <1>3 DEF WP!IInv

\* Every part starts as its component does, or with one slot.
LEMMA PartsInitInvariant == PartsInit => PartsInvariant
<1> SUFFICES ASSUME PartsInit PROVE PartsInvariant
  OBVIOUS
<1> USE DEF PartsInvariant
<1>1. CASE InitSessions
  BY <1>1 DEF InitSessions
<1>2. CASE InitVerification
  <2>1. part = "verification" /\ VP!Init
    BY <1>2, VerificationIsTheSame DEF InitVerification
  <2>2. QED
    BY <2>1, VP!InitIInv
<1>3. CASE InitReviews
  <2>1. part = "reviews" /\ RP!Init
    BY <1>3, ReviewsAreTheSame DEF InitReviews
  <2>2. QED
    BY <2>1, RP!InitIInv
<1>4. CASE InitAvailability
  <2>1. CASE part = "slots" /\ W!Init
    BY <2>1, AvailabilityIsTheSame, WP!InitIInv
  <2>2. CASE part = "breaks" /\ ~W!Init
    <3>1. /\ W!Slot = WP!Slot /\ W!NoSlot = WP!NoSlot /\ W!NoBreak = WP!NoBreak
          /\ W!Idle = WP!Idle
      BY DEF W!Slot, WP!Slot, W!Valid, WP!Valid, W!NoSlot, WP!NoSlot, W!NoBreak, WP!NoBreak,
             W!Idle, WP!Idle
    <3>2. PICK id \in Ids, slot \in WP!Slot :
            slots = [i \in Ids |-> IF i = id THEN slot ELSE WP!NoSlot]
      BY <1>4, <2>2, <3>1 DEF InitAvailability
    <3>3. /\ breaks = [i \in Ids |-> WP!NoBreak] /\ work = [r \in Requests |-> WP!Idle]
          /\ clashes = {}
      BY <1>4, <2>2, <3>1 DEF InitAvailability
    <3>4. WP!IInv
      BY <3>2, <3>3, OneSlot
    <3>5. QED
      BY <2>2, <3>4
  <2>3. QED
    BY <1>4, <2>1, <2>2, AvailabilityIsTheSame, WP!InitIInv DEF InitAvailability
<1>5. CASE InitWebhooks
  <2>1. part = "webhooks" /\ H!Init
    BY <1>5 DEF InitWebhooks
  <2>2. QED
    BY <2>1, WebhooksInit
<1>6. CASE InitProfiles
  <2>1. part \in {"tutors", "students"} /\ P!Init
    BY <1>6 DEF InitProfiles
  <2>2. QED
    BY <2>1, ProfilesInit
<1>7. CASE InitLists
  <2>1. part = "lists" /\ L!Init
    BY <1>7 DEF InitLists
  <2>2. QED
    BY <2>1, ListsInit
<1>8. QED
  BY <1>1, <1>2, <1>3, <1>4, <1>5, <1>6, <1>7 DEF PartsInit

\* A step is one of the component of its part.
LEMMA PartsSteps ==
  ASSUME [PartsNext]_allVars
  PROVE  /\ part' = part
         /\ part = "verification" => [V!Next]_(V!vars)
         /\ part = "reviews" => [R!Next]_(R!vars)
         /\ part \in {"slots", "breaks"} => [W!Next]_(W!vars)
         /\ part = "webhooks" => [H!Next]_(H!vars)
         /\ part \in {"tutors", "students"} => [P!Next]_(P!vars)
         /\ part = "lists" => [L!Next]_(L!vars)
<1> USE DEF InSigning, InCodes, InVerifying, InReviewing, InTimetable, InBreaks, InReceiving,
            InProfiles, InLists
<1>1. ASSUME Signing \/ Codes
      PROVE  part' = part /\ part \in {"codes", "rotation"}
  BY <1>1 DEF Signing, Codes
<1>2. ASSUME Verifying
      PROVE  part' = part /\ part = "verification" /\ V!Next
  BY <1>2 DEF Verifying, V!Next, V!Tutor, V!Admin
<1>3. ASSUME Reviewing
      PROVE  part' = part /\ part = "reviews" /\ R!Next
  BY <1>3 DEF Reviewing, R!Next
<1>4. ASSUME Timetable
      PROVE  part' = part /\ part = "slots" /\ W!Next
  BY <1>4 DEF Timetable, W!Next
<1>5. ASSUME Breaks
      PROVE  part' = part /\ part = "breaks" /\ W!Next
  BY <1>5 DEF Breaks, W!Next
<1>6. ASSUME Receiving
      PROVE  part' = part /\ part = "webhooks" /\ H!Next
  BY <1>6 DEF Receiving, H!Next
<1>7. ASSUME Profiling
      PROVE  part' = part /\ part \in {"tutors", "students"} /\ P!Next
  BY <1>7 DEF Profiling, P!Next
<1>8. ASSUME Listing
      PROVE  part' = part /\ part = "lists" /\ L!Next
  BY <1>8 DEF Listing, L!Next
<1>9. ASSUME UNCHANGED allVars
      PROVE  /\ part' = part
             /\ UNCHANGED V!vars /\ UNCHANGED R!vars /\ UNCHANGED W!vars
             /\ UNCHANGED H!vars /\ UNCHANGED P!vars /\ UNCHANGED L!vars
  BY <1>9 DEF allVars, ofVerification, ofReviews, ofAvailability, ofWebhooks, ofProfiles, ofLists,
              V!vars, V!tables, R!vars, W!vars, H!vars, P!vars, P!profileVars, L!vars
<1>10. QED
  BY <1>1, <1>2, <1>3, <1>4, <1>5, <1>6, <1>7, <1>8, <1>9 DEF PartsNext

\* Every step keeps what the component of its part keeps.
LEMMA PartsNextInvariant == PartsInvariant /\ [PartsNext]_allVars => PartsInvariant'
<1> SUFFICES ASSUME PartsInvariant, [PartsNext]_allVars
             PROVE  PartsInvariant'
  OBVIOUS
<1>1. /\ part' = part
      /\ part = "verification" => [V!Next]_(V!vars)
      /\ part = "reviews" => [R!Next]_(R!vars)
      /\ part \in {"slots", "breaks"} => [W!Next]_(W!vars)
      /\ part = "webhooks" => [H!Next]_(H!vars)
      /\ part \in {"tutors", "students"} => [P!Next]_(P!vars)
      /\ part = "lists" => [L!Next]_(L!vars)
  BY PartsSteps
<1>2. CASE part = "verification"
  <2>1. VP!IInv /\ [VP!Next]_(VP!vars)
    BY <1>1, <1>2, VerificationIsTheSame DEF PartsInvariant
  <2>2. VP!IInv'
    BY <2>1, VerificationAssumption, VP!NextIInv
  <2>3. QED
    BY <1>1, <1>2, <2>2 DEF PartsInvariant
<1>3. CASE part = "reviews"
  <2>1. RP!IInv /\ [RP!Next]_(RP!vars)
    BY <1>1, <1>3, ReviewsAreTheSame DEF PartsInvariant
  <2>2. RP!IInv'
    BY <2>1, RP!NextIInv
  <2>3. QED
    BY <1>1, <1>3, <2>2 DEF PartsInvariant
<1>4. CASE part \in {"slots", "breaks"}
  <2>1. WP!IInv /\ [WP!Next]_(WP!vars)
    BY <1>1, <1>4, AvailabilityIsTheSame DEF PartsInvariant
  <2>2. WP!IInv'
    BY <2>1, WP!NextIInv
  <2>3. QED
    BY <1>1, <1>4, <2>2 DEF PartsInvariant
<1>5. CASE part = "webhooks"
  <2>1. WebhooksInvariant'
    BY <1>1, <1>5, WebhooksAssumption, WebhooksNext DEF PartsInvariant
  <2>2. QED
    BY <1>1, <1>5, <2>1 DEF PartsInvariant
<1>6. CASE part \in {"tutors", "students"}
  <2>1. ProfilesInvariant'
    BY <1>1, <1>6, ProfilesNext DEF PartsInvariant
  <2>2. QED
    BY <1>1, <1>6, <2>1 DEF PartsInvariant
<1>7. CASE part = "lists"
  <2>1. ListsInvariant'
    BY <1>1, <1>7, ListsNext DEF PartsInvariant
  <2>2. QED
    BY <1>1, <1>7, <2>1 DEF PartsInvariant
<1>8. QED
  BY <1>1, <1>2, <1>3, <1>4, <1>5, <1>6, <1>7 DEF PartsInvariant

\* Every part keeps what its component keeps.
THEOREM PartsKeepInvariant == PartsSpec => []PartsInvariant
<1>1. QED
  BY PartsInitInvariant, PartsNextInvariant, PTL DEF PartsSpec

-----------------------------------------------------------------------------
\* A behaviour of a part is one of the component's own specification, and what
\* happens to the tables of Sessions is a behaviour of Sessions in every part.
THEOREM PartsImplement ==
  PartsSpec => /\ Spec
               /\ part = "verification" => V!Spec
               /\ part = "reviews" => R!Spec
               /\ part = "slots" => W!Spec
               /\ part = "webhooks" => H!Spec
               /\ part \in {"tutors", "students"} => P!Spec
               /\ part = "lists" => L!Spec
<1>1. PartsInit => /\ Init
                   /\ part = "verification" => V!Init
                   /\ part = "reviews" => R!Init
                   /\ part = "slots" => W!Init
                   /\ part = "webhooks" => H!Init
                   /\ part \in {"tutors", "students"} => P!Init
                   /\ part = "lists" => L!Init
  BY DEF PartsInit, InitSessions, InitVerification, InitReviews, InitAvailability, InitWebhooks,
         InitProfiles, InitLists, NoSessions
<1>2. [PartsNext]_allVars => [Next]_vars
  <2>1. Signing \/ Codes => Next
    BY DEF Signing, Codes, Next, Verify, Refresh, Administer, SignIn
  <2>2. Verifying \/ Reviewing \/ Timetable \/ Breaks \/ Receiving \/ Profiling \/ Listing
          => UNCHANGED vars
    BY DEF Verifying, Reviewing, Timetable, Breaks, Receiving, Profiling, Listing, InVerifying,
           InReviewing, InTimetable, InBreaks, InReceiving, InProfiles, InLists
  <2>3. UNCHANGED allVars => UNCHANGED vars
    BY DEF allVars
  <2>4. QED
    BY <2>1, <2>2, <2>3 DEF PartsNext
<1>3. [PartsNext]_allVars =>
        /\ part = "verification" => (part = "verification")' /\ [V!Next]_(V!vars)
        /\ part = "reviews" => (part = "reviews")' /\ [R!Next]_(R!vars)
        /\ part = "slots" => (part = "slots")' /\ [W!Next]_(W!vars)
        /\ part = "webhooks" => (part = "webhooks")' /\ [H!Next]_(H!vars)
        /\ part \in {"tutors", "students"} =>
             (part \in {"tutors", "students"})' /\ [P!Next]_(P!vars)
        /\ part = "lists" => (part = "lists")' /\ [L!Next]_(L!vars)
  BY PartsSteps
<1>4. QED
  BY <1>1, <1>2, <1>3, PTL DEF PartsSpec, Spec, V!Spec, R!Spec, W!Spec, H!Spec, P!Spec, L!Spec

-----------------------------------------------------------------------------
\* Every column and request of every component holds a value of its type, for
\* any rows, requests, events, fields and queries.
THEOREM PartsTypeCorrect == PartsSpec => []PartsTypeOK
<1>1. PartsInvariant => PartsTypeOK
  BY VerificationIsTheSame, ReviewsAreTheSame, AvailabilityIsTheSame, ProfilesProperties
     DEF PartsInvariant, PartsTypeOK, VP!IInv, RP!IInv, WP!IInv, WebhooksInvariant, ListsInvariant
<1>2. QED
  BY <1>1, PartsKeepInvariant, PTL

\* Nothing of an active tutor is undecided unless requests met the decision.
THEOREM ActiveVerified == PartsSpec => []ActiveIsVerified
<1>1. PartsInvariant => ActiveIsVerified
  BY VerificationIsTheSame
     DEF PartsInvariant, ActiveIsVerified, VP!IInv, VP!ActiveRests, VP!ActiveIsVerified
<1>2. QED
  BY <1>1, PartsKeepInvariant, PTL

\* A submission nothing disturbed has every required check and document.
THEOREM SubmissionWhole == PartsSpec => []SubmissionIsWhole
<1>1. PartsInvariant => SubmissionIsWhole
  BY VerificationIsTheSame DEF PartsInvariant, SubmissionIsWhole, VP!IInv
<1>2. QED
  BY <1>1, PartsKeepInvariant, PTL

\* The stored rating lacks at most the reviews published since it was stored.
THEOREM RatingOwes == PartsSpec => []RatingOwesPublications
<1>1. RP!IInv => RP!RatingOwesPublications
  BY DEF RP!IInv, RP!RatingRests, RP!RatingOwesPublications, RP!UpToDate, RP!Recomputing,
         RP!Busy, RP!At
<1>2. PartsInvariant => RatingOwesPublications
  BY <1>1, ReviewsAreTheSame DEF PartsInvariant, RatingOwesPublications
<1>3. QED
  BY <1>2, PartsKeepInvariant, PTL

\* Slots of one day and mode overlap only when two requests did.
THEOREM SlotsApart == PartsSpec => []SlotsApartUnlessMet
<1>1. PartsInvariant => SlotsApartUnlessMet
  BY AvailabilityIsTheSame DEF PartsInvariant, SlotsApartUnlessMet, WP!IInv
<1>2. QED
  BY <1>1, PartsKeepInvariant, PTL

\* The public windows are the slots minus the breaks, each minute in one and
\* none empty, whatever the times and the number of breaks are.
THEOREM WindowsCorrect == PartsSpec => []WindowsAreSlotsMinusBreaks
<1>1. Times \subseteq Int
  BY AvailabilityAssumption
<1>2. WP!IInv => WP!WindowsAreSlotsMinusBreaks
  <2>1. WP!IsFiniteSet(Ids)
    BY AvailabilityAssumption DEF WP!IsFiniteSet, IsFiniteSet
  <2>2. QED
    BY <1>1, <2>1, WP!TypedWindows DEF WP!IInv
<1>3. PartsInvariant => WindowsAreSlotsMinusBreaks
  BY <1>2, AvailabilityIsTheSame DEF PartsInvariant, WindowsAreSlotsMinusBreaks
<1>4. QED
  BY <1>3, PartsKeepInvariant, PTL

\* An event answered with success is recorded, and processed but for the
\* reasons named.
THEOREM AnsweredProcessed == PartsSpec => []AnsweredIsProcessed
<1>1. PartsInvariant => AnsweredIsProcessed
  BY WebhooksAssumption, WebhooksAnswer DEF PartsInvariant, AnsweredIsProcessed
<1>2. QED
  BY <1>1, PartsKeepInvariant, PTL

\* The completion score counts the filled fields unless the last write of the
\* profile was of other fields than it found, or gave no score.
THEOREM ScoreCounts == PartsSpec => []ScoreCountsFields
<1>1. PartsInvariant => ScoreCountsFields
  BY ProfilesProperties DEF PartsInvariant, ScoreCountsFields
<1>2. QED
  BY <1>1, PartsKeepInvariant, PTL

\* Students have different names unless renamed or created at the same time.
THEOREM NamesDiffer == PartsSpec => []StudentNamesDiffer
<1>1. PartsInvariant => StudentNamesDiffer
  BY ProfilesProperties DEF PartsInvariant, StudentNamesDiffer
<1>2. QED
  BY <1>1, PartsKeepInvariant, PTL

\* A profile has its role and a student a guardian unless a request was torn.
THEOREM MadeWhole == PartsSpec => []NothingHalfMade
<1>1. PartsInvariant => NothingHalfMade
  BY ProfilesProperties DEF PartsInvariant, NothingHalfMade
<1>2. QED
  BY <1>1, PartsKeepInvariant, PTL

\* The search and the administrators' lists show the first rows of their query,
\* each once, for any number of rows, size of a page and answers in any order.
THEOREM ListsShowPrefix == PartsSpec => []ListIsPrefix
<1>1. PartsInvariant => ListIsPrefix
  BY DEF PartsInvariant, ListIsPrefix, ListsInvariant, Shows, L!ListIsPrefix
<1>2. QED
  BY <1>1, PartsKeepInvariant, PTL
=============================================================================
