--------------------------- MODULE BookingsProofs ---------------------------
(***************************************************************************)
(* Theorems about Bookings, for every value of its constants.              *)
(***************************************************************************)
EXTENDS Bookings, TLAPS

-----------------------------------------------------------------------------
(* The inductive invariant *)

\* The booking row a request read still exists, with the slot and the parent it
\* was read with: no statement changes them.
ReadRow(q) ==
  /\ q.booking \in Bookings
  /\ q.held \in Slots
  /\ q.parent \in Parents
  /\ q.seen \in Status
  /\ bookings[q.booking].status # "NONE"
  /\ bookings[q.booking].slot = q.held

\* The row a request inserted is the booking of the slot it asked for.
InsertedRow(q) ==
  IF q.pc = "created"
  THEN /\ q.made \in Bookings
       /\ bookings[q.made].status # "NONE"
       /\ bookings[q.made].slot = q.slot
  ELSE q.made = NULL

CreateRequest(q) ==
  /\ q.op = "create"
  /\ q.pc \in {"overlap", "reserve", "insert", "created"}
  /\ q.parent \in Parents
  /\ q.slot \in Slots
  /\ q.booking = NULL
  /\ q.held = NULL
  /\ q.seen = "NONE"
  /\ InsertedRow(q)

RescheduleRequest(q) ==
  /\ q.op = "reschedule"
  /\ q.pc \in Pcs \ {"idle", "book", "audit"}
  /\ q.slot \in Slots
  /\ ReadRow(q)
  /\ InsertedRow(q)

StatusRequest(q) ==
  /\ q.op \in Ops \ {"create", "reschedule"}
  /\ q.pc \in {"release", "book", "status", "history", "audit"}
  /\ q.slot = NULL
  /\ q.made = NULL
  /\ ReadRow(q)

\* Every request is idle or carries what its next statement needs.
RequestsOK ==
  \A r \in Requests :
    \/ req[r] = Idle
    \/ CreateRequest(req[r])
    \/ RescheduleRequest(req[r])
    \/ StatusRequest(req[r])

\* docs/DatabaseSchema.md: a slot can be linked to at most one booking.
SlotsUnique ==
  \A b, c \in Bookings :
    bookings[b].slot \in Slots /\ bookings[b].slot = bookings[c].slot => b = c

IInv == TypeOK /\ RequestsOK /\ SlotsUnique

-----------------------------------------------------------------------------
\* Empty tables and idle requests satisfy the invariant.
LEMMA InitIInv == Init => IInv
  BY NullAssumption, BoundAssumption
  DEF Init, IInv, TypeOK, RequestsOK, SlotsUnique, SlotRow, BookingRow, Request,
      NoBooking, Idle, Pcs, Ops, Status

RequestOK(q) ==
  q = Idle \/ CreateRequest(q) \/ RescheduleRequest(q) \/ StatusRequest(q)

\* A step that leaves the bookings alone and gives one request a well-formed
\* next statement keeps every request well-formed.
LEMMA OneRequestMoves ==
  ASSUME IInv, NEW r \in Requests, NEW q \in Request, RequestOK(q),
         req' = [req EXCEPT ![r] = q], bookings' = bookings
  PROVE  RequestsOK' /\ SlotsUnique' /\ req' \in [Requests -> Request]
<1>1. req' \in [Requests -> Request]
  BY DEF IInv, TypeOK
<1>2. SlotsUnique'
  BY DEF IInv, SlotsUnique
<1>3. RequestsOK'
  BY DEF IInv, TypeOK, RequestsOK, RequestOK, CreateRequest, RescheduleRequest,
         StatusRequest, ReadRow, InsertedRow
<1>4. QED
  BY <1>1, <1>2, <1>3

\* A request that arrives carries what its first statement needs.
LEMMA BeginIInv ==
  ASSUME IInv, NEW r \in Requests, NEW q \in Request, NEW mine \in SUBSET Slots,
         RequestOK(q), Begin(r, q, mine)
  PROVE  IInv'
<1>1. RequestsOK' /\ SlotsUnique' /\ req' \in [Requests -> Request]
  BY OneRequestMoves DEF Begin, tables
<1>2. met' \subseteq SUBSET Slots
  <2>1. \A k \in Requests : Working(k) \subseteq Slots
    BY DEF Working, IInv, TypeOK, Request
  <2>2. QED
    BY <2>1 DEF Begin, IInv, TypeOK
<1>3. /\ slots' = slots /\ bookings' = bookings /\ history' = history
      /\ auditLog' = auditLog /\ now' = now /\ torn' = torn
      /\ arrivals < MaxArrivals /\ arrivals' = arrivals + 1
  BY DEF Begin, tables
<1>4. TypeOK'
  BY <1>1, <1>2, <1>3, BoundAssumption DEF IInv, TypeOK
<1>5. QED
  BY <1>1, <1>4 DEF IInv

\* Every use case that starts keeps the invariant.
LEMMA ArriveIInv ==
  ASSUME IInv, NEW r \in Requests, Arrive(r)
  PROVE  IInv'
<1>1. CASE \E p \in Parents, s \in Slots : CreateBooking(r, p, s)
  <2>1. PICK p \in Parents, s \in Slots : CreateBooking(r, p, s)
    BY <1>1
  <2> DEFINE q == [Idle EXCEPT !.pc = "overlap", !.parent = p, !.slot = s]
  <2>2. q \in Request /\ RequestOK(q)
    BY NullAssumption DEF Request, Idle, Pcs, Ops, RequestOK, CreateRequest, InsertedRow
  <2>3. Begin(r, q, {s})
    BY <2>1 DEF CreateBooking
  <2> HIDE DEF q
  <2>4. QED
    BY <2>2, <2>3, BeginIInv
<1>2. ASSUME NEW op \in Ops \ {"create", "reschedule"}, NEW b \in Bookings,
             NEW pc \in {"release", "book", "status"},
             bookings[b].status \in Status, BeginOn(r, op, b, pc)
      PROVE  IInv'
  <2> DEFINE q == [Idle EXCEPT !.pc = pc, !.op = op, !.parent = bookings[b].parent,
                               !.booking = b, !.held = bookings[b].slot,
                               !.seen = bookings[b].status]
  <2>1. bookings[b] \in BookingRow /\ bookings[b].status # "NONE"
    BY <1>2 DEF IInv, TypeOK, NoBooking, Status, Active, Closed
  <2>2. q \in Request
    BY <1>2, <2>1 DEF Request, Idle, Pcs, Ops, BookingRow
  <2>3. RequestOK(q)
    BY <1>2, <2>1 DEF Idle, RequestOK, StatusRequest, ReadRow, BookingRow
  <2>4. Begin(r, q, {bookings[b].slot})
    BY <1>2 DEF BeginOn
  <2>5. {bookings[b].slot} \in SUBSET Slots
    BY <2>1 DEF BookingRow
  <2> HIDE DEF q
  <2>6. QED
    BY <2>2, <2>3, <2>4, <2>5, BeginIInv
<1>3. ASSUME NEW b \in Bookings, NEW s \in Slots, RescheduleBooking(r, b, s)
      PROVE  IInv'
  <2> DEFINE q == [Idle EXCEPT !.pc = "newSlot", !.op = "reschedule",
                               !.parent = bookings[b].parent, !.booking = b,
                               !.held = bookings[b].slot,
                               !.seen = bookings[b].status, !.slot = s]
  <2>1. bookings[b] \in BookingRow /\ bookings[b].status # "NONE"
    BY <1>3 DEF IInv, TypeOK, NoBooking, RescheduleBooking, IsAllowedTransition,
               AllowedTransitions
  <2>2. q \in Request
    BY <2>1 DEF Request, Idle, Pcs, Ops, BookingRow
  <2>3. RequestOK(q)
    BY <2>1 DEF Idle, Pcs, RequestOK, RescheduleRequest, ReadRow, InsertedRow, BookingRow
  <2>4. Begin(r, q, {bookings[b].slot, s})
    BY <1>3 DEF RescheduleBooking
  <2>5. {bookings[b].slot, s} \in SUBSET Slots
    BY <2>1 DEF BookingRow
  <2> HIDE DEF q
  <2>6. QED
    BY <2>2, <2>3, <2>4, <2>5, BeginIInv
<1>4. ASSUME NEW b \in Bookings, AcceptBooking(r, b)
      PROVE  IInv'
  BY <1>2, <1>4 DEF AcceptBooking, IsAllowedTransition, AllowedTransitions, Ops, Status, Active, Closed
<1>5. ASSUME NEW b \in Bookings, RejectBooking(r, b)
      PROVE  IInv'
  BY <1>2, <1>5 DEF RejectBooking, IsAllowedTransition, AllowedTransitions, Ops, Status, Active, Closed
<1>6. ASSUME NEW b \in Bookings, NEW op \in {"cancelByParent", "cancelByTutor"},
             CancelBooking(r, op, b)
      PROVE  IInv'
  BY <1>2, <1>6 DEF CancelBooking, CancellableStatuses, Ops, Status, Active
<1>7. ASSUME NEW b \in Bookings, AdminCancelBooking(r, b)
      PROVE  IInv'
  <2>1. bookings[b].status \in Status
    BY <1>7 DEF AdminCancelBooking, AdminCancellableStatuses, Status, Active, IInv, TypeOK, BookingRow, NoBooking
  <2>2. QED
    BY <1>2, <1>7, <2>1 DEF AdminCancelBooking, Ops
<1>8. ASSUME NEW b \in Bookings, CompleteBooking(r, b)
      PROVE  IInv'
  BY <1>2, <1>8 DEF CompleteBooking, IsAllowedTransition, AllowedTransitions, Ops, Status, Active, Closed
<1>9. QED
  BY <1>1, <1>3, <1>4, <1>5, <1>6, <1>7, <1>8 DEF Arrive

\* What the invariant says of one request.
LEMMA RequestOf ==
  ASSUME IInv, NEW r \in Requests
  PROVE  req[r] \in Request /\ RequestOK(req[r]) /\ Idle \in Request /\ RequestOK(Idle)
  BY DEF IInv, TypeOK, RequestsOK, RequestOK, Idle, Request, Pcs, Ops

\* Going on to a statement whose needs are met keeps every request well-formed.
LEMMA GotoOK ==
  ASSUME IInv, NEW r \in Requests, NEW pc \in Pcs, Goto(r, pc), bookings' = bookings,
         RequestOK([req[r] EXCEPT !.pc = pc])
  PROVE  RequestsOK' /\ SlotsUnique' /\ req' \in [Requests -> Request]
<1> DEFINE q == [req[r] EXCEPT !.pc = pc]
<1>1. q \in Request
  BY RequestOf DEF Request
<1>2. req' = [req EXCEPT ![r] = q]
  BY DEF Goto, IInv, TypeOK
<1> HIDE DEF q
<1>3. RequestOK(q)
  BY DEF q
<1>4. QED
  BY <1>1, <1>2, <1>3, OneRequestMoves

\* A request that ends leaves the others well-formed.
LEMMA FinishOK ==
  ASSUME IInv, NEW r \in Requests, Finish(r), bookings' = bookings
  PROVE  RequestsOK' /\ SlotsUnique' /\ req' \in [Requests -> Request]
  BY RequestOf, OneRequestMoves DEF Finish

\* Marking a slot as booked yields a slot row.
LEMMA BookedRow ==
  ASSUME NEW row \in SlotRow
  PROVE  [row EXCEPT !.status = "BOOKED"] \in SlotRow
  BY DEF SlotRow

\* Every operation on a booking writes a status, and never REQUESTED.
LEMMA TargetStatus ==
  \A op \in Ops \ {"create"} : Target[op] \in Status /\ Target[op] # "REQUESTED"
  BY DEF Ops, Target, Status, Active, Closed

\* Every statement keeps the invariant.
LEMMA StatementIInv ==
  ASSUME IInv, NEW r \in Requests, Statement(r)
  PROVE  IInv'
<1> USE RequestOf, NullAssumption DEF InsertedRow, ReadRow
<1>0. TypeOK
  BY DEF IInv
<1>1. CASE FindNewSlot(r)
  <2>1. RequestsOK' /\ SlotsUnique' /\ req' \in [Requests -> Request]
    <3>1. CASE Goto(r, "overlap")
      <4>1. RequestOK([req[r] EXCEPT !.pc = "overlap"])
        BY <1>1 DEF FindNewSlot, RequestOK, Idle, CreateRequest, RescheduleRequest, StatusRequest, Request, Pcs
      <4>2. QED
        BY <1>1, <3>1, <4>1, GotoOK DEF FindNewSlot, tables, Pcs
    <3>2. CASE Finish(r)
      BY <1>1, <3>2, FinishOK DEF FindNewSlot, tables
    <3>3. QED
      BY <1>1, <3>1, <3>2 DEF FindNewSlot
  <2>2. QED
    BY <1>0, <1>1, <2>1 DEF FindNewSlot, tables, IInv, TypeOK
<1>2. CASE CheckOverlap(r)
  <2>1. RequestsOK' /\ SlotsUnique' /\ req' \in [Requests -> Request]
    <3>1. ASSUME NEW pc \in {"reserve", "release"},
                 pc = (IF req[r].op = "create" THEN "reserve" ELSE "release"), Goto(r, pc)
          PROVE  RequestsOK' /\ SlotsUnique' /\ req' \in [Requests -> Request]
      <4>1. RequestOK([req[r] EXCEPT !.pc = pc])
        BY <1>2, <3>1 DEF CheckOverlap, RequestOK, Idle, CreateRequest, RescheduleRequest, StatusRequest, Request, Pcs
      <4>2. QED
        BY <1>2, <3>1, <4>1, GotoOK DEF CheckOverlap, tables, Pcs
    <3>2. CASE Finish(r)
      BY <1>2, <3>2, FinishOK DEF CheckOverlap, tables
    <3>3. QED
      BY <1>2, <3>1, <3>2 DEF CheckOverlap
  <2>2. QED
    BY <1>0, <1>2, <2>1 DEF CheckOverlap, tables, IInv, TypeOK
<1>3. CASE ReleaseSlot(r)
  <2>1. RequestsOK' /\ SlotsUnique' /\ req' \in [Requests -> Request]
    <3>1. PICK pc \in {"reserve", "status"} :
             /\ pc = (IF req[r].op = "reschedule" THEN "reserve" ELSE "status")
             /\ Goto(r, pc)
      BY <1>3 DEF ReleaseSlot
    <3>2. RequestOK([req[r] EXCEPT !.pc = pc])
      BY <1>3, <3>1 DEF ReleaseSlot, RequestOK, Idle, CreateRequest, RescheduleRequest,
             StatusRequest, Request, Pcs, Ops
    <3>3. QED
      BY <1>3, <3>1, <3>2, GotoOK DEF ReleaseSlot, Pcs
  <2>2. slots' \in [Slots -> SlotRow]
    BY <1>0, <1>3 DEF ReleaseSlot, TypeOK, SlotRow
  <2>3. QED
    BY <1>0, <1>3, <2>1, <2>2 DEF ReleaseSlot, IInv, TypeOK
<1>4. CASE ReserveSlot(r)
  <2>1. RequestsOK' /\ SlotsUnique' /\ req' \in [Requests -> Request]
    <3>1. PICK pc \in {"insert", "status"} :
             /\ pc = (IF req[r].op = "create" THEN "insert" ELSE "status")
             /\ Goto(r, pc)
      BY <1>4 DEF ReserveSlot
    <3>2. RequestOK([req[r] EXCEPT !.pc = pc])
      BY <1>4, <3>1 DEF ReserveSlot, RequestOK, Idle, CreateRequest, RescheduleRequest,
             StatusRequest, Request, Pcs, Ops
    <3>3. QED
      BY <1>4, <3>1, <3>2, GotoOK DEF ReserveSlot, Pcs
  <2>2. slots' \in [Slots -> SlotRow]
    <3>1. req[r].parent \in Parents
      BY <1>4 DEF ReserveSlot, RequestOK, Idle, CreateRequest, RescheduleRequest, StatusRequest
    <3>2. QED
      BY <1>0, <1>4, <3>1 DEF ReserveSlot, TypeOK, SlotRow
  <2>3. QED
    BY <1>0, <1>4, <2>1, <2>2 DEF ReserveSlot, IInv, TypeOK
<1>5. CASE MarkAsBooked(r)
  <2>1. RequestsOK' /\ SlotsUnique' /\ req' \in [Requests -> Request]
    <3>1. RequestOK([req[r] EXCEPT !.pc = "status"])
      BY <1>5 DEF MarkAsBooked, RequestOK, Idle, CreateRequest, RescheduleRequest,
             StatusRequest, Request, Pcs
    <3>2. QED
      BY <1>5, <3>1, GotoOK DEF MarkAsBooked, Pcs
  <2>2. slots' \in [Slots -> SlotRow]
    <3>1. req[r].held \in Slots
      BY <1>5 DEF MarkAsBooked, RequestOK, Idle, CreateRequest, RescheduleRequest, StatusRequest
    <3>2. [slots[req[r].held] EXCEPT !.status = "BOOKED"] \in SlotRow
      BY <1>0, <3>1, BookedRow DEF TypeOK
    <3>3. QED
      BY <1>0, <1>5, <3>1, <3>2 DEF MarkAsBooked, TypeOK
  <2>3. QED
    BY <1>0, <1>5, <2>1, <2>2 DEF MarkAsBooked, IInv, TypeOK
<1>6. CASE UpdateStatus(r)
  <2>1. /\ req[r].booking \in Bookings
        /\ bookings[req[r].booking] \in BookingRow
        /\ Target[req[r].op] \in Status
    <3>1. req[r].booking \in Bookings /\ req[r].op \in Ops \ {"create"}
          /\ bookings[req[r].booking].status # "NONE"
      BY <1>6 DEF UpdateStatus, RequestOK, Idle, CreateRequest, RescheduleRequest,
             StatusRequest, Ops
    <3>2. QED
      BY <1>0, <3>1, TargetStatus DEF TypeOK, NoBooking
  <2>2. bookings' \in [Bookings -> BookingRow \union {NoBooking}]
    BY <1>0, <1>6, <2>1 DEF UpdateStatus, TypeOK, BookingRow
  <2>3. \A b \in Bookings : /\ bookings'[b].slot = bookings[b].slot
                            /\ bookings[b].status # "NONE" => bookings'[b].status # "NONE"
    <3>1. Target[req[r].op] # "NONE"
      BY <2>1 DEF Status, Active, Closed
    <3>2. QED
      BY <1>0, <1>6, <2>1, <3>1 DEF UpdateStatus, TypeOK, BookingRow
  <2>4. SlotsUnique'
    BY <2>3 DEF IInv, SlotsUnique
  <2>5. RequestOK([req[r] EXCEPT !.pc = "history"])
    BY <1>6 DEF UpdateStatus, RequestOK, Idle, CreateRequest, RescheduleRequest,
           StatusRequest, Request, Pcs
  <2>6. req' = [req EXCEPT ![r] = [req[r] EXCEPT !.pc = "history"]]
    BY <1>0, <1>6 DEF UpdateStatus, Goto, TypeOK
  <2>7. req' \in [Requests -> Request]
    <3>1. [req[r] EXCEPT !.pc = "history"] \in Request
      BY DEF Request, Pcs
    <3>2. QED
      BY <1>0, <2>6, <3>1 DEF TypeOK
  <2>8. RequestsOK'
    <3> SUFFICES ASSUME NEW k \in Requests
                 PROVE  RequestOK(req[k])'
      BY DEF RequestsOK, RequestOK
    <3>1. RequestOK(req'[k])
      BY <2>5, <2>6, <1>0, RequestOf DEF TypeOK
    <3>2. req'[k] \in Request
      BY <2>7
    <3>3. QED
      BY <2>3, <3>1, <3>2 DEF RequestOK, CreateRequest, RescheduleRequest, StatusRequest, Request
  <2>9. QED
    BY <1>0, <1>6, <2>2, <2>4, <2>7, <2>8 DEF UpdateStatus, IInv, TypeOK
<1>7. CASE AddStatusHistory(r)
  <2>1. /\ req[r].booking \in Bookings
        /\ req[r].op \in Ops \ {"create"}
        /\ req[r].seen \in Status
    BY <1>7 DEF AddStatusHistory, RequestOK, Idle, CreateRequest, RescheduleRequest,
           StatusRequest, Ops
  <2>2. RequestsOK' /\ SlotsUnique' /\ req' \in [Requests -> Request]
    <3>1. CASE req[r].op = "reschedule"
      <4>1. RequestOK([req[r] EXCEPT !.pc = "insert"])
        BY <1>7, <3>1 DEF AddStatusHistory, RequestOK, Idle, CreateRequest,
               RescheduleRequest, StatusRequest, Request, Pcs, Ops
      <4>2. Goto(r, "insert")
        BY <1>7, <3>1 DEF AddStatusHistory
      <4>3. QED
        BY <1>7, <4>1, <4>2, GotoOK DEF AddStatusHistory, Pcs
    <3>2. CASE req[r].op = "cancelByAdmin"
      <4>1. RequestOK([req[r] EXCEPT !.pc = "audit"])
        BY <1>7, <3>2 DEF AddStatusHistory, RequestOK, Idle, CreateRequest,
               RescheduleRequest, StatusRequest, Request, Pcs, Ops
      <4>2. Goto(r, "audit")
        BY <1>7, <3>2 DEF AddStatusHistory
      <4>3. QED
        BY <1>7, <4>1, <4>2, GotoOK DEF AddStatusHistory, Pcs
    <3>3. CASE req[r].op \notin {"reschedule", "cancelByAdmin"}
      <4>1. Finish(r)
        BY <1>7, <3>3 DEF AddStatusHistory
      <4>2. QED
        BY <1>7, <4>1, FinishOK DEF AddStatusHistory
    <3>4. QED
      BY <3>1, <3>2, <3>3
  <2>3. history' \in [Bookings -> Seq(HistoryRow)]
    <3> DEFINE row == [from |-> req[r].seen, to |-> Target[req[r].op]]
    <3>1. row \in HistoryRow
      BY <2>1, TargetStatus DEF HistoryRow
    <3>2. Append(history[req[r].booking], row) \in Seq(HistoryRow)
      BY <1>0, <2>1, <3>1 DEF TypeOK
    <3>3. history' = [history EXCEPT ![req[r].booking] = Append(@, row)]
      BY <1>7 DEF AddStatusHistory
    <3>4. QED
      BY <1>0, <3>2, <3>3 DEF TypeOK
  <2>4. QED
    BY <1>0, <1>7, <2>2, <2>3 DEF AddStatusHistory, IInv, TypeOK
<1>8. CASE InsertBooking(r)
  <2>3. CreateRequest(req[r]) \/ RescheduleRequest(req[r])
    <3>1. req[r].pc = "insert"
      BY <1>8 DEF InsertBooking
    <3>2. req[r] # Idle /\ ~StatusRequest(req[r])
      BY <3>1 DEF Idle, StatusRequest
    <3>3. QED
      BY <3>2 DEF RequestOK
  <2>1. CASE SlotTaken(req[r].slot)
    <3>1. RequestsOK' /\ SlotsUnique' /\ req' \in [Requests -> Request]
      BY <1>8, <2>1, FinishOK DEF InsertBooking
    <3>2. QED
      BY <1>0, <1>8, <2>1, <3>1 DEF InsertBooking, IInv, TypeOK
  <2>2. CASE ~SlotTaken(req[r].slot)
    <3>1. PICK b \in Bookings :
            /\ ~Exists(b)
            /\ bookings' = [bookings EXCEPT ![b] =
                 [status |-> "REQUESTED", slot |-> req[r].slot,
                  parent |-> req[r].parent, from |-> req[r].booking]]
            /\ req' = [req EXCEPT ![r] = [@ EXCEPT !.pc = "created", !.made = b]]
      BY <1>8, <2>2 DEF InsertBooking
    <3> DEFINE row == [status |-> "REQUESTED", slot |-> req[r].slot,
                       parent |-> req[r].parent, from |-> req[r].booking]
               q == [req[r] EXCEPT !.pc = "created", !.made = b]
    <3>2. /\ req[r].slot \in Slots
          /\ req[r].parent \in Parents
          /\ req[r].booking \in Bookings \union {NULL}
      <4>1. CASE CreateRequest(req[r])
        BY <4>1 DEF CreateRequest
      <4>2. CASE RescheduleRequest(req[r])
        BY <4>2 DEF RescheduleRequest
      <4>3. QED
        BY <2>3, <4>1, <4>2
    <3>3. row \in BookingRow
      BY <3>2 DEF BookingRow, Status, Active
    <3>4. bookings' = [bookings EXCEPT ![b] = row]
      BY <3>1
    <3>5. req' = [req EXCEPT ![r] = q] /\ q \in Request
      <4>1. req' = [req EXCEPT ![r] = q]
        BY <1>0, <3>1 DEF TypeOK
      <4>2. q \in Request
        BY DEF Request, Pcs
      <4>3. QED
        BY <4>1, <4>2
    <3>6. /\ bookings' \in [Bookings -> BookingRow \union {NoBooking}]
          /\ req' \in [Requests -> Request]
      BY <1>0, <3>3, <3>4, <3>5 DEF TypeOK
    <3>7. bookings'[b] = row /\ \A c \in Bookings \ {b} : bookings'[c] = bookings[c]
      BY <1>0, <3>4 DEF TypeOK
    <3>8. SlotsUnique'
      <4>1. \A c \in Bookings \ {b} : bookings'[c].slot # bookings'[b].slot
        BY <2>2, <3>7 DEF SlotTaken
      <4>2. QED
        BY <3>7, <4>1 DEF IInv, SlotsUnique
    <3>9. RequestsOK'
      <4> SUFFICES ASSUME NEW k \in Requests
                   PROVE  RequestOK(req[k])'
        BY DEF RequestsOK, RequestOK
      <4>1. \A c \in Bookings : bookings[c].status # "NONE" => bookings'[c] = bookings[c]
        BY <3>1, <3>7 DEF Exists
      <4>2. CASE k = r
        <5>1. req'[k] = q /\ bookings'[b] = row
          BY <1>0, <3>5, <3>7, <4>2 DEF TypeOK
        <5>2. req[r] \in Request
          BY RequestOf
        <5>3. CASE CreateRequest(req[r])
          <6>1. CreateRequest(req[k])'
            BY <3>7, <5>1, <5>2, <5>3 DEF CreateRequest, Request
          <6>2. QED
            BY <6>1 DEF RequestOK
        <5>4. CASE RescheduleRequest(req[r])
          <6>1. bookings'[req[r].booking] = bookings[req[r].booking]
            BY <4>1, <5>4 DEF RescheduleRequest
          <6>2. RescheduleRequest(req[k])'
            BY <3>7, <5>1, <5>2, <5>4, <6>1 DEF RescheduleRequest, Request, Pcs
          <6>3. QED
            BY <6>2 DEF RequestOK
        <5>5. QED
          BY <2>3, <5>3, <5>4
      <4>3. CASE k # r
        <5>1. req'[k] = req[k] /\ req[k] \in Request /\ RequestOK(req[k])
          BY <1>0, <3>5, <4>3 DEF TypeOK
        <5>2. QED
          BY <4>1, <5>1 DEF RequestOK, Idle, CreateRequest, RescheduleRequest,
                 StatusRequest, Request
      <4>4. QED
        BY <4>2, <4>3
    <3>10. QED
      BY <1>0, <1>8, <3>6, <3>8, <3>9 DEF InsertBooking, IInv, TypeOK
  <2>4. QED
    BY <2>1, <2>2
<1>10. CASE RecordCreation(r)
  <2>1. RequestsOK' /\ SlotsUnique' /\ req' \in [Requests -> Request]
    BY <1>10, FinishOK DEF RecordCreation
  <2>2. req[r].made \in Bookings
    BY <1>10 DEF RecordCreation, RequestOK, Idle, CreateRequest, RescheduleRequest, StatusRequest
  <2>3. history' \in [Bookings -> Seq(HistoryRow)]
    <3> DEFINE row == [from |-> "NONE", to |-> "REQUESTED"]
    <3>1. row \in HistoryRow
      BY DEF HistoryRow, Status, Active
    <3>2. Append(history[req[r].made], row) \in Seq(HistoryRow)
      BY <1>0, <2>2, <3>1 DEF TypeOK
    <3>3. history' = [history EXCEPT ![req[r].made] = Append(@, row)]
      BY <1>10 DEF RecordCreation
    <3>4. QED
      BY <1>0, <3>2, <3>3 DEF TypeOK
  <2>4. QED
    BY <1>0, <1>10, <2>1, <2>3 DEF RecordCreation, IInv, TypeOK
<1>11. CASE WriteAuditLog(r)
  <2>1. RequestsOK' /\ SlotsUnique' /\ req' \in [Requests -> Request]
    BY <1>11, FinishOK DEF WriteAuditLog
  <2>2. req[r].booking \in Bookings
    BY <1>11 DEF WriteAuditLog, RequestOK, Idle, CreateRequest, RescheduleRequest, StatusRequest
  <2>3. QED
    BY <1>0, <1>11, <2>1, <2>2 DEF WriteAuditLog, IInv, TypeOK
<1>12. QED
  BY <1>1, <1>2, <1>3, <1>4, <1>5, <1>6, <1>7, <1>8, <1>10, <1>11 DEF Statement

\* However requests interleave, each only moves from one well-formed statement to
\* the next, the row it read keeps its slot, and no slot has two bookings.
THEOREM InductiveInvariant == Spec => []IInv
<1>1. IInv /\ [Next]_vars => IInv'
  <2> SUFFICES ASSUME IInv, [Next]_vars
               PROVE  IInv'
    OBVIOUS
  <2>1. CASE Tick
    BY <2>1, BoundAssumption DEF Tick, tables, IInv, TypeOK, RequestsOK, SlotsUnique,
       CreateRequest, RescheduleRequest, StatusRequest, ReadRow, InsertedRow
  <2>2. ASSUME NEW r \in Requests, Abandon(r)
        PROVE  IInv'
    <3>1. RequestsOK' /\ SlotsUnique' /\ req' \in [Requests -> Request]
      BY <2>2, FinishOK DEF Abandon, tables
    <3>2. torn' \subseteq Slots
      BY <2>2 DEF Abandon, Working, IInv, TypeOK, Request
    <3>3. QED
      BY <2>2, <3>1, <3>2 DEF Abandon, tables, IInv, TypeOK
  <2>3. CASE UNCHANGED vars
    BY <2>3 DEF vars, IInv, TypeOK, RequestsOK, SlotsUnique,
       CreateRequest, RescheduleRequest, StatusRequest, ReadRow, InsertedRow
  <2>4. QED
    BY <2>1, <2>2, <2>3, ArriveIInv, StatementIInv DEF Next
<1>2. QED
  BY InitIInv, <1>1, PTL DEF Spec

\* Type correctness: no statement writes a value its column does not hold, and no
\* request dereferences a booking or a slot it has not read.
THEOREM TypeCorrect == Spec => []TypeOK
<1>1. IInv => TypeOK
  BY DEF IInv
<1>2. QED
  BY <1>1, InductiveInvariant, PTL

-----------------------------------------------------------------------------
(* The lifecycle *)

\* Two requests at work on one slot have met on it.
MeetingsNoted ==
  \A r, q \in Requests :
    r # q => \A s \in Working(r) \cap Working(q) : {s} \in met

\* Before it writes the status a request still knows it, or it met another one
\* on the slot of its booking; and what it read permits what it writes.
Deciding == {"newSlot", "overlap", "release", "reserve", "book", "status"}

SeenIsCurrent ==
  \A r \in Requests :
    req[r].booking # NULL /\ req[r].pc \in Deciding =>
      /\ Lifecycle!MayBecome(req[r].seen, Target[req[r].op])
      /\ \/ {req[r].held} \in met
         \/ bookings[req[r].booking].status = req[r].seen

LInv == MeetingsNoted /\ SeenIsCurrent

\* Initially no request is in flight, so none can have met another.
LEMMA InitLInv == Init => LInv
  BY DEF Init, LInv, MeetingsNoted, SeenIsCurrent, Working, Idle

\* A slot overlaps itself: it ends after it starts.
LEMMA NearItself == \A s \in Slots : Near(s, s)
  BY SlotAssumption DEF Near, RangesOverlap

\* An arrival is noted in met, and what it read is what the row says.
LEMMA BeginLInv ==
  ASSUME IInv, LInv, NEW r \in Requests, NEW q \in Request, NEW mine \in SUBSET Slots,
         Begin(r, q, mine), {q.held, q.slot} \ {NULL} \subseteq mine,
         q.booking # NULL =>
           /\ Lifecycle!MayBecome(q.seen, Target[q.op])
           /\ bookings[q.booking].status = q.seen
  PROVE  LInv'
<1> USE NullAssumption DEF IInv, TypeOK
<1>1. /\ req' = [req EXCEPT ![r] = q]
      /\ bookings' = bookings
      /\ met \subseteq met'
      /\ ~InFlight(r)
  BY DEF Begin, tables
<1>2. req'[r] = q /\ \A k \in Requests \ {r} : req'[k] = req[k]
  BY <1>1
<1>3. ASSUME NEW k \in Requests, NEW s \in mine \cap Working(k)
      PROVE  {s} \in met'
  <2>1. {s} \in {{u, v} : u \in mine, v \in UNION {Working(j) : j \in Requests}}
    BY <1>3
  <2>2. \A u, v \in {s} : Near(u, v)
    BY <1>3, NearItself
  <2>3. QED
    BY <2>1, <2>2 DEF Begin
<1>4. MeetingsNoted'
  <2> SUFFICES ASSUME NEW j \in Requests, NEW k \in Requests, j # k,
                      NEW s \in Working(j)' \cap Working(k)'
               PROVE  {s} \in met'
    BY DEF MeetingsNoted
  <2>1. CASE j = r
    BY <1>2, <1>3, <2>1 DEF Working
  <2>2. CASE k = r
    BY <1>2, <1>3, <2>2 DEF Working
  <2>3. CASE j # r /\ k # r
    BY <1>1, <1>2, <2>3 DEF Working, LInv, MeetingsNoted
  <2>4. QED
    BY <2>1, <2>2, <2>3
<1>5. SeenIsCurrent'
  BY <1>1, <1>2 DEF LInv, SeenIsCurrent, Lifecycle!MayBecome
<1>6. QED
  BY <1>4, <1>5 DEF LInv

\* A booking on which a request may begin exists.
LEMMA RowRead ==
  ASSUME IInv, NEW b \in Bookings, bookings[b].status \in Status
  PROVE  bookings[b] \in BookingRow
  BY DEF IInv, TypeOK, NoBooking, Status, Active, Closed

\* The lifecycle uses the rules of the code.
LEMMA SameRules ==
  ASSUME NEW current, NEW next
  PROVE  Lifecycle!MayBecome(current, next) <=>
           \/ IsAllowedTransition(current, next)
           \/ next = "CANCELLED_BY_ADMIN" /\ current \in AdminCancellableStatuses
  BY DEF Lifecycle!MayBecome, Lifecycle!IsAllowedTransition, IsAllowedTransition,
         Lifecycle!AllowedTransitions, AllowedTransitions,
         Lifecycle!AdminCancellableStatuses, AdminCancellableStatuses

\* Every use case starts only where the rules permit the status it will write.
LEMMA ArriveLInv ==
  ASSUME IInv, LInv, NEW r \in Requests, Arrive(r)
  PROVE  LInv'
<1>1. ASSUME NEW p \in Parents, NEW s \in Slots, CreateBooking(r, p, s)
      PROVE  LInv'
  <2> DEFINE q == [Idle EXCEPT !.pc = "overlap", !.parent = p, !.slot = s]
  <2>1. q \in Request
    BY DEF Request, Idle, Pcs, Ops
  <2>2. Begin(r, q, {s})
    BY <1>1 DEF CreateBooking
  <2>3. q.booking = NULL /\ {q.held, q.slot} \ {NULL} \subseteq {s}
    BY DEF Idle
  <2> HIDE DEF q
  <2>4. QED
    BY <2>1, <2>2, <2>3, BeginLInv
<1>2. ASSUME NEW op \in Ops \ {"create", "reschedule"}, NEW b \in Bookings,
             NEW pc \in {"release", "book", "status"}, BeginOn(r, op, b, pc),
             bookings[b].status \in Status,
             Lifecycle!MayBecome(bookings[b].status, Target[op])
      PROVE  LInv'
  <2> DEFINE q == [Idle EXCEPT !.pc = pc, !.op = op, !.parent = bookings[b].parent,
                               !.booking = b, !.held = bookings[b].slot,
                               !.seen = bookings[b].status]
  <2>1. bookings[b] \in BookingRow
    BY <1>2, RowRead
  <2>2. q \in Request
    BY <1>2, <2>1 DEF Request, Idle, Pcs, Ops, BookingRow
  <2>3. Begin(r, q, {bookings[b].slot}) /\ {bookings[b].slot} \in SUBSET Slots
    BY <1>2, <2>1 DEF BeginOn, BookingRow
  <2>4. /\ {q.held, q.slot} \ {NULL} \subseteq {bookings[b].slot}
        /\ q.seen = bookings[b].status /\ q.booking = b /\ q.op = op
    BY DEF Idle
  <2> HIDE DEF q
  <2>5. QED
    BY <1>2, <2>2, <2>3, <2>4, BeginLInv
<1>3. ASSUME NEW b \in Bookings, NEW s \in Slots, RescheduleBooking(r, b, s)
      PROVE  LInv'
  <2> DEFINE q == [Idle EXCEPT !.pc = "newSlot", !.op = "reschedule",
                               !.parent = bookings[b].parent, !.booking = b,
                               !.held = bookings[b].slot,
                               !.seen = bookings[b].status, !.slot = s]
  <2>1. bookings[b].status = "ACCEPTED"
    BY <1>3 DEF RescheduleBooking, IsAllowedTransition, AllowedTransitions
  <2>2. bookings[b] \in BookingRow
    BY <2>1, RowRead DEF Status, Active
  <2>3. q \in Request
    BY <2>2 DEF Request, Idle, Pcs, Ops, BookingRow
  <2>4. Begin(r, q, {bookings[b].slot, s}) /\ {bookings[b].slot, s} \in SUBSET Slots
    BY <1>3, <2>2 DEF RescheduleBooking, BookingRow
  <2>5. /\ {q.held, q.slot} \ {NULL} \subseteq {bookings[b].slot, s}
        /\ q.seen = bookings[b].status /\ q.booking = b /\ q.op = "reschedule"
    BY DEF Idle
  <2>6. Lifecycle!MayBecome(bookings[b].status, Target["reschedule"])
    BY <1>3, SameRules DEF RescheduleBooking, Target
  <2> HIDE DEF q
  <2>7. QED
    BY <2>3, <2>4, <2>5, <2>6, BeginLInv
<1> USE SameRules DEF Target, Ops, Status, Active, Closed, IsAllowedTransition,
        AllowedTransitions
<1>4. ASSUME NEW b \in Bookings, AcceptBooking(r, b)
      PROVE  LInv'
  BY <1>2, <1>4 DEF AcceptBooking
<1>5. ASSUME NEW b \in Bookings, RejectBooking(r, b)
      PROVE  LInv'
  BY <1>2, <1>5 DEF RejectBooking
<1>6. ASSUME NEW b \in Bookings, NEW op \in {"cancelByParent", "cancelByTutor"},
             CancelBooking(r, op, b)
      PROVE  LInv'
  BY <1>2, <1>6 DEF CancelBooking, CancellableStatuses
<1>7. ASSUME NEW b \in Bookings, AdminCancelBooking(r, b)
      PROVE  LInv'
  <2>1. bookings[b].status \in Status
    BY <1>7 DEF AdminCancelBooking, AdminCancellableStatuses, IInv, TypeOK,
                BookingRow, NoBooking
  <2>2. Lifecycle!MayBecome(bookings[b].status, Target["cancelByAdmin"])
    BY <1>7 DEF AdminCancelBooking
  <2>3. QED
    BY <1>2, <1>7, <2>1, <2>2 DEF AdminCancelBooking
<1>8. ASSUME NEW b \in Bookings, CompleteBooking(r, b)
      PROVE  LInv'
  BY <1>2, <1>8 DEF CompleteBooking
<1>9. QED
  BY <1>1, <1>3, <1>4, <1>5, <1>6, <1>7, <1>8 DEF Arrive

\* A request that decides nothing new keeps what the invariant says of it.
LEMMA MoveLInv ==
  ASSUME IInv, LInv, NEW r \in Requests, NEW q \in Request,
         req' = [req EXCEPT ![r] = q], met' = met,
         {q.held, q.slot} \subseteq {req[r].held, req[r].slot, NULL},
         q.booking # NULL /\ q.pc \in Deciding =>
           /\ req[r].pc \in Deciding
           /\ q.booking = req[r].booking /\ q.held = req[r].held
           /\ q.seen = req[r].seen /\ q.op = req[r].op,
         \A k \in Requests :
           req'[k].booking # NULL /\ req'[k].pc \in Deciding =>
             \/ {req[k].held} \in met
             \/ bookings'[req[k].booking].status = bookings[req[k].booking].status
  PROVE  LInv'
<1> USE DEF IInv, TypeOK
<1>1. req'[r] = q /\ \A k \in Requests \ {r} : req'[k] = req[k]
  OBVIOUS
<1>2. MeetingsNoted'
  <2>1. \A k \in Requests : Working(k)' \subseteq Working(k)
    BY <1>1 DEF Working
  <2>2. QED
    BY <2>1 DEF LInv, MeetingsNoted
<1>3. SeenIsCurrent'
  <2> SUFFICES ASSUME NEW k \in Requests,
                      req'[k].booking # NULL, req'[k].pc \in Deciding
               PROVE  /\ Lifecycle!MayBecome(req'[k].seen, Target[req'[k].op])
                      /\ \/ {req'[k].held} \in met'
                         \/ bookings'[req'[k].booking].status = req'[k].seen
    BY DEF SeenIsCurrent, Lifecycle!MayBecome
  <2>1. /\ req[k].pc \in Deciding
        /\ req'[k].booking = req[k].booking /\ req'[k].held = req[k].held
        /\ req'[k].seen = req[k].seen /\ req'[k].op = req[k].op
    BY <1>1
  <2>2. /\ Lifecycle!MayBecome(req[k].seen, Target[req[k].op])
        /\ \/ {req[k].held} \in met
           \/ bookings[req[k].booking].status = req[k].seen
    BY <2>1 DEF LInv, SeenIsCurrent
  <2>3. QED
    BY <2>1, <2>2
<1>4. QED
  BY <1>2, <1>3 DEF LInv

\* A request that goes on decides nothing new.
LEMMA GotoLInv ==
  ASSUME IInv, LInv, NEW r \in Requests, NEW pc \in Pcs, Goto(r, pc),
         pc \in Deciding => req[r].pc \in Deciding,
         bookings' = bookings, met' = met
  PROVE  LInv'
<1> DEFINE q == [req[r] EXCEPT !.pc = pc]
<1>1. /\ q \in Request
      /\ q.pc = pc /\ q.booking = req[r].booking /\ q.held = req[r].held
      /\ q.seen = req[r].seen /\ q.op = req[r].op /\ q.slot = req[r].slot
  BY RequestOf DEF Request
<1>2. req' = [req EXCEPT ![r] = q]
  BY DEF Goto, IInv, TypeOK
<1> HIDE DEF q
<1>3. QED
  BY <1>1, <1>2, MoveLInv

\* The same for a request that ends.
LEMMA FinishLInv ==
  ASSUME IInv, LInv, NEW r \in Requests, Finish(r), bookings' = bookings, met' = met
  PROVE  LInv'
<1>1. Idle \in Request /\ Idle.booking = NULL /\ Idle.held = NULL /\ Idle.slot = NULL
  BY RequestOf DEF Idle
<1>2. req' = [req EXCEPT ![r] = Idle]
  BY DEF Finish
<1>3. QED
  BY <1>1, <1>2, MoveLInv

\* A request on a booking holds the booking's slot.
LEMMA HoldsItsSlot ==
  ASSUME IInv, NEW r \in Requests, req[r].booking # NULL
  PROVE  /\ req[r].booking \in Bookings
         /\ bookings[req[r].booking].status # "NONE"
         /\ bookings[req[r].booking].slot = req[r].held
         /\ req[r].held \in Slots /\ req[r].held \in Working(r)
<1>1. RescheduleRequest(req[r]) \/ StatusRequest(req[r])
  BY DEF IInv, RequestsOK, Idle, CreateRequest
<1>2. ReadRow(req[r])
  BY <1>1 DEF RescheduleRequest, StatusRequest
<1>3. QED
  BY <1>2, NullAssumption DEF ReadRow, Working

\* The one statement that changes a status a request may have read is UpdateStatus,
\* and then the two requests have met.
LEMMA StatementLInv ==
  ASSUME IInv, LInv, NEW r \in Requests, Statement(r)
  PROVE  LInv'
<1>1. CASE FindNewSlot(r)
  BY <1>1, GotoLInv, FinishLInv DEF FindNewSlot, tables, Pcs, Deciding
<1>2. CASE CheckOverlap(r)
  BY <1>2, GotoLInv, FinishLInv DEF CheckOverlap, tables, Pcs, Deciding
<1>3. CASE ReleaseSlot(r)
  BY <1>3, GotoLInv DEF ReleaseSlot, Pcs, Deciding
<1>4. CASE ReserveSlot(r)
  BY <1>4, GotoLInv DEF ReserveSlot, Pcs, Deciding
<1>5. CASE MarkAsBooked(r)
  BY <1>5, GotoLInv DEF MarkAsBooked, Pcs, Deciding
<1>6. CASE UpdateStatus(r)
  <2> DEFINE q == [req[r] EXCEPT !.pc = "history"]
  <2>1. q \in Request /\ q.pc \notin Deciding /\ q.held = req[r].held /\ q.slot = req[r].slot
    BY RequestOf DEF Request, Pcs, Deciding
  <2>2. req' = [req EXCEPT ![r] = q] /\ met' = met
    BY <1>6 DEF UpdateStatus, Goto, IInv, TypeOK
  <2>3. req[r].booking # NULL
    <3>1. req[r].pc = "status"
      BY <1>6 DEF UpdateStatus
    <3>2. QED
      BY <3>1, NullAssumption DEF IInv, RequestsOK, Idle, CreateRequest,
         RescheduleRequest, StatusRequest, ReadRow
  <2>4. ASSUME NEW k \in Requests, req'[k].booking # NULL, req'[k].pc \in Deciding
        PROVE  \/ {req[k].held} \in met
               \/ bookings'[req[k].booking].status = bookings[req[k].booking].status
    <3>1. k # r /\ req'[k] = req[k]
      BY <2>1, <2>2, <2>4 DEF IInv, TypeOK
    <3>2. CASE req[k].booking = req[r].booking
      <4>1. req[k].held = req[r].held /\ req[k].held \in Working(k) \cap Working(r)
        BY <2>3, <3>2, HoldsItsSlot
      <4>2. QED
        BY <3>1, <4>1 DEF LInv, MeetingsNoted
    <3>3. CASE req[k].booking # req[r].booking
      BY <1>6, <2>4, <3>1, <3>3, HoldsItsSlot DEF UpdateStatus, IInv, TypeOK
    <3>4. QED
      BY <3>2, <3>3
  <2> HIDE DEF q
  <2>5. QED
    BY <2>1, <2>2, <2>4, MoveLInv
<1>7. CASE AddStatusHistory(r)
  <2>1. \/ Goto(r, "insert") \/ Goto(r, "audit") \/ Finish(r)
    BY <1>7 DEF AddStatusHistory
  <2>2. QED
    BY <1>7, <2>1, GotoLInv, FinishLInv DEF AddStatusHistory, Pcs, Deciding
<1>8. CASE InsertBooking(r)
  <2>1. CASE SlotTaken(req[r].slot)
    BY <1>8, <2>1, FinishLInv DEF InsertBooking
  <2>2. CASE ~SlotTaken(req[r].slot)
    <3>1. PICK b \in Bookings :
            /\ ~Exists(b)
            /\ \E row : bookings' = [bookings EXCEPT ![b] = row]
            /\ req' = [req EXCEPT ![r] = [@ EXCEPT !.pc = "created", !.made = b]]
      BY <1>8, <2>2 DEF InsertBooking
    <3> DEFINE q == [req[r] EXCEPT !.pc = "created", !.made = b]
    <3>2. q \in Request /\ q.pc \notin Deciding /\ q.held = req[r].held /\ q.slot = req[r].slot
      BY RequestOf DEF Request, Pcs, Deciding
    <3>3. req' = [req EXCEPT ![r] = q] /\ met' = met
      BY <1>8, <3>1 DEF InsertBooking, IInv, TypeOK
    <3>4. ASSUME NEW k \in Requests, req'[k].booking # NULL, req'[k].pc \in Deciding
          PROVE  bookings'[req[k].booking].status = bookings[req[k].booking].status
      <4>1. k # r /\ req'[k] = req[k]
        BY <3>2, <3>3, <3>4 DEF IInv, TypeOK
      <4>2. req[k].booking # b /\ req[k].booking \in Bookings
        BY <3>1, <3>4, <4>1, HoldsItsSlot DEF Exists
      <4>3. QED
        BY <3>1, <4>2 DEF IInv, TypeOK
    <3> HIDE DEF q
    <3>5. QED
      BY <3>2, <3>3, <3>4, MoveLInv
  <2>3. QED
    BY <2>1, <2>2
<1>9. CASE RecordCreation(r)
  BY <1>9, FinishLInv DEF RecordCreation
<1>10. CASE WriteAuditLog(r)
  BY <1>10, FinishLInv DEF WriteAuditLog
<1>11. QED
  BY <1>1, <1>2, <1>3, <1>4, <1>5, <1>6, <1>7, <1>8, <1>9, <1>10 DEF Statement

\* What a request read stays true until it writes, unless it met another one.
LEMMA LifecycleInvariant == Spec => []LInv
<1>1. IInv /\ LInv /\ [Next]_vars => LInv'
  <2> SUFFICES ASSUME IInv, LInv, [Next]_vars
               PROVE  LInv'
    OBVIOUS
  <2>1. ASSUME NEW r \in Requests, Abandon(r)
        PROVE  LInv'
    BY <2>1, FinishLInv DEF Abandon, tables
  <2>2. CASE Tick \/ UNCHANGED vars
    BY <2>2 DEF Tick, tables, vars, LInv, MeetingsNoted, SeenIsCurrent, Working,
                Lifecycle!MayBecome
  <2>3. QED
    BY <2>1, <2>2, ArriveLInv, StatementLInv DEF Next
<1>2. QED
  BY InitLInv, InductiveInvariant, <1>1, PTL DEF Spec

Disturbed == {s \in Slots : {s} \in met}

\* No slot has a booking initially.
LEMMA InitLifecycle == Init => Lifecycle!Init
  BY NullAssumption DEF Init, Lifecycle!Init, Phase, SlotTaken, NoBooking

\* Statements other than the two that write bookings.
LEMMA StutterLifecycle ==
  ASSUME bookings' = bookings, met \subseteq met'
  PROVE  [Lifecycle!Next]_<<Phase, Disturbed>>
<1>1. Phase' = Phase
  BY DEF Phase, SlotTaken, BookingOf
<1>2. Disturbed' = Disturbed \union Disturbed' /\ Disturbed' \in SUBSET Slots
  BY DEF Disturbed
<1>3. \E more \in SUBSET Slots : Lifecycle!Disturb(more)
  BY <1>1, <1>2 DEF Lifecycle!Disturb, Disturbed
<1>4. QED
  BY <1>3 DEF Lifecycle!Next

\* Writing a status is a permitted change, or overwrites on a disturbed slot.
LEMMA UpdateLifecycle ==
  ASSUME IInv, LInv, NEW r \in Requests, UpdateStatus(r)
  PROVE  Lifecycle!Next
<1>1. PICK b \in Bookings, s \in Slots, target \in Status \ {"REQUESTED"} :
        /\ b = req[r].booking /\ s = req[r].held /\ target = Target[req[r].op]
        /\ bookings[b].slot = s
        /\ bookings[b].status # "NONE"
        /\ req[r].op \in Ops \ {"create"}
  <2>1. RescheduleRequest(req[r]) \/ StatusRequest(req[r])
    BY DEF UpdateStatus, IInv, RequestsOK, Idle, CreateRequest
  <2>2. Target[req[r].op] \in Status \ {"REQUESTED"}
    BY <2>1, TargetStatus DEF RescheduleRequest, StatusRequest, Ops
  <2>3. QED
    BY <2>1, <2>2 DEF RescheduleRequest, StatusRequest, ReadRow, Ops
<1>2. target \in Status \ {"REQUESTED"}
  BY <1>1
<1>3. /\ bookings'[b].status = target
      /\ \A c \in Bookings : bookings'[c].slot = bookings[c].slot
      /\ \A c \in Bookings \ {b} : bookings'[c] = bookings[c]
      /\ met' = met
  <2>1. bookings[b] \in BookingRow
    BY <1>1, RowRead DEF IInv, TypeOK, NoBooking
  <2>2. QED
    BY <1>1, <2>1 DEF UpdateStatus, IInv, TypeOK, BookingRow
<1>4. \A c, d \in Bookings : bookings[c].slot \in Slots /\ bookings[c].slot = bookings[d].slot => c = d
  BY DEF IInv, SlotsUnique
<1>5. SlotTaken(s) /\ \A t \in Slots : SlotTaken(t)' <=> SlotTaken(t)
  BY <1>1, <1>3 DEF SlotTaken
<1>6. BookingOf(s) = b /\ BookingOf(s)' = b
  BY <1>1, <1>3, <1>4 DEF BookingOf
<1>7. Phase[s] = bookings[b].status /\ Phase'[s] = target
  BY <1>1, <1>3, <1>5, <1>6 DEF Phase
<1>8. ASSUME NEW t \in Slots \ {s}
      PROVE  Phase'[t] = Phase[t]
  <2>1. CASE SlotTaken(t)
    <3>1. PICK c \in Bookings : bookings[c].slot = t
      BY <2>1 DEF SlotTaken
    <3>2. BookingOf(t) = c /\ BookingOf(t)' = c
      BY <1>3, <1>4, <3>1 DEF BookingOf
    <3>3. c # b
      BY <1>1, <3>1
    <3>4. QED
      BY <1>3, <1>5, <2>1, <3>2, <3>3 DEF Phase
  <2>2. CASE ~SlotTaken(t)
    BY <1>5, <2>2 DEF Phase
  <2>3. QED
    BY <2>1, <2>2
<1>9. Phase' = [Phase EXCEPT ![s] = target]
  BY <1>1, <1>7, <1>8 DEF Phase
<1>10. CASE {s} \in met
  <2>1. Lifecycle!Overwrite(s, target)
    BY <1>1, <1>3, <1>7, <1>9, <1>10 DEF Lifecycle!Overwrite
  <2>2. QED
    BY <1>1, <1>2, <2>1 DEF Lifecycle!Next, Status, Active, Closed, Lifecycle!Status,
       Lifecycle!Active, Lifecycle!Closed
<1>11. CASE {s} \notin met
  <2>1. Lifecycle!MayBecome(bookings[b].status, target)
    BY <1>1, <1>11, NullAssumption DEF LInv, SeenIsCurrent, UpdateStatus, Deciding
  <2>2. Lifecycle!Change(s, target)
    BY <1>1, <1>3, <1>7, <1>9, <1>11, <2>1 DEF Lifecycle!Change
  <2>3. QED
    BY <1>1, <1>2, <2>2 DEF Lifecycle!Next, Status, Active, Closed, Lifecycle!Status,
       Lifecycle!Active, Lifecycle!Closed
<1>12. QED
  BY <1>10, <1>11

\* Inserting a booking requests the slot for the first time.
LEMMA InsertLifecycle ==
  ASSUME IInv, NEW r \in Requests, InsertBooking(r), ~SlotTaken(req[r].slot)
  PROVE  Lifecycle!Next
<1>1. PICK s \in Slots : s = req[r].slot
  <2>1. CreateRequest(req[r]) \/ RescheduleRequest(req[r])
    <3>1. req[r].pc = "insert"
      BY DEF InsertBooking
    <3>2. req[r] # Idle /\ ~StatusRequest(req[r])
      BY <3>1 DEF Idle, StatusRequest
    <3>3. QED
      BY <3>2 DEF IInv, RequestsOK
  <2>2. QED
    BY <2>1 DEF CreateRequest, RescheduleRequest
<1>2. PICK b \in Bookings :
        /\ ~Exists(b)
        /\ bookings' = [bookings EXCEPT ![b] =
             [status |-> "REQUESTED", slot |-> req[r].slot,
              parent |-> req[r].parent, from |-> req[r].booking]]
  BY DEF InsertBooking
<1>3. /\ bookings'[b].status = "REQUESTED" /\ bookings'[b].slot = s
      /\ \A c \in Bookings \ {b} : bookings'[c] = bookings[c]
      /\ met' = met
      /\ ~SlotTaken(s)
  BY <1>1, <1>2 DEF InsertBooking, IInv, TypeOK
<1>4. bookings[b].slot = NULL
  <2>1. bookings[b] \in BookingRow \union {NoBooking}
    BY DEF IInv, TypeOK
  <2>2. bookings[b] \notin BookingRow
    BY <1>2 DEF Exists, BookingRow, Status, Active, Closed
  <2>3. QED
    BY <2>1, <2>2 DEF NoBooking
<1>5. \A c, d \in Bookings : bookings[c].slot \in Slots /\ bookings[c].slot = bookings[d].slot => c = d
  BY DEF IInv, SlotsUnique
<1>6. SlotTaken(s)' /\ \A t \in Slots \ {s} : SlotTaken(t)' <=> SlotTaken(t)
  BY <1>3, <1>4, NullAssumption DEF SlotTaken
<1>7. BookingOf(s)' = b
  BY <1>3 DEF BookingOf, SlotTaken
<1>8. Phase[s] = "NONE" /\ Phase'[s] = "REQUESTED"
  BY <1>1, <1>3, <1>6, <1>7 DEF Phase
<1>9. ASSUME NEW t \in Slots \ {s}
      PROVE  Phase'[t] = Phase[t]
  <2>1. CASE SlotTaken(t)
    <3>1. PICK c \in Bookings : bookings[c].slot = t
      BY <2>1 DEF SlotTaken
    <3>2. c # b
      BY <1>4, <3>1, NullAssumption
    <3>3. \A d \in Bookings : bookings'[d].slot = t => d = c
      BY <1>3, <1>5, <3>1
    <3>4. BookingOf(t) = c /\ BookingOf(t)' = c
      BY <1>3, <1>5, <3>1, <3>2, <3>3 DEF BookingOf
    <3>5. QED
      BY <1>3, <1>6, <2>1, <3>2, <3>4 DEF Phase
  <2>2. CASE ~SlotTaken(t)
    BY <1>6, <2>2 DEF Phase
  <2>3. QED
    BY <2>1, <2>2
<1>10. Lifecycle!Request(s)
  <2>1. Phase' = [Phase EXCEPT ![s] = "REQUESTED"]
    BY <1>1, <1>8, <1>9 DEF Phase
  <2>2. QED
    BY <1>3, <1>8, <2>1 DEF Lifecycle!Request
<1>11. QED
  BY <1>1, <1>10 DEF Lifecycle!Next

\* However requests interleave and wherever they are abandoned, the booking of
\* a slot follows the transition table, one atomic step at a time, until two
\* requests have worked on the slot at once; and even then it stays the one
\* booking of its slot and is never requested anew.
THEOREM ImplementsLifecycle == Spec => RefinesLifecycle
<1>1. IInv /\ LInv /\ [Next]_vars => [Lifecycle!Next]_<<Phase, Disturbed>>
  <2> SUFFICES ASSUME IInv, LInv, [Next]_vars
               PROVE  [Lifecycle!Next]_<<Phase, Disturbed>>
    OBVIOUS
  <2>1. ASSUME NEW r \in Requests, Arrive(r)
        PROVE  bookings' = bookings /\ met \subseteq met'
    <3>1. \A q, mine : Begin(r, q, mine) => bookings' = bookings /\ met \subseteq met'
      BY DEF Begin, tables
    <3>2. \A op, b, pc : BeginOn(r, op, b, pc) => bookings' = bookings /\ met \subseteq met'
      BY <3>1 DEF BeginOn
    <3>3. \A p, s : CreateBooking(r, p, s) => bookings' = bookings /\ met \subseteq met'
      BY <3>1 DEF CreateBooking
    <3>4. \A b, s : RescheduleBooking(r, b, s) => bookings' = bookings /\ met \subseteq met'
      BY <3>1 DEF RescheduleBooking
    <3>5. QED
      BY <2>1, <3>2, <3>3, <3>4 DEF Arrive, AcceptBooking, RejectBooking, CancelBooking,
         AdminCancelBooking, CompleteBooking
  <2>2. ASSUME NEW r \in Requests, Statement(r)
        PROVE  \/ bookings' = bookings /\ met \subseteq met'
               \/ UpdateStatus(r)
               \/ InsertBooking(r) /\ ~SlotTaken(req[r].slot)
    BY <2>2 DEF Statement, FindNewSlot, CheckOverlap, ReleaseSlot, ReserveSlot,
       MarkAsBooked, AddStatusHistory, InsertBooking, RecordCreation, WriteAuditLog, tables
  <2>3. CASE Tick \/ (\E r \in Requests : Abandon(r)) \/ UNCHANGED vars
    <3>1. bookings' = bookings /\ met \subseteq met'
      BY <2>3 DEF Tick, Abandon, tables, vars
    <3>2. QED
      BY <3>1, StutterLifecycle
  <2>4. QED
    BY <2>1, <2>2, <2>3, StutterLifecycle, UpdateLifecycle, InsertLifecycle DEF Next
<1>2. QED
  BY InitLifecycle, InductiveInvariant, LifecycleInvariant, <1>1, PTL
     DEF Spec, RefinesLifecycle, Lifecycle!Spec, Disturbed

-----------------------------------------------------------------------------
(* Overlapping bookings *)

\* What a request has read when it arrives, and where it begins.
Arrival(q) ==
  /\ q.made = NULL
  /\ \/ /\ q.op = "create" /\ q.pc = "overlap"
        /\ q.booking = NULL /\ q.held = NULL /\ q.slot \in Slots /\ q.parent \in Parents
        /\ IsAvailable(q.slot)
     \/ /\ q.booking \in Bookings /\ q.seen \in Status
        /\ bookings[q.booking].status = q.seen
        /\ bookings[q.booking].slot = q.held /\ q.held \in Slots
        /\ bookings[q.booking].parent = q.parent
        /\ \/ q.op = "reschedule" /\ q.pc = "newSlot" /\ q.seen = "ACCEPTED" /\ q.slot \in Slots
           \/ /\ q.slot = NULL
              /\ \/ q.op = "accept" /\ q.pc = "book" /\ q.seen = "REQUESTED"
                 \/ q.op = "reject" /\ q.pc = "release" /\ q.seen = "REQUESTED"
                 \/ q.op = "complete" /\ q.pc = "status" /\ q.seen = "ACCEPTED"
                 \/ /\ q.op \in {"cancelByParent", "cancelByTutor", "cancelByAdmin"}
                    /\ q.pc = "release" /\ q.seen \in Active

\* The slots a request works on from its arrival.
Claimed(q) == {q.held, q.slot} \ {NULL}

LEMMA ArriveBegins ==
  ASSUME IInv, NEW r \in Requests, Arrive(r)
  PROVE  \E q \in Request : Arrival(q) /\ Begin(r, q, Claimed(q)) /\ Claimed(q) \subseteq Slots
<1>1. ASSUME NEW p \in Parents, NEW s \in Slots, CreateBooking(r, p, s)
      PROVE  \E q \in Request : Arrival(q) /\ Begin(r, q, Claimed(q)) /\ Claimed(q) \subseteq Slots
  <2> DEFINE q == [Idle EXCEPT !.pc = "overlap", !.parent = p, !.slot = s]
  <2>1. q \in Request
    BY DEF Request, Idle, Pcs, Ops
  <2>2. Arrival(q)
    BY <1>1 DEF Arrival, Idle, CreateBooking
  <2>3. Claimed(q) = {s}
    BY NullAssumption DEF Claimed, Idle
  <2>4. Begin(r, q, {s})
    BY <1>1 DEF CreateBooking
  <2> HIDE DEF q
  <2>5. QED
    BY <2>1, <2>2, <2>3, <2>4
<1>2. ASSUME NEW op \in Ops \ {"create", "reschedule"}, NEW b \in Bookings,
             NEW pc \in {"release", "book", "status"}, BeginOn(r, op, b, pc),
             bookings[b].status \in Status,
             \/ op = "accept" /\ pc = "book" /\ bookings[b].status = "REQUESTED"
             \/ op = "reject" /\ pc = "release" /\ bookings[b].status = "REQUESTED"
             \/ op = "complete" /\ pc = "status" /\ bookings[b].status = "ACCEPTED"
             \/ /\ op \in {"cancelByParent", "cancelByTutor", "cancelByAdmin"}
                /\ pc = "release" /\ bookings[b].status \in Active
      PROVE  \E q \in Request : Arrival(q) /\ Begin(r, q, Claimed(q)) /\ Claimed(q) \subseteq Slots
  <2> DEFINE q == [Idle EXCEPT !.pc = pc, !.op = op, !.parent = bookings[b].parent,
                               !.booking = b, !.held = bookings[b].slot,
                               !.seen = bookings[b].status]
  <2>1. bookings[b] \in BookingRow
    BY <1>2, RowRead
  <2>2. q \in Request
    BY <1>2, <2>1 DEF Request, Idle, Pcs, Ops, BookingRow
  <2>3. Arrival(q)
    BY <1>2, <2>1 DEF Arrival, Idle, BookingRow
  <2>4. Claimed(q) = {bookings[b].slot}
    BY <2>1, NullAssumption DEF Claimed, Idle, BookingRow
  <2>5. Begin(r, q, {bookings[b].slot}) /\ {bookings[b].slot} \subseteq Slots
    BY <1>2, <2>1 DEF BeginOn, BookingRow
  <2> HIDE DEF q
  <2>6. QED
    BY <2>2, <2>3, <2>4, <2>5
<1>3. ASSUME NEW b \in Bookings, NEW s \in Slots, RescheduleBooking(r, b, s)
      PROVE  \E q \in Request : Arrival(q) /\ Begin(r, q, Claimed(q)) /\ Claimed(q) \subseteq Slots
  <2> DEFINE q == [Idle EXCEPT !.pc = "newSlot", !.op = "reschedule",
                               !.parent = bookings[b].parent, !.booking = b,
                               !.held = bookings[b].slot,
                               !.seen = bookings[b].status, !.slot = s]
  <2>1. bookings[b].status = "ACCEPTED"
    BY <1>3 DEF RescheduleBooking, IsAllowedTransition, AllowedTransitions
  <2>2. bookings[b] \in BookingRow
    BY <2>1, RowRead DEF Status, Active
  <2>3. q \in Request
    BY <2>2 DEF Request, Idle, Pcs, Ops, BookingRow
  <2>4. Arrival(q)
    BY <2>1, <2>2 DEF Arrival, Idle, BookingRow, Status, Active
  <2>5. Claimed(q) = {bookings[b].slot, s}
    BY <2>2, NullAssumption DEF Claimed, Idle, BookingRow
  <2>6. Begin(r, q, {bookings[b].slot, s}) /\ {bookings[b].slot, s} \subseteq Slots
    BY <1>3, <2>2 DEF RescheduleBooking, BookingRow
  <2> HIDE DEF q
  <2>7. QED
    BY <2>3, <2>4, <2>5, <2>6
<1> USE DEF Ops, Status, Active, Closed, IsAllowedTransition, AllowedTransitions
<1>4. ASSUME NEW b \in Bookings, AcceptBooking(r, b)
      PROVE  bookings[b].status = "REQUESTED" /\ BeginOn(r, "accept", b, "book")
  BY <1>4 DEF AcceptBooking
<1>5. ASSUME NEW b \in Bookings, RejectBooking(r, b)
      PROVE  bookings[b].status = "REQUESTED" /\ BeginOn(r, "reject", b, "release")
  BY <1>5 DEF RejectBooking
<1>6. ASSUME NEW b \in Bookings, CompleteBooking(r, b)
      PROVE  bookings[b].status = "ACCEPTED" /\ BeginOn(r, "complete", b, "status")
  BY <1>6 DEF CompleteBooking
<1>7. ASSUME NEW b \in Bookings, NEW op, CancelBooking(r, op, b)
      PROVE  bookings[b].status \in Active /\ BeginOn(r, op, b, "release")
  BY <1>7 DEF CancelBooking, CancellableStatuses
<1>8. ASSUME NEW b \in Bookings, AdminCancelBooking(r, b)
      PROVE  bookings[b].status \in Active /\ BeginOn(r, "cancelByAdmin", b, "release")
  BY <1>8 DEF AdminCancelBooking, AdminCancellableStatuses, IInv, TypeOK, BookingRow, NoBooking
<1>9. ASSUME NEW b \in Bookings,
             \/ AcceptBooking(r, b) \/ RejectBooking(r, b) \/ CompleteBooking(r, b)
             \/ CancelBooking(r, "cancelByParent", b) \/ CancelBooking(r, "cancelByTutor", b)
             \/ AdminCancelBooking(r, b)
      PROVE  \E q \in Request : Arrival(q) /\ Begin(r, q, Claimed(q)) /\ Claimed(q) \subseteq Slots
  <2>1. CASE AcceptBooking(r, b)
    BY <1>2, <1>4, <2>1
  <2>2. CASE RejectBooking(r, b)
    BY <1>2, <1>5, <2>2
  <2>3. CASE CompleteBooking(r, b)
    BY <1>2, <1>6, <2>3
  <2>4. CASE CancelBooking(r, "cancelByParent", b)
    BY <1>2, <1>7, <2>4
  <2>5. CASE CancelBooking(r, "cancelByTutor", b)
    BY <1>2, <1>7, <2>5
  <2>6. CASE AdminCancelBooking(r, b)
    BY <1>2, <1>8, <2>6
  <2>7. QED
    BY <1>9, <2>1, <2>2, <2>3, <2>4, <2>5, <2>6
<1>10. QED
  BY <1>1, <1>3, <1>9 DEF Arrive

\* A statement changes the request that executes it, which works on nothing new.
LEMMA StatementMoves ==
  ASSUME IInv, NEW r \in Requests, Statement(r) \/ Abandon(r)
  PROVE  /\ met' = met /\ req' = [req EXCEPT ![r] = req'[r]] /\ req'[r] \in Request
         /\ Working(r)' \subseteq Working(r)
         /\ \A k \in Requests \ {r} : req'[k] = req[k]
<1>1. ASSUME NEW pc \in Pcs, Goto(r, pc), met' = met
      PROVE  /\ met' = met /\ req' = [req EXCEPT ![r] = req'[r]] /\ req'[r] \in Request
             /\ Working(r)' \subseteq Working(r)
             /\ \A k \in Requests \ {r} : req'[k] = req[k]
  BY <1>1, RequestOf DEF Goto, Request, Working, IInv, TypeOK
<1>2. ASSUME Finish(r), met' = met
      PROVE  /\ met' = met /\ req' = [req EXCEPT ![r] = req'[r]] /\ req'[r] \in Request
             /\ Working(r)' \subseteq Working(r)
             /\ \A k \in Requests \ {r} : req'[k] = req[k]
  BY <1>2, RequestOf DEF Finish, Idle, Working, IInv, TypeOK
<1>3. CASE InsertBooking(r)
  <2>1. CASE SlotTaken(req[r].slot)
    BY <1>2, <1>3, <2>1 DEF InsertBooking
  <2>2. CASE ~SlotTaken(req[r].slot)
    <3>1. PICK b \in Bookings : req' = [req EXCEPT ![r] = [@ EXCEPT !.pc = "created", !.made = b]]
      BY <1>3, <2>2 DEF InsertBooking
    <3>2. met' = met
      BY <1>3 DEF InsertBooking
    <3>3. req'[r] = [req[r] EXCEPT !.pc = "created", !.made = b]
          /\ \A k \in Requests \ {r} : req'[k] = req[k]
      BY <3>1 DEF IInv, TypeOK
    <3>4. req'[r] \in Request /\ req'[r].held = req[r].held /\ req'[r].slot = req[r].slot
      BY <3>3, RequestOf DEF Request, Pcs
    <3>5. req' = [req EXCEPT ![r] = req'[r]]
      BY <3>1, <3>3 DEF IInv, TypeOK
    <3>6. QED
      BY <3>2, <3>3, <3>4, <3>5 DEF Working
  <2>3. QED
    BY <2>1, <2>2
<1>4. CASE Abandon(r)
  BY <1>2, <1>4 DEF Abandon
<1>5. CASE Statement(r) /\ ~InsertBooking(r)
  <2>1. met' = met /\ (Finish(r) \/ \E pc \in Pcs : Goto(r, pc))
    BY <1>5 DEF Statement, FindNewSlot, CheckOverlap, ReleaseSlot, ReserveSlot, MarkAsBooked,
       UpdateStatus, AddStatusHistory, RecordCreation, WriteAuditLog, Pcs
  <2>2. QED
    BY <1>1, <1>2, <2>1
<1>6. QED
  BY <1>3, <1>4, <1>5

\* An arrival gives one request, that was idle, what it is to do.
LEMMA ArriveMoves ==
  ASSUME IInv, NEW r \in Requests, Arrive(r)
  PROVE  /\ Arrival(req'[r]) /\ req'[r] \in Request /\ req[r].pc = "idle"
         /\ Begin(r, req'[r], Claimed(req'[r])) /\ Working(r)' = Claimed(req'[r])
         /\ Working(r)' \subseteq Slots
         /\ \A k \in Requests \ {r} : req'[k] = req[k]
         /\ UNCHANGED <<tables, now, torn>> /\ met \subseteq met'
<1>1. PICK q \in Request : Arrival(q) /\ Begin(r, q, Claimed(q)) /\ Claimed(q) \subseteq Slots
  BY ArriveBegins
<1>2. req'[r] = q /\ \A k \in Requests \ {r} : req'[k] = req[k]
  BY <1>1 DEF Begin, IInv, TypeOK
<1>3. Begin(r, req'[r], Claimed(req'[r])) /\ Arrival(req'[r]) /\ Claimed(req'[r]) \subseteq Slots
  BY <1>1, <1>2
<1>4. Working(r)' = Claimed(req'[r])
  BY DEF Working, Claimed
<1>5. UNCHANGED <<tables, now, torn>> /\ met \subseteq met' /\ req[r].pc = "idle"
  BY <1>1 DEF Begin, InFlight
<1>6. QED
  BY <1>1, <1>2, <1>3, <1>4, <1>5

\* Requests at work on slots that are near each other have met on them.
NearMeetingsNoted ==
  \A r, q \in Requests : r # q =>
    \A s \in Working(r), t \in Working(q) : Near(s, t) => {s, t} \in met

LEMMA NearBothWays ==
  ASSUME NEW s \in Slots, NEW t \in Slots, Near(s, t)
  PROVE  Near(t, s) /\ Near(s, s) /\ Near(t, t)
  BY SlotAssumption DEF Near, RangesOverlap

LEMMA WorkingSlots == IInv => \A r \in Requests : Working(r) \subseteq Slots
  BY DEF IInv, TypeOK, Request, Working

LEMMA NearMeetingsInductive ==
  ASSUME IInv, NearMeetingsNoted, [Next]_vars
  PROVE  NearMeetingsNoted'
<1>1. ASSUME NEW r \in Requests, Arrive(r)
      PROVE  NearMeetingsNoted'
  <2>1. ASSUME NEW k \in Requests \ {r}, NEW s \in Working(r)', NEW t \in Working(k)', Near(s, t)
        PROVE  {s, t} \in met'
    <3>1. t \in Working(k) /\ t \in Slots /\ s \in Slots /\ s \in Claimed(req'[r])
      BY <1>1, <2>1, ArriveMoves, WorkingSlots DEF Working
    <3>2. \A u, v \in {s, t} : Near(u, v)
      BY <2>1, <3>1, NearBothWays
    <3>3. {s, t} \in {{u, v} : u \in Claimed(req'[r]), v \in UNION {Working(q) : q \in Requests}}
      BY <3>1
    <3>4. QED
      BY <1>1, <3>2, <3>3, ArriveMoves DEF Begin
  <2> SUFFICES ASSUME NEW j \in Requests, NEW k \in Requests, j # k,
                      NEW s \in Working(j)', NEW t \in Working(k)', Near(s, t)
               PROVE  {s, t} \in met'
    BY DEF NearMeetingsNoted, Near
  <2>2. CASE j = r
    BY <2>1, <2>2
  <2>3. CASE k = r
    <3>1. Near(t, s)
      BY <1>1, <2>3, ArriveMoves, WorkingSlots, NearBothWays DEF Working
    <3>2. {t, s} \in met'
      BY <2>1, <2>3, <3>1
    <3>3. {t, s} = {s, t}
      OBVIOUS
    <3>4. QED
      BY <3>2, <3>3
  <2>4. CASE j # r /\ k # r
    BY <1>1, <2>4, ArriveMoves DEF Working, NearMeetingsNoted
  <2>5. QED
    BY <2>2, <2>3, <2>4
<1>2. ASSUME NEW r \in Requests, Statement(r) \/ Abandon(r)
      PROVE  NearMeetingsNoted'
  <2>1. \A k \in Requests : Working(k)' \subseteq Working(k)
    BY <1>2, StatementMoves DEF Working
  <2>2. QED
    BY <1>2, <2>1, StatementMoves DEF NearMeetingsNoted, Near
<1>3. CASE Tick \/ UNCHANGED vars
  BY <1>3 DEF Tick, tables, vars, NearMeetingsNoted, Working, Near
<1>4. QED
  BY <1>1, <1>2, <1>3 DEF Next

\* The slot a request is about to give an active booking: it has passed the overlap
\* check for it, or is accepting a booking of it.
About(q, s) ==
  \/ /\ q.op \in {"create", "reschedule"}
     /\ q.pc \in {"reserve", "release", "status", "history", "insert"}
     /\ s = q.slot
  \/ /\ q.op = "accept" /\ q.pc \in {"release", "book", "status"}
     /\ s = q.held

\* Active bookings near such a slot were made or accepted by requests it met.
CheckHolds(q) ==
  \A s \in Slots : About(q, s) =>
    \A c \in Bookings :
      bookings[c].status \in Active /\ Near(bookings[c].slot, s) =>
        bookings[c].slot = s \/ {bookings[c].slot, s} \in met

OverlapInv ==
  /\ NearMeetingsNoted
  /\ NoOverlapUnlessMet
  /\ \A r \in Requests : CheckHolds(req[r])

LEMMA ActiveRow ==
  ASSUME IInv, NEW b \in Bookings, bookings[b].status \in Active
  PROVE  bookings[b] \in BookingRow /\ bookings[b].slot \in Slots
  BY RowRead DEF Status, BookingRow

\* At most one booking changes, and if it is active now, the request that changed it
\* was about to give it that slot.
LEMMA OverlapChange ==
  ASSUME IInv, IInv', OverlapInv, NearMeetingsNoted', NEW r \in Requests, met' = met,
         \A k \in Requests \ {r} : req'[k] = req[k],
         NEW b \in Bookings, \A c \in Bookings \ {b} : bookings'[c] = bookings[c],
         \/ bookings'[b] = bookings[b]
         \/ bookings'[b].status \notin Active
         \/ About(req[r], bookings'[b].slot) /\ bookings'[b].slot \in Working(r),
         \A s \in Slots : ~About(req'[r], s) \/ (About(req[r], s) /\ bookings'[b] = bookings[b])
                            \/ (About(req[r], s) /\ bookings'[b].status \notin Active)
                            \/ (bookings'[b] = bookings[b] /\ ~HasOverlapping(s))
  PROVE  OverlapInv'
<1>1. ASSUME NEW c \in Bookings, NEW d \in Bookings, c # d,
             bookings'[c].status \in Active, bookings'[d].status \in Active,
             Near(bookings'[c].slot, bookings'[d].slot), d # b
      PROVE  {bookings'[c].slot, bookings'[d].slot} \in met
  <2>1. bookings'[c].slot \in Slots /\ bookings'[d].slot \in Slots
    BY <1>1, ActiveRow DEF IInv, TypeOK, BookingRow, NoBooking, Active
  <2>2. bookings'[c].slot # bookings'[d].slot
    BY <1>1, <2>1 DEF IInv, SlotsUnique
  <2>3. CASE bookings'[c] = bookings[c]
    BY <1>1, <2>3 DEF OverlapInv, NoOverlapUnlessMet
  <2>4. CASE c = b /\ About(req[r], bookings'[b].slot)
    <3>1. Near(bookings[d].slot, bookings'[b].slot)
      BY <1>1, <2>1, <2>4, NearBothWays
    <3>2. {bookings[d].slot, bookings'[b].slot} \in met
      BY <1>1, <2>1, <2>2, <2>4, <3>1 DEF OverlapInv, CheckHolds
    <3>3. {bookings[d].slot, bookings'[b].slot} = {bookings'[b].slot, bookings[d].slot}
      OBVIOUS
    <3>4. QED
      BY <1>1, <2>4, <3>2, <3>3
  <2>5. QED
    BY <1>1, <2>3, <2>4
<1>2. NoOverlapUnlessMet'
  <2> SUFFICES ASSUME NEW c \in Bookings, NEW d \in Bookings, c # d,
                      bookings'[c].status \in Active, bookings'[d].status \in Active,
                      Near(bookings'[c].slot, bookings'[d].slot)
               PROVE  {bookings'[c].slot, bookings'[d].slot} \in met
    BY DEF NoOverlapUnlessMet, Near
  <2>1. CASE d # b
    BY <1>1, <2>1
  <2>2. CASE d = b
    <3>1. bookings'[c].slot \in Slots /\ bookings'[d].slot \in Slots
      BY ActiveRow DEF IInv, TypeOK, BookingRow, NoBooking, Active
    <3>2. {bookings'[d].slot, bookings'[c].slot} \in met
      BY <1>1, <2>2, <3>1, NearBothWays
    <3>3. {bookings'[d].slot, bookings'[c].slot} = {bookings'[c].slot, bookings'[d].slot}
      OBVIOUS
    <3>4. QED
      BY <3>2, <3>3
  <2>3. QED
    BY <2>1, <2>2
<1>3. ASSUME NEW k \in Requests
      PROVE  CheckHolds(req[k])'
  <2> SUFFICES ASSUME NEW s \in Slots, About(req'[k], s), NEW c \in Bookings,
                      bookings'[c].status \in Active, Near(bookings'[c].slot, s),
                      bookings'[c].slot # s
               PROVE  {bookings'[c].slot, s} \in met
    BY DEF CheckHolds, About, Near
  <2>1. CASE About(req[k], s) /\ bookings'[c] = bookings[c]
    BY <2>1 DEF OverlapInv, CheckHolds
  <2>2. CASE k # r /\ bookings'[c] # bookings[c]
    <3>1. c = b /\ bookings'[c].slot \in Working(r)
      BY <2>2
    <3>2. s \in Working(k)
      BY <2>2, NullAssumption DEF About, Working
    <3>3. QED
      BY <2>2, <3>1, <3>2 DEF OverlapInv, NearMeetingsNoted
  <2>3. CASE k = r /\ ~(About(req[r], s) /\ bookings'[c] = bookings[c])
    <3>1. bookings'[c] = bookings[c] /\ ~HasOverlapping(s)
      BY <2>3
    <3>2. QED
      BY <3>1 DEF HasOverlapping, Exists, Active
  <2>4. QED
    BY <2>1, <2>2, <2>3
<1>4. QED
  BY <1>2, <1>3 DEF OverlapInv

\* The booking whose status a request changes.
LEMMA UpdatedRow ==
  ASSUME IInv, NEW r \in Requests, UpdateStatus(r)
  PROVE  /\ req[r].booking \in Bookings /\ req[r].op \in Ops \ {"create"}
         /\ Exists(req[r].booking) /\ bookings[req[r].booking] \in BookingRow
         /\ bookings[req[r].booking].slot = req[r].held /\ req[r].held \in Working(r)
         /\ bookings'[req[r].booking] =
              [bookings[req[r].booking] EXCEPT !.status = Target[req[r].op]]
         /\ \A c \in Bookings \ {req[r].booking} : bookings'[c] = bookings[c]
         /\ req'[r] = [req[r] EXCEPT !.pc = "history"] /\ req[r].pc = "status"
<1>1. req[r].pc = "status"
  BY DEF UpdateStatus
<1>2. req[r].booking # NULL /\ req[r].op \in Ops \ {"create"}
  BY <1>1, NullAssumption DEF IInv, RequestsOK, Idle, CreateRequest, RescheduleRequest,
     StatusRequest, ReadRow, Ops
<1>3. /\ req[r].booking \in Bookings /\ Exists(req[r].booking)
      /\ bookings[req[r].booking].slot = req[r].held /\ req[r].held \in Working(r)
  BY <1>2, HoldsItsSlot DEF Exists
<1>4. bookings[req[r].booking] \in BookingRow
  BY <1>3 DEF IInv, TypeOK, Exists, NoBooking
<1>5. req'[r] = [req[r] EXCEPT !.pc = "history"]
  BY DEF UpdateStatus, Goto, IInv, TypeOK
<1>6. /\ bookings'[req[r].booking] =
           [bookings[req[r].booking] EXCEPT !.status = Target[req[r].op]]
      /\ \A c \in Bookings \ {req[r].booking} : bookings'[c] = bookings[c]
  BY <1>3 DEF UpdateStatus, IInv, TypeOK
<1>7. QED
  BY <1>1, <1>2, <1>3, <1>4, <1>5, <1>6

\* The same, field by field.
LEMMA UpdatedFields ==
  ASSUME IInv, NEW r \in Requests, UpdateStatus(r)
  PROVE  /\ req'[r].pc = "history" /\ req'[r].op = req[r].op
         /\ req'[r].held = req[r].held /\ req'[r].slot = req[r].slot
         /\ req'[r].booking = req[r].booking /\ req'[r].seen = req[r].seen
         /\ req'[r].parent = req[r].parent
         /\ bookings'[req[r].booking].status = Target[req[r].op]
         /\ bookings'[req[r].booking].slot = bookings[req[r].booking].slot
         /\ bookings'[req[r].booking].parent = bookings[req[r].booking].parent
         /\ bookings'[req[r].booking].from = bookings[req[r].booking].from
<1>1. ASSUME NEW q \in Request, NEW k, k = [q EXCEPT !.pc = "history"]
      PROVE  /\ k.pc = "history" /\ k.op = q.op /\ k.held = q.held /\ k.slot = q.slot
             /\ k.booking = q.booking /\ k.seen = q.seen /\ k.parent = q.parent
  BY <1>1 DEF Request
<1>2. ASSUME NEW row \in BookingRow, NEW status, NEW new, new = [row EXCEPT !.status = status]
      PROVE  /\ new.status = status /\ new.slot = row.slot /\ new.parent = row.parent
             /\ new.from = row.from
  BY <1>2 DEF BookingRow
<1>3. req[r] \in Request /\ req'[r] = [req[r] EXCEPT !.pc = "history"]
  BY RequestOf, UpdatedRow
<1>4. /\ bookings[req[r].booking] \in BookingRow
      /\ bookings'[req[r].booking] =
           [bookings[req[r].booking] EXCEPT !.status = Target[req[r].op]]
  BY UpdatedRow
<1>5. /\ req'[r].pc = "history" /\ req'[r].op = req[r].op
      /\ req'[r].held = req[r].held /\ req'[r].slot = req[r].slot
      /\ req'[r].booking = req[r].booking /\ req'[r].seen = req[r].seen
      /\ req'[r].parent = req[r].parent
  BY <1>1, <1>3
<1>6. /\ bookings'[req[r].booking].status = Target[req[r].op]
      /\ bookings'[req[r].booking].slot = bookings[req[r].booking].slot
      /\ bookings'[req[r].booking].parent = bookings[req[r].booking].parent
      /\ bookings'[req[r].booking].from = bookings[req[r].booking].from
  BY <1>2, <1>4
<1>7. QED
  BY <1>5, <1>6

\* The booking a request inserts, when nothing has the slot.
LEMMA InsertedBooking ==
  ASSUME IInv, NEW r \in Requests, InsertBooking(r), ~SlotTaken(req[r].slot)
  PROVE  \E b \in Bookings :
           /\ ~Exists(b) /\ req[r].slot \in Slots /\ req[r].slot \in Working(r)
           /\ bookings[b] = NoBooking
           /\ bookings'[b] = [status |-> "REQUESTED", slot |-> req[r].slot,
                              parent |-> req[r].parent, from |-> req[r].booking]
           /\ \A c \in Bookings \ {b} : bookings'[c] = bookings[c]
           /\ req'[r] = [req[r] EXCEPT !.pc = "created", !.made = b]
           /\ req[r].pc = "insert" /\ req[r].op \in {"create", "reschedule"}
<1>1. req[r].pc = "insert"
  BY DEF InsertBooking
<1>2. req[r].slot \in Slots /\ req[r].op \in {"create", "reschedule"}
  BY <1>1 DEF IInv, RequestsOK, Idle, CreateRequest, RescheduleRequest, StatusRequest
<1>3. req[r].slot \in Working(r)
  BY <1>2, NullAssumption DEF Working
<1>4. PICK b \in Bookings :
        /\ ~Exists(b)
        /\ bookings' = [bookings EXCEPT ![b] =
             [status |-> "REQUESTED", slot |-> req[r].slot,
              parent |-> req[r].parent, from |-> req[r].booking]]
        /\ req' = [req EXCEPT ![r] = [@ EXCEPT !.pc = "created", !.made = b]]
  BY DEF InsertBooking
<1>5. bookings[b] = NoBooking
  BY <1>4 DEF Exists, IInv, TypeOK, BookingRow, Status, Active, Closed
<1>6. QED
  BY <1>1, <1>2, <1>3, <1>4, <1>5 DEF IInv, TypeOK

\* Only accepting makes a booking active.
LEMMA ActiveTarget ==
  \A op \in Ops \ {"create"} : Target[op] \in Active <=> op = "accept"
  BY DEF Ops, Target, Active

LEMMA StatementOverlap ==
  ASSUME IInv, IInv', OverlapInv, NearMeetingsNoted', NEW r \in Requests,
         Statement(r) \/ Abandon(r)
  PROVE  OverlapInv'
<1> USE StatementMoves
<1>1. CASE UpdateStatus(r)
  <2> DEFINE b == req[r].booking
  <2>1. \/ bookings'[b].status \notin Active
        \/ About(req[r], bookings'[b].slot) /\ bookings'[b].slot \in Working(r)
    <3>1. /\ bookings'[b].status = Target[req[r].op] /\ bookings'[b].slot = req[r].held
          /\ req[r].op \in Ops \ {"create"} /\ req[r].pc = "status" /\ req[r].held \in Working(r)
      BY <1>1, UpdatedRow DEF BookingRow
    <3>2. QED
      BY <3>1, ActiveTarget DEF About
  <2>2. \A s \in Slots : About(req'[r], s) =>
          About(req[r], s) /\ bookings'[b].status \notin Active
    <3>1. ASSUME NEW s \in Slots, About(req'[r], s)
          PROVE  About(req[r], s) /\ Target[req[r].op] \notin Active
      <4>1. /\ req[r].op \in Ops \ {"create"} /\ req[r].pc = "status"
            /\ req'[r].op = req[r].op /\ req'[r].slot = req[r].slot /\ req'[r].pc = "history"
        BY <1>1, UpdatedRow, RequestOf DEF Request
      <4>2. QED
        BY <3>1, <4>1, ActiveTarget DEF About
    <3>2. QED
      BY <1>1, <3>1, UpdatedRow DEF BookingRow
  <2>3. b \in Bookings /\ \A c \in Bookings \ {b} : bookings'[c] = bookings[c]
    BY <1>1, UpdatedRow
  <2> HIDE DEF b
  <2>4. QED
    BY <2>1, <2>2, <2>3, OverlapChange
<1>2. CASE InsertBooking(r) /\ ~SlotTaken(req[r].slot)
  <2>1. PICK b \in Bookings :
           /\ req[r].slot \in Slots /\ req[r].slot \in Working(r)
           /\ bookings'[b] = [status |-> "REQUESTED", slot |-> req[r].slot,
                              parent |-> req[r].parent, from |-> req[r].booking]
           /\ \A c \in Bookings \ {b} : bookings'[c] = bookings[c]
           /\ req'[r] = [req[r] EXCEPT !.pc = "created", !.made = b]
           /\ req[r].pc = "insert" /\ req[r].op \in {"create", "reschedule"}
    BY <1>2, InsertedBooking
  <2>2. About(req[r], bookings'[b].slot) /\ bookings'[b].slot \in Working(r)
    BY <2>1 DEF About
  <2>3. \A s \in Slots : ~About(req'[r], s)
    BY <2>1, RequestOf DEF About, Request
  <2>4. QED
    BY <2>1, <2>2, <2>3, OverlapChange
<1>3. CASE bookings' = bookings
  <2>1. ASSUME NEW s \in Slots, About(req'[r], s)
        PROVE  About(req[r], s) \/ ~HasOverlapping(s)
    <3>1. req[r] \in Request /\ RequestOK(req[r])
      BY RequestOf
    <3>2. CASE Finish(r)
      BY <2>1, <3>2 DEF Finish, Idle, About, IInv, TypeOK
    <3>3. CASE FindNewSlot(r)
      BY <2>1, <3>1, <3>2, <3>3 DEF FindNewSlot, Goto, About, IInv, TypeOK, Request
    <3>4. CASE CheckOverlap(r)
      <4>1. req[r].pc = "overlap" /\ req[r].op \in {"create", "reschedule"}
        BY <3>1, <3>4 DEF CheckOverlap, RequestOK, CreateRequest, RescheduleRequest,
           StatusRequest, Idle
      <4>2. CASE ~Finish(r)
        <5>1. ~HasOverlapping(req[r].slot) /\ \E pc \in {"reserve", "release"} : Goto(r, pc)
          BY <3>4, <4>2 DEF CheckOverlap
        <5>2. req'[r].slot = req[r].slot /\ req'[r].op = req[r].op
          BY <5>1, <3>1 DEF Goto, IInv, TypeOK, Request
        <5>3. QED
          BY <2>1, <4>1, <5>1, <5>2 DEF About
      <4>3. QED
        BY <3>2, <4>2
    <3>5. CASE ReleaseSlot(r)
      BY <2>1, <3>1, <3>5 DEF ReleaseSlot, Goto, About, IInv, TypeOK, Request,
         RequestOK, CreateRequest, RescheduleRequest, StatusRequest, Idle
    <3>6. CASE ReserveSlot(r)
      BY <2>1, <3>1, <3>6 DEF ReserveSlot, Goto, About, IInv, TypeOK, Request,
         RequestOK, CreateRequest, RescheduleRequest, StatusRequest, Idle
    <3>7. CASE MarkAsBooked(r)
      BY <2>1, <3>1, <3>7 DEF MarkAsBooked, Goto, About, IInv, TypeOK, Request,
         RequestOK, CreateRequest, RescheduleRequest, StatusRequest, Idle
    <3>8. CASE AddStatusHistory(r)
      <4>1. Finish(r) \/ (Goto(r, "insert") /\ req[r].op = "reschedule") \/ Goto(r, "audit")
        BY <3>8 DEF AddStatusHistory
      <4>2. ASSUME NEW pc \in {"insert", "audit"}, Goto(r, pc)
            PROVE  req'[r].pc = pc /\ req'[r].op = req[r].op /\ req'[r].slot = req[r].slot
        BY <3>1, <4>2 DEF Goto, IInv, TypeOK, Request
      <4>3. req[r].pc = "history"
        BY <3>8 DEF AddStatusHistory
      <4>4. QED
        BY <2>1, <3>2, <4>1, <4>2, <4>3 DEF About
    <3>9. CASE UpdateStatus(r)
      BY <2>1, <3>9, UpdatedRow, UpdatedFields DEF About
    <3>10. CASE InsertBooking(r)
      <4>1. Finish(r)
        <5>1. CASE ~SlotTaken(req[r].slot)
          <6>1. PICK b \in Bookings :
                  /\ bookings[b] = NoBooking
                  /\ bookings'[b] = [status |-> "REQUESTED", slot |-> req[r].slot,
                                     parent |-> req[r].parent, from |-> req[r].booking]
            BY <3>10, <5>1, InsertedBooking
          <6>2. QED
            BY <1>3, <6>1 DEF NoBooking
        <5>2. QED
          BY <3>10, <5>1 DEF InsertBooking
      <4>2. QED
        BY <3>2, <4>1
    <3>11. QED
      BY <3>2, <3>3, <3>4, <3>5, <3>6, <3>7, <3>8, <3>9, <3>10
      DEF Statement, Abandon, RecordCreation, WriteAuditLog
  <2>2. CASE Bookings = {}
    BY <2>2 DEF OverlapInv, NoOverlapUnlessMet, CheckHolds
  <2>3. ASSUME NEW b \in Bookings
        PROVE  OverlapInv'
    <3>1. bookings'[b] = bookings[b] /\ \A c \in Bookings \ {b} : bookings'[c] = bookings[c]
      BY <1>3
    <3>2. QED
      BY <2>1, <3>1, OverlapChange
  <2>4. QED
    BY <2>2, <2>3
<1>4. QED
  <2>1. CASE InsertBooking(r) /\ SlotTaken(req[r].slot)
    BY <1>3, <2>1 DEF InsertBooking
  <2>2. QED
    BY <1>1, <1>2, <1>3, <2>1 DEF Statement, FindNewSlot, CheckOverlap, ReleaseSlot, ReserveSlot,
       MarkAsBooked, AddStatusHistory, RecordCreation, WriteAuditLog, Abandon, tables

\* Of an arrival only one that accepts is about to do anything, and the booking it
\* has just seen requested is the one that NoOverlapUnlessMet speaks of.
LEMMA ArriveOverlap ==
  ASSUME IInv, OverlapInv, NearMeetingsNoted', NEW r \in Requests, Arrive(r)
  PROVE  OverlapInv'
<1>1. /\ Arrival(req'[r]) /\ \A k \in Requests \ {r} : req'[k] = req[k]
      /\ bookings' = bookings /\ met \subseteq met'
  BY ArriveMoves DEF tables
<1>2. NoOverlapUnlessMet'
  BY <1>1 DEF OverlapInv, NoOverlapUnlessMet, Near
<1>3. ASSUME NEW k \in Requests
      PROVE  CheckHolds(req[k])'
  <2> SUFFICES ASSUME NEW s \in Slots, About(req'[k], s), NEW c \in Bookings,
                      bookings[c].status \in Active, Near(bookings[c].slot, s),
                      bookings[c].slot # s
               PROVE  {bookings[c].slot, s} \in met'
    BY <1>1 DEF CheckHolds, About, Near
  <2>1. CASE k # r
    BY <1>1, <2>1 DEF OverlapInv, CheckHolds
  <2>2. CASE k = r
    <3>1. PICK b \in Bookings : bookings[b].status = "REQUESTED" /\ bookings[b].slot = s
      BY <1>1, <2>2 DEF Arrival, About
    <3>2. QED
      BY <1>1, <3>1 DEF OverlapInv, NoOverlapUnlessMet, Active
  <2>3. QED
    BY <2>1, <2>2
<1>4. QED
  BY <1>2, <1>3 DEF OverlapInv

\* Two active bookings of a tutor overlap only if requests for their slots were in
\* flight together: the check misses nothing else.
THEOREM OverlapsMet == Spec => []NoOverlapUnlessMet
<1>1. Init => OverlapInv
  BY DEF Init, OverlapInv, NearMeetingsNoted, NoOverlapUnlessMet, CheckHolds, About, Idle,
     Working, NoBooking, Active
<1>2. IInv /\ IInv' /\ OverlapInv /\ [Next]_vars => OverlapInv'
  <2> SUFFICES ASSUME IInv, IInv', OverlapInv, [Next]_vars
               PROVE  OverlapInv'
    OBVIOUS
  <2>1. NearMeetingsNoted'
    BY NearMeetingsInductive DEF OverlapInv
  <2>2. CASE Tick \/ UNCHANGED vars
    BY <2>1, <2>2 DEF Tick, tables, vars, OverlapInv, NoOverlapUnlessMet, CheckHolds, About, Near
  <2>3. QED
    BY <2>1, <2>2, ArriveOverlap, StatementOverlap DEF Next
<1>3. OverlapInv => NoOverlapUnlessMet
  BY DEF OverlapInv
<1>4. QED
  BY <1>1, <1>2, <1>3, InductiveInvariant, PTL DEF Spec

-----------------------------------------------------------------------------
(* Rescheduled bookings *)

\* A request that has closed the booking it moves is the only one to succeed it.
Moving(q) ==
  q.op = "reschedule" /\ q.pc \in {"history", "insert"} =>
    \/ {q.held} \in met
    \/ /\ bookings[q.booking].status = "RESCHEDULED"
       /\ \A c \in Bookings : bookings[c].from # q.booking

MoveInv == RescheduleMoves /\ \A r \in Requests : Moving(req[r])

\* The predecessor of a booking exists.
LEMMA PredecessorExists ==
  ASSUME IInv, RescheduleMoves, NEW d \in Bookings, bookings[d].from # NULL
  PROVE  bookings[d].from \in Bookings /\ Exists(bookings[d].from)
<1> DEFINE old == bookings[d].from
<1>1. old \in Bookings
  BY DEF IInv, TypeOK, BookingRow, NoBooking
<1>2. bookings[old].slot \in Slots \/ bookings[old].status = "RESCHEDULED"
  BY DEF RescheduleMoves, IInv, TypeOK
<1>3. bookings[old] # NoBooking
  BY <1>2, NullAssumption DEF NoBooking
<1>4. bookings[old].status \in Status
  BY <1>1, <1>3 DEF IInv, TypeOK, BookingRow
<1>5. QED
  BY <1>1, <1>4 DEF Exists, Status, Active, Closed

\* A request that moves a booking works on it.
LEMMA MovingRequest ==
  ASSUME IInv, NEW r \in Requests, req[r].op = "reschedule", req[r].pc # "idle"
  PROVE  /\ req[r].booking \in Bookings /\ Exists(req[r].booking)
         /\ bookings[req[r].booking].slot = req[r].held /\ req[r].held \in Working(r)
         /\ req[r].booking # NULL
<1>1. RescheduleRequest(req[r])
  BY RequestOf DEF RequestOK, Idle, CreateRequest, StatusRequest
<1>2. QED
  BY <1>1, NullAssumption DEF RescheduleRequest, ReadRow, Exists, Working

LEMMA UpdateMoves ==
  ASSUME IInv, LInv, MoveInv, NEW r \in Requests, UpdateStatus(r)
  PROVE  MoveInv'
<1> DEFINE b == req[r].booking
<1>1. /\ b \in Bookings /\ b # NULL /\ bookings[b].slot = req[r].held /\ req[r].held \in Working(r)
      /\ req[r].op \in Ops \ {"create"} /\ req[r].pc = "status"
      /\ bookings'[b].status = Target[req[r].op] /\ bookings'[b].slot = bookings[b].slot
      /\ bookings'[b].from = bookings[b].from
      /\ \A c \in Bookings \ {b} : bookings'[c] = bookings[c]
      /\ req'[r].pc = "history" /\ req'[r].op = req[r].op /\ req'[r].held = req[r].held
      /\ req'[r].booking = b
  BY UpdatedRow, UpdatedFields, NullAssumption
<1>2. met' = met /\ \A k \in Requests \ {r} : req'[k] = req[k]
  BY StatementMoves DEF Statement
<1>3. \/ {req[r].held} \in met
      \/ /\ bookings[b].status = req[r].seen
         /\ Lifecycle!MayBecome(req[r].seen, Target[req[r].op])
  BY <1>1 DEF LInv, SeenIsCurrent, Deciding
<1>4. \/ {req[r].held} \in met
      \/ /\ bookings[b].status # "RESCHEDULED"
         /\ req[r].op = "reschedule" => bookings[b].status = "ACCEPTED"
  BY <1>3, SameRules DEF Target, IsAllowedTransition, AllowedTransitions, AdminCancellableStatuses
<1>5. \A c \in Bookings : bookings'[c].from = bookings[c].from /\ bookings'[c].slot = bookings[c].slot
  BY <1>1
<1> HIDE DEF b
<1>6. RescheduleMoves'
  <2> SUFFICES ASSUME NEW d \in Bookings, bookings[d].from # NULL
               PROVE  \/ {bookings[bookings[d].from].slot} \in met
                      \/ /\ bookings'[bookings[d].from].status = "RESCHEDULED"
                         /\ \A c \in Bookings \ {d} : bookings[c].from # bookings[d].from
    <3>1. ASSUME NEW d \in Bookings, bookings[d].from # NULL
          PROVE  bookings'[bookings[d].from].slot = bookings[bookings[d].from].slot
      BY <1>5, <3>1, PredecessorExists DEF MoveInv
    <3>2. QED
      BY <1>2, <1>5, <3>1 DEF RescheduleMoves
  <2>1. \/ {bookings[bookings[d].from].slot} \in met
        \/ /\ bookings[bookings[d].from].status = "RESCHEDULED"
           /\ \A c \in Bookings \ {d} : bookings[c].from # bookings[d].from
    BY DEF MoveInv, RescheduleMoves
  <2>2. bookings[d].from \in Bookings
    BY PredecessorExists DEF MoveInv
  <2>3. QED
    BY <1>1, <1>4, <2>1, <2>2
<1>7. ASSUME NEW k \in Requests
      PROVE  Moving(req[k])'
  <2>1. CASE k # r /\ req[k].op = "reschedule" /\ req[k].pc \in {"history", "insert"}
    <3>1. req[k].booking = b => req[k].held = req[r].held
      BY <1>1, <2>1, MovingRequest
    <3>2. req[k].booking = b => {req[k].held} \in met
      BY <1>1, <2>1, <3>1, MovingRequest DEF LInv, MeetingsNoted
    <3>3. req[k].booking # b => bookings'[req[k].booking] = bookings[req[k].booking]
      BY <1>1, <2>1, MovingRequest
    <3>4. QED
      BY <1>2, <1>5, <2>1, <3>2, <3>3 DEF MoveInv, Moving
  <2>2. CASE k = r /\ req[r].op = "reschedule" /\ {req[r].held} \notin met
    <3>1. bookings[b].status = "ACCEPTED"
      BY <1>4, <2>2
    <3>2. \A c \in Bookings : bookings[c].from # b
      BY <1>1, <2>2, <3>1 DEF MoveInv, RescheduleMoves
    <3>3. bookings'[b].status = "RESCHEDULED"
      BY <1>1, <2>2 DEF Target
    <3>4. QED
      BY <1>1, <1>2, <1>5, <2>2, <3>2, <3>3 DEF Moving
  <2>3. QED
    BY <1>1, <1>2, <2>1, <2>2 DEF Moving
<1>8. QED
  BY <1>6, <1>7 DEF MoveInv

LEMMA InsertMoves ==
  ASSUME IInv, LInv, MoveInv, NEW r \in Requests, InsertBooking(r), ~SlotTaken(req[r].slot)
  PROVE  MoveInv'
<1>1. PICK b \in Bookings :
           /\ bookings[b] = NoBooking
           /\ bookings'[b] = [status |-> "REQUESTED", slot |-> req[r].slot,
                              parent |-> req[r].parent, from |-> req[r].booking]
           /\ \A c \in Bookings \ {b} : bookings'[c] = bookings[c]
           /\ req'[r] = [req[r] EXCEPT !.pc = "created", !.made = b]
           /\ req[r].pc = "insert" /\ req[r].op \in {"create", "reschedule"}
  BY InsertedBooking
<1>2. met' = met /\ \A k \in Requests \ {r} : req'[k] = req[k]
  BY StatementMoves DEF Statement
<1>3. ~Exists(b)
  BY <1>1 DEF Exists, NoBooking
<1>4. /\ bookings'[b].from = req[r].booking
      /\ req[r].booking # NULL =>
           /\ req[r].op = "reschedule" /\ req[r].booking \in Bookings /\ req[r].booking # b
           /\ bookings[req[r].booking].slot = req[r].held /\ req[r].held \in Working(r)
  <2>1. CASE req[r].op = "create"
    BY <1>1, <2>1 DEF IInv, RequestsOK, Idle, CreateRequest, RescheduleRequest, StatusRequest
  <2>2. CASE req[r].op = "reschedule"
    BY <1>1, <1>3, <2>2, MovingRequest
  <2>3. QED
    BY <1>1, <2>1, <2>2
<1>5. Moving(req[r])
  BY DEF MoveInv
<1>6. RescheduleMoves'
  <2> SUFFICES ASSUME NEW d \in Bookings, bookings'[d].from # NULL
               PROVE  \/ {bookings'[bookings'[d].from].slot} \in met
                      \/ /\ bookings'[bookings'[d].from].status = "RESCHEDULED"
                         /\ \A c \in Bookings \ {d} : bookings'[c].from # bookings'[d].from
    BY <1>2 DEF RescheduleMoves
  <2>1. CASE d = b
    BY <1>1, <1>4, <1>5, <2>1 DEF Moving
  <2>2. CASE d # b
    <3>1. /\ bookings'[d].from = bookings[d].from /\ bookings[d].from \in Bookings
          /\ bookings[d].from # b
      BY <1>1, <1>3, <2>2, PredecessorExists DEF MoveInv
    <3>2. \/ {bookings[bookings[d].from].slot} \in met
          \/ /\ bookings[bookings[d].from].status = "RESCHEDULED"
             /\ \A c \in Bookings \ {d} : bookings[c].from # bookings[d].from
      BY <2>2, <3>1 DEF MoveInv, RescheduleMoves
    <3>3. bookings'[bookings[d].from] = bookings[bookings[d].from]
      BY <1>1, <3>1
    <3>4. req[r].booking = bookings[d].from => {bookings[bookings[d].from].slot} \in met
      BY <1>1, <1>4, <1>5, <2>2, <3>1 DEF Moving
    <3>5. QED
      BY <1>1, <1>4, <3>1, <3>2, <3>3, <3>4
  <2>3. QED
    BY <2>1, <2>2
<1>7. ASSUME NEW k \in Requests
      PROVE  Moving(req[k])'
  <2>1. CASE k # r /\ req[k].op = "reschedule" /\ req[k].pc \in {"history", "insert"}
    <3>1. /\ req[k].booking \in Bookings /\ req[k].booking # b /\ req[k].booking # NULL
          /\ bookings[req[k].booking].slot = req[k].held /\ req[k].held \in Working(k)
      BY <1>3, <2>1, MovingRequest
    <3>2. req[r].booking = req[k].booking => {req[k].held} \in met
      BY <1>4, <2>1, <3>1 DEF LInv, MeetingsNoted
    <3>3. bookings'[req[k].booking] = bookings[req[k].booking]
      BY <1>1, <3>1
    <3>4. Moving(req[k])
      BY DEF MoveInv
    <3>5. \/ {req[k].held} \in met
          \/ /\ bookings[req[k].booking].status = "RESCHEDULED"
             /\ \A c \in Bookings : bookings[c].from # req[k].booking
      BY <2>1, <3>4 DEF Moving
    <3>6. \/ {req[k].held} \in met
          \/ \A c \in Bookings : bookings'[c].from # req[k].booking
      BY <1>1, <1>4, <3>2, <3>5
    <3>7. QED
      BY <1>2, <2>1, <3>3, <3>5, <3>6 DEF Moving
  <2>2. CASE k = r
    BY <1>1, <2>2, RequestOf DEF Moving, Request
  <2>3. QED
    BY <1>2, <2>1, <2>2 DEF Moving
<1>8. QED
  BY <1>6, <1>7 DEF MoveInv

\* Statements that leave the bookings alone.
LEMMA OtherMoves ==
  ASSUME IInv, MoveInv, NEW r \in Requests, Statement(r) \/ Abandon(r), bookings' = bookings,
         ~UpdateStatus(r)
  PROVE  MoveInv'
<1>1. met' = met /\ \A k \in Requests \ {r} : req'[k] = req[k]
  BY StatementMoves
<1>2. ASSUME req'[r].op = "reschedule", req'[r].pc \in {"history", "insert"}
      PROVE  /\ req[r].op = "reschedule" /\ req[r].pc \in {"history", "insert"}
             /\ req'[r].held = req[r].held /\ req'[r].booking = req[r].booking
  <2>1. ~Finish(r)
    BY <1>2 DEF Finish, Idle, IInv, TypeOK
  <2>2. CASE AddStatusHistory(r)
    <3>1. Goto(r, "insert") \/ Goto(r, "audit")
      BY <2>1, <2>2 DEF AddStatusHistory
    <3>2. QED
      BY <1>2, <2>2, <3>1, RequestOf DEF AddStatusHistory, Goto, IInv, TypeOK, Request
  <2>3. CASE ReserveSlot(r)
    BY <1>2, <2>3, RequestOf DEF ReserveSlot, Goto, IInv, TypeOK, Request
  <2>4. CASE InsertBooking(r)
    <3>1. PICK b \in Bookings : req'[r] = [req[r] EXCEPT !.pc = "created", !.made = b]
      BY <2>1, <2>4, InsertedBooking DEF InsertBooking
    <3>2. QED
      BY <1>2, <3>1, RequestOf DEF Request
  <2>5. CASE FindNewSlot(r) \/ CheckOverlap(r) \/ ReleaseSlot(r) \/ MarkAsBooked(r)
    <3>1. \E pc \in {"overlap", "reserve", "release", "status"} : Goto(r, pc)
      BY <2>1, <2>5 DEF FindNewSlot, CheckOverlap, ReleaseSlot, MarkAsBooked
    <3>2. QED
      BY <1>2, <3>1, RequestOf DEF Goto, IInv, TypeOK, Request
  <2>6. QED
    BY <2>1, <2>2, <2>3, <2>4, <2>5 DEF Statement, Abandon, RecordCreation, WriteAuditLog
<1>3. QED
  BY <1>1, <1>2 DEF MoveInv, RescheduleMoves, Moving

\* A rescheduled booking is closed and has one successor, abandoned requests included.
THEOREM ReschedulingMoves == Spec => []RescheduleMoves
<1>1. Init => MoveInv
  BY DEF Init, MoveInv, RescheduleMoves, Moving, Idle, NoBooking
<1>2. IInv /\ LInv /\ MoveInv /\ [Next]_vars => MoveInv'
  <2> SUFFICES ASSUME IInv, LInv, MoveInv, [Next]_vars
               PROVE  MoveInv'
    OBVIOUS
  <2>1. ASSUME NEW r \in Requests, Arrive(r)
        PROVE  MoveInv'
    <3>1. /\ Arrival(req'[r]) /\ \A k \in Requests \ {r} : req'[k] = req[k]
          /\ bookings' = bookings /\ met \subseteq met'
      BY <2>1, ArriveMoves DEF tables
    <3>2. req'[r].pc \notin {"history", "insert"}
      BY <3>1 DEF Arrival
    <3>3. QED
      BY <3>1, <3>2 DEF MoveInv, RescheduleMoves, Moving
  <2>2. ASSUME NEW r \in Requests, Statement(r) \/ Abandon(r)
        PROVE  MoveInv'
    <3>1. CASE InsertBooking(r) /\ SlotTaken(req[r].slot)
      BY <2>2, <3>1, OtherMoves, UpdatedRow DEF InsertBooking
    <3>2. CASE ~UpdateStatus(r) /\ ~InsertBooking(r)
      BY <2>2, <3>2, OtherMoves DEF Statement, FindNewSlot, CheckOverlap, ReleaseSlot, ReserveSlot,
         MarkAsBooked, AddStatusHistory, RecordCreation, WriteAuditLog, Abandon, tables
    <3>3. QED
      BY <3>1, <3>2, UpdateMoves, InsertMoves
  <2>3. CASE Tick \/ UNCHANGED vars
    BY <2>3 DEF Tick, tables, vars, MoveInv, RescheduleMoves, Moving
  <2>4. QED
    BY <2>1, <2>2, <2>3 DEF Next
<1>3. MoveInv => RescheduleMoves
  BY DEF MoveInv
<1>4. QED
  BY <1>1, <1>2, <1>3, InductiveInvariant, LifecycleInvariant, PTL DEF Spec

-----------------------------------------------------------------------------
(* The trail *)

Recorded(b) == \E i \in DOMAIN history[b] : history[b][i].to = bookings[b].status

\* Requests that still have to record the status of b.
ToRecord(q, b) ==
  \/ q.pc = "history" /\ q.booking = b /\ bookings[b].status = Target[q.op]
  \/ q.pc = "created" /\ q.made = b /\ bookings[b].status = "REQUESTED"

ToAudit(q, b) ==
  q.pc \in {"history", "audit"} /\ q.booking = b /\ q.op = "cancelByAdmin"

\* A status is recorded, or a request that has written it goes on to record it.
Trail(b) ==
  Exists(b) /\ bookings[b].slot \notin torn =>
    /\ Recorded(b) \/ \E r \in Requests : ToRecord(req[r], b)
    /\ bookings[b].status = "CANCELLED_BY_ADMIN" =>
         b \in auditLog \/ \E r \in Requests : ToAudit(req[r], b)

TrailInv == \A b \in Bookings : Trail(b)

\* A request that has to record a status works on the slot of the booking.
LEMMA RecorderWorks ==
  ASSUME IInv, NEW r \in Requests, NEW b \in Bookings, ToRecord(req[r], b) \/ ToAudit(req[r], b)
  PROVE  bookings[b].slot \in Working(r) /\ bookings[b].slot \in Slots
<1>1. CASE req[r].pc = "created"
  BY <1>1, NullAssumption DEF ToRecord, ToAudit, IInv, RequestsOK, Idle, CreateRequest,
     RescheduleRequest, StatusRequest, InsertedRow, Working
<1>2. CASE req[r].booking = b
  BY <1>2, HoldsItsSlot, NullAssumption
<1>3. QED
  BY <1>1, <1>2 DEF ToRecord, ToAudit

\* A row added to a history is there, and so are the others.
LEMMA AddedRow ==
  ASSUME NEW rows \in Seq(HistoryRow), NEW row \in HistoryRow
  PROVE  /\ Append(rows, row) \in Seq(HistoryRow)
         /\ Len(rows) \in Nat
         /\ Len(Append(rows, row)) = Len(rows) + 1
         /\ Append(rows, row)[Len(rows) + 1] = row
         /\ \A i \in 1..Len(rows) : Append(rows, row)[i] = rows[i]
         /\ DOMAIN rows = 1..Len(rows)
         /\ DOMAIN Append(rows, row) = 1..(Len(rows) + 1)
  OBVIOUS

\* A booking whose row does not change keeps its trail while the requests that
\* have to record it stay.
LEMMA TrailKept ==
  ASSUME IInv, NEW b \in Bookings, Trail(b), NEW r \in Requests,
         \A k \in Requests \ {r} : req'[k] = req[k],
         torn \subseteq torn', auditLog \subseteq auditLog', bookings'[b] = bookings[b],
         Recorded(b) => Recorded(b)',
         ToRecord(req[r], b) =>
           Recorded(b)' \/ ToRecord(req[r], b)' \/ bookings[b].slot \in torn',
         ToAudit(req[r], b) =>
           b \in auditLog' \/ ToAudit(req[r], b)' \/ bookings[b].slot \in torn'
  PROVE  Trail(b)'
<1> SUFFICES ASSUME Exists(b), bookings[b].slot \notin torn'
             PROVE  /\ Recorded(b)' \/ \E k \in Requests : ToRecord(req[k], b)'
                    /\ bookings[b].status = "CANCELLED_BY_ADMIN" =>
                         b \in auditLog' \/ \E k \in Requests : ToAudit(req[k], b)'
  BY DEF Trail, Exists
<1>1. Recorded(b) \/ \E k \in Requests : ToRecord(req[k], b)
  BY DEF Trail
<1>2. bookings[b].status = "CANCELLED_BY_ADMIN" =>
        b \in auditLog \/ \E k \in Requests : ToAudit(req[k], b)
  BY DEF Trail
<1>3. \A k \in Requests \ {r} : /\ ToRecord(req[k], b) => ToRecord(req[k], b)'
                                /\ ToAudit(req[k], b) => ToAudit(req[k], b)'
  BY DEF ToRecord, ToAudit
<1>4. Recorded(b)' \/ \E k \in Requests : ToRecord(req[k], b)'
  BY <1>1, <1>3
<1>5. bookings[b].status = "CANCELLED_BY_ADMIN" =>
        b \in auditLog' \/ \E k \in Requests : ToAudit(req[k], b)'
  BY <1>2, <1>3
<1>6. QED
  BY <1>4, <1>5

\* The statements before the status is written leave the trail alone.
LEMMA EarlyTrail ==
  ASSUME IInv, TrailInv, NEW r \in Requests,
         req[r].pc \notin {"history", "created", "audit"},
         \A k \in Requests \ {r} : req'[k] = req[k],
         UNCHANGED <<bookings, history, auditLog>>, torn \subseteq torn'
  PROVE  TrailInv'
<1> SUFFICES ASSUME NEW b \in Bookings
             PROVE  Trail(b)'
  BY DEF TrailInv
<1>1. ~ToRecord(req[r], b) /\ ~ToAudit(req[r], b) /\ (Recorded(b) => Recorded(b)')
  BY DEF ToRecord, ToAudit, Recorded
<1>2. Trail(b) /\ bookings'[b] = bookings[b] /\ auditLog \subseteq auditLog'
  BY DEF TrailInv
<1>3. QED
  BY <1>1, <1>2, TrailKept

LEMMA UpdateTrail ==
  ASSUME IInv, TrailInv, NEW r \in Requests, UpdateStatus(r)
  PROVE  TrailInv'
<1> SUFFICES ASSUME NEW b \in Bookings
             PROVE  Trail(b)'
  BY DEF TrailInv
<1>1. /\ req[r].pc = "status" /\ req[r].op \in Ops \ {"create"}
      /\ req'[r].pc = "history" /\ req'[r].op = req[r].op /\ req'[r].booking = req[r].booking
      /\ bookings'[req[r].booking].status = Target[req[r].op]
      /\ \A c \in Bookings \ {req[r].booking} : bookings'[c] = bookings[c]
  BY UpdatedRow, UpdatedFields
<1>2. UNCHANGED <<history, auditLog, torn>> /\ \A k \in Requests \ {r} : req'[k] = req[k]
  BY StatementMoves DEF UpdateStatus, Statement
<1>3. CASE b = req[r].booking
  <2>1. ToRecord(req[r], b)'
    BY <1>1, <1>3 DEF ToRecord
  <2>2. Target[req[r].op] = "CANCELLED_BY_ADMIN" => ToAudit(req[r], b)'
    BY <1>1, <1>3 DEF ToAudit, Target, Ops
  <2>3. QED
    BY <1>1, <1>3, <2>1, <2>2 DEF Trail
<1>4. CASE b # req[r].booking
  <2>1. /\ ~ToRecord(req[r], b) /\ ~ToAudit(req[r], b) /\ bookings'[b] = bookings[b] /\ Trail(b)
        /\ Recorded(b) => Recorded(b)'
    BY <1>1, <1>2, <1>4 DEF ToRecord, ToAudit, TrailInv, Recorded
  <2>2. torn \subseteq torn' /\ auditLog \subseteq auditLog'
    BY <1>2
  <2>3. QED
    BY <1>2, <2>1, <2>2, TrailKept
<1>5. QED
  BY <1>3, <1>4

LEMMA InsertTrail ==
  ASSUME IInv, TrailInv, NEW r \in Requests, InsertBooking(r), ~SlotTaken(req[r].slot)
  PROVE  TrailInv'
<1> SUFFICES ASSUME NEW c \in Bookings
             PROVE  Trail(c)'
  BY DEF TrailInv
<1>1. PICK b \in Bookings :
           /\ bookings'[b] = [status |-> "REQUESTED", slot |-> req[r].slot,
                              parent |-> req[r].parent, from |-> req[r].booking]
           /\ \A d \in Bookings \ {b} : bookings'[d] = bookings[d]
           /\ req'[r] = [req[r] EXCEPT !.pc = "created", !.made = b]
           /\ req[r].pc = "insert"
  BY InsertedBooking
<1>2. UNCHANGED <<history, auditLog, torn>> /\ \A k \in Requests \ {r} : req'[k] = req[k]
  BY StatementMoves DEF InsertBooking, Statement
<1>3. CASE c = b
  <2>1. ToRecord(req[r], c)'
    BY <1>1, <1>3, RequestOf DEF ToRecord, Request
  <2>2. QED
    BY <1>1, <1>3, <2>1 DEF Trail
<1>4. CASE c # b
  <2>1. /\ ~ToRecord(req[r], c) /\ ~ToAudit(req[r], c) /\ bookings'[c] = bookings[c] /\ Trail(c)
        /\ Recorded(c) => Recorded(c)'
    BY <1>1, <1>2, <1>4 DEF ToRecord, ToAudit, TrailInv, Recorded
  <2>2. torn \subseteq torn' /\ auditLog \subseteq auditLog'
    BY <1>2
  <2>3. QED
    BY <1>2, <2>1, <2>2, TrailKept
<1>5. QED
  BY <1>3, <1>4

\* Both kinds of history row: the one of a change and the one of the creation.
LEMMA HistoryAppended ==
  ASSUME IInv, NEW r \in Requests, AddStatusHistory(r) \/ RecordCreation(r)
  PROVE  \E b \in Bookings, row \in HistoryRow :
           /\ history' = [history EXCEPT ![b] = Append(@, row)]
           /\ history[b] \in Seq(HistoryRow) /\ Exists(b)
           /\ \/ /\ req[r].pc = "history" /\ b = req[r].booking
                 /\ row = [from |-> req[r].seen, to |-> Target[req[r].op]]
              \/ /\ req[r].pc = "created" /\ b = req[r].made
                 /\ row = [from |-> "NONE", to |-> "REQUESTED"]
<1>1. CASE AddStatusHistory(r)
  <2>1. req[r].pc = "history"
    BY <1>1 DEF AddStatusHistory
  <2>2. /\ req[r].booking \in Bookings /\ Exists(req[r].booking)
        /\ req[r].op \in Ops \ {"create"} /\ req[r].seen \in Status
    BY <2>1 DEF IInv, RequestsOK, Idle, CreateRequest, RescheduleRequest, StatusRequest,
       ReadRow, Exists, Ops
  <2>3. [from |-> req[r].seen, to |-> Target[req[r].op]] \in HistoryRow
    BY <2>2, TargetStatus DEF HistoryRow
  <2>4. history[req[r].booking] \in Seq(HistoryRow)
    BY <2>2 DEF IInv, TypeOK
  <2>5. history' = [history EXCEPT ![req[r].booking] =
                      Append(@, [from |-> req[r].seen, to |-> Target[req[r].op]])]
    BY <1>1 DEF AddStatusHistory
  <2>6. QED
    BY <2>1, <2>2, <2>3, <2>4, <2>5
<1>2. CASE RecordCreation(r)
  <2>1. req[r].pc = "created"
    BY <1>2 DEF RecordCreation
  <2>2. req[r].made \in Bookings /\ Exists(req[r].made)
    BY <2>1 DEF IInv, RequestsOK, Idle, CreateRequest, RescheduleRequest, StatusRequest,
       InsertedRow, Exists
  <2>3. [from |-> "NONE", to |-> "REQUESTED"] \in HistoryRow
    BY DEF HistoryRow, Status, Active
  <2>4. history[req[r].made] \in Seq(HistoryRow)
    BY <2>2 DEF IInv, TypeOK
  <2>5. history' = [history EXCEPT ![req[r].made] =
                      Append(@, [from |-> "NONE", to |-> "REQUESTED"])]
    BY <1>2 DEF RecordCreation
  <2>6. QED
    BY <2>1, <2>2, <2>3, <2>4, <2>5
<1>3. QED
  BY <1>1, <1>2

LEMMA RecordTrail ==
  ASSUME IInv, TrailInv, NEW r \in Requests, AddStatusHistory(r) \/ RecordCreation(r)
  PROVE  TrailInv'
<1> SUFFICES ASSUME NEW c \in Bookings
             PROVE  Trail(c)'
  BY DEF TrailInv
<1>1. PICK b \in Bookings, row \in HistoryRow :
           /\ history' = [history EXCEPT ![b] = Append(@, row)]
           /\ history[b] \in Seq(HistoryRow)
           /\ \/ /\ req[r].pc = "history" /\ b = req[r].booking
                 /\ row = [from |-> req[r].seen, to |-> Target[req[r].op]]
              \/ /\ req[r].pc = "created" /\ b = req[r].made
                 /\ row = [from |-> "NONE", to |-> "REQUESTED"]
  BY HistoryAppended
<1>2. /\ UNCHANGED <<bookings, auditLog, torn>>
      /\ \A k \in Requests \ {r} : req'[k] = req[k]
  BY StatementMoves DEF AddStatusHistory, RecordCreation, Statement
<1>3. history'[b] = Append(history[b], row) /\ \A d \in Bookings \ {b} : history'[d] = history[d]
  BY <1>1 DEF IInv, TypeOK
<1>4. Recorded(c) => Recorded(c)'
  BY <1>1, <1>2, <1>3, AddedRow DEF Recorded
<1>5. ToRecord(req[r], c) => Recorded(c)'
  <2> SUFFICES ASSUME ToRecord(req[r], c)
               PROVE  Recorded(c)'
    OBVIOUS
  <2>1. c = b /\ row.to = bookings[c].status
    BY <1>1 DEF ToRecord
  <2>2. QED
    BY <1>1, <1>2, <1>3, <2>1, AddedRow DEF Recorded
<1>6. ToAudit(req[r], c) => ToAudit(req[r], c)'
  <2> SUFFICES ASSUME ToAudit(req[r], c)
               PROVE  ToAudit(req'[r], c)
    BY DEF ToAudit
  <2>1. AddStatusHistory(r) /\ req[r].op = "cancelByAdmin"
    BY DEF ToAudit, RecordCreation
  <2>2. Goto(r, "audit")
    BY <2>1 DEF AddStatusHistory
  <2>3. QED
    BY <2>2, RequestOf DEF ToAudit, Goto, IInv, TypeOK, Request
<1>7. /\ Trail(c) /\ bookings'[c] = bookings[c]
      /\ torn \subseteq torn' /\ auditLog \subseteq auditLog'
  BY <1>2 DEF TrailInv
<1>8. QED
  BY <1>2, <1>4, <1>5, <1>6, <1>7, TrailKept

LEMMA LateTrail ==
  ASSUME IInv, TrailInv, NEW r \in Requests, WriteAuditLog(r) \/ Abandon(r)
  PROVE  TrailInv'
<1> SUFFICES ASSUME NEW b \in Bookings
             PROVE  Trail(b)'
  BY DEF TrailInv
<1>1. \A k \in Requests \ {r} : req'[k] = req[k]
  BY StatementMoves DEF Statement
<1>2. /\ UNCHANGED <<bookings, history>> /\ torn \subseteq torn' /\ auditLog \subseteq auditLog'
      /\ bookings'[b] = bookings[b] /\ Trail(b) /\ (Recorded(b) => Recorded(b)')
  BY DEF WriteAuditLog, Abandon, tables, TrailInv, Recorded
<1>3. CASE WriteAuditLog(r)
  <2>1. ~ToRecord(req[r], b) /\ (ToAudit(req[r], b) => b \in auditLog')
    BY <1>3 DEF WriteAuditLog, ToRecord, ToAudit
  <2>2. QED
    BY <1>1, <1>2, <2>1, TrailKept
<1>4. CASE Abandon(r)
  <2>1. ToRecord(req[r], b) \/ ToAudit(req[r], b) => bookings[b].slot \in torn'
    BY <1>4, RecorderWorks DEF Abandon
  <2>2. QED
    BY <1>1, <1>2, <2>1, TrailKept
<1>5. QED
  BY <1>3, <1>4

\* However requests interleave, only an abandoned one leaves a status nobody recorded.
THEOREM TrailComplete == Spec => []TrailIsComplete
<1>1. Init => TrailInv
  BY DEF Init, TrailInv, Trail, Exists, NoBooking
<1>2. IInv /\ TrailInv /\ [Next]_vars => TrailInv'
  <2> SUFFICES ASSUME IInv, TrailInv, [Next]_vars
               PROVE  TrailInv'
    OBVIOUS
  <2>1. ASSUME NEW r \in Requests, Arrive(r)
        PROVE  TrailInv'
    <3>1. req[r].pc = "idle" /\ \A k \in Requests \ {r} : req'[k] = req[k]
      BY <2>1, ArriveMoves
    <3>2. UNCHANGED <<bookings, history, auditLog>> /\ torn \subseteq torn'
      BY <2>1, ArriveMoves DEF tables
    <3>3. QED
      BY <3>1, <3>2, EarlyTrail
  <2>2. ASSUME NEW r \in Requests,
               \/ FindNewSlot(r) \/ CheckOverlap(r) \/ ReleaseSlot(r) \/ ReserveSlot(r)
               \/ MarkAsBooked(r) \/ (InsertBooking(r) /\ SlotTaken(req[r].slot))
        PROVE  TrailInv'
    <3>1. \A k \in Requests \ {r} : req'[k] = req[k]
      BY <2>2, StatementMoves DEF Statement
    <3>2. /\ UNCHANGED <<bookings, history, auditLog>> /\ torn \subseteq torn'
          /\ req[r].pc \notin {"history", "created", "audit"}
      BY <2>2 DEF FindNewSlot, CheckOverlap, ReleaseSlot, ReserveSlot, MarkAsBooked,
         InsertBooking, tables
    <3>3. QED
      BY <3>1, <3>2, EarlyTrail
  <2>3. CASE Tick \/ UNCHANGED vars
    BY <2>3 DEF Tick, tables, vars, TrailInv, Trail, Exists, Recorded, ToRecord, ToAudit
  <2>4. QED
    BY <2>1, <2>2, <2>3, UpdateTrail, InsertTrail, RecordTrail, LateTrail DEF Next, Statement
<1>3. IInv /\ TrailInv => TrailIsComplete
  <2> SUFFICES ASSUME IInv, TrailInv, NEW b \in Bookings, Exists(b),
                      bookings[b].slot \notin torn, ~InFlightOn(bookings[b].slot)
               PROVE  /\ Recorded(b)
                      /\ bookings[b].status = "CANCELLED_BY_ADMIN" => b \in auditLog
    BY DEF TrailIsComplete, Recorded
  <2>1. \A r \in Requests : ~ToRecord(req[r], b) /\ ~ToAudit(req[r], b)
    BY RecorderWorks DEF InFlightOn
  <2>2. QED
    BY <2>1 DEF TrailInv, Trail
<1>4. QED
  BY <1>1, <1>2, <1>3, InductiveInvariant, PTL DEF Spec

-----------------------------------------------------------------------------
(* The status history *)

\* Requests about to tell the history of b what they did.
Telling(q, b) ==
  \/ q.pc = "history" /\ q.booking = b
  \/ q.pc = "created" /\ q.made = b

\* What such a request will add continues the chain.
Continues(q, b) ==
  IF q.pc = "history"
  THEN Chain(history[b], q.seen) /\ bookings[b].status = Target[q.op]
  ELSE history[b] = <<>> /\ bookings[b].status = "REQUESTED"

Quiet(s) == {s} \notin met /\ s \notin torn

Told(b) ==
  Exists(b) /\ Quiet(bookings[b].slot) =>
    /\ (\A r \in Requests : ~Telling(req[r], b)) => Chain(history[b], bookings[b].status)
    /\ \A r \in Requests : Telling(req[r], b) => Continues(req[r], b)

ChainInv ==
  /\ \A b \in Bookings : ~Exists(b) => history[b] = <<>>
  /\ \A b \in Bookings : Told(b)

LEMMA ChainGrows ==
  ASSUME NEW rows \in Seq(HistoryRow), NEW row \in HistoryRow, Chain(rows, row.from)
  PROVE  Chain(Append(rows, row), row.to)
<1> DEFINE more == Append(rows, row)
           n == Len(rows)
<1>1. /\ n \in Nat /\ Len(more) = n + 1 /\ more[n + 1] = row
      /\ \A i \in 1..n : more[i] = rows[i]
  BY AddedRow
<1>2. n # 0 /\ rows[1].from = "NONE" /\ rows[n].to = row.from
      /\ \A i \in 1..(n - 1) : rows[i].to = rows[i + 1].from
  BY DEF Chain
<1> HIDE DEF more, n
<1>3. more[1].from = "NONE" /\ more[Len(more)].to = row.to /\ Len(more) # 0
  BY <1>1, <1>2
<1>4. \A i \in 1..(Len(more) - 1) : more[i].to = more[i + 1].from
  <2> SUFFICES ASSUME NEW i \in 1..n
               PROVE  more[i].to = more[i + 1].from
    BY <1>1
  <2>1. CASE i = n
    BY <1>1, <1>2, <2>1
  <2>2. CASE i # n
    <3>1. i \in 1..(n - 1) /\ i \in 1..n /\ i + 1 \in 1..n
      BY <1>1, <2>2
    <3>2. QED
      BY <1>1, <1>2, <3>1
  <2>3. QED
    BY <2>1, <2>2
<1>5. more # <<>>
  BY <1>3
<1>6. QED
  BY <1>3, <1>4, <1>5 DEF Chain, more

LEMMA ChainStarts ==
  ASSUME NEW row \in HistoryRow, row.from = "NONE"
  PROVE  Chain(Append(<<>>, row), row.to)
<1>1. Append(<<>>, row) = <<row>> /\ Len(<<row>>) = 1
  OBVIOUS
<1>2. QED
  BY <1>1 DEF Chain

\* A request about to tell works on the booking's slot.
LEMMA TellerWorks ==
  ASSUME IInv, NEW r \in Requests, NEW b \in Bookings, Telling(req[r], b)
  PROVE  bookings[b].slot \in Working(r) /\ Exists(b)
<1>1. CASE req[r].pc = "created"
  BY <1>1, NullAssumption DEF Telling, IInv, RequestsOK, Idle, CreateRequest,
     RescheduleRequest, StatusRequest, InsertedRow, Working, Exists
<1>2. CASE req[r].booking = b
  BY <1>2, HoldsItsSlot, NullAssumption DEF Exists
<1>3. QED
  BY <1>1, <1>2 DEF Telling

\* Nobody else tells of a booking on which r works, unless the two met.
LEMMA OneTeller ==
  ASSUME IInv, LInv, NEW r \in Requests, NEW b \in Bookings, bookings[b].slot \in Working(r),
         {bookings[b].slot} \notin met
  PROVE  \A k \in Requests \ {r} : ~Telling(req[k], b)
  BY TellerWorks DEF LInv, MeetingsNoted

\* A booking and a history that do not change stay told.
LEMMA ToldKept ==
  ASSUME IInv, NEW b \in Bookings, Told(b), NEW r \in Requests,
         \A k \in Requests \ {r} : req'[k] = req[k],
         met \subseteq met', torn \subseteq torn',
         bookings'[b] = bookings[b], history'[b] = history[b],
         ~Telling(req[r], b) \/ bookings[b].slot \in torn', ~Telling(req[r], b)'
  PROVE  Told(b)'
<1> SUFFICES ASSUME Exists(b), Quiet(bookings[b].slot), ~Telling(req[r], b)
             PROVE  /\ (\A k \in Requests : ~Telling(req[k], b)') =>
                          Chain(history[b], bookings[b].status)
                    /\ \A k \in Requests : Telling(req[k], b)' => Continues(req[k], b)'
  BY DEF Told, Exists, Quiet, Chain
<1>1. \A k \in Requests \ {r} : /\ Telling(req[k], b)' <=> Telling(req[k], b)
                                /\ Continues(req[k], b)' <=> Continues(req[k], b)
  BY DEF Telling, Continues, Chain
<1>2. QED
  BY <1>1 DEF Told

LEMMA UpdateChain ==
  ASSUME IInv, LInv, ChainInv, NEW r \in Requests, UpdateStatus(r)
  PROVE  ChainInv'
<1>1. /\ req[r].pc = "status" /\ Exists(req[r].booking) /\ req[r].booking \in Bookings
      /\ bookings[req[r].booking].slot = req[r].held /\ req[r].held \in Working(r)
      /\ req'[r].pc = "history" /\ req'[r].op = req[r].op /\ req'[r].booking = req[r].booking
      /\ req'[r].seen = req[r].seen
      /\ bookings'[req[r].booking].status = Target[req[r].op]
      /\ bookings'[req[r].booking].slot = bookings[req[r].booking].slot
      /\ \A c \in Bookings \ {req[r].booking} : bookings'[c] = bookings[c]
  BY UpdatedRow, UpdatedFields
<1>2. UNCHANGED <<history, torn, met>> /\ \A k \in Requests \ {r} : req'[k] = req[k]
  BY StatementMoves DEF UpdateStatus, Statement
<1>3. ASSUME NEW b \in Bookings
      PROVE  Told(b)'
  <2>1. CASE b = req[r].booking
    <3> SUFFICES ASSUME Quiet(bookings[b].slot)
                 PROVE  /\ \E k \in Requests : Telling(req[k], b)'
                        /\ \A k \in Requests : Telling(req[k], b)' => Continues(req[k], b)'
      BY <1>1, <1>2, <2>1 DEF Told, Quiet
    <3>1. \A k \in Requests : ~Telling(req[k], b)
      BY <1>1, <2>1, OneTeller DEF Telling, Quiet
    <3>2. bookings[b].status = req[r].seen
      BY <1>1, <2>1, NullAssumption DEF LInv, SeenIsCurrent, Deciding, Quiet
    <3>3. Chain(history[b], req[r].seen)
      BY <1>1, <2>1, <3>1, <3>2 DEF ChainInv, Told
    <3>4. Telling(req[r], b)' /\ Continues(req[r], b)'
      BY <1>1, <1>2, <2>1, <3>3 DEF Telling, Continues, Chain
    <3>5. \A k \in Requests \ {r} : ~Telling(req[k], b)'
      BY <1>2, <3>1 DEF Telling
    <3>6. QED
      BY <3>4, <3>5
  <2>2. CASE b # req[r].booking
    <3>1. /\ ~Telling(req[r], b) /\ ~Telling(req[r], b)' /\ bookings'[b] = bookings[b]
          /\ Told(b)
      BY <1>1, <2>2 DEF Telling, ChainInv
    <3>2. met \subseteq met' /\ torn \subseteq torn' /\ history'[b] = history[b]
      BY <1>2
    <3>3. QED
      BY <1>2, <3>1, <3>2, ToldKept
  <2>3. QED
    BY <2>1, <2>2
<1>4. ASSUME NEW b \in Bookings, ~Exists(b)'
      PROVE  history'[b] = <<>>
  <2>1. Target[req[r].op] # "NONE"
    BY UpdatedRow, TargetStatus DEF Status, Active, Closed
  <2>2. ~Exists(b)
    BY <1>1, <1>4, <2>1 DEF Exists
  <2>3. QED
    BY <1>2, <2>2 DEF ChainInv
<1>5. QED
  BY <1>3, <1>4 DEF ChainInv

LEMMA InsertChain ==
  ASSUME IInv, LInv, ChainInv, NEW r \in Requests, InsertBooking(r), ~SlotTaken(req[r].slot)
  PROVE  ChainInv'
<1>1. PICK b \in Bookings :
           /\ ~Exists(b)
           /\ bookings'[b] = [status |-> "REQUESTED", slot |-> req[r].slot,
                              parent |-> req[r].parent, from |-> req[r].booking]
           /\ \A d \in Bookings \ {b} : bookings'[d] = bookings[d]
           /\ req'[r] = [req[r] EXCEPT !.pc = "created", !.made = b]
           /\ req[r].pc = "insert"
  BY InsertedBooking
<1>2. UNCHANGED <<history, torn, met>> /\ \A k \in Requests \ {r} : req'[k] = req[k]
  BY StatementMoves DEF InsertBooking, Statement
<1>3. req'[r].pc = "created" /\ req'[r].made = b
  BY <1>1, RequestOf DEF Request
<1>4. ASSUME NEW c \in Bookings
      PROVE  Told(c)'
  <2>1. CASE c = b
    <3>1. \A k \in Requests \ {r} : ~Telling(req[k], c)'
      <4>1. \A k \in Requests \ {r} : ~Telling(req[k], c)
        BY <1>1, <2>1, TellerWorks
      <4>2. QED
        BY <1>2, <4>1 DEF Telling
    <3>2. Telling(req[r], c)' /\ Continues(req[r], c)'
      BY <1>1, <1>2, <1>3, <2>1 DEF Telling, Continues, ChainInv
    <3>3. QED
      BY <3>1, <3>2 DEF Told
  <2>2. CASE c # b
    <3>1. /\ ~Telling(req[r], c) /\ ~Telling(req[r], c)' /\ bookings'[c] = bookings[c]
          /\ Told(c)
      BY <1>1, <1>3, <2>2 DEF Telling, ChainInv
    <3>2. met \subseteq met' /\ torn \subseteq torn' /\ history'[c] = history[c]
      BY <1>2
    <3>3. QED
      BY <1>2, <3>1, <3>2, ToldKept
  <2>3. QED
    BY <2>1, <2>2
<1>5. \A c \in Bookings : ~Exists(c)' => history'[c] = <<>>
  BY <1>1, <1>2 DEF Exists, ChainInv
<1>6. QED
  BY <1>4, <1>5 DEF ChainInv

LEMMA RecordChain ==
  ASSUME IInv, LInv, ChainInv, NEW r \in Requests, AddStatusHistory(r) \/ RecordCreation(r)
  PROVE  ChainInv'
<1>1. PICK b \in Bookings, row \in HistoryRow :
           /\ history' = [history EXCEPT ![b] = Append(@, row)]
           /\ history[b] \in Seq(HistoryRow) /\ Exists(b)
           /\ \/ /\ req[r].pc = "history" /\ b = req[r].booking
                 /\ row = [from |-> req[r].seen, to |-> Target[req[r].op]]
              \/ /\ req[r].pc = "created" /\ b = req[r].made
                 /\ row = [from |-> "NONE", to |-> "REQUESTED"]
  BY HistoryAppended
<1>2. /\ UNCHANGED <<bookings, torn, met>>
      /\ \A k \in Requests \ {r} : req'[k] = req[k]
  BY StatementMoves DEF AddStatusHistory, RecordCreation, Statement
<1>3. history'[b] = Append(history[b], row) /\ \A d \in Bookings \ {b} : history'[d] = history[d]
  BY <1>1 DEF IInv, TypeOK
<1>4. req'[r].pc \in {"idle", "insert", "audit"}
  <2>1. Finish(r) \/ Goto(r, "insert") \/ Goto(r, "audit")
    BY DEF AddStatusHistory, RecordCreation
  <2>2. QED
    BY <2>1, RequestOf DEF Finish, Goto, Idle, IInv, TypeOK, Request
<1>5. ASSUME NEW c \in Bookings
      PROVE  Told(c)'
  <2>1. ~Telling(req[r], c)'
    BY <1>4 DEF Telling
  <2>2. CASE c = b
    <3> SUFFICES ASSUME Quiet(bookings[c].slot)
                 PROVE  /\ Chain(Append(history[b], row), bookings[c].status)
                        /\ \A k \in Requests : ~Telling(req[k], c)'
      BY <1>2, <1>3, <2>2 DEF Told, Quiet, Chain
    <3>1. Telling(req[r], c)
      BY <1>1, <2>2 DEF Telling
    <3>2. \A k \in Requests \ {r} : ~Telling(req[k], c)'
      <4>1. \A k \in Requests \ {r} : ~Telling(req[k], c)
        BY <3>1, TellerWorks, OneTeller DEF Quiet
      <4>2. QED
        BY <1>2, <4>1 DEF Telling
    <3>3. Continues(req[r], c)
      BY <1>1, <2>2, <3>1 DEF ChainInv, Told
    <3>4. CASE req[r].pc = "history"
      <4>1. Chain(history[b], row.from) /\ bookings[c].status = row.to
        BY <1>1, <2>2, <3>3, <3>4 DEF Continues
      <4>2. QED
        BY <1>1, <2>1, <3>2, <4>1, ChainGrows
    <3>5. CASE req[r].pc # "history"
      <4>1. history[b] = <<>> /\ row.from = "NONE" /\ bookings[c].status = row.to
        BY <1>1, <2>2, <3>3, <3>5 DEF Continues
      <4>2. QED
        BY <2>1, <3>2, <4>1, ChainStarts
    <3>6. QED
      BY <3>4, <3>5
  <2>3. CASE c # b
    <3>1. /\ ~Telling(req[r], c) /\ bookings'[c] = bookings[c] /\ history'[c] = history[c]
          /\ Told(c) /\ met \subseteq met' /\ torn \subseteq torn'
      BY <1>1, <1>2, <1>3, <2>3 DEF Telling, ChainInv
    <3>2. QED
      BY <1>2, <2>1, <3>1, ToldKept
  <2>4. QED
    BY <2>2, <2>3
<1>6. \A c \in Bookings : ~Exists(c)' => history'[c] = <<>>
  BY <1>1, <1>2, <1>3 DEF Exists, ChainInv
<1>7. QED
  BY <1>5, <1>6 DEF ChainInv

\* Every other step leaves the bookings and their histories alone.
LEMMA OtherChain ==
  ASSUME IInv, ChainInv, NEW r \in Requests,
         req[r].pc \notin {"history", "created"} \/ Abandon(r),
         req'[r].pc \notin {"history", "created"},
         \A k \in Requests \ {r} : req'[k] = req[k],
         UNCHANGED <<bookings, history>>, met \subseteq met', torn \subseteq torn'
  PROVE  ChainInv'
<1>1. ASSUME NEW b \in Bookings
      PROVE  Told(b)'
  <2>1. ~Telling(req[r], b)' /\ Told(b) /\ bookings'[b] = bookings[b] /\ history'[b] = history[b]
    BY DEF Telling, ChainInv
  <2>2. ~Telling(req[r], b) \/ bookings[b].slot \in torn'
    BY TellerWorks DEF Telling, Abandon
  <2>3. QED
    BY <2>1, <2>2, ToldKept
<1>2. \A c \in Bookings : ~Exists(c)' => history'[c] = <<>>
  BY DEF Exists, ChainInv
<1>3. QED
  BY <1>1, <1>2 DEF ChainInv

\* Without abandoned requests and without two on one slot, the history of a booking
\* leads from its creation to its status.
THEOREM HistoryTold == Spec => []HistoryIsChain
<1>1. Init => ChainInv
  BY DEF Init, ChainInv, Told, Exists, NoBooking
<1>2. IInv /\ LInv /\ ChainInv /\ [Next]_vars => ChainInv'
  <2> SUFFICES ASSUME IInv, LInv, ChainInv, [Next]_vars
               PROVE  ChainInv'
    OBVIOUS
  <2>1. ASSUME NEW r \in Requests, Arrive(r)
        PROVE  ChainInv'
    <3>1. /\ req[r].pc = "idle" /\ Arrival(req'[r])
          /\ \A k \in Requests \ {r} : req'[k] = req[k]
          /\ UNCHANGED <<bookings, history>> /\ met \subseteq met' /\ torn \subseteq torn'
      BY <2>1, ArriveMoves DEF tables
    <3>2. req'[r].pc \notin {"history", "created"}
      BY <3>1 DEF Arrival
    <3>3. QED
      BY <3>1, <3>2, OtherChain
  <2>2. ASSUME NEW r \in Requests,
               \/ FindNewSlot(r) \/ CheckOverlap(r) \/ ReleaseSlot(r) \/ ReserveSlot(r)
               \/ MarkAsBooked(r) \/ WriteAuditLog(r) \/ Abandon(r)
               \/ (InsertBooking(r) /\ SlotTaken(req[r].slot))
        PROVE  ChainInv'
    <3>1. (\A k \in Requests \ {r} : req'[k] = req[k]) /\ met \subseteq met'
      BY <2>2, StatementMoves DEF Statement
    <3>2. /\ UNCHANGED <<bookings, history>> /\ torn \subseteq torn'
          /\ req[r].pc \notin {"history", "created"} \/ Abandon(r)
          /\ Finish(r) \/ \E pc \in Pcs \ {"history", "created"} : Goto(r, pc)
      BY <2>2 DEF FindNewSlot, CheckOverlap, ReleaseSlot, ReserveSlot, MarkAsBooked,
         InsertBooking, WriteAuditLog, Abandon, tables, Pcs
    <3>3. req'[r].pc \notin {"history", "created"}
      BY <3>2, RequestOf DEF Finish, Goto, Idle, IInv, TypeOK, Request
    <3>4. QED
      BY <3>1, <3>2, <3>3, OtherChain
  <2>3. CASE Tick \/ UNCHANGED vars
    <3>1. UNCHANGED <<bookings, history, req, met, torn>>
      BY <2>3 DEF Tick, tables, vars
    <3>2. \A b \in Bookings : Told(b)' <=> Told(b)
      BY <3>1 DEF Told, Exists, Quiet, Telling, Continues, Chain
    <3>3. QED
      BY <3>1, <3>2 DEF ChainInv, Exists
  <2>4. QED
    BY <2>1, <2>2, <2>3, UpdateChain, InsertChain, RecordChain DEF Next, Statement
<1>3. IInv /\ ChainInv => HistoryIsChain
  <2> SUFFICES ASSUME IInv, ChainInv, NEW b \in Bookings, Exists(b),
                      Undisturbed(bookings[b].slot)
               PROVE  Chain(history[b], bookings[b].status)
    BY DEF HistoryIsChain
  <2>1. \A r \in Requests : ~Telling(req[r], b)
    BY TellerWorks DEF InFlightOn, Undisturbed
  <2>2. QED
    BY <2>1 DEF ChainInv, Told, Quiet, Undisturbed
<1>4. QED
  BY <1>1, <1>2, <1>3, InductiveInvariant, LifecycleInvariant, PTL DEF Spec

-----------------------------------------------------------------------------
(* Slots and bookings *)

\* What SlotAgreesWithBooking says of one slot.
Agrees(s) ==
  /\ (\A b \in Bookings : bookings[b].slot # s) => slots[s].status = "AVAILABLE"
  /\ \A b \in Bookings : bookings[b].slot = s =>
       /\ bookings[b].status = "REQUESTED" =>
            slots[s] = [status |-> "RESERVED", reservedBy |-> bookings[b].parent]
       /\ bookings[b].status \in {"ACCEPTED", "COMPLETED"} =>
            slots[s] = [status |-> "BOOKED", reservedBy |-> bookings[b].parent]
       /\ bookings[b].status \in Closed =>
            slots[s].status \in {"AVAILABLE", "RESERVED"}

Free(s) == slots[s].status = "AVAILABLE"

\* The slot a request asks for: free once found, then reserved until it is inserted.
Asked(q, s) ==
  /\ q.pc \in {"newSlot", "overlap", "release", "reserve", "created"} => Agrees(s)
  /\ q.pc \in {"overlap", "release", "reserve"} => Free(s)
  /\ q.pc \in {"status", "history", "insert"} =>
       /\ slots[s] = [status |-> "RESERVED", reservedBy |-> q.parent]
       /\ \A b \in Bookings : bookings[b].slot = s => bookings[b].status \in Closed

\* The slot of the booking it works on: changed before the status, unless it booked it.
Held(q, s) ==
  /\ q.pc \notin {"reserve", "status"} => Agrees(s)
  /\ q.pc = "reserve" => Free(s)
  /\ q.pc = "status" =>
       IF q.op \in {"accept", "complete"}
       THEN slots[s] = [status |-> "BOOKED", reservedBy |-> bookings[q.booking].parent]
       ELSE Free(s)
  /\ q.pc = "newSlot" \/ q.slot # s

Stage(q, s) ==
  /\ q.slot = s => Asked(q, s)
  /\ q.held = s => Held(q, s)

\* The statements of accepting and of completing.
Route(q) ==
  /\ q.op = "accept" => q.pc \in {"book", "status", "history"}
  /\ q.op = "complete" => q.pc \in {"status", "history"}
  /\ q.pc = "book" => q.op = "accept"

SlotHolds(s) ==
  Quiet(s) =>
    /\ ~InFlightOn(s) => Agrees(s)
    /\ \A r \in Requests : s \in Working(r) => Stage(req[r], s)

SlotInv ==
  /\ \A r \in Requests : Route(req[r])
  /\ \A s \in Slots : SlotHolds(s)

\* A slot and bookings that do not change agree as before.
LEMMA AgreesKept ==
  ASSUME NEW s \in Slots, slots'[s] = slots[s],
         \A b \in Bookings : bookings[b].slot = s \/ bookings'[b].slot = s =>
                               bookings'[b] = bookings[b]
  PROVE  (Agrees(s)' <=> Agrees(s)) /\ (Free(s)' <=> Free(s))
<1>1. Agrees(s) => Agrees(s)'
  BY DEF Agrees
<1>2. Agrees(s)' => Agrees(s)
  BY DEF Agrees
<1>3. QED
  BY <1>1, <1>2 DEF Free

\* The status such a row has.
LEMMA AgreedStatus ==
  ASSUME NEW s \in Slots, Agrees(s), NEW b \in Bookings, bookings[b].slot = s
  PROVE  /\ bookings[b].status = "REQUESTED" => slots[s].status = "RESERVED"
         /\ bookings[b].status \in {"ACCEPTED", "COMPLETED"} => slots[s].status = "BOOKED"
<1>1. ASSUME NEW status, NEW p, slots[s] = [status |-> status, reservedBy |-> p]
      PROVE  slots[s].status = status
  BY <1>1
<1>2. QED
  BY <1>1 DEF Agrees

\* The rows of a slot's booking are well-formed.
LEMMA SlotRows ==
  ASSUME IInv, NEW s \in Slots, NEW b \in Bookings, bookings[b].slot = s
  PROVE  /\ bookings[b] \in BookingRow /\ bookings[b].status \in Status
         /\ \A c \in Bookings : bookings[c].slot = s => c = b
<1>1. bookings[b] # NoBooking
  BY NullAssumption DEF NoBooking
<1>2. QED
  BY <1>1 DEF IInv, TypeOK, BookingRow, SlotsUnique

\* What the invariants say of a request at work on a quiet slot.
LEMMA AtWork ==
  ASSUME IInv, LInv, SlotInv, NEW r \in Requests, NEW s \in Working(r), Quiet(s)
  PROVE  /\ s \in Slots /\ s # NULL /\ Stage(req[r], s) /\ Route(req[r])
         /\ req[r] \in Request /\ s \in {req[r].slot, req[r].held}
         /\ CreateRequest(req[r]) \/ RescheduleRequest(req[r]) \/ StatusRequest(req[r])
         /\ \A k \in Requests \ {r} : s \notin Working(k)
<1>1. s \in Slots /\ s # NULL /\ s \in {req[r].slot, req[r].held}
  BY WorkingSlots DEF Working
<1>2. req[r] # Idle
  BY <1>1 DEF Idle
<1>3. \A k \in Requests \ {r} : s \notin Working(k)
  BY DEF LInv, MeetingsNoted, Quiet
<1>4. QED
  BY <1>1, <1>2, <1>3, RequestOf DEF SlotInv, SlotHolds, RequestOK

\* The statements that write neither slots nor bookings.
LEMMA ReadingStage ==
  ASSUME IInv, LInv, SlotInv, NEW r \in Requests, NEW s \in Working(r), Quiet(s),
         FindNewSlot(r) \/ CheckOverlap(r)
  PROVE  IF req'[r] = Idle THEN Agrees(s)' ELSE Stage(req[r], s)'
<1>1. slots' = slots /\ bookings' = bookings
  BY DEF FindNewSlot, CheckOverlap, tables
<1>2. (Agrees(s)' <=> Agrees(s)) /\ (Free(s)' <=> Free(s))
  BY <1>1, AtWork, AgreesKept
<1>3. Agrees(s)
  BY AtWork DEF Stage, Asked, Held, FindNewSlot, CheckOverlap
<1>4. CASE Finish(r)
  BY <1>2, <1>3, <1>4 DEF Finish, IInv, TypeOK
<1>5. ASSUME NEW pc \in {"overlap", "reserve", "release"}, Goto(r, pc),
             pc = "overlap" => FindNewSlot(r) /\ IsAvailable(req[r].slot),
             pc = "reserve" => CheckOverlap(r) /\ req[r].op = "create",
             pc = "release" => CheckOverlap(r) /\ req[r].op # "create"
      PROVE  Stage(req[r], s)'
  <2>1. /\ req'[r].pc = pc /\ req'[r].slot = req[r].slot /\ req'[r].held = req[r].held
        /\ req'[r].op = req[r].op
    BY <1>5, AtWork DEF Goto, Request, IInv, TypeOK
  <2>2. req[r].slot = s => Free(s)
    BY <1>5, AtWork DEF Stage, Asked, Free, IsAvailable, CheckOverlap
  <2>3. req[r].held = s => req[r].slot # s
    <3> SUFFICES ASSUME req[r].held = s, req[r].slot = s, pc = "overlap"
                 PROVE  FALSE
      BY <1>5, AtWork DEF Stage, Held, CheckOverlap
    <3>1. /\ RescheduleRequest(req[r]) /\ req[r].pc = "newSlot"
          /\ bookings[req[r].booking].slot = s /\ req[r].booking \in Bookings
      BY <1>5, AtWork DEF FindNewSlot, CreateRequest, RescheduleRequest, StatusRequest, ReadRow
    <3>2. bookings[req[r].booking].status = "ACCEPTED"
      <4>1. /\ Lifecycle!MayBecome(req[r].seen, Target["reschedule"])
            /\ bookings[req[r].booking].status = req[r].seen
        BY <3>1, NullAssumption DEF LInv, SeenIsCurrent, Deciding, Quiet, RescheduleRequest
      <4>2. QED
        BY <4>1, SameRules DEF Target, IsAllowedTransition, AllowedTransitions
    <3>3. slots[s].status = "BOOKED"
      BY <1>3, <3>1, <3>2, AtWork, AgreedStatus
    <3>4. QED
      BY <2>2, <3>3 DEF Free
  <2>4. req[r].held = s => pc # "reserve"
    BY <1>5, AtWork DEF CreateRequest, RescheduleRequest, StatusRequest
  <2>5. QED
    BY <1>2, <1>3, <2>1, <2>2, <2>3, <2>4 DEF Stage, Asked, Held
<1>6. \/ Finish(r)
      \/ \E pc \in {"overlap", "reserve", "release"} :
           /\ Goto(r, pc)
           /\ pc = "overlap" => FindNewSlot(r) /\ IsAvailable(req[r].slot)
           /\ pc = "reserve" => CheckOverlap(r) /\ req[r].op = "create"
           /\ pc = "release" => CheckOverlap(r) /\ req[r].op # "create"
  BY DEF FindNewSlot, CheckOverlap
<1>7. Stage(req[r], s)' \/ (Finish(r) /\ Agrees(s)')
  BY <1>4, <1>5, <1>6, <1>2, <1>3
<1>8. CASE ~Finish(r)
  <2>1. req'[r] # Idle
    <3>1. \E pc \in {"overlap", "reserve", "release"} : Goto(r, pc)
      BY <1>6, <1>8
    <3>2. QED
      BY <3>1, AtWork DEF Goto, Request, IInv, TypeOK, Idle
  <2>2. QED
    BY <1>7, <1>8, <2>1
<1>9. QED
  BY <1>4, <1>8 DEF Finish, IInv, TypeOK

LEMMA ReleaseStage ==
  ASSUME IInv, LInv, SlotInv, NEW r \in Requests, NEW s \in Working(r), Quiet(s), ReleaseSlot(r)
  PROVE  Stage(req[r], s)'
<1>1. PICK pc \in {"reserve", "status"} :
        Goto(r, pc) /\ pc = (IF req[r].op = "reschedule" THEN "reserve" ELSE "status")
  BY DEF ReleaseSlot
<1>2. /\ req'[r].pc = pc /\ req'[r].slot = req[r].slot /\ req'[r].held = req[r].held
      /\ req'[r].op = req[r].op
  BY <1>1, AtWork DEF Goto, Request, IInv, TypeOK
<1>3. /\ req[r].pc = "release" /\ bookings' = bookings
      /\ slots' = [slots EXCEPT ![req[r].held] = [status |-> "AVAILABLE", reservedBy |-> NULL]]
  BY DEF ReleaseSlot
<1>4. CASE req[r].slot = s
  <2>1. req[r].held # s /\ Agrees(s) /\ Free(s)
    BY <1>3, <1>4, AtWork DEF Stage, Held, Asked
  <2>2. Agrees(s)' /\ Free(s)'
    BY <1>3, <2>1, AtWork, AgreesKept DEF IInv, TypeOK
  <2>3. req[r].op = "reschedule"
    BY <1>3, <1>4, AtWork DEF CreateRequest, RescheduleRequest, StatusRequest
  <2>4. QED
    BY <1>1, <1>2, <2>1, <2>2, <2>3 DEF Stage, Asked
<1>5. CASE req[r].slot # s
  <2>1. req[r].held = s /\ Free(s)'
    BY <1>3, <1>5, AtWork DEF Free, IInv, TypeOK
  <2>2. req[r].op \notin {"accept", "complete"}
    BY <1>3, AtWork DEF Route
  <2>3. QED
    BY <1>1, <1>2, <1>5, <2>1, <2>2 DEF Stage, Held
<1>6. QED
  BY <1>4, <1>5

LEMMA ReserveStage ==
  ASSUME IInv, LInv, SlotInv, NEW r \in Requests, NEW s \in Working(r), Quiet(s), ReserveSlot(r)
  PROVE  Stage(req[r], s)'
<1>1. PICK pc \in {"insert", "status"} :
        Goto(r, pc) /\ pc = (IF req[r].op = "create" THEN "insert" ELSE "status")
  BY DEF ReserveSlot
<1>2. /\ req'[r].pc = pc /\ req'[r].slot = req[r].slot /\ req'[r].held = req[r].held
      /\ req'[r].op = req[r].op /\ req'[r].parent = req[r].parent
  BY <1>1, AtWork DEF Goto, Request, IInv, TypeOK
<1>3. /\ req[r].pc = "reserve" /\ bookings' = bookings
      /\ slots' = [slots EXCEPT ![req[r].slot] =
                     [status |-> "RESERVED", reservedBy |-> req[r].parent]]
  BY DEF ReserveSlot
<1>4. CASE req[r].slot = s
  <2>1. req[r].held # s /\ Agrees(s) /\ Free(s)
    BY <1>3, <1>4, AtWork DEF Stage, Held, Asked
  <2>2. slots'[s] = [status |-> "RESERVED", reservedBy |-> req[r].parent]
    BY <1>3, <1>4, AtWork DEF IInv, TypeOK
  <2>3. ASSUME NEW b \in Bookings, bookings[b].slot = s
        PROVE  bookings[b].status \in Closed
    <3>1. bookings[b].status \in Status
      BY <2>3, AtWork, SlotRows
    <3>2. bookings[b].status \notin {"REQUESTED", "ACCEPTED", "COMPLETED"}
      BY <2>1, <2>3, AtWork, AgreedStatus DEF Free
    <3>3. QED
      BY <3>1, <3>2 DEF Status, Active
  <2>4. QED
    BY <1>1, <1>2, <1>3, <2>1, <2>2, <2>3 DEF Stage, Asked
<1>5. CASE req[r].slot # s
  <2>1. req[r].held = s /\ Free(s)
    BY <1>3, <1>5, AtWork DEF Stage, Held
  <2>2. Free(s)'
    BY <1>3, <1>5, <2>1, AtWork DEF Free, IInv, TypeOK
  <2>3. req[r].op = "reschedule"
    BY <1>3, <2>1, AtWork DEF CreateRequest, RescheduleRequest, StatusRequest
  <2>4. QED
    BY <1>1, <1>2, <1>5, <2>1, <2>2, <2>3 DEF Stage, Held
<1>6. QED
  BY <1>4, <1>5

LEMMA BookStage ==
  ASSUME IInv, LInv, SlotInv, NEW r \in Requests, NEW s \in Working(r), Quiet(s), MarkAsBooked(r)
  PROVE  Stage(req[r], s)'
<1>1. /\ req'[r].pc = "status" /\ req'[r].slot = req[r].slot /\ req'[r].held = req[r].held
      /\ req'[r].op = req[r].op /\ req'[r].booking = req[r].booking
  BY AtWork DEF MarkAsBooked, Goto, Request, IInv, TypeOK
<1>2. /\ req[r].pc = "book" /\ bookings' = bookings /\ req[r].op = "accept"
      /\ slots' = [slots EXCEPT ![req[r].held].status = "BOOKED"]
  BY AtWork DEF MarkAsBooked, Route
<1>3. /\ StatusRequest(req[r]) /\ req[r].slot = NULL /\ req[r].held = s
      /\ req[r].booking \in Bookings /\ bookings[req[r].booking].slot = s
  BY <1>2, AtWork DEF CreateRequest, RescheduleRequest, StatusRequest, ReadRow
<1>4. bookings[req[r].booking].status = "REQUESTED"
  <2>1. /\ Lifecycle!MayBecome(req[r].seen, Target["accept"])
        /\ bookings[req[r].booking].status = req[r].seen
    BY <1>2, <1>3, NullAssumption DEF LInv, SeenIsCurrent, Deciding, Quiet
  <2>2. QED
    BY <2>1, SameRules DEF Target, IsAllowedTransition, AllowedTransitions
<1>5. slots[s] = [status |-> "RESERVED", reservedBy |-> bookings[req[r].booking].parent]
  <2>1. Agrees(s)
    BY <1>2, <1>3, AtWork DEF Stage, Held
  <2>2. QED
    BY <1>3, <1>4, <2>1 DEF Agrees
<1>6. slots'[s] = [status |-> "BOOKED", reservedBy |-> bookings[req[r].booking].parent]
  BY <1>2, <1>3, <1>5, AtWork DEF IInv, TypeOK
<1>7. QED
  BY <1>1, <1>2, <1>3, <1>6, AtWork DEF Stage, Held

LEMMA UpdateStage ==
  ASSUME IInv, LInv, SlotInv, NEW r \in Requests, NEW s \in Working(r), Quiet(s), UpdateStatus(r)
  PROVE  Stage(req[r], s)'
<1>1. /\ req[r].pc = "status" /\ req[r].booking \in Bookings /\ req[r].op \in Ops \ {"create"}
      /\ bookings[req[r].booking].slot = req[r].held
      /\ req'[r].pc = "history" /\ req'[r].slot = req[r].slot /\ req'[r].held = req[r].held
      /\ req'[r].op = req[r].op /\ req'[r].parent = req[r].parent
      /\ bookings'[req[r].booking].status = Target[req[r].op]
      /\ bookings'[req[r].booking].slot = bookings[req[r].booking].slot
      /\ bookings'[req[r].booking].parent = bookings[req[r].booking].parent
      /\ \A c \in Bookings \ {req[r].booking} : bookings'[c] = bookings[c]
  BY UpdatedRow, UpdatedFields
<1>2. slots' = slots
  BY DEF UpdateStatus
<1>3. CASE req[r].slot = s
  <2>1. /\ req[r].held # s
        /\ slots[s] = [status |-> "RESERVED", reservedBy |-> req[r].parent]
        /\ \A b \in Bookings : bookings[b].slot = s => bookings[b].status \in Closed
    BY <1>1, <1>3, AtWork DEF Stage, Held, Asked
  <2>2. \A b \in Bookings : bookings'[b].slot = s => bookings'[b].status \in Closed
    BY <1>1, <2>1
  <2>3. QED
    BY <1>1, <1>2, <2>1, <2>2 DEF Stage, Asked
<1>4. CASE req[r].slot # s
  <2>1. req[r].held = s /\ bookings[req[r].booking].slot = s
    BY <1>1, <1>4, AtWork
  <2>2. IF req[r].op \in {"accept", "complete"}
        THEN slots[s] = [status |-> "BOOKED", reservedBy |-> bookings[req[r].booking].parent]
        ELSE Free(s)
    BY <1>1, <2>1, AtWork DEF Stage, Held
  <2>3. \A b \in Bookings : bookings'[b].slot = s => b = req[r].booking
    BY <1>1, <2>1, AtWork, SlotRows
  <2>4. IF req[r].op \in {"accept", "complete"}
        THEN Target[req[r].op] \in {"ACCEPTED", "COMPLETED"}
        ELSE Target[req[r].op] \in Closed
    BY <1>1 DEF Ops, Target, Closed
  <2>5. Agrees(s)'
    <3>1. CASE req[r].op \in {"accept", "complete"}
      <4>1. Target[req[r].op] \notin Closed \union {"REQUESTED"}
        BY <2>4, <3>1 DEF Closed
      <4>2. slots'[s] = [status |-> "BOOKED", reservedBy |-> bookings'[req[r].booking].parent]
        BY <1>1, <1>2, <2>2, <3>1
      <4>3. QED
        BY <1>1, <2>1, <2>3, <4>1, <4>2 DEF Agrees
    <3>2. CASE req[r].op \notin {"accept", "complete"}
      <4>1. Target[req[r].op] \in Closed /\ Target[req[r].op] \notin {"REQUESTED", "ACCEPTED", "COMPLETED"}
        BY <2>4, <3>2 DEF Closed
      <4>2. slots'[s].status = "AVAILABLE"
        BY <1>2, <2>2, <3>2 DEF Free
      <4>3. QED
        BY <1>1, <2>1, <2>3, <4>1, <4>2 DEF Agrees
    <3>3. QED
      BY <3>1, <3>2
  <2>6. QED
    BY <1>1, <1>4, <2>5 DEF Stage, Held
<1>5. QED
  BY <1>3, <1>4

LEMMA InsertStage ==
  ASSUME IInv, IInv', LInv, SlotInv, NEW r \in Requests, NEW s \in Working(r), Quiet(s),
         InsertBooking(r)
  PROVE  IF req'[r] = Idle THEN Agrees(s)' ELSE Stage(req[r], s)'
<1>1. /\ req[r].pc = "insert" /\ slots' = slots
      /\ req[r].slot \in Slots /\ req[r].op \in {"create", "reschedule"}
  BY AtWork DEF InsertBooking, CreateRequest, RescheduleRequest, StatusRequest
<1>2. CASE SlotTaken(req[r].slot)
  <2>1. bookings' = bookings /\ req'[r] = Idle
    BY <1>2 DEF InsertBooking, Finish, IInv, TypeOK
  <2>2. Agrees(s)
    <3>1. CASE req[r].slot = s
      <4>1. /\ slots[s] = [status |-> "RESERVED", reservedBy |-> req[r].parent]
            /\ \A b \in Bookings : bookings[b].slot = s => bookings[b].status \in Closed
        BY <1>1, <3>1, AtWork DEF Stage, Asked
      <4>2. \A x \in Closed : x \notin {"REQUESTED", "ACCEPTED", "COMPLETED"}
        BY DEF Closed
      <4>3. slots[s].status = "RESERVED"
        BY <4>1
      <4>4. QED
        BY <1>2, <3>1, <4>1, <4>2, <4>3 DEF Agrees, SlotTaken
    <3>2. CASE req[r].slot # s
      BY <1>1, <3>2, AtWork DEF Stage, Held
    <3>3. QED
      BY <3>1, <3>2
  <2>3. QED
    BY <1>1, <2>1, <2>2, AtWork, AgreesKept
<1>3. CASE ~SlotTaken(req[r].slot)
  <2>1. PICK b \in Bookings :
           /\ bookings[b] = NoBooking
           /\ bookings'[b] = [status |-> "REQUESTED", slot |-> req[r].slot,
                              parent |-> req[r].parent, from |-> req[r].booking]
           /\ \A c \in Bookings \ {b} : bookings'[c] = bookings[c]
           /\ req'[r] = [req[r] EXCEPT !.pc = "created", !.made = b]
    BY <1>3, InsertedBooking
  <2>2. /\ req'[r].pc = "created" /\ req'[r].slot = req[r].slot /\ req'[r].held = req[r].held
        /\ req'[r] # Idle
    <3>1. /\ req'[r].pc = "created" /\ req'[r].slot = req[r].slot
          /\ req'[r].held = req[r].held
      BY <2>1, RequestOf DEF Request
    <3>2. QED
      BY <3>1 DEF Idle
  <2>3. CASE req[r].slot = s
    <3>1. slots[s] = [status |-> "RESERVED", reservedBy |-> req[r].parent]
          /\ req[r].held # s
      BY <1>1, <2>3, AtWork DEF Stage, Asked, Held
    <3>2. \A c \in Bookings : bookings'[c].slot = s => c = b
      BY <1>3, <2>1, <2>3 DEF SlotTaken
    <3>3. Agrees(s)'
      BY <1>1, <2>1, <2>3, <3>1, <3>2 DEF Agrees, Closed
    <3>4. QED
      BY <2>2, <3>1, <3>3 DEF Stage, Asked
  <2>4. CASE req[r].slot # s
    <3>1. req[r].held = s /\ Agrees(s)
      BY <1>1, <2>4, AtWork DEF Stage, Held
    <3>2. bookings[b].slot # s /\ bookings'[b].slot # s
      BY <2>1, <2>4, AtWork DEF NoBooking
    <3>3. Agrees(s)'
      BY <1>1, <2>1, <3>1, <3>2, AtWork, AgreesKept
    <3>4. QED
      BY <2>2, <2>4, <3>1, <3>3 DEF Stage, Held
  <2>5. QED
    BY <2>2, <2>3, <2>4
<1>4. QED
  BY <1>2, <1>3

\* The statements that write the history and the audit log.
LEMMA RecordStage ==
  ASSUME IInv, LInv, SlotInv, NEW r \in Requests, NEW s \in Working(r), Quiet(s),
         AddStatusHistory(r) \/ RecordCreation(r) \/ WriteAuditLog(r)
  PROVE  IF req'[r] = Idle THEN Agrees(s)' ELSE Stage(req[r], s)'
<1>1. slots' = slots /\ bookings' = bookings /\ req[r].pc \in {"history", "created", "audit"}
  BY DEF AddStatusHistory, RecordCreation, WriteAuditLog
<1>2. Agrees(s)' <=> Agrees(s)
  BY <1>1, AtWork, AgreesKept
<1>3. CASE req[r].slot = s /\ req[r].pc = "history"
  <2>1. req[r].op = "reschedule" /\ Goto(r, "insert")
    BY <1>3, AtWork DEF AddStatusHistory, RecordCreation, WriteAuditLog, CreateRequest,
       RescheduleRequest, StatusRequest
  <2>2. /\ req'[r].pc = "insert" /\ req'[r].slot = req[r].slot /\ req'[r].held = req[r].held
        /\ req'[r].parent = req[r].parent
    BY <2>1, AtWork DEF Goto, Request, IInv, TypeOK
  <2>3. req[r].held # s /\ Asked(req[r], s)
    BY <1>3, AtWork DEF Stage, Held
  <2>4. Stage(req[r], s)'
    BY <1>1, <1>3, <2>2, <2>3 DEF Stage, Asked
  <2>5. QED
    BY <2>2, <2>4 DEF Idle
<1>4. CASE req[r].slot # s \/ req[r].pc # "history"
  <2>1. Agrees(s)
    <3>1. CASE req[r].slot # s
      BY <1>1, <3>1, AtWork DEF Stage, Held
    <3>2. CASE req[r].slot = s
      <4>1. req[r].pc = "created"
        BY <1>1, <1>4, <3>2, AtWork DEF CreateRequest, RescheduleRequest, StatusRequest
      <4>2. QED
        BY <3>2, <4>1, AtWork DEF Stage, Asked
    <3>3. QED
      BY <3>1, <3>2
  <2>2. CASE Finish(r)
    BY <1>2, <2>1, <2>2 DEF Finish, IInv, TypeOK
  <2>3. CASE ~Finish(r)
    <3>1. PICK pc \in {"insert", "audit"} : Goto(r, pc) /\ req[r].pc = "history"
      BY <2>3 DEF AddStatusHistory, RecordCreation, WriteAuditLog
    <3>2. /\ req'[r].pc = pc /\ req'[r].slot = req[r].slot /\ req'[r].held = req[r].held
          /\ req'[r] # Idle
      BY <3>1, AtWork DEF Goto, Request, IInv, TypeOK, Idle
    <3>3. Stage(req[r], s)'
      BY <1>2, <1>4, <2>1, <3>1, <3>2 DEF Stage, Held
    <3>4. QED
      BY <3>2, <3>3
  <2>4. QED
    BY <2>2, <2>3
<1>5. QED
  BY <1>3, <1>4

\* A statement writes the slots its request works on and their bookings, no other.
LEMMA WritesItsSlots ==
  ASSUME IInv, NEW r \in Requests, Statement(r) \/ Abandon(r), NEW s \in Slots, s \notin Working(r)
  PROVE  /\ slots'[s] = slots[s]
         /\ \A b \in Bookings : bookings[b].slot = s \/ bookings'[b].slot = s =>
                                  bookings'[b] = bookings[b]
<1>1. slots'[s] = slots[s]
  <2>1. s # req[r].slot /\ s # req[r].held
    BY NullAssumption DEF Working
  <2>2. QED
    BY <2>1 DEF Statement, Abandon, FindNewSlot, CheckOverlap, ReleaseSlot, ReserveSlot,
       MarkAsBooked, UpdateStatus, AddStatusHistory, InsertBooking, RecordCreation,
       WriteAuditLog, tables, IInv, TypeOK
<1>2. CASE UpdateStatus(r)
  <2>1. /\ bookings[req[r].booking].slot \in Working(r)
        /\ bookings'[req[r].booking].slot = bookings[req[r].booking].slot
        /\ \A c \in Bookings \ {req[r].booking} : bookings'[c] = bookings[c]
    BY <1>2, UpdatedRow DEF BookingRow
  <2>2. QED
    BY <1>1, <2>1
<1>3. CASE InsertBooking(r) /\ ~SlotTaken(req[r].slot)
  <2>1. PICK b \in Bookings :
           /\ req[r].slot \in Working(r)
           /\ bookings[b] = NoBooking
           /\ bookings'[b] = [status |-> "REQUESTED", slot |-> req[r].slot,
                              parent |-> req[r].parent, from |-> req[r].booking]
           /\ \A c \in Bookings \ {b} : bookings'[c] = bookings[c]
    BY <1>3, InsertedBooking
  <2>2. bookings[b].slot # s /\ bookings'[b].slot # s
    BY <2>1, NullAssumption DEF NoBooking
  <2>3. QED
    BY <1>1, <2>1, <2>2
<1>4. CASE bookings' = bookings
  BY <1>1, <1>4
<1>5. QED
  BY <1>2, <1>3, <1>4 DEF Statement, Abandon, FindNewSlot, CheckOverlap, ReleaseSlot,
     ReserveSlot, MarkAsBooked, AddStatusHistory, InsertBooking, RecordCreation,
     WriteAuditLog, tables

\* A request on a slot whose rows do not change stays at its stage.
LEMMA StageKept ==
  ASSUME IInv, NEW s \in Slots, NEW k \in Requests, req'[k] = req[k], slots'[s] = slots[s],
         \A b \in Bookings : bookings[b].slot = s \/ bookings'[b].slot = s =>
                               bookings'[b] = bookings[b],
         Stage(req[k], s)
  PROVE  Stage(req[k], s)'
<1>1. (Agrees(s)' <=> Agrees(s)) /\ (Free(s)' <=> Free(s))
  BY AgreesKept
<1>2. req[k].slot = s => Asked(req[k], s)'
  BY <1>1 DEF Stage, Asked
<1>3. req[k].held = s => Held(req[k], s)'
  <2> SUFFICES ASSUME req[k].held = s
               PROVE  Held(req[k], s)'
    OBVIOUS
  <2>1. bookings[req[k].booking].slot = s /\ req[k].booking \in Bookings
    BY NullAssumption DEF IInv, RequestsOK, Idle, CreateRequest, RescheduleRequest,
       StatusRequest, ReadRow
  <2>2. bookings'[req[k].booking] = bookings[req[k].booking] /\ Held(req[k], s)
    BY <2>1 DEF Stage
  <2>3. QED
    BY <1>1, <2>2 DEF Held
<1>4. QED
  BY <1>2, <1>3 DEF Stage

LEMMA RouteKept ==
  ASSUME IInv, NEW r \in Requests, Statement(r) \/ Abandon(r), Route(req[r])
  PROVE  Route(req[r])'
<1>1. req[r] \in Request
  BY RequestOf
<1>2. ASSUME NEW pc \in Pcs, Goto(r, pc),
             req[r].op = "accept" => pc \in {"status", "history"},
             req[r].op = "complete" => pc = "history", pc # "book"
      PROVE  Route(req[r])'
  <2>1. req'[r].pc = pc /\ req'[r].op = req[r].op
    BY <1>1, <1>2 DEF Goto, Request, IInv, TypeOK
  <2>2. QED
    BY <1>2, <2>1 DEF Route
<1>3. CASE Finish(r)
  BY <1>3 DEF Finish, Idle, Route, IInv, TypeOK
<1>4. CASE InsertBooking(r)
  <2>1. CASE ~SlotTaken(req[r].slot)
    <3>1. req'[r].op = req[r].op /\ req'[r].pc = "created"
          /\ req[r].op \in {"create", "reschedule"}
      BY <1>1, <1>4, <2>1, InsertedBooking DEF Request
    <3>2. QED
      BY <3>1 DEF Route
  <2>2. QED
    BY <1>3, <1>4, <2>1 DEF InsertBooking
<1>5. CASE FindNewSlot(r) \/ CheckOverlap(r)
  <2>1. req[r].op \in {"create", "reschedule"}
    BY <1>5 DEF FindNewSlot, CheckOverlap, IInv, RequestsOK, Idle, CreateRequest,
       RescheduleRequest, StatusRequest
  <2>2. Finish(r) \/ \E pc \in {"overlap", "reserve", "release"} : Goto(r, pc)
    BY <1>5 DEF FindNewSlot, CheckOverlap
  <2>3. QED
    BY <1>2, <1>3, <2>1, <2>2 DEF Pcs
<1>6. CASE ReleaseSlot(r) \/ ReserveSlot(r)
  <2>1. req[r].op \notin {"accept", "complete"}
    BY <1>6 DEF ReleaseSlot, ReserveSlot, Route
  <2>2. \E pc \in {"reserve", "status", "insert"} : Goto(r, pc)
    BY <1>6 DEF ReleaseSlot, ReserveSlot
  <2>3. QED
    BY <1>2, <2>1, <2>2 DEF Pcs
<1>7. CASE MarkAsBooked(r)
  BY <1>2, <1>7 DEF MarkAsBooked, Route, Pcs
<1>8. CASE UpdateStatus(r)
  BY <1>2, <1>8 DEF UpdateStatus, Pcs
<1>9. CASE AddStatusHistory(r)
  <2>1. \/ Finish(r)
        \/ \E pc \in {"insert", "audit"} :
             Goto(r, pc) /\ req[r].op \in {"reschedule", "cancelByAdmin"}
    BY <1>9 DEF AddStatusHistory
  <2>2. QED
    BY <1>2, <1>3, <2>1 DEF Pcs
<1>10. QED
  BY <1>3, <1>4, <1>5, <1>6, <1>7, <1>8, <1>9
  DEF Statement, Abandon, RecordCreation, WriteAuditLog

\* A statement takes the slots of its request to the next stage.
LEMMA NextStage ==
  ASSUME IInv, IInv', LInv, SlotInv, NEW r \in Requests, Statement(r), NEW s \in Working(r),
         Quiet(s)
  PROVE  IF req'[r] = Idle THEN Agrees(s)' ELSE Stage(req[r], s)'
<1>1. CASE ReleaseSlot(r) \/ ReserveSlot(r) \/ MarkAsBooked(r) \/ UpdateStatus(r)
  <2>1. Stage(req[r], s)'
    BY <1>1, ReleaseStage, ReserveStage, BookStage, UpdateStage
  <2>2. \E pc \in {"reserve", "status", "insert", "history"} : Goto(r, pc)
    BY <1>1 DEF ReleaseSlot, ReserveSlot, MarkAsBooked, UpdateStatus
  <2>3. req'[r] # Idle
    BY <2>2, AtWork DEF Goto, Request, IInv, TypeOK, Idle
  <2>4. QED
    BY <2>1, <2>3
<1>2. CASE FindNewSlot(r) \/ CheckOverlap(r)
  BY <1>2, ReadingStage
<1>3. CASE InsertBooking(r)
  BY <1>3, InsertStage
<1>4. CASE AddStatusHistory(r) \/ RecordCreation(r) \/ WriteAuditLog(r)
  BY <1>4, RecordStage
<1>5. QED
  BY <1>1, <1>2, <1>3, <1>4 DEF Statement

\* A request keeps its slots until it ends.
LEMMA KeepsItsSlots ==
  ASSUME IInv, NEW r \in Requests, Statement(r), req'[r] # Idle
  PROVE  req'[r].slot = req[r].slot /\ req'[r].held = req[r].held
<1>1. ~Finish(r)
  BY DEF Finish, IInv, TypeOK
<1>2. CASE InsertBooking(r)
  <2>1. ~SlotTaken(req[r].slot)
    BY <1>1, <1>2 DEF InsertBooking
  <2>2. PICK b \in Bookings : req'[r] = [req[r] EXCEPT !.pc = "created", !.made = b]
    BY <1>2, <2>1, InsertedBooking
  <2>3. QED
    BY <2>2, RequestOf DEF Request
<1>3. CASE ~InsertBooking(r)
  <2>1. \E pc \in Pcs : Goto(r, pc)
    BY <1>1, <1>3 DEF Statement, FindNewSlot, CheckOverlap, ReleaseSlot, ReserveSlot,
       MarkAsBooked, UpdateStatus, AddStatusHistory, RecordCreation, WriteAuditLog, Pcs
  <2>2. QED
    BY <2>1, RequestOf DEF Goto, Request, IInv, TypeOK
<1>4. QED
  BY <1>2, <1>3

\* A slot the request does not work on, and those it does.
LEMMA StatementSlots ==
  ASSUME IInv, IInv', LInv, SlotInv, NEW r \in Requests, Statement(r) \/ Abandon(r)
  PROVE  SlotInv'
<1>1. /\ met' = met /\ torn \subseteq torn' /\ Working(r)' \subseteq Working(r)
      /\ \A k \in Requests \ {r} : req'[k] = req[k] /\ Working(k)' = Working(k)
  <2>1. torn \subseteq torn'
    BY DEF Statement, Abandon, FindNewSlot, CheckOverlap, ReleaseSlot, ReserveSlot,
       MarkAsBooked, UpdateStatus, AddStatusHistory, InsertBooking, RecordCreation,
       WriteAuditLog
  <2>2. QED
    BY <2>1, StatementMoves DEF Working
<1>2. ASSUME NEW s \in Slots, s \notin Working(r), Quiet(s)
      PROVE  SlotHolds(s)'
  <2>1. /\ slots'[s] = slots[s]
        /\ \A b \in Bookings : bookings[b].slot = s \/ bookings'[b].slot = s =>
                                 bookings'[b] = bookings[b]
    BY <1>2, WritesItsSlots
  <2>2. ASSUME ~InFlightOn(s)'
        PROVE  Agrees(s)'
    <3>1. ~InFlightOn(s)
      BY <1>1, <1>2, <2>2 DEF InFlightOn
    <3>2. QED
      BY <1>2, <2>1, <3>1, AgreesKept DEF SlotInv, SlotHolds
  <2>3. ASSUME NEW k \in Requests, s \in Working(k)'
        PROVE  Stage(req[k], s)'
    <3>1. req'[k] = req[k] /\ s \in Working(k)
      BY <1>1, <1>2, <2>3
    <3>2. Stage(req[k], s)
      BY <1>2, <3>1 DEF SlotInv, SlotHolds
    <3>3. QED
      BY <2>1, <3>1, <3>2, StageKept
  <2>4. QED
    BY <2>2, <2>3 DEF SlotHolds
<1>3. ASSUME NEW s \in Working(r), Quiet(s), Statement(r)
      PROVE  SlotHolds(s)'
  <2>1. s \in Slots /\ s # NULL /\ \A k \in Requests \ {r} : s \notin Working(k)
    BY <1>3, AtWork
  <2>2. IF req'[r] = Idle THEN Agrees(s)' ELSE Stage(req[r], s)'
    BY <1>3, NextStage
  <2>3. \A k \in Requests \ {r} : s \notin Working(k)'
    BY <1>1, <2>1
  <2>4. req'[r] = Idle => s \notin Working(r)'
    BY <2>1 DEF Idle, Working
  <2>5. req'[r] # Idle => s \in Working(r)'
    <3> SUFFICES ASSUME req'[r] # Idle
                 PROVE  s \in Working(r)'
      OBVIOUS
    <3>1. req'[r].slot = req[r].slot /\ req'[r].held = req[r].held
      BY <1>3, KeepsItsSlots
    <3>2. QED
      BY <1>3, <3>1 DEF Working
  <2>6. QED
    BY <2>2, <2>3, <2>4, <2>5 DEF SlotHolds, InFlightOn
<1>4. ASSUME NEW s \in Working(r), Abandon(r)
      PROVE  SlotHolds(s)'
  BY <1>4 DEF Abandon, SlotHolds, Quiet
<1>5. ASSUME NEW s \in Slots
      PROVE  SlotHolds(s)'
  <2>1. CASE Quiet(s)
    BY <1>2, <1>3, <1>4, <2>1
  <2>2. CASE ~Quiet(s)
    BY <1>1, <2>2 DEF Quiet, SlotHolds
  <2>3. QED
    BY <2>1, <2>2
<1>6. \A k \in Requests : Route(req[k])'
  BY <1>1, RouteKept DEF SlotInv, Route
<1>7. QED
  BY <1>5, <1>6 DEF SlotInv

\* A request that arrives on a quiet slot finds it agreeing with its booking.
LEMMA ArriveSlots ==
  ASSUME IInv, IInv', LInv, LInv', SlotInv, NEW r \in Requests, Arrive(r)
  PROVE  SlotInv'
<1>1. /\ Arrival(req'[r]) /\ req'[r] \in Request /\ req[r].pc = "idle"
      /\ slots' = slots /\ bookings' = bookings /\ met \subseteq met' /\ torn' = torn
      /\ \A k \in Requests \ {r} : req'[k] = req[k] /\ Working(k)' = Working(k)
      /\ Working(r)' \subseteq Slots
  BY ArriveMoves DEF tables, Working
<1>2. Working(r) = {}
  <2>1. req[r] = Idle
    BY <1>1, RequestOf DEF RequestOK, CreateRequest, RescheduleRequest, StatusRequest
  <2>2. QED
    BY <2>1 DEF Idle, Working
<1>3. ASSUME NEW s \in Slots, Quiet(s)'
      PROVE  SlotHolds(s)'
  <2>1. Quiet(s) /\ (Agrees(s)' <=> Agrees(s)) /\ (Free(s)' <=> Free(s))
    BY <1>1, <1>3, AgreesKept DEF Quiet
  <2>2. ASSUME ~InFlightOn(s)'
        PROVE  Agrees(s)'
    BY <1>1, <1>2, <2>1, <2>2 DEF InFlightOn, SlotInv, SlotHolds
  <2>3. ASSUME NEW k \in Requests \ {r}, s \in Working(k)'
        PROVE  Stage(req[k], s)'
    <3>1. req'[k] = req[k] /\ Stage(req[k], s)
      BY <1>1, <2>1, <2>3 DEF SlotInv, SlotHolds
    <3>2. QED
      BY <1>1, <3>1, StageKept
  <2>4. ASSUME s \in Working(r)'
        PROVE  Stage(req[r], s)'
    <3>1. \A k \in Requests \ {r} : s \notin Working(k)'
      BY <1>3, <2>4 DEF LInv, MeetingsNoted, Quiet
    <3>2. Agrees(s)
      BY <1>1, <1>2, <2>1, <3>1 DEF InFlightOn, SlotInv, SlotHolds
    <3>3. req'[r].slot = s => Asked(req[r], s)' /\ req'[r].pc \in {"overlap", "newSlot"}
      <4> SUFFICES ASSUME req'[r].slot = s
                   PROVE  Asked(req[r], s)' /\ req'[r].pc \in {"overlap", "newSlot"}
        OBVIOUS
      <4>1. \/ req'[r].pc = "newSlot"
            \/ req'[r].pc = "overlap" /\ IsAvailable(s)
        BY <1>1, NullAssumption DEF Arrival
      <4>2. QED
        BY <2>1, <3>2, <4>1 DEF Asked, IsAvailable, Free
    <3>4. req'[r].held = s => Held(req[r], s)'
      <4> SUFFICES ASSUME req'[r].held = s
                   PROVE  Held(req[r], s)'
        OBVIOUS
      <4>1. /\ req'[r].booking \in Bookings /\ bookings[req'[r].booking].slot = s
            /\ bookings[req'[r].booking].status = req'[r].seen
            /\ req'[r].pc # "reserve"
            /\ req'[r].pc = "status" => req'[r].op = "complete" /\ req'[r].seen = "ACCEPTED"
            /\ req'[r].pc = "newSlot" \/ req'[r].slot = NULL
        BY <1>1, NullAssumption DEF Arrival
      <4>2. req'[r].pc = "status" =>
              slots[s] = [status |-> "BOOKED", reservedBy |-> bookings[req'[r].booking].parent]
        BY <3>2, <4>1 DEF Agrees
      <4>3. QED
        BY <1>1, <2>1, <3>2, <4>1, <4>2, NullAssumption DEF Held
    <3>5. QED
      BY <3>3, <3>4 DEF Stage
  <2>5. QED
    BY <2>2, <2>3, <2>4 DEF SlotHolds
<1>4. \A s \in Slots : SlotHolds(s)'
  BY <1>3 DEF SlotHolds
<1>5. Route(req[r])'
  BY <1>1 DEF Arrival, Route
<1>6. \A k \in Requests : Route(req[k])'
  BY <1>1, <1>5 DEF SlotInv, Route
<1>7. QED
  BY <1>4, <1>6 DEF SlotInv

\* Between requests a slot no two worked on and none abandoned agrees with its booking.
THEOREM SlotsAgree == Spec => []SlotAgreesWithBooking
<1>1. Init => SlotInv
  BY NullAssumption DEF Init, SlotInv, SlotHolds, Route, Idle, Working, Agrees, NoBooking
<1>2. IInv /\ IInv' /\ LInv /\ LInv' /\ SlotInv /\ [Next]_vars => SlotInv'
  <2> SUFFICES ASSUME IInv, IInv', LInv, LInv', SlotInv, [Next]_vars
               PROVE  SlotInv'
    OBVIOUS
  <2>1. CASE Tick \/ UNCHANGED vars
    <3>1. UNCHANGED <<slots, bookings, req, met, torn>>
      BY <2>1 DEF Tick, tables, vars
    <3>2. ASSUME NEW s \in Slots
          PROVE  SlotHolds(s)'
      <4>1. Agrees(s)' <=> Agrees(s)
        BY <3>1, AgreesKept
      <4>2. \A k \in Requests : Stage(req[k], s) => Stage(req[k], s)'
        BY <3>1, StageKept
      <4>3. SlotHolds(s)
        BY DEF SlotInv
      <4>4. (Quiet(s)' <=> Quiet(s)) /\ (InFlightOn(s)' <=> InFlightOn(s))
            /\ \A k \in Requests : Working(k)' = Working(k)
        BY <3>1 DEF Quiet, InFlightOn, Working
      <4>5. QED
        BY <4>1, <4>2, <4>3, <4>4 DEF SlotHolds
    <3>3. \A k \in Requests : Route(req[k])'
      BY <3>1 DEF SlotInv, Route
    <3>4. QED
      BY <3>2, <3>3 DEF SlotInv
  <2>2. QED
    BY <2>1, ArriveSlots, StatementSlots DEF Next
<1>3. SlotInv => SlotAgreesWithBooking
  BY DEF SlotInv, SlotHolds, SlotAgreesWithBooking, Undisturbed, Quiet, Agrees
<1>4. QED
  BY <1>1, <1>2, <1>3, InductiveInvariant, LifecycleInvariant, PTL DEF Spec

=============================================================================
