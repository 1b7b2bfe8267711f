------------------------------ MODULE Bookings ------------------------------
(***************************************************************************)
(* Booking requests against the tables TutorAvailabilitySlot, Booking and  *)
(* BookingStatusHistory.                                                   *)
(*                                                                         *)
(* A use case awaits one database statement after another and opens no     *)
(* transaction, so a request is a process that executes one statement per  *)
(* step, and the statements of concurrent requests interleave.  A request  *)
(* acts on the booking row it read first.  It may also be abandoned        *)
(* between two statements (an API restart, a lost connection).             *)
(*                                                                         *)
(* Two history variables say which slots saw anything but one undisturbed  *)
(* request after the other: met holds the sets {s, t} of overlapping slots *)
(* of one tutor on which two requests were in flight at the same time      *)
(* ({s} when both worked on s itself), torn the slots an abandoned request *)
(* had been working on.                                                    *)
(***************************************************************************)
EXTENDS BookingRules, Sequences

CONSTANTS
  Parents,    \* parents who book
  Tutors,     \* tutors who offer slots
  Slots,      \* rows of TutorAvailabilitySlot
  Bookings,   \* ids of Booking rows
  Requests,   \* requests the API serves at the same time
  TutorOf,    \* the tutor of each slot
  StartAt,    \* start of each slot
  EndAt,      \* end of each slot
  MaxTime,    \* bound of the clock
  MaxArrivals, \* bound on the requests that pass their first reads
  NULL

ASSUME SlotAssumption ==
  /\ TutorOf \in [Slots -> Tutors]
  /\ StartAt \in [Slots -> Int]
  /\ EndAt \in [Slots -> Int]
  /\ \A s \in Slots : StartAt[s] < EndAt[s]

ASSUME BoundAssumption == MaxTime \in Nat /\ MaxArrivals \in Nat

ASSUME NullAssumption ==
  NULL \notin Parents \union Slots \union Bookings

VARIABLES
  slots,      \* TutorAvailabilitySlot: status and reservedByParentId
  bookings,   \* Booking: status, slot, parent and rescheduledFromBookingId
  history,    \* BookingStatusHistory: per booking, the rows in insertion order
  auditLog,   \* bookings with an ADMIN_CANCEL_BOOKING row in the audit log
  now,        \* the clock
  req,        \* the requests in flight
  arrivals,   \* how many requests have passed their first reads
  met, torn   \* history variables, see above

tables == <<slots, bookings, history, auditLog>>
vars == <<slots, bookings, history, auditLog, now, req, arrivals, met, torn>>

Ops == {"create", "accept", "reject", "cancelByParent", "cancelByTutor",
        "cancelByAdmin", "reschedule", "complete"}

\* The statement a request executes next.
Pcs == {"idle", "newSlot", "overlap", "release", "reserve", "book", "status",
        "history", "insert", "created", "audit"}

\* The status an operation writes to the booking it was called for.
Target ==
  [ accept         |-> "ACCEPTED",
    reject         |-> "REJECTED",
    cancelByParent |-> "CANCELLED_BY_PARENT",
    cancelByTutor  |-> "CANCELLED_BY_TUTOR",
    cancelByAdmin  |-> "CANCELLED_BY_ADMIN",
    reschedule     |-> "RESCHEDULED",
    complete       |-> "COMPLETED" ]

NoBooking == [status |-> "NONE", slot |-> NULL, parent |-> NULL, from |-> NULL]

\* booking, held and seen are the booking row read first, its slot and its
\* status; slot is the slot asked for, made the row inserted for it.
Idle == [pc |-> "idle", op |-> "create", parent |-> NULL, booking |-> NULL,
         held |-> NULL, seen |-> "NONE", slot |-> NULL, made |-> NULL]

-----------------------------------------------------------------------------
(* Predicates on the tables *)

Exists(b) == bookings[b].status # "NONE"

\* Two slots one tutor cannot teach both; every slot is near itself.
Near(s, t) ==
  /\ TutorOf[s] = TutorOf[t]
  /\ RangesOverlap(StartAt[s], EndAt[s], StartAt[t], EndAt[t])

IsAvailable(s) == slots[s].status = "AVAILABLE" /\ now < StartAt[s]

\* Mutant: a booking the tutor has not accepted yet does not count.
HasOverlappingAccepted(s) ==
  \E b \in Bookings : Exists(b) /\ bookings[b].status = "ACCEPTED"
                                /\ Near(bookings[b].slot, s)

\* A booking copies tutor and times from its slot, whose times never change.
HasOverlapping(s) ==
  \E b \in Bookings : Exists(b) /\ bookings[b].status \in Active
                                /\ Near(bookings[b].slot, s)

Working(r) == {req[r].held, req[r].slot} \ {NULL}
InFlight(r) == req[r].pc # "idle"
InFlightOn(s) == \E r \in Requests : s \in Working(r)

-----------------------------------------------------------------------------
Init ==
  /\ slots = [s \in Slots |-> [status |-> "AVAILABLE", reservedBy |-> NULL]]
  /\ bookings = [b \in Bookings |-> NoBooking]
  /\ history = [b \in Bookings |-> <<>>]
  /\ auditLog = {}
  /\ now = 0
  /\ req = [r \in Requests |-> Idle]
  /\ arrivals = 0
  /\ met = {}
  /\ torn = {}

\* Request r starts and passes its first reads: those are the guards below.  A
\* request whose reads fail throws before it wrote anything.
Begin(r, request, mine) ==
  /\ ~InFlight(r)
  /\ arrivals < MaxArrivals
  /\ arrivals' = arrivals + 1
  /\ req' = [req EXCEPT ![r] = request]
  /\ met' = met \union
       {e \in {{s, t} : s \in mine, t \in UNION {Working(q) : q \in Requests}} :
          \A s, t \in e : Near(s, t)}
  /\ UNCHANGED <<tables, now, torn>>

\* An operation on booking b; only its parent, its tutor or an admin gets this
\* far, so the caller adds nothing to the row.
BeginOn(r, op, b, first) ==
  Begin(r, [Idle EXCEPT !.pc = first, !.op = op, !.parent = bookings[b].parent,
                        !.booking = b, !.held = bookings[b].slot,
                        !.seen = bookings[b].status],
        {bookings[b].slot})

CreateBooking(r, p, s) ==
  /\ IsAvailable(s)
  /\ Begin(r, [Idle EXCEPT !.pc = "overlap", !.parent = p, !.slot = s], {s})

\* Mutant: accepting leaves the slot reserved.
AcceptBookingUnbooked(r, b) ==
  /\ IsAllowedTransition(bookings[b].status, "ACCEPTED")
  /\ BeginOn(r, "accept", b, "status")

AcceptBooking(r, b) ==
  /\ IsAllowedTransition(bookings[b].status, "ACCEPTED")
  /\ BeginOn(r, "accept", b, "book")

RejectBooking(r, b) ==
  /\ IsAllowedTransition(bookings[b].status, "REJECTED")
  /\ BeginOn(r, "reject", b, "release")

CancelBooking(r, op, b) ==
  /\ bookings[b].status \in CancellableStatuses
  /\ now < StartAt[bookings[b].slot]
  /\ BeginOn(r, op, b, "release")

\* Mutant: an admin may cancel whatever the status.
AdminCancelAnyBooking(r, b) ==
  /\ Exists(b)
  /\ BeginOn(r, "cancelByAdmin", b, "release")

AdminCancelBooking(r, b) ==
  /\ bookings[b].status \in AdminCancellableStatuses
  /\ BeginOn(r, "cancelByAdmin", b, "release")

CompleteBooking(r, b) ==
  /\ IsAllowedTransition(bookings[b].status, "COMPLETED")
  /\ now >= EndAt[bookings[b].slot]
  /\ BeginOn(r, "complete", b, "status")

RescheduleBooking(r, b, s) ==
  /\ IsAllowedTransition(bookings[b].status, "RESCHEDULED")
  /\ Begin(r, [Idle EXCEPT !.pc = "newSlot", !.op = "reschedule",
                           !.parent = bookings[b].parent, !.booking = b,
                           !.held = bookings[b].slot,
                           !.seen = bookings[b].status, !.slot = s],
           {bookings[b].slot, s})

-----------------------------------------------------------------------------
(* The statements of a request in flight *)

Goto(r, pc) == req' = [req EXCEPT ![r].pc = pc]
Finish(r) == req' = [req EXCEPT ![r] = Idle]

FindNewSlot(r) ==
  /\ req[r].pc = "newSlot"
  /\ IF IsAvailable(req[r].slot) /\ TutorOf[req[r].slot] = TutorOf[req[r].held]
     THEN Goto(r, "overlap")
     ELSE Finish(r)
  /\ UNCHANGED <<tables, now, arrivals, met, torn>>

CheckOverlap(r) ==
  /\ req[r].pc = "overlap"
  /\ IF HasOverlapping(req[r].slot)
     THEN Finish(r)
     ELSE Goto(r, IF req[r].op = "create" THEN "reserve" ELSE "release")
  /\ UNCHANGED <<tables, now, arrivals, met, torn>>

\* Mutant: the slot expires instead (markAsExpired).
ExpireSlot(r) ==
  /\ req[r].pc = "release"
  /\ slots' = [slots EXCEPT ![req[r].held].status = "EXPIRED"]
  /\ Goto(r, IF req[r].op = "reschedule" THEN "reserve" ELSE "status")
  /\ UNCHANGED <<bookings, history, auditLog, now, arrivals, met, torn>>

ReleaseSlot(r) ==
  /\ req[r].pc = "release"
  /\ slots' = [slots EXCEPT ![req[r].held] =
                 [status |-> "AVAILABLE", reservedBy |-> NULL]]
  /\ Goto(r, IF req[r].op = "reschedule" THEN "reserve" ELSE "status")
  /\ UNCHANGED <<bookings, history, auditLog, now, arrivals, met, torn>>

\* Mutant: rescheduling books the new slot and leaves the old booking as it is.
ReserveSlotThenInsert(r) ==
  /\ req[r].pc = "reserve"
  /\ slots' = [slots EXCEPT ![req[r].slot] =
                 [status |-> "RESERVED", reservedBy |-> req[r].parent]]
  /\ Goto(r, "insert")
  /\ UNCHANGED <<bookings, history, auditLog, now, arrivals, met, torn>>

ReserveSlot(r) ==
  /\ req[r].pc = "reserve"
  /\ slots' = [slots EXCEPT ![req[r].slot] =
                 [status |-> "RESERVED", reservedBy |-> req[r].parent]]
  /\ Goto(r, IF req[r].op = "create" THEN "insert" ELSE "status")
  /\ UNCHANGED <<bookings, history, auditLog, now, arrivals, met, torn>>

MarkAsBooked(r) ==
  /\ req[r].pc = "book"
  /\ slots' = [slots EXCEPT ![req[r].held].status = "BOOKED"]
  /\ Goto(r, "status")
  /\ UNCHANGED <<bookings, history, auditLog, now, arrivals, met, torn>>

\* The update names the booking by its id alone.
UpdateStatus(r) ==
  /\ req[r].pc = "status"
  /\ bookings' = [bookings EXCEPT ![req[r].booking].status = Target[req[r].op]]
  /\ Goto(r, "history")
  /\ UNCHANGED <<slots, history, auditLog, now, arrivals, met, torn>>

\* Mutant: every row starts from REQUESTED.
AddStatusHistoryFromRequested(r) ==
  /\ req[r].pc = "history"
  /\ history' = [history EXCEPT ![req[r].booking] =
                   Append(@, [from |-> "REQUESTED", to |-> Target[req[r].op]])]
  /\ CASE req[r].op = "reschedule"    -> Goto(r, "insert")
       [] req[r].op = "cancelByAdmin" -> Goto(r, "audit")
       [] OTHER                       -> Finish(r)
  /\ UNCHANGED <<slots, bookings, auditLog, now, arrivals, met, torn>>

\* Mutant: the admin's cancel is not audited.
AddStatusHistoryUnaudited(r) ==
  /\ req[r].pc = "history"
  /\ history' = [history EXCEPT ![req[r].booking] =
                   Append(@, [from |-> req[r].seen, to |-> Target[req[r].op]])]
  /\ IF req[r].op = "reschedule" THEN Goto(r, "insert") ELSE Finish(r)
  /\ UNCHANGED <<slots, bookings, auditLog, now, arrivals, met, torn>>

AddStatusHistory(r) ==
  /\ req[r].pc = "history"
  /\ history' = [history EXCEPT ![req[r].booking] =
                   Append(@, [from |-> req[r].seen, to |-> Target[req[r].op]])]
  /\ CASE req[r].op = "reschedule"    -> Goto(r, "insert")
       [] req[r].op = "cancelByAdmin" -> Goto(r, "audit")
       [] OTHER                       -> Finish(r)
  /\ UNCHANGED <<slots, bookings, auditLog, now, arrivals, met, torn>>

\* A slot id is unique among the bookings of every status: the insert throws
\* when a booking, even a closed one, already has it.
SlotTaken(s) == \E b \in Bookings : bookings[b].slot = s

InsertBooking(r) ==
  /\ req[r].pc = "insert"
  /\ IF SlotTaken(req[r].slot)
     THEN Finish(r) /\ UNCHANGED bookings
     ELSE \E b \in Bookings :
            /\ ~Exists(b)
            /\ bookings' = [bookings EXCEPT ![b] =
                 [status |-> "REQUESTED", slot |-> req[r].slot,
                  parent |-> req[r].parent, from |-> req[r].booking]]
            /\ req' = [req EXCEPT ![r] = [@ EXCEPT !.pc = "created", !.made = b]]
  /\ UNCHANGED <<slots, history, auditLog, now, arrivals, met, torn>>

RecordCreation(r) ==
  /\ req[r].pc = "created"
  /\ history' = [history EXCEPT ![req[r].made] =
                   Append(@, [from |-> "NONE", to |-> "REQUESTED"])]
  /\ Finish(r)
  /\ UNCHANGED <<slots, bookings, auditLog, now, arrivals, met, torn>>

WriteAuditLog(r) ==
  /\ req[r].pc = "audit"
  /\ auditLog' = auditLog \union {req[r].booking}
  /\ Finish(r)
  /\ UNCHANGED <<slots, bookings, history, now, arrivals, met, torn>>

\* The process dies or a statement fails: nothing undoes the earlier ones.
Abandon(r) ==
  /\ InFlight(r)
  /\ torn' = torn \union Working(r)
  /\ Finish(r)
  /\ UNCHANGED <<tables, now, arrivals, met>>

Tick ==
  /\ now < MaxTime
  /\ now' = now + 1
  /\ UNCHANGED <<tables, req, arrivals, met, torn>>

-----------------------------------------------------------------------------
Arrive(r) ==
  \/ \E p \in Parents, s \in Slots : CreateBooking(r, p, s)
  \/ \E b \in Bookings :
       \/ AcceptBooking(r, b)
       \/ RejectBooking(r, b)
       \/ CancelBooking(r, "cancelByParent", b)
       \/ CancelBooking(r, "cancelByTutor", b)
       \/ AdminCancelBooking(r, b)
       \/ CompleteBooking(r, b)
       \/ \E s \in Slots : RescheduleBooking(r, b, s)

Statement(r) ==
  \/ FindNewSlot(r)
  \/ CheckOverlap(r)
  \/ ReleaseSlot(r)
  \/ ReserveSlot(r)
  \/ MarkAsBooked(r)
  \/ UpdateStatus(r)
  \/ AddStatusHistory(r)
  \/ InsertBooking(r)
  \/ RecordCreation(r)
  \/ WriteAuditLog(r)

Next ==
  \/ Tick
  \/ \E r \in Requests : Arrive(r) \/ Statement(r) \/ Abandon(r)

Spec == Init /\ [][Next]_vars

\* A request that is not abandoned executes its statements: a handler awaits
\* each of them and goes on.
FairSpec == Spec /\ \A r \in Requests : WF_vars(Statement(r))

-----------------------------------------------------------------------------
(* Properties *)

SlotRow == [status : {"AVAILABLE", "RESERVED", "BOOKED"},
            reservedBy : Parents \union {NULL}]

BookingRow == [status : Status, slot : Slots, parent : Parents,
               from : Bookings \union {NULL}]

HistoryRow == [from : Status \union {"NONE"}, to : Status]

Request == [pc : Pcs, op : Ops, parent : Parents \union {NULL},
            booking : Bookings \union {NULL}, held : Slots \union {NULL},
            seen : Status \union {"NONE"}, slot : Slots \union {NULL},
            made : Bookings \union {NULL}]

\* The shape of the tables and of the requests.
TypeOK ==
  /\ slots \in [Slots -> SlotRow]
  /\ bookings \in [Bookings -> BookingRow \union {NoBooking}]
  /\ history \in [Bookings -> Seq(HistoryRow)]
  /\ auditLog \subseteq Bookings
  /\ now \in 0..MaxTime
  /\ req \in [Requests -> Request]
  /\ arrivals \in 0..MaxArrivals
  /\ met \subseteq SUBSET Slots
  /\ torn \subseteq Slots

\* Every request on s found the previous one finished, and none was abandoned.
Undisturbed(s) == {s} \notin met /\ s \notin torn /\ ~InFlightOn(s)

\* Between requests an undisturbed slot agrees with its booking: held for the
\* parent while requested, booked once accepted, given back when the booking is
\* closed.  A slot given back may be RESERVED again although no booking can be
\* made for it any more (see SlotTaken).
SlotAgreesWithBooking ==
  \A s \in Slots : Undisturbed(s) =>
    /\ (\A b \in Bookings : bookings[b].slot # s) => slots[s].status = "AVAILABLE"
    /\ \A b \in Bookings : bookings[b].slot = s =>
         /\ bookings[b].status = "REQUESTED" =>
              slots[s] = [status |-> "RESERVED", reservedBy |-> bookings[b].parent]
         /\ bookings[b].status \in {"ACCEPTED", "COMPLETED"} =>
              slots[s] = [status |-> "BOOKED", reservedBy |-> bookings[b].parent]
         /\ bookings[b].status \in Closed =>
              slots[s].status \in {"AVAILABLE", "RESERVED"}

\* The rows lead from the creation to the status, each from where the last led.
Chain(rows, status) ==
  /\ rows # <<>>
  /\ rows[1].from = "NONE"
  /\ rows[Len(rows)].to = status
  /\ \A i \in 1..(Len(rows) - 1) : rows[i].to = rows[i + 1].from

\* The status history of a booking on an undisturbed slot tells its whole life:
\* no change is missing, none is told twice, none starts from a status the
\* booking did not have.
HistoryIsChain ==
  \A b \in Bookings : Exists(b) /\ Undisturbed(bookings[b].slot) =>
    Chain(history[b], bookings[b].status)

\* However requests interleave, a status no request is still working on was
\* recorded: in the history, and in the audit log when an admin cancelled.
\* Only an abandoned request leaves a status nobody recorded.
TrailIsComplete ==
  \A b \in Bookings :
    Exists(b) /\ bookings[b].slot \notin torn /\ ~InFlightOn(bookings[b].slot) =>
      /\ \E i \in DOMAIN history[b] : history[b][i].to = bookings[b].status
      /\ bookings[b].status = "CANCELLED_BY_ADMIN" => b \in auditLog

\* A rescheduled booking moves, it is not copied: the booking it came from is
\* closed and has no other successor, abandoned requests included, unless two
\* requests worked on it at the same time.
RescheduleMoves ==
  \A b \in Bookings : bookings[b].from # NULL =>
    LET old == bookings[b].from IN
      \/ {bookings[old].slot} \in met
      \/ /\ bookings[old].status = "RESCHEDULED"
         /\ \A c \in Bookings \ {b} : bookings[c].from # old

\* A tutor has two active bookings at overlapping times only if requests for
\* the two slots were in flight together: the overlap check, which reads
\* bookings and not slots, misses nothing else, however other requests
\* interleave and wherever they are abandoned.
NoOverlapUnlessMet ==
  \A b, c \in Bookings :
    /\ b # c
    /\ bookings[b].status \in Active
    /\ bookings[c].status \in Active
    /\ Near(bookings[b].slot, bookings[c].slot)
    => {bookings[b].slot, bookings[c].slot} \in met

\* The tables implement the lifecycle of BookingLifecycle, where a slot is
\* disturbed once two requests have worked on it at the same time.
BookingOf(s) == CHOOSE b \in Bookings : bookings[b].slot = s

Phase == [s \in Slots |->
  IF SlotTaken(s) THEN bookings[BookingOf(s)].status ELSE "NONE"]

Lifecycle == INSTANCE BookingLifecycle
  WITH phase <- Phase, disturbed <- {s \in Slots : {s} \in met}

RefinesLifecycle == Lifecycle!Spec

\* What docs/SystemArchitecture.md says: a tutor cannot accept overlapping
\* bookings.
NoOverlappingBookings ==
  \A b, c \in Bookings :
    b # c /\ bookings[b].status = "ACCEPTED" /\ bookings[c].status = "ACCEPTED"
      => ~Near(bookings[b].slot, bookings[c].slot)

\* What docs/SystemArchitecture.md says: when the booking request cannot be
\* created the reservation expires and the slot is released, so that a slot is
\* not locked forever.  Asked here only of slots no request was abandoned on.
HeldInVain(s) ==
  /\ slots[s].status = "RESERVED"
  /\ \A b \in Bookings : bookings[b].slot = s => bookings[b].status \notin Active

ReservationsEnd ==
  \A s \in Slots :
    HeldInVain(s) /\ s \notin torn /\ ~InFlightOn(s) ~> ~HeldInVain(s)
=============================================================================
