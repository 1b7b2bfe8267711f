-------------------------- MODULE WeeklyAvailability --------------------------
(***************************************************************************)
(* The weekly timetable of one tutor: the slots a tutor offers, the breaks *)
(* in them, and the windows the public page shows.                         *)
(*                                                                         *)
(* Times of day compare as the "HH:mm" strings do and are numbers here.    *)
(* Adding and updating a slot look for overlaps in one statement and write *)
(* in another.  Capacity, time zone and the texts are left out.            *)
(***************************************************************************)
EXTENDS Naturals, FiniteSets, FiniteSetsExt

CONSTANTS
  Days,
  Modes,      \* service modes
  Times,      \* times of day, a set of numbers
  SlotIds,    \* ids of TutorWeeklySlot rows
  BreakIds,   \* ids of TutorBreakPeriod rows
  Requests,   \* requests the API serves at the same time
  NULL

VARIABLES
  slots,      \* TutorWeeklySlot
  breaks,     \* TutorBreakPeriod
  requests,   \* the requests in flight
  met         \* history: slots written after another request wrote one since
              \* the overlap check

vars == <<slots, breaks, requests, met>>

\* A time range is valid when it is not empty.
Valid(x) == x.start < x.end

Slot == {s \in [day : Days, mode : Modes, start : Times, end : Times] : Valid(s)}
\* A break without a day applies to every day.
Break == {b \in [day : Days \union {NULL}, start : Times, end : Times] : Valid(b)}

NoSlot == [day |-> NULL, mode |-> NULL, start |-> 0, end |-> 0]
NoBreak == [day |-> NULL, start |-> 0, end |-> 0]
Idle == [pc |-> "idle", id |-> NULL, slot |-> NoSlot, stale |-> FALSE]

INSTANCE RequestSteps

-----------------------------------------------------------------------------
(* Weekly slots. *)

rangesOverlap(a, b) == a.start < b.end /\ b.start < a.end
SameRow(a, b) == a.day = b.day /\ a.mode = b.mode

Stored == {id \in SlotIds : slots[id] # NoSlot}

\* Mutant: ranges overlap only when the first starts within the second.
ConflictsStart(slot, ids) ==
  \E i \in Stored \intersect ids :
    SameRow(slots[i], slot) /\ slots[i].start <= slot.start /\ slot.start < slots[i].end

Conflicts(slot, ids) ==
  \E i \in Stored \intersect ids : SameRow(slots[i], slot) /\ rangesOverlap(slot, slots[i])

\* The unique index on tutor, day, start and mode.
Taken(slot, ids) ==
  \E i \in Stored \intersect ids : SameRow(slots[i], slot) /\ slots[i].start = slot.start

AddRead(r, slot) ==
  /\ ~Conflicts(slot, SlotIds)
  /\ Begin(r, [Idle EXCEPT !.pc = "create", !.slot = slot])
  /\ UNCHANGED <<slots, breaks, met>>

\* The fields not given are those of the row; all four are written.  The row
\* is looked up a statement before the overlaps: what it has of the candidate
\* is any valid slot by then.
UpdateRead(r, id, slot) ==
  /\ id \in Stored
  /\ ~Conflicts(slot, SlotIds \ {id})
  /\ Begin(r, [Idle EXCEPT !.pc = "update", !.id = id, !.slot = slot])
  /\ UNCHANGED <<slots, breaks, met>>

\* The slot is written, and the requests that checked before it are stale.
Write(r, id) ==
  /\ slots' = [slots EXCEPT ![id] = requests[r].slot]
  /\ requests' = [q \in Requests |->
                    IF q = r THEN Idle
                    ELSE [requests[q] EXCEPT !.stale = @ \/ ~At(q, "idle")]]
  /\ met' = IF requests[r].stale THEN met \union {id} ELSE met \ {id}

AddCreate(r, id) ==
  /\ At(r, "create")
  /\ id \in SlotIds \ Stored
  /\ IF Taken(requests[r].slot, SlotIds) THEN Finish(r) /\ UNCHANGED <<slots, met>> ELSE Write(r, id)
  /\ UNCHANGED breaks

\* A slot deleted since fails the update.
UpdateWrite(r) ==
  /\ At(r, "update")
  /\ LET id == requests[r].id IN
     IF id \notin Stored \/ Taken(requests[r].slot, SlotIds \ {id})
       THEN Finish(r) /\ UNCHANGED <<slots, met>>
       ELSE Write(r, id)
  /\ UNCHANGED breaks

RemoveSlot(id) ==
  /\ id \in Stored
  /\ slots' = [slots EXCEPT ![id] = NoSlot]
  /\ met' = met \ {id}
  /\ UNCHANGED <<breaks, requests>>

-----------------------------------------------------------------------------
(* Breaks: not compared with anything. *)

AddBreak(id, break) ==
  /\ breaks[id] = NoBreak
  /\ breaks' = [breaks EXCEPT ![id] = break]
  /\ UNCHANGED <<slots, requests, met>>

RemoveBreak(id) ==
  /\ breaks[id] # NoBreak
  /\ breaks' = [breaks EXCEPT ![id] = NoBreak]
  /\ UNCHANGED <<slots, requests, met>>

-----------------------------------------------------------------------------
(* The windows of the public page. *)

Window(start, end) == [start |-> start, end |-> end]

\* Mutant: the part after the break is lost.
SplitFirst(w, b) ==
  IF b.end <= w.start \/ b.start >= w.end THEN {w}
  ELSE IF b.start > w.start THEN {Window(w.start, b.start)} ELSE {}

\* What is left of a window around a break: nothing, one part or two.
Split(w, b) ==
  IF b.end <= w.start \/ b.start >= w.end THEN {w}
  ELSE {p \in {Window(w.start, b.start), Window(b.end, w.end)} : Valid(p)}

Applicable(day) == {id \in BreakIds : breaks[id] # NoBreak /\ breaks[id].day \in {day, NULL}}

\* The breaks are taken out one after the other.
Windows(slot) ==
  FoldSet(LAMBDA id, ws : UNION {Split(w, breaks[id]) : w \in ws},
          {Window(slot.start, slot.end)}, Applicable(slot.day))

-----------------------------------------------------------------------------
Init ==
  /\ slots = [id \in SlotIds |-> NoSlot]
  /\ breaks = [id \in BreakIds |-> NoBreak]
  /\ requests = [r \in Requests |-> Idle]
  /\ met = {}

\* A request is abandoned before its only write.
Abandon(r) == ~At(r, "idle") /\ Finish(r) /\ UNCHANGED <<slots, breaks, met>>

Next ==
  \/ \E r \in Requests :
       \/ \E slot \in Slot : AddRead(r, slot) \/ \E id \in SlotIds : UpdateRead(r, id, slot)
       \/ \E id \in SlotIds : AddCreate(r, id)
       \/ UpdateWrite(r)
       \/ Abandon(r)
  \/ \E id \in SlotIds : RemoveSlot(id)
  \/ \E id \in BreakIds : RemoveBreak(id) \/ \E break \in Break : AddBreak(id, break)

Spec == Init /\ [][Next]_vars

-----------------------------------------------------------------------------
(* Properties. *)

\* Every row and every request holds a value of its type.
TypeOK ==
  /\ slots \in [SlotIds -> Slot \union {NoSlot}]
  /\ breaks \in [BreakIds -> Break \union {NoBreak}]
  /\ requests \in [Requests -> [pc : {"idle", "create", "update"}, id : SlotIds \union {NULL},
                                slot : Slot \union {NoSlot}, stale : BOOLEAN]]
  /\ met \subseteq SlotIds

\* Two slots of one day and mode do not overlap, unless one of them was
\* written when another request had written since its overlap check.
SlotsApartUnlessMet ==
  \A i, j \in Stored \ met :
    i # j /\ SameRow(slots[i], slots[j]) => ~rangesOverlap(slots[i], slots[j])

\* The time between two consecutive times of day belongs to a range.
Covers(x, t) == x.start <= t /\ t < x.end

\* The windows of a slot are the slot's time minus the breaks', each minute in
\* one window and no window empty, whatever order the breaks come in.
WindowsAreSlotsMinusBreaks ==
  \A id \in Stored :
    LET ws == Windows(slots[id]) IN
    /\ \A w \in ws : Valid(w)
    /\ \A t \in Times :
         Cardinality({w \in ws : Covers(w, t)})
           = IF Covers(slots[id], t) /\ \A b \in Applicable(slots[id].day) : ~Covers(breaks[b], t)
               THEN 1 ELSE 0
=============================================================================
