---------------------- MODULE WeeklyAvailabilityProofs ----------------------
(***************************************************************************)
(* Theorems about WeeklyAvailability, for every value of its constants.    *)
(***************************************************************************)
EXTENDS WeeklyAvailability, TLAPS, FiniteSetTheorems, WellFoundedInduction

-----------------------------------------------------------------------------
(* The inductive invariant *)

\* The ids a request compared its slot with.
Compared(q) == IF q.pc = "update" THEN SlotIds \ {q.id} ELSE SlotIds

\* A request carries a slot, which conflicts with no stored one as long as
\* nobody wrote since it looked.
Sound(q) ==
  q.pc # "idle" => q.slot \in Slot /\ (~q.stale => ~Conflicts(q.slot, Compared(q)))

RequestsSound == \A r \in Requests : Sound(requests[r])

IInv == TypeOK /\ RequestsSound /\ SlotsApartUnlessMet

-----------------------------------------------------------------------------
\* A slot that takes no time is none.
LEMMA NoSlotIsNone == NoSlot \notin Slot /\ NoSlot.day = NULL
  BY DEF NoSlot, Slot, Valid

\* The empty timetable satisfies the invariant.
LEMMA InitIInv == Init => IInv
  BY DEF Init, IInv, TypeOK, RequestsSound, Sound, SlotsApartUnlessMet, Stored, Idle

\* A step that stores no slot and in which no request starts, keeps them apart.
LEMMA NothingStored ==
  ASSUME IInv,
         \A i \in SlotIds : slots'[i] \in {slots[i], NoSlot},
         \A i \in SlotIds : i \in met => i \in met' \/ slots'[i] = NoSlot,
         \A r \in Requests : requests'[r] \in {requests[r], Idle}
  PROVE  RequestsSound' /\ SlotsApartUnlessMet'
<1>1. \A i \in Stored' : i \in Stored /\ slots'[i] = slots[i]
  BY DEF Stored
<1>2. \A i \in Stored' \ met' : i \in Stored \ met
  BY <1>1 DEF Stored
<1>3. SlotsApartUnlessMet'
  BY <1>1, <1>2 DEF IInv, SlotsApartUnlessMet, SameRow, rangesOverlap
<1>4. ASSUME NEW r \in Requests
      PROVE  Sound(requests[r])'
  <2>1. CASE requests'[r] = Idle
    BY <2>1 DEF Sound, Idle
  <2>2. CASE requests'[r] = requests[r]
    BY <1>1, <2>2 DEF IInv, RequestsSound, Sound, Compared, Conflicts, SameRow, rangesOverlap
  <2>3. QED
    BY <2>1, <2>2
<1>5. QED
  BY <1>3, <1>4 DEF RequestsSound

\* A request that begins has just looked.
LEMMA RequestBegins ==
  ASSUME IInv, NEW r \in Requests, NEW q,
         requests' = [requests EXCEPT ![r] = q], Sound(q), UNCHANGED <<slots, met>>
  PROVE  RequestsSound' /\ SlotsApartUnlessMet'
<1>1. SlotsApartUnlessMet'
  BY DEF IInv, SlotsApartUnlessMet, Stored, SameRow, rangesOverlap
<1>2. ASSUME NEW k \in Requests
      PROVE  Sound(requests[k])'
  <2>1. Sound(requests'[k])
    BY DEF IInv, RequestsSound, TypeOK
  <2>2. QED
    BY <2>1 DEF Sound, Compared, Conflicts, Stored, SameRow, rangesOverlap
<1>3. QED
  BY <1>1, <1>2 DEF RequestsSound

\* Storing a slot keeps them apart, and what other requests found is stale.
LEMMA SlotStored ==
  ASSUME IInv, NEW r \in Requests, NEW id \in SlotIds, requests[r].pc # "idle",
         requests[r].pc = "update" => requests[r].id = id,
         Write(r, id)
  PROVE  RequestsSound' /\ SlotsApartUnlessMet'
<1> DEFINE slot == requests[r].slot
<1>1. /\ slot \in Slot
      /\ ~requests[r].stale => ~Conflicts(slot, SlotIds \ {id})
  BY DEF IInv, RequestsSound, Sound, Compared, Conflicts
<1>2. /\ slots'[id] = slot
      /\ \A i \in SlotIds \ {id} : slots'[i] = slots[i]
  BY DEF Write, IInv, TypeOK
<1>3. \A i \in Stored' \ {id} : i \in Stored \ {id} /\ slots'[i] = slots[i]
  BY <1>2 DEF Stored
<1>4. \A i \in Stored' \ met' : i # id => i \notin met
  BY DEF Write
<1>5. ASSUME id \notin met', NEW i \in Stored' \ {id}, SameRow(slots'[i], slot)
      PROVE  ~rangesOverlap(slot, slots'[i])
  <2>1. ~requests[r].stale
    BY <1>5 DEF Write
  <2>2. QED
    BY <1>1, <1>3, <1>5, <2>1 DEF Conflicts, Stored
<1>6. SlotsApartUnlessMet'
  <2> SUFFICES ASSUME NEW i \in Stored' \ met', NEW j \in Stored' \ met',
                      i # j, SameRow(slots'[i], slots'[j])
               PROVE  ~rangesOverlap(slots'[i], slots'[j])
    BY DEF SlotsApartUnlessMet, SameRow, rangesOverlap
  <2>1. CASE i = id
    BY <1>2, <1>5, <2>1 DEF SameRow, rangesOverlap
  <2>2. CASE j = id
    BY <1>2, <1>5, <2>2 DEF SameRow, rangesOverlap
  <2>3. CASE i # id /\ j # id
    BY <1>3, <1>4, <2>3 DEF IInv, SlotsApartUnlessMet
  <2>4. QED
    BY <2>1, <2>2, <2>3
<1>7. ASSUME NEW k \in Requests
      PROVE  Sound(requests[k])'
  <2>1. CASE k = r
    BY <2>1 DEF Write, Sound, Idle
  <2>2. CASE k # r
    <3>1. requests'[k] = [requests[k] EXCEPT !.stale = @ \/ ~At(k, "idle")]
      BY <2>2 DEF Write
    <3>2. /\ requests'[k].pc = requests[k].pc
          /\ requests'[k].slot = requests[k].slot
          /\ requests[k].pc # "idle" => requests'[k].stale
      BY <3>1 DEF IInv, TypeOK, At
    <3>3. QED
      BY <3>2 DEF IInv, RequestsSound, Sound
  <2>3. QED
    BY <2>1, <2>2
<1>8. QED
  BY <1>6, <1>7 DEF RequestsSound

-----------------------------------------------------------------------------
\* Every step keeps the types.
LEMMA NextTypeOK ==
  ASSUME TypeOK, [Next]_vars
  PROVE  TypeOK'
<1> USE DEF TypeOK
<1> DEFINE Request == [pc : {"idle", "create", "update"}, id : SlotIds \union {NULL},
                       slot : Slot \union {NoSlot}, stale : BOOLEAN]
<1>1. Idle \in Request
  BY DEF Idle
<1>2. ASSUME NEW r \in Requests, NEW slot \in Slot, AddRead(r, slot)
      PROVE  TypeOK'
  BY <1>1, <1>2 DEF AddRead, Begin, Idle
<1>3. ASSUME NEW r \in Requests, NEW slot \in Slot, NEW id \in SlotIds, UpdateRead(r, id, slot)
      PROVE  TypeOK'
  BY <1>1, <1>3 DEF UpdateRead, Begin, Idle
<1>4. ASSUME NEW r \in Requests, NEW id \in SlotIds, Write(r, id), UNCHANGED breaks
      PROVE  TypeOK'
  <2>1. slots' \in [SlotIds -> Slot \union {NoSlot}] /\ met' \subseteq SlotIds
    BY <1>4 DEF Write
  <2>2. ASSUME NEW k \in Requests
        PROVE  requests'[k] \in Request
    BY <1>1, <1>4 DEF Write, At
  <2>3. requests' \in [Requests -> Request]
    BY <1>4, <2>2 DEF Write
  <2>4. QED
    BY <1>4, <2>1, <2>3
<1>5. ASSUME NEW r \in Requests, Finish(r), UNCHANGED <<slots, breaks, met>>
      PROVE  TypeOK'
  BY <1>1, <1>5 DEF Finish
<1>6. ASSUME NEW r \in Requests, NEW id \in SlotIds, AddCreate(r, id)
      PROVE  TypeOK'
  BY <1>4, <1>5, <1>6 DEF AddCreate
<1>7. ASSUME NEW r \in Requests, UpdateWrite(r)
      PROVE  TypeOK'
  BY <1>4, <1>5, <1>7 DEF UpdateWrite, Stored
<1>8. ASSUME NEW id \in SlotIds, RemoveSlot(id)
      PROVE  TypeOK'
  BY <1>8 DEF RemoveSlot
<1>9. ASSUME NEW id \in BreakIds, RemoveBreak(id) \/ \E break \in Break : AddBreak(id, break)
      PROVE  TypeOK'
  BY <1>9 DEF RemoveBreak, AddBreak
<1>10. CASE UNCHANGED vars
  BY <1>10 DEF vars
<1>11. QED
  BY <1>2, <1>3, <1>5, <1>6, <1>7, <1>8, <1>9, <1>10 DEF Next, Abandon

\* So does the rest of the invariant.
LEMMA NextIInv == IInv /\ [Next]_vars => IInv'
<1> SUFFICES ASSUME IInv, [Next]_vars
             PROVE  IInv'
  OBVIOUS
<1>1. TypeOK'
  BY NextTypeOK DEF IInv
<1>2. TypeOK
  BY DEF IInv
<1>3. ASSUME NEW r \in Requests, NEW slot \in Slot, AddRead(r, slot)
      PROVE  RequestsSound' /\ SlotsApartUnlessMet'
  <2>1. Sound([Idle EXCEPT !.pc = "create", !.slot = slot])
    BY <1>3 DEF AddRead, Sound, Compared, Idle
  <2>2. QED
    BY <1>3, <2>1, RequestBegins DEF AddRead, Begin
<1>4. ASSUME NEW r \in Requests, NEW slot \in Slot, NEW id \in SlotIds, UpdateRead(r, id, slot)
      PROVE  RequestsSound' /\ SlotsApartUnlessMet'
  <2>1. Sound([Idle EXCEPT !.pc = "update", !.id = id, !.slot = slot])
    BY <1>4 DEF UpdateRead, Sound, Compared, Idle
  <2>2. QED
    BY <1>4, <2>1, RequestBegins DEF UpdateRead, Begin
<1>5. ASSUME NEW r \in Requests, Finish(r), UNCHANGED <<slots, met>>
      PROVE  RequestsSound' /\ SlotsApartUnlessMet'
  BY <1>2, <1>5, NothingStored DEF Finish, TypeOK
<1>6. ASSUME NEW r \in Requests, NEW id \in SlotIds, AddCreate(r, id)
      PROVE  RequestsSound' /\ SlotsApartUnlessMet'
  BY <1>5, <1>6, SlotStored DEF AddCreate, At
<1>7. ASSUME NEW r \in Requests, UpdateWrite(r)
      PROVE  RequestsSound' /\ SlotsApartUnlessMet'
  BY <1>5, <1>7, SlotStored DEF UpdateWrite, At, Stored
<1>8. ASSUME NEW id \in SlotIds, RemoveSlot(id)
      PROVE  RequestsSound' /\ SlotsApartUnlessMet'
  BY <1>2, <1>8, NothingStored DEF RemoveSlot, TypeOK
<1>9. ASSUME UNCHANGED <<slots, requests, met>>
      PROVE  RequestsSound' /\ SlotsApartUnlessMet'
  BY <1>9, NothingStored
<1>10. ASSUME NEW id \in BreakIds, RemoveBreak(id) \/ \E break \in Break : AddBreak(id, break)
       PROVE  RequestsSound' /\ SlotsApartUnlessMet'
  BY <1>9, <1>10 DEF RemoveBreak, AddBreak
<1>11. RequestsSound' /\ SlotsApartUnlessMet'
  BY <1>3, <1>4, <1>5, <1>6, <1>7, <1>8, <1>9, <1>10 DEF Next, Abandon, vars
<1>12. QED
  BY <1>1, <1>11 DEF IInv

\* Each row and request has its type, whatever days, modes, times and ids there
\* are and however many requests.
THEOREM TypeCorrect == Spec => []TypeOK
<1>1. Init => TypeOK
  BY InitIInv DEF IInv
<1>2. TypeOK /\ [Next]_vars => TypeOK'
  BY NextTypeOK
<1>3. QED
  BY <1>1, <1>2, PTL DEF Spec

\* The invariant: what a request that nobody outran carries, still fits.
THEOREM InductiveInvariant == Spec => []IInv
<1>1. QED
  BY InitIInv, NextIInv, PTL DEF Spec

\* Slots of one day and mode do not overlap, unless two requests did.
THEOREM SlotsApart == Spec => []SlotsApartUnlessMet
<1>1. IInv => SlotsApartUnlessMet
  BY DEF IInv
<1>2. QED
  BY <1>1, InductiveInvariant, PTL

-----------------------------------------------------------------------------
(* Taking out a break *)

\* Taking a break out of a window leaves valid windows that cover each time
\* the window covers and the break does not, once, and nothing else.
THEOREM SplitIsDifference ==
  ASSUME NEW w \in [start : Int, end : Int], Valid(w),
         NEW b \in [start : Int, end : Int], Valid(b),
         NEW t \in Int
  PROVE  /\ \A p \in Split(w, b) : Valid(p)
         /\ (\E p \in Split(w, b) : Covers(p, t)) <=> Covers(w, t) /\ ~Covers(b, t)
         /\ \A p, q \in Split(w, b) : Covers(p, t) /\ Covers(q, t) => p = q
<1>1. CASE b.end <= w.start \/ b.start >= w.end
  <2>1. Split(w, b) = {w}
    BY <1>1 DEF Split
  <2>2. QED
    BY <1>1, <2>1 DEF Valid, Covers
<1>2. CASE ~(b.end <= w.start \/ b.start >= w.end)
  <2> DEFINE before == Window(w.start, b.start)
             after == Window(b.end, w.end)
  <2>1. Split(w, b) = {p \in {before, after} : Valid(p)}
    BY <1>2 DEF Split
  <2>2. /\ before.start = w.start /\ before.end = b.start
        /\ after.start = b.end /\ after.end = w.end
    BY DEF Window
  <2> HIDE DEF before, after
  <2>3. \A p \in Split(w, b) : Valid(p)
    BY <2>1
  <2>4. (\E p \in Split(w, b) : Covers(p, t)) <=>
          (Valid(before) /\ Covers(before, t)) \/ (Valid(after) /\ Covers(after, t))
    BY <2>1
  <2>5. (\E p \in Split(w, b) : Covers(p, t)) <=> Covers(w, t) /\ ~Covers(b, t)
    BY <1>2, <2>2, <2>4 DEF Valid, Covers
  <2>6. ~(Covers(before, t) /\ Covers(after, t))
    BY <2>2 DEF Valid, Covers
  <2>7. QED
    BY <2>1, <2>3, <2>5, <2>6
<1>3. QED
  BY <1>1, <1>2

-----------------------------------------------------------------------------
(* Taking out several breaks *)

\* The break that is taken out last.
First(s) == CHOOSE id \in s : TRUE

\* Windows without a break.
Cut(id, ws) == UNION {Split(w, breaks[id]) : w \in ws}

\* The recursion behind Windows, of which the sets of windows that subsets of
\* the breaks leave are the solution.
Cuts(g, w, S) ==
  g = [s \in SUBSET S |-> IF s = {} THEN {w} ELSE Cut(First(s), g[s \ {First(s)}])]

\* What the breaks of a set leave of a window.
Left(w, S) == (CHOOSE g : Cuts(g, w, S))[S]

\* The windows of a slot are what the breaks of its day leave of it.
LEMMA WindowsAreLeft ==
  ASSUME NEW slot
  PROVE  Windows(slot) = Left(Window(slot.start, slot.end), Applicable(slot.day))
  BY DEF Windows, FoldSet, MapThenFoldSet, Cuts, Cut, First, Left

\* Where a fact fails of some subset of a finite set, it fails of one of which it
\* fails of no smaller subset.
LEMMA SmallestCounterexample ==
  ASSUME NEW S, IsFiniteSet(S), NEW C \in SUBSET (SUBSET S), C # {}
  PROVE  \E T \in C : IsFiniteSet(T) /\ \A U \in SUBSET T : U # T => U \notin C
<1>1. C \subseteq FiniteSubsetsOf(S)
  BY FS_FiniteSubsetsOfFinite
<1>2. PICK T \in C : \A U \in C : <<U, T>> \notin StrictSubsetOrdering(S)
  BY <1>1, FS_StrictSubsetOrderingWellFounded, WFMin
<1>3. QED
  BY <1>1, <1>2 DEF StrictSubsetOrdering, FiniteSubsetsOf

\* The first element is one.
LEMMA FirstIn == ASSUME NEW S, S # {}
                 PROVE  First(S) \in S
  BY DEF First

\* What a solution says of each set.
LEMMA CutsAt ==
  ASSUME NEW g, NEW w, NEW S, Cuts(g, w, S), NEW T \in SUBSET S
  PROVE  g[T] = IF T = {} THEN {w} ELSE Cut(First(T), g[T \ {First(T)}])
  BY DEF Cuts

\* Solutions over two sets agree where both are defined.
LEMMA CutsAgree ==
  ASSUME NEW g, NEW h, NEW w, NEW S, NEW R, IsFiniteSet(S), R \subseteq S,
         Cuts(g, w, S), Cuts(h, w, R)
  PROVE  \A T \in SUBSET R : g[T] = h[T]
<1> DEFINE C == {T \in SUBSET R : g[T] # h[T]}
<1> SUFFICES ASSUME C # {}
             PROVE  FALSE
  OBVIOUS
<1>1. /\ IsFiniteSet(R) /\ C \in SUBSET (SUBSET R)
      /\ \A T \in C : g[T] # h[T] /\ T \in SUBSET R /\ T \in SUBSET S
      /\ \A T \in SUBSET R : T \notin C => g[T] = h[T]
  BY FS_Subset
<1> HIDE DEF C
<1>2. PICK T \in C : \A U \in SUBSET T : U # T => U \notin C
  BY <1>1, SmallestCounterexample
<1>3. /\ g[T] = IF T = {} THEN {w} ELSE Cut(First(T), g[T \ {First(T)}])
      /\ h[T] = IF T = {} THEN {w} ELSE Cut(First(T), h[T \ {First(T)}])
  <2>1. T \in SUBSET S /\ T \in SUBSET R
    BY <1>1
  <2>2. g[T] = IF T = {} THEN {w} ELSE Cut(First(T), g[T \ {First(T)}])
    BY <2>1, CutsAt
  <2>3. h[T] = IF T = {} THEN {w} ELSE Cut(First(T), h[T \ {First(T)}])
    BY <2>1, CutsAt
  <2>4. QED
    BY <2>2, <2>3
<1>4. ASSUME T # {}
      PROVE  g[T \ {First(T)}] = h[T \ {First(T)}]
  <2>1. First(T) \in T
    BY <1>4, FirstIn
  <2>2. T \ {First(T)} \in SUBSET R
    BY <1>1
  <2>3. QED
    BY <1>1, <1>2, <2>1, <2>2
<1>5. g[T] = h[T]
  BY <1>3, <1>4
<1>6. QED
  BY <1>1, <1>5

\* There is a solution over every finite set.
LEMMA CutsExist ==
  ASSUME NEW w, NEW S, IsFiniteSet(S)
  PROVE  \E g : Cuts(g, w, S)
<1> DEFINE C == {T \in SUBSET S : ~ \E g : Cuts(g, w, T)}
<1> SUFFICES ASSUME C # {}
             PROVE  FALSE
  OBVIOUS
<1>1. /\ C \in SUBSET (SUBSET S)
      /\ \A T \in C : ~ \E g : Cuts(g, w, T)
      /\ \A T \in SUBSET S : T \notin C => \E g : Cuts(g, w, T)
  OBVIOUS
<1> HIDE DEF C
<1>2. PICK T \in C : IsFiniteSet(T) /\ \A U \in SUBSET T : U # T => U \notin C
  BY <1>1, SmallestCounterexample
<1> DEFINE G(U) == CHOOSE g : Cuts(g, w, U)
<1>3. ASSUME NEW U \in SUBSET T, U # T
      PROVE  Cuts(G(U), w, U)
  BY <1>1, <1>2, <1>3
<1> HIDE DEF G
<1> DEFINE h == [s \in SUBSET T |-> IF s = {} THEN {w}
                   ELSE Cut(First(s), G(s \ {First(s)})[s \ {First(s)}])]
<1>4. \A s \in SUBSET T : h[s] = IF s = {} THEN {w}
                   ELSE Cut(First(s), G(s \ {First(s)})[s \ {First(s)}])
  OBVIOUS
<1> HIDE DEF h
<1>5. ASSUME NEW u \in SUBSET T, u # T
      PROVE  h[u] = G(u)[u]
  <2>1. Cuts(G(u), w, u)
    BY <1>3, <1>5
  <2>2. G(u)[u] = IF u = {} THEN {w} ELSE Cut(First(u), G(u)[u \ {First(u)}])
    BY <2>1, CutsAt
  <2>3. CASE u = {}
    BY <1>4, <2>2, <2>3
  <2>4. CASE u # {}
    <3> DEFINE v == u \ {First(u)}
    <3>1. v \in SUBSET T /\ v # T /\ v \subseteq u
      BY <1>5, <2>4, FirstIn
    <3>2. Cuts(G(v), w, v) /\ IsFiniteSet(u)
      BY <1>2, <1>3, <3>1, FS_Subset
    <3>3. G(u)[v] = G(v)[v]
      BY <2>1, <3>1, <3>2, CutsAgree
    <3>4. QED
      BY <1>4, <2>2, <2>4, <3>3
  <2>5. QED
    BY <2>3, <2>4
<1>6. ASSUME NEW s \in SUBSET T, s # {}
      PROVE  h[s] = Cut(First(s), h[s \ {First(s)}])
  <2> DEFINE u == s \ {First(s)}
  <2>1. u \in SUBSET T /\ u # T
    BY <1>6, FirstIn
  <2>2. h[u] = G(u)[u]
    BY <1>5, <2>1
  <2>3. QED
    BY <1>4, <1>6, <2>2
<1>7. h = [s \in SUBSET T |-> h[s]]
  BY DEF h
<1>8. \A s \in SUBSET T : h[s] = IF s = {} THEN {w} ELSE Cut(First(s), h[s \ {First(s)}])
  BY <1>4, <1>6
<1>9. Cuts(h, w, T)
  BY <1>7, <1>8 DEF Cuts
<1>10. QED
  BY <1>1, <1>2, <1>9

\* So a set of breaks leaves what its first leaves of what the others do.
LEMMA LeftStep ==
  ASSUME NEW w, NEW S, IsFiniteSet(S)
  PROVE  Left(w, S) = IF S = {} THEN {w} ELSE Cut(First(S), Left(w, S \ {First(S)}))
<1> DEFINE G(U) == CHOOSE g : Cuts(g, w, U)
           R == S \ {First(S)}
<1>1. ASSUME NEW U, IsFiniteSet(U)
      PROVE  Cuts(G(U), w, U) /\ Left(w, U) = G(U)[U]
  BY <1>1, CutsExist DEF Left
<1> HIDE DEF G
<1>2. Cuts(G(S), w, S) /\ Left(w, S) = G(S)[S]
  BY <1>1
<1>3. G(S)[S] = IF S = {} THEN {w} ELSE Cut(First(S), G(S)[R])
  BY <1>2, CutsAt
<1>4. Cuts(G(R), w, R) /\ Left(w, R) = G(R)[R]
  BY <1>1, FS_RemoveElement
<1>5. G(S)[R] = G(R)[R]
  BY <1>2, <1>4, CutsAgree
<1>6. QED
  BY <1>2, <1>3, <1>4, <1>5

-----------------------------------------------------------------------------
Span == [start : Int, end : Int]

\* Valid ranges, no two of which have a unit of time in common.
Apart(ws) ==
  /\ ws \subseteq Span
  /\ \A w \in ws : Valid(w)
  /\ \A t \in Int : \A p, q \in ws : Covers(p, t) /\ Covers(q, t) => p = q

Covered(ws, t) == \E w \in ws : Covers(w, t)

\* Taking one break out of ranges that are apart leaves ranges that are, and
\* the time that is not the break's.
LEMMA CutIsDifference ==
  ASSUME NEW ws, Apart(ws), NEW id, breaks[id].start \in Int, breaks[id].end \in Int,
         Valid(breaks[id])
  PROVE  /\ Apart(Cut(id, ws))
         /\ \A t \in Int : Covered(Cut(id, ws), t) <=> Covered(ws, t) /\ ~Covers(breaks[id], t)
<1> DEFINE b == Window(breaks[id].start, breaks[id].end)
<1>1. b \in Span /\ Valid(b) /\ \A t : Covers(b, t) <=> Covers(breaks[id], t)
  BY DEF Span, Window, Valid, Covers
<1>2. \A w : Split(w, breaks[id]) = Split(w, b)
  BY DEF Split, Window
<1>3. ASSUME NEW w \in ws
      PROVE  /\ Split(w, b) \subseteq Span
             /\ \A p \in Split(w, b) : Valid(p)
             /\ \A t \in Int :
                  /\ (\E p \in Split(w, b) : Covers(p, t)) <=> Covers(w, t) /\ ~Covers(b, t)
                  /\ \A p, q \in Split(w, b) : Covers(p, t) /\ Covers(q, t) => p = q
  <2>1. w \in Span /\ Valid(w)
    BY DEF Apart
  <2>2. Split(w, b) \subseteq Span
    BY <2>1 DEF Split, Span, Window
  <2>3. QED
    BY <1>1, <2>1, <2>2, SplitIsDifference DEF Span
<1> HIDE DEF b
<1>4. Cut(id, ws) = UNION {Split(w, b) : w \in ws}
  BY <1>2 DEF Cut
<1>5. Cut(id, ws) \subseteq Span /\ \A p \in Cut(id, ws) : Valid(p)
  BY <1>3, <1>4
<1>6. ASSUME NEW t \in Int, NEW p \in Cut(id, ws), NEW q \in Cut(id, ws),
             Covers(p, t), Covers(q, t)
      PROVE  p = q
  <2>1. PICK v \in ws : p \in Split(v, b)
    BY <1>4
  <2>2. PICK w \in ws : q \in Split(w, b)
    BY <1>4
  <2>3. Covers(v, t) /\ Covers(w, t)
    BY <1>3, <1>6, <2>1, <2>2
  <2>4. v = w
    BY <2>3 DEF Apart
  <2>5. QED
    BY <1>3, <1>6, <2>1, <2>2, <2>4
<1>7. ASSUME NEW t \in Int
      PROVE  Covered(Cut(id, ws), t) <=> Covered(ws, t) /\ ~Covers(breaks[id], t)
  <2>1. Covered(Cut(id, ws), t) <=> \E w \in ws : \E p \in Split(w, b) : Covers(p, t)
    BY <1>4 DEF Covered
  <2>2. QED
    BY <1>1, <1>3, <2>1 DEF Covered
<1>8. QED
  BY <1>5, <1>6, <1>7 DEF Apart

\* Taking out finitely many leaves the time that is in none of them.
LEMMA LeftIsDifference ==
  ASSUME NEW w \in Span, Valid(w), NEW S, IsFiniteSet(S),
         \A id \in S : breaks[id].start \in Int /\ breaks[id].end \in Int /\ Valid(breaks[id])
  PROVE  /\ Apart(Left(w, S))
         /\ \A t \in Int : Covered(Left(w, S), t)
                             <=> Covers(w, t) /\ \A id \in S : ~Covers(breaks[id], t)
<1> DEFINE P(T) == /\ Apart(Left(w, T))
                   /\ \A t \in Int : Covered(Left(w, T), t)
                             <=> Covers(w, t) /\ \A id \in T : ~Covers(breaks[id], t)
           C == {T \in SUBSET S : ~P(T)}
<1> SUFFICES ASSUME C # {}
             PROVE  FALSE
  OBVIOUS
<1>1. /\ C \in SUBSET (SUBSET S)
      /\ \A T \in C : ~P(T)
      /\ \A T \in SUBSET S : T \notin C => P(T)
  OBVIOUS
<1> HIDE DEF C
<1>2. PICK T \in C : IsFiniteSet(T) /\ \A U \in SUBSET T : U # T => U \notin C
  BY <1>1, SmallestCounterexample
<1>3. T \in SUBSET S /\ \A U \in SUBSET T : U # T => P(U)
  BY <1>1, <1>2
<1>4. CASE T = {}
  <2>1. Left(w, T) = {w}
    BY <1>2, <1>4, LeftStep
  <2>2. P(T)
    BY <1>4, <2>1 DEF Apart, Covered
  <2>3. QED
    BY <1>1, <1>2, <2>2
<1>5. CASE T # {}
  <2> DEFINE id == First(T)
             R == T \ {id}
             ws == Left(w, R)
  <2>1. id \in T /\ Left(w, T) = Cut(id, ws)
    BY <1>2, <1>5, LeftStep, FirstIn
  <2>2. P(R)
    BY <1>3, <2>1
  <2>3. breaks[id].start \in Int /\ breaks[id].end \in Int /\ Valid(breaks[id])
    BY <1>3, <2>1
  <2> HIDE DEF id, ws
  <2>4. /\ Apart(Left(w, T))
        /\ \A t \in Int : Covered(Left(w, T), t) <=> Covered(ws, t) /\ ~Covers(breaks[id], t)
    BY <2>1, <2>2, <2>3, CutIsDifference DEF ws
  <2>5. \A t \in Int : (\A i \in T : ~Covers(breaks[i], t))
                         <=> (\A i \in R : ~Covers(breaks[i], t)) /\ ~Covers(breaks[id], t)
    BY <2>1
  <2>6. P(T)
    BY <2>2, <2>4, <2>5 DEF ws
  <2>7. QED
    BY <1>1, <1>2, <2>6
<1>6. QED
  BY <1>4, <1>5

\* Slots and breaks of their types have such windows.
LEMMA TypedWindows ==
  ASSUME IsFiniteSet(BreakIds), Times \subseteq Int, TypeOK
  PROVE  WindowsAreSlotsMinusBreaks
<1>1. ASSUME NEW i \in Stored
      PROVE  /\ \A w \in Windows(slots[i]) : Valid(w)
             /\ \A t \in Times :
                  Cardinality({w \in Windows(slots[i]) : Covers(w, t)})
                    = IF Covers(slots[i], t)
                         /\ \A b \in Applicable(slots[i].day) : ~Covers(breaks[b], t)
                        THEN 1 ELSE 0
  <2> DEFINE s == Window(slots[i].start, slots[i].end)
             S == Applicable(slots[i].day)
             ws == Windows(slots[i])
  <2>1. slots[i] \in Slot
    BY DEF TypeOK, Stored
  <2>2. s \in Span /\ Valid(s) /\ \A t : Covers(s, t) <=> Covers(slots[i], t)
    BY <2>1 DEF Slot, Span, Window, Valid, Covers
  <2>3. \A id \in S : breaks[id].start \in Int /\ breaks[id].end \in Int /\ Valid(breaks[id])
    BY DEF TypeOK, Applicable, Break
  <2>4. IsFiniteSet(S)
    BY FS_Subset DEF Applicable
  <2>5. ws = Left(s, S)
    BY WindowsAreLeft
  <2> HIDE DEF s, S, ws
  <2>6. /\ Apart(ws)
        /\ \A t \in Int : Covered(ws, t) <=> Covers(s, t) /\ \A id \in S : ~Covers(breaks[id], t)
    BY <2>2, <2>3, <2>4, <2>5, LeftIsDifference
  <2>7. ASSUME NEW t \in Times
        PROVE  Cardinality({w \in ws : Covers(w, t)}) = IF Covered(ws, t) THEN 1 ELSE 0
    <3>1. CASE Covered(ws, t)
      <4>1. PICK w \in ws : Covers(w, t)
        BY <3>1 DEF Covered
      <4>2. {v \in ws : Covers(v, t)} = {w}
        BY <2>6, <4>1 DEF Apart
      <4>3. QED
        BY <3>1, <4>2, FS_Singleton
    <3>2. CASE ~Covered(ws, t)
      <4>1. {v \in ws : Covers(v, t)} = {}
        BY <3>2 DEF Covered
      <4>2. QED
        BY <3>2, <4>1, FS_EmptySet
    <3>3. QED
      BY <3>1, <3>2
  <2>8. \A t \in Times : Cardinality({w \in ws : Covers(w, t)})
          = IF Covers(slots[i], t) /\ \A b \in S : ~Covers(breaks[b], t) THEN 1 ELSE 0
    BY <2>2, <2>6, <2>7
  <2>9. \A w \in ws : Valid(w)
    BY <2>6 DEF Apart
  <2>10. QED
    BY <2>8, <2>9 DEF ws, S
<1>2. QED
  BY <1>1 DEF WindowsAreSlotsMinusBreaks

\* The windows the public page shows for a slot are its time minus the breaks
\* of its day, each minute in one window and no window empty, for any finite
\* number of breaks and any times.
THEOREM WindowsCorrect ==
  ASSUME IsFiniteSet(BreakIds), Times \subseteq Int
  PROVE  Spec => []WindowsAreSlotsMinusBreaks
<1>1. TypeOK => WindowsAreSlotsMinusBreaks
  BY TypedWindows
<1>2. QED
  BY <1>1, TypeCorrect, PTL
=============================================================================
