------------------------- MODULE NotificationsProofs -------------------------
(***************************************************************************)
(* Theorems about Notifications, for every value of its constants.         *)
(***************************************************************************)
EXTENDS Notifications, TLAPS

TickRow == [pc : Pcs, events : SUBSET Events, event : SUBSET Events, at : Nat,
            sends : SUBSET Sending, note : SUBSET Sending]
NoteValue == NoteRow \union {NoNote}

-----------------------------------------------------------------------------
(* Types, and what a tick carries *)

\* A tick has one event in hand, is within its expansion, and the rows it
\* sends exist.
TickLinked(q) ==
  /\ \A e, f \in q.event : e = f
  /\ q.pc = "mark" => q.at = 1
  /\ q.pc \in {"expand", "create"} => q.at >= 1
  /\ q.pc = "create" => \A e \in q.event : q.at <= Expansion(e)
  /\ \A n \in q.sends \union q.note : HasRow(n.key)

Types ==
  /\ outbox \in [Events -> OutboxStatus \union {"NONE"}]
  /\ notes \in [Keys -> NoteValue]
  /\ muted \subseteq Switchable /\ devices \subseteq Users
  /\ tick \in [Ticks -> TickRow]
  /\ delivered \in [Keys -> Nat] /\ failures \in [Keys -> Nat]
  /\ shared \subseteq Keys
  /\ faults \in Nat /\ lost \in Nat

TInv == Types /\ \A t \in Ticks : TickLinked(tick[t])

-----------------------------------------------------------------------------
\* A position of the expansion names a notification.
LEMMA TargetKey ==
  ASSUME NEW e \in Events, NEW i \in Nat, i >= 1, i <= Expansion(e)
  PROVE  Target(e, i) \in Keys
<1>1. Recipients[e] \in Seq(Users) /\ Len(Recipients[e]) \in Nat
  BY EventAssumption
<1>2. (i - 1) % 2 \in {0, 1} /\ (i - 1) \div 2 \in Nat
  OBVIOUS
<1>3. 1 + ((i - 1) \div 2) \in 1..Len(Recipients[e])
  BY <1>1, <1>2 DEF Expansion
<1>4. Channels[1 + ((i - 1) % 2)] \in ChannelSet
  BY <1>2 DEF Channels, ChannelSet
<1>5. Recipients[e][1 + ((i - 1) \div 2)] \in Users
  BY <1>1, <1>3
<1>6. QED
  BY <1>4, <1>5 DEF Target, Keys

\* The recipients' inbox rows are at the even positions.
LEMMA InboxTarget ==
  ASSUME NEW e \in Events, NEW j \in DOMAIN Recipients[e]
  PROVE  /\ 2 * j \in Nat /\ 2 * j >= 1 /\ 2 * j <= Expansion(e)
         /\ Target(e, 2 * j) = <<e, "IN_APP", Recipients[e][j]>>
<1>1. Recipients[e] \in Seq(Users) /\ Len(Recipients[e]) \in Nat /\ j \in 1..Len(Recipients[e])
  BY EventAssumption
<1>2. (2 * j - 1) % 2 = 1 /\ (2 * j - 1) \div 2 = j - 1
  BY <1>1
<1>3. 1 + ((2 * j - 1) % 2) = 2 /\ 1 + ((2 * j - 1) \div 2) = j
  BY <1>1, <1>2
<1> DEFINE channel == 1 + ((2 * j - 1) % 2)
           user == 1 + ((2 * j - 1) \div 2)
<1>5. Target(e, 2 * j) = <<e, Channels[channel], Recipients[e][user]>>
  BY DEF Target
<1>6. channel = 2 /\ user = j
  BY <1>3
<1> HIDE DEF channel, user
<1>7. Target(e, 2 * j) = <<e, Channels[2], Recipients[e][j]>>
  BY <1>5, <1>6
<1>8. QED
  BY <1>1, <1>7 DEF Channels, Expansion

\* Before anything is published all is typed.
LEMMA InitTInv == Init => TInv
<1> SUFFICES ASSUME Init PROVE TInv
  OBVIOUS
<1>1. Resting \in TickRow /\ NoNote \in NoteValue
  BY DEF Resting, TickRow, NoteValue, Pcs
<1>2. Types
  BY <1>1 DEF Init, Types, OutboxStatus
<1>3. QED
  BY <1>2 DEF Init, TInv, TickLinked, Resting

\* One tick moves, the others stay where they are.
OnlyTick(t, new) ==
  /\ tick' \in [Ticks -> TickRow]
  /\ tick'[t] = new
  /\ \A q \in Ticks \ {t} : tick'[q] = tick[q]

LEMMA TickMoves ==
  ASSUME TInv, NEW t \in Ticks, NEW new \in TickRow, tick' = [tick EXCEPT ![t] = new]
  PROVE  OnlyTick(t, new)
  BY DEF TInv, Types, OnlyTick

LEMMA TickGoes ==
  ASSUME TInv, NEW t \in Ticks, NEW pc \in Pcs, Goto(t, pc)
  PROVE  OnlyTick(t, [tick[t] EXCEPT !.pc = pc])
  BY DEF TInv, Types, OnlyTick, Goto, TickRow

LEMMA TickRests ==
  ASSUME TInv, NEW t \in Ticks, tick' = [tick EXCEPT ![t] = Resting]
  PROVE  OnlyTick(t, Resting)
<1>1. Resting \in TickRow
  BY DEF Resting, TickRow, Pcs
<1>2. QED
  BY <1>1, TickMoves

LEMMA NextSendMoves ==
  ASSUME TInv, NEW t \in Ticks, NextSend(t)
  PROVE  OnlyTick(t, [tick[t] EXCEPT !.pc = "send", !.note = {}])
<1>1. tick[t] \in TickRow
  BY DEF TInv, Types
<1>2. [tick[t] EXCEPT !.pc = "send", !.note = {}] \in TickRow
  BY <1>1 DEF TickRow, Pcs
<1>3. QED
  BY <1>2 DEF TInv, Types, NextSend, OnlyTick

LEMMA SettleMoves ==
  ASSUME TInv, NEW t \in Ticks, NEW status, Settle(t, status)
  PROVE  /\ OnlyTick(t, [tick[t] EXCEPT !.pc = "dispatch", !.event = {}, !.at = 0])
         /\ tick'[t].pc = "dispatch"
         /\ \E e \in tick[t].event : outbox' = [outbox EXCEPT ![e] = status]
<1>1. tick \in [Ticks -> TickRow] /\ tick[t] \in TickRow
  BY DEF TInv, Types
<1> DEFINE new == [tick[t] EXCEPT !.pc = "dispatch", !.event = {}, !.at = 0]
<1>2. new \in TickRow /\ new.pc = "dispatch"
  BY <1>1 DEF TickRow, Pcs
<1>3. tick' = [tick EXCEPT ![t] = new]
  BY DEF Settle
<1> HIDE DEF new
<1>4. OnlyTick(t, new)
  BY <1>2, <1>3, TickMoves
<1>5. tick'[t].pc = "dispatch"
  BY <1>2, <1>4 DEF OnlyTick
<1>6. QED
  BY <1>4, <1>5 DEF Settle, new

\* A row that is there stays.
RowsStay == \A k \in Keys : HasRow(k) => HasRow(k)'

\* The statements that expand events keep the types.
LEMMA ExpandTyped ==
  ASSUME TInv, NEW t \in Ticks,
         \/ FindPending(t) \/ MarkProcessing(t) \/ Decide(t) \/ CreateNotification(t)
         \/ MarkProcessed(t) \/ MarkFailed(t) \/ \E e \in Events : TakeEvent(t, e)
  PROVE  Types' /\ RowsStay
<1> USE DEF TInv, tables, bounds, history
<1>1. Types /\ tick[t] \in TickRow /\ TickLinked(tick[t])
  BY DEF Types
<1>2. UNCHANGED notes => RowsStay
  BY DEF RowsStay, HasRow
<1>3. CASE FindPending(t)
  <2> DEFINE new == [Resting EXCEPT !.pc = "dispatch", !.events = {e \in Events : Pending(e)}]
  <2>1. new \in TickRow
    BY DEF Resting, TickRow, Pcs
  <2>2. tick' \in [Ticks -> TickRow]
    BY <1>1, <1>3, <2>1 DEF FindPending, Types
  <2>3. QED
    BY <1>1, <1>2, <1>3, <2>2 DEF FindPending, Types
<1>4. ASSUME NEW e \in Events, TakeEvent(t, e)
      PROVE  Types' /\ RowsStay
  <2>1. [tick[t] EXCEPT !.events = @ \ {e}] \in TickRow
    BY <1>1 DEF TickRow
  <2>2. [tick[t] EXCEPT !.pc = "mark", !.events = @ \ {e}, !.event = {e}, !.at = 1] \in TickRow
    BY <1>1 DEF TickRow, Pcs
  <2>3. tick' \in [Ticks -> TickRow]
    <3>1. CASE outbox[e] = "PROCESSED"
      BY <1>1, <1>4, <2>1, <3>1 DEF TakeEvent, Types
    <3>2. CASE outbox[e] # "PROCESSED"
      BY <1>1, <1>4, <2>2, <3>2 DEF TakeEvent, Types
    <3>3. QED
      BY <3>1, <3>2
  <2>4. QED
    BY <1>1, <1>2, <1>4, <2>3 DEF TakeEvent, Types
<1>5. CASE MarkProcessing(t)
  <2>1. outbox' \in [Events -> OutboxStatus \union {"NONE"}]
    BY <1>1, <1>5 DEF MarkProcessing, Types, OutboxStatus
  <2>2. QED
    BY <1>1, <1>2, <1>5, <2>1, TickGoes DEF MarkProcessing, Types, Pcs, OnlyTick
<1>6. CASE Decide(t)
  <2>1. [tick[t] EXCEPT !.at = @ + 1] \in TickRow
    BY <1>1 DEF TickRow
  <2>2. tick' \in [Ticks -> TickRow]
    <3>1. CASE Goto(t, "processed") \/ Goto(t, "create")
      BY <3>1, TickGoes DEF Pcs, OnlyTick
    <3>2. CASE tick' = [tick EXCEPT ![t].at = @ + 1]
      BY <1>1, <3>2 DEF Types, TickRow
    <3>3. QED
      BY <1>6, <3>1, <3>2 DEF Decide
  <2>3. QED
    BY <1>1, <1>2, <1>6, <2>2 DEF Decide, Types
<1>7. CASE CreateNotification(t)
  <2>1. PICK e \in tick[t].event :
          LET k == Target(e, tick[t].at) IN
            IF notes[k].status = "NONE"
            THEN /\ notes' = [notes EXCEPT ![k] = NewNote]
                 /\ tick' = [tick EXCEPT ![t].pc = "expand", ![t].at = @ + 1]
            ELSE /\ Goto(t, "failed")
                 /\ UNCHANGED notes
    BY <1>7 DEF CreateNotification
  <2> DEFINE k == Target(e, tick[t].at)
  <2>2. [tick[t] EXCEPT !.pc = "expand", !.at = @ + 1] \in TickRow
    <3>1. tick[t].at + 1 \in Nat /\ "expand" \in Pcs
      BY <1>1 DEF TickRow, Pcs
    <3>2. QED
      BY <1>1, <3>1 DEF TickRow
  <2>3. NewNote \in NoteValue /\ NewNote.status # "NONE"
    BY DEF NewNote, NoteValue, NoteRow, NoteStatus
  <2>4. k \in Keys
    <3>1. e \in Events /\ tick[t].at \in Nat /\ tick[t].at >= 1 /\ tick[t].at <= Expansion(e)
      BY <1>1, <1>7 DEF CreateNotification, At, TickLinked, TickRow
    <3>2. QED
      BY <3>1, TargetKey
  <2> HIDE DEF k
  <2>5. CASE notes[k].status = "NONE"
    <3>1. /\ notes' = [notes EXCEPT ![k] = NewNote]
          /\ tick' = [tick EXCEPT ![t].pc = "expand", ![t].at = @ + 1]
      BY <2>1, <2>5 DEF k
    <3>2. notes' \in [Keys -> NoteValue]
      BY <1>1, <2>3, <3>1 DEF Types
    <3>5. tick' \in [Ticks -> TickRow]
      BY <1>1, <2>2, <3>1 DEF Types
    <3>3. RowsStay
      BY <1>1, <2>3, <2>4, <3>1 DEF Types, RowsStay, HasRow
    <3>4. QED
      BY <1>1, <1>7, <3>2, <3>3, <3>5 DEF CreateNotification, Types
  <2>6. CASE notes[k].status # "NONE"
    <3>1. Goto(t, "failed") /\ UNCHANGED notes
      BY <2>1, <2>6 DEF k
    <3>2. QED
      BY <1>1, <1>2, <1>7, <3>1, TickGoes DEF CreateNotification, Types, Pcs, OnlyTick
  <2>7. QED
    BY <2>5, <2>6
<1>8. ASSUME NEW status \in {"PROCESSED", "FAILED"}, Settle(t, status)
      PROVE  Types' /\ RowsStay
  <2>1. outbox' \in [Events -> OutboxStatus \union {"NONE"}]
    BY <1>1, <1>8 DEF Settle, Types, OutboxStatus
  <2>2. [tick[t] EXCEPT !.pc = "dispatch", !.event = {}, !.at = 0] \in TickRow
    BY <1>1 DEF TickRow, Pcs
  <2>3. tick' \in [Ticks -> TickRow]
    BY <1>1, <1>8, <2>2 DEF Settle, Types
  <2>4. QED
    BY <1>1, <1>2, <1>8, <2>1, <2>3 DEF Settle, Types
<1>9. QED
  BY <1>3, <1>4, <1>5, <1>6, <1>7, <1>8 DEF MarkProcessed, MarkFailed

\* What a statement writes to a row that exists is a row.
LEMMA Written ==
  ASSUME NEW v \in NoteValue, v.status # "NONE", NEW status \in NoteStatus
  PROVE  /\ [v EXCEPT !.status = status] \in NoteRow
         /\ [v EXCEPT !.attempts = @ + 1, !.due = FALSE] \in NoteRow
         /\ [v EXCEPT !.due = TRUE] \in NoteRow
<1>1. v \in NoteRow
  BY DEF NoteValue, NoNote
<1>2. v.attempts + 1 \in Nat
  BY <1>1 DEF NoteRow
<1>3. QED
  BY <1>1, <1>2 DEF NoteRow

\* A row that is written to stays one.
LEMMA RowWritten ==
  ASSUME TInv, NEW k \in Keys, HasRow(k), NEW v \in NoteRow,
         notes' = [notes EXCEPT ![k] = v]
  PROVE  notes' \in [Keys -> NoteValue] /\ RowsStay
<1>1. v \in NoteValue /\ v.status # "NONE"
  BY DEF NoteValue, NoteRow, NoteStatus
<1>2. QED
  BY <1>1 DEF TInv, Types, RowsStay, HasRow

\* So do those that send.
LEMMA SendTyped ==
  ASSUME TInv, NEW t \in Ticks,
         \/ FindDueForDispatch(t) \/ UpdateAfterSend(t) \/ RecordFailure(t) \/ EndTick(t)
         \/ \E n \in tick[t].sends : Send(t, n)
  PROVE  Types' /\ RowsStay
<1> USE DEF TInv, tables, bounds, history
<1>1. Types /\ tick[t] \in TickRow /\ TickLinked(tick[t])
  BY DEF Types
<1>2. UNCHANGED notes => RowsStay
  BY DEF RowsStay, HasRow
<1>3. \A n \in tick[t].sends \union tick[t].note :
        /\ n \in Sending /\ n.key \in Keys /\ n.attempts \in Nat
        /\ HasRow(n.key) /\ notes[n.key] \in NoteValue
  BY <1>1 DEF Types, TickRow, TickLinked, Sending
<1>4. ASSUME NextSend(t) PROVE tick' \in [Ticks -> TickRow]
  BY <1>4, NextSendMoves DEF OnlyTick
<1>5. CASE FindDueForDispatch(t)
  <2> DEFINE due == {k \in Keys : DueForDispatch(k)}
             sends == {[key |-> k, attempts |-> notes[k].attempts] : k \in due}
             new == [Resting EXCEPT !.pc = "send", !.sends = sends]
  <2>1. \A k \in Keys : notes[k].attempts \in Nat
    BY <1>1 DEF Types, NoteValue, NoteRow, NoNote
  <2>2. sends \in SUBSET Sending
    BY <2>1 DEF Sending
  <2>3. new \in TickRow
    BY <2>2 DEF TickRow, Resting, Pcs
  <2>4. /\ tick' = [tick EXCEPT ![t] = new]
        /\ shared' = shared \union (due \cap UNION {WorkingOn(q) : q \in Ticks})
        /\ UNCHANGED <<outbox, notes, muted, devices, faults, lost, delivered, failures>>
    BY <1>5 DEF FindDueForDispatch
  <2>5. tick' \in [Ticks -> TickRow]
    BY <1>1, <2>3, <2>4 DEF Types
  <2>6. shared' \subseteq Keys
    BY <1>1, <2>4 DEF Types
  <2>7. QED
    BY <1>1, <1>2, <2>4, <2>5, <2>6 DEF Types
<1>6. ASSUME NEW n \in tick[t].sends, Send(t, n)
      PROVE  Types' /\ RowsStay
  <2>1. PICK pc \in {"sent", "sendFailed"}, reached \in {0, 1} :
          /\ IF pc = "sendFailed" /\ reached = 1
             THEN lost < MaxLost /\ lost' = lost + 1 ELSE UNCHANGED lost
          /\ delivered' = [delivered EXCEPT ![n.key] = @ + reached]
          /\ tick' = [tick EXCEPT ![t].pc = pc, ![t].sends = @ \ {n}, ![t].note = {n}]
    BY <1>6 DEF Send
  <2>2. [tick[t] EXCEPT !.pc = pc, !.sends = @ \ {n}, !.note = {n}] \in TickRow
    <3>1. pc \in Pcs /\ tick[t].sends \ {n} \in SUBSET Sending /\ {n} \in SUBSET Sending
      BY <1>1, <1>3 DEF Pcs, TickRow
    <3>2. QED
      BY <1>1, <3>1 DEF TickRow
  <2>3. tick' \in [Ticks -> TickRow]
    BY <1>1, <2>1, <2>2 DEF Types
  <2>4. delivered[n.key] + reached \in Nat
    BY <1>1, <1>3 DEF Types
  <2>8. lost' \in Nat
    BY <1>1, <2>1 DEF Types
  <2>5. delivered' \in [Keys -> Nat] /\ lost' \in Nat
    BY <1>1, <2>1, <2>4, <2>8 DEF Types
  <2>6. UNCHANGED <<outbox, notes, muted, devices, faults, failures, shared>>
    BY <1>6 DEF Send
  <2>7. QED
    BY <1>1, <1>2, <2>3, <2>5, <2>6 DEF Types
<1>7. CASE UpdateAfterSend(t)
  <2>1. PICK n \in tick[t].note : notes' = [notes EXCEPT ![n.key].status = "SENT"]
    BY <1>7 DEF UpdateAfterSend
  <2>2. [notes[n.key] EXCEPT !.status = "SENT"] \in NoteRow
    BY <1>3, Written DEF HasRow, NoteStatus
  <2>3. notes' \in [Keys -> NoteValue] /\ RowsStay
    BY <1>3, <2>1, <2>2, RowWritten
  <2>4. QED
    BY <1>1, <1>4, <1>7, <2>3 DEF UpdateAfterSend, Types
<1>8. CASE RecordFailure(t)
  <2>1. PICK n \in tick[t].note :
          /\ notes' = IF n.attempts + 1 >= MaxAttempts
                      THEN [notes EXCEPT ![n.key].status = "DEAD_LETTER"]
                      ELSE [notes EXCEPT ![n.key].attempts = @ + 1, ![n.key].due = FALSE]
          /\ OneMoreFailure(n.key)
    BY <1>8 DEF RecordFailure
  <2>2. /\ [notes[n.key] EXCEPT !.status = "DEAD_LETTER"] \in NoteRow
        /\ [notes[n.key] EXCEPT !.attempts = @ + 1, !.due = FALSE] \in NoteRow
    <3>1. notes[n.key] \in NoteValue /\ notes[n.key].status # "NONE" /\ "DEAD_LETTER" \in NoteStatus
      BY <1>3 DEF HasRow, NoteStatus
    <3>2. QED
      BY <3>1, Written
  <2>3. notes' \in [Keys -> NoteValue] /\ RowsStay
    <3>1. CASE n.attempts + 1 >= MaxAttempts
      BY <1>3, <2>1, <2>2, <3>1, RowWritten
    <3>2. CASE ~(n.attempts + 1 >= MaxAttempts)
      <4>1. notes' = [notes EXCEPT ![n.key] =
                        [notes[n.key] EXCEPT !.attempts = @ + 1, !.due = FALSE]]
        BY <1>1, <1>3, <2>1, <3>2 DEF Types
      <4>2. QED
        BY <1>3, <2>2, <4>1, RowWritten
    <3>3. QED
      BY <3>1, <3>2
  <2>4. failures' \in [Keys -> Nat]
    <3>1. failures[n.key] \in Nat /\ failures[n.key] + 1 \in Nat
      BY <1>1, <1>3 DEF Types
    <3>2. QED
      BY <1>1, <2>1, <3>1 DEF OneMoreFailure, Types
  <2>5. QED
    BY <1>1, <1>4, <1>8, <2>3, <2>4 DEF RecordFailure, Types
<1>9. CASE EndTick(t)
  BY <1>1, <1>2, <1>9, TickRests DEF EndTick, Types, OnlyTick
<1>10. QED
  BY <1>5, <1>6, <1>7, <1>8, <1>9

\* And those of users, of time and of faults.
LEMMA OthersTyped ==
  ASSUME TInv,
         \/ Client \/ Restart \/ \E k \in Keys : BackoffElapses(k)
         \/ \E t \in Ticks : StatementFails(t)
  PROVE  Types' /\ RowsStay
<1> USE DEF TInv, tables, bounds, history
<1>1. Types
  OBVIOUS
<1>2. UNCHANGED notes => RowsStay
  BY DEF RowsStay, HasRow
<1>3. ASSUME NEW e \in Events, Publish(e) PROVE Types' /\ RowsStay
  BY <1>1, <1>2, <1>3 DEF Publish, Types, OutboxStatus
<1>4. ASSUME NEW preference \in Switchable, NEW enabled \in BOOLEAN,
             UpdatePreference(preference, enabled)
      PROVE  Types' /\ RowsStay
  <2>1. muted' \subseteq Switchable
    BY <1>1, <1>4 DEF UpdatePreference, Types
  <2>2. QED
    BY <1>1, <1>2, <1>4, <2>1 DEF UpdatePreference, Types
<1>5. ASSUME NEW u \in Users, RegisterDevice(u) PROVE Types' /\ RowsStay
  BY <1>1, <1>2, <1>5 DEF RegisterDevice, Types
<1>6. ASSUME NEW k \in Keys, MarkRead(k) PROVE Types' /\ RowsStay
  <2>1. HasRow(k) /\ notes' = [notes EXCEPT ![k].status = "READ"]
    BY <1>6 DEF MarkRead, HasRow
  <2>2. [notes[k] EXCEPT !.status = "READ"] \in NoteRow
    BY <1>1, <2>1, Written DEF Types, HasRow, NoteStatus
  <2>3. notes' \in [Keys -> NoteValue] /\ RowsStay
    BY <2>1, <2>2, RowWritten
  <2>4. QED
    BY <1>1, <1>6, <2>3 DEF MarkRead, Types
<1>7. ASSUME NEW k \in Keys, BackoffElapses(k) PROVE Types' /\ RowsStay
  <2>1. HasRow(k) /\ notes' = [notes EXCEPT ![k].due = TRUE]
    BY <1>7 DEF BackoffElapses, HasRow
  <2>2. [notes[k] EXCEPT !.due = TRUE] \in NoteRow
    BY <1>1, <2>1, Written DEF Types, HasRow, NoteStatus
  <2>3. notes' \in [Keys -> NoteValue] /\ RowsStay
    BY <2>1, <2>2, RowWritten
  <2>4. QED
    BY <1>1, <1>7, <2>3 DEF BackoffElapses, Types
<1>8. ASSUME NEW t \in Ticks, StatementFails(t) PROVE Types' /\ RowsStay
  <2>1. tick' \in [Ticks -> TickRow]
    <3>1. CASE tick[t].pc \in {"expand", "create", "processed"}
      BY <1>8, <3>1, TickGoes DEF StatementFails, OnlyTick, Pcs
    <3>2. CASE At(t, "sent")
      BY <1>8, <3>2, TickGoes DEF StatementFails, OnlyTick, Pcs, At
    <3>3. CASE ~(tick[t].pc \in {"expand", "create", "processed"}) /\ ~At(t, "sent")
      BY <1>8, <3>3, TickRests DEF StatementFails, OnlyTick
    <3>4. QED
      BY <3>1, <3>2, <3>3
  <2>2. QED
    BY <1>1, <1>2, <1>8, <2>1 DEF StatementFails, Fault, Types
<1>9. CASE Restart
  <2>1. Resting \in TickRow
    BY DEF Resting, TickRow, Pcs
  <2>2. QED
    BY <1>1, <1>2, <1>9, <2>1 DEF Restart, Fault, Types
<1>10. QED
  BY <1>3, <1>4, <1>5, <1>6, <1>7, <1>8, <1>9 DEF Client

LEMMA StepTyped ==
  ASSUME TInv, Next
  PROVE  Types' /\ RowsStay
  BY ExpandTyped, SendTyped, OthersTyped DEF Next, Statement

\* A statement of a tick is a step of that tick.
LEMMA Alone ==
  ASSUME TInv, NEW t \in Ticks, Statement(t) \/ StatementFails(t), NEW q \in Ticks \ {t}
  PROVE  tick'[q] = tick[q]
<1>1. tick \in [Ticks -> TickRow]
  BY DEF TInv, Types
<1>2. CASE FindPending(t) \/ MarkProcessing(t) \/ Decide(t) \/ CreateNotification(t)
           \/ MarkProcessed(t) \/ MarkFailed(t)
  BY <1>1, <1>2 DEF FindPending, MarkProcessing, Decide, CreateNotification, MarkProcessed,
                    MarkFailed, Settle, Goto
<1>3. ASSUME NEW e \in Events, TakeEvent(t, e) PROVE tick'[q] = tick[q]
  BY <1>1, <1>3 DEF TakeEvent
<1>4. CASE FindDueForDispatch(t) \/ UpdateAfterSend(t) \/ RecordFailure(t) \/ EndTick(t)
  BY <1>1, <1>4 DEF FindDueForDispatch, UpdateAfterSend, RecordFailure, EndTick, NextSend
<1>5. ASSUME NEW n \in tick[t].sends, Send(t, n) PROVE tick'[q] = tick[q]
  BY <1>1, <1>5 DEF Send
<1>6. CASE StatementFails(t)
  BY <1>1, <1>6 DEF StatementFails, Goto
<1>7. QED
  BY <1>2, <1>3, <1>4, <1>5, <1>6 DEF Statement

\* A user, time and a restart leave the ticks as they are, or at rest.
LEMMA Idling ==
  ASSUME TInv, Client \/ Restart \/ \E k \in Keys : BackoffElapses(k), NEW q \in Ticks
  PROVE  tick'[q] \in {tick[q], Resting}
  BY DEF Client, Publish, UpdatePreference, RegisterDevice, MarkRead, BackoffElapses, Restart

\* The tick whose statement it is keeps within its event, and within its rows.
LEMMA LinkedMoves ==
  ASSUME TInv, Next, NEW t \in Ticks, Statement(t) \/ StatementFails(t)
  PROVE  TickLinked(tick[t])'
<1> USE DEF At
<1>1. tick \in [Ticks -> TickRow] /\ tick[t] \in TickRow /\ TickLinked(tick[t]) /\ RowsStay
  BY StepTyped DEF TInv, Types
<1>2. \A n \in tick[t].sends \union tick[t].note : HasRow(n.key)'
  BY <1>1 DEF TickLinked, RowsStay, TickRow, Sending
<1>3. CASE FindPending(t)
  BY <1>1, <1>3 DEF FindPending, TickLinked, Resting
<1>4. ASSUME NEW e \in Events, TakeEvent(t, e) PROVE TickLinked(tick[t])'
  <2>1. tick'[t].sends = tick[t].sends /\ tick'[t].note = tick[t].note
    BY <1>1, <1>4 DEF TakeEvent, TickRow
  <2>2. \/ tick'[t].pc = "dispatch" /\ tick'[t].event = tick[t].event
        \/ tick'[t].pc = "mark" /\ tick'[t].event = {e} /\ tick'[t].at = 1
    BY <1>1, <1>4 DEF TakeEvent, TickRow
  <2>3. QED
    BY <1>1, <1>2, <2>1, <2>2 DEF TickLinked
<1>5. CASE MarkProcessing(t)
  <2>1. /\ tick'[t].pc = "expand" /\ tick'[t].at = tick[t].at /\ tick'[t].event = tick[t].event
        /\ tick'[t].sends = tick[t].sends /\ tick'[t].note = tick[t].note
    BY <1>1, <1>5 DEF MarkProcessing, Goto, TickRow
  <2>2. QED
    BY <1>1, <1>2, <1>5, <2>1 DEF TickLinked, MarkProcessing
<1>6. CASE Decide(t)
  <2>1. PICK e \in tick[t].event :
          IF tick[t].at > Expansion(e) THEN Goto(t, "processed")
          ELSE IF Wanted(Target(e, tick[t].at)) THEN Goto(t, "create")
          ELSE tick' = [tick EXCEPT ![t].at = @ + 1]
    BY <1>6 DEF Decide
  <2>2. /\ tick'[t].event = tick[t].event
        /\ tick'[t].sends = tick[t].sends /\ tick'[t].note = tick[t].note
    BY <1>1, <2>1 DEF Goto, TickRow
  <2>3. CASE tick[t].at > Expansion(e)
    BY <1>1, <1>2, <2>1, <2>2, <2>3 DEF TickLinked, Goto, TickRow
  <2>4. CASE ~(tick[t].at > Expansion(e)) /\ Wanted(Target(e, tick[t].at))
    <3>1. tick'[t].pc = "create" /\ tick'[t].at = tick[t].at
      BY <1>1, <2>1, <2>4 DEF Goto, TickRow
    <3>2. tick[t].at \in Nat /\ Expansion(e) \in Int /\ tick[t].at <= Expansion(e)
      <4>1. e \in Events /\ Len(Recipients[e]) \in Nat
        BY <1>1, EventAssumption DEF TickRow
      <4>2. QED
        BY <1>1, <2>4, <4>1 DEF TickRow, Expansion
    <3>3. QED
      BY <1>1, <1>2, <1>6, <2>2, <3>1, <3>2 DEF TickLinked, Decide
  <2>5. CASE ~(tick[t].at > Expansion(e)) /\ ~Wanted(Target(e, tick[t].at))
    <3>1. tick'[t].pc = "expand" /\ tick'[t].at = tick[t].at + 1
      BY <1>1, <1>6, <2>1, <2>5 DEF Decide, TickRow
    <3>2. tick[t].at \in Nat
      BY <1>1 DEF TickRow
    <3>3. QED
      BY <1>1, <1>2, <2>2, <3>1, <3>2 DEF TickLinked
  <2>6. QED
    BY <2>3, <2>4, <2>5
<1>7. CASE CreateNotification(t)
  <2>1. /\ tick'[t].event = tick[t].event
        /\ tick'[t].sends = tick[t].sends /\ tick'[t].note = tick[t].note
        /\ \/ tick'[t].pc = "expand" /\ tick'[t].at = tick[t].at + 1
           \/ tick'[t].pc = "failed"
    BY <1>1, <1>7 DEF CreateNotification, Goto, TickRow
  <2>2. tick[t].at \in Nat
    BY <1>1 DEF TickRow
  <2>3. QED
    BY <1>1, <1>2, <2>1, <2>2 DEF TickLinked
<1>8. CASE MarkProcessed(t) \/ MarkFailed(t)
  <2>1. /\ tick'[t].event = {} /\ tick'[t].pc = "dispatch"
        /\ tick'[t].sends = tick[t].sends /\ tick'[t].note = tick[t].note
    <3>1. tick' = [tick EXCEPT ![t] = [tick[t] EXCEPT !.pc = "dispatch", !.event = {}, !.at = 0]]
      BY <1>8 DEF MarkProcessed, MarkFailed, Settle
    <3>2. tick'[t] = [tick[t] EXCEPT !.pc = "dispatch", !.event = {}, !.at = 0]
      BY <1>1, <3>1
    <3>3. QED
      BY <1>1, <3>2 DEF TickRow
  <2>2. QED
    BY <1>2, <2>1 DEF TickLinked
<1>9. CASE FindDueForDispatch(t)
  <2> DEFINE due == {k \in Keys : DueForDispatch(k)}
  <2>1. /\ tick'[t].event = {} /\ tick'[t].pc = "send" /\ tick'[t].note = {}
        /\ tick'[t].sends = {[key |-> k, attempts |-> notes[k].attempts] : k \in due}
    BY <1>1, <1>9 DEF FindDueForDispatch, Resting
  <2>2. \A k \in due : HasRow(k)
    BY DEF DueForDispatch, HasRow
  <2>3. \A n \in tick'[t].sends : HasRow(n.key)'
    BY <1>1, <2>1, <2>2 DEF RowsStay
  <2>4. QED
    BY <2>1, <2>3 DEF TickLinked
<1>10. ASSUME NEW n \in tick[t].sends, Send(t, n) PROVE TickLinked(tick[t])'
  <2>1. /\ tick'[t].event = tick[t].event /\ tick'[t].pc \in {"sent", "sendFailed"}
        /\ tick'[t].sends = tick[t].sends \ {n} /\ tick'[t].note = {n}
    BY <1>1, <1>10 DEF Send, TickRow
  <2>2. QED
    BY <1>1, <1>2, <2>1 DEF TickLinked
<1>11. CASE UpdateAfterSend(t) \/ RecordFailure(t)
  <2>1. /\ tick'[t].event = tick[t].event /\ tick'[t].pc = "send"
        /\ tick'[t].sends = tick[t].sends /\ tick'[t].note = {}
    <3>1. tick' = [tick EXCEPT ![t] = [tick[t] EXCEPT !.pc = "send", !.note = {}]]
      BY <1>11 DEF UpdateAfterSend, RecordFailure, NextSend
    <3>2. tick'[t] = [tick[t] EXCEPT !.pc = "send", !.note = {}]
      BY <1>1, <3>1
    <3>3. QED
      BY <1>1, <3>2 DEF TickRow
  <2>2. QED
    BY <1>1, <1>2, <2>1 DEF TickLinked
<1>12. CASE EndTick(t)
  BY <1>1, <1>12 DEF EndTick, Resting, TickLinked
<1>13. CASE StatementFails(t)
  <2>1. \/ tick'[t] = Resting
        \/ /\ tick'[t].event = tick[t].event /\ tick'[t].pc \in {"failed", "sendFailed"}
           /\ tick'[t].sends = tick[t].sends /\ tick'[t].note = tick[t].note
    BY <1>1, <1>13 DEF StatementFails, Goto, TickRow
  <2>2. QED
    BY <1>1, <1>2, <2>1 DEF TickLinked, Resting
<1>14. QED
  BY <1>3, <1>4, <1>5, <1>6, <1>7, <1>8, <1>9, <1>10, <1>11, <1>12, <1>13 DEF Statement

LEMMA TInvInductive == TInv /\ [Next]_vars => TInv'
<1> SUFFICES ASSUME TInv, [Next]_vars PROVE TInv'
  OBVIOUS
<1>1. CASE Next
  <2>1. Types' /\ RowsStay
    BY <1>1, StepTyped
  <2>2. ASSUME NEW q \in Ticks, tick'[q] = tick[q] PROVE TickLinked(tick[q])'
    BY <2>1, <2>2 DEF TInv, Types, TickLinked, RowsStay, TickRow, Sending
  <2>3. ASSUME NEW q \in Ticks, tick'[q] = Resting PROVE TickLinked(tick[q])'
    BY <2>3 DEF TickLinked, Resting
  <2>4. CASE Client \/ Restart \/ \E k \in Keys : BackoffElapses(k)
    BY <2>1, <2>2, <2>3, <2>4, Idling DEF TInv
  <2>5. ASSUME NEW t \in Ticks, Statement(t) \/ StatementFails(t) PROVE TInv'
    <3>1. \A q \in Ticks \ {t} : TickLinked(tick[q])'
      BY <2>2, <2>5, Alone
    <3>2. TickLinked(tick[t])'
      BY <1>1, <2>5, LinkedMoves
    <3>3. QED
      BY <2>1, <3>1, <3>2 DEF TInv
  <2>6. QED
    BY <1>1, <2>4, <2>5 DEF Next
<1>2. CASE UNCHANGED vars
  BY <1>2 DEF vars, TInv, Types, TickLinked, HasRow, TickRow, Sending
<1>3. QED
  BY <1>1, <1>2

-----------------------------------------------------------------------------
(* The lists of a tick *)

\* The statements that neither make a list nor take from it for a send.
Aside(t) ==
  \/ FindPending(t) \/ MarkProcessing(t) \/ Decide(t) \/ CreateNotification(t)
  \/ MarkProcessed(t) \/ MarkFailed(t) \/ EndTick(t) \/ \E e \in Events : TakeEvent(t, e)

LEMMA Cases ==
  ASSUME NEW t \in Ticks, Statement(t)
  PROVE  \/ Aside(t) \/ FindDueForDispatch(t) \/ UpdateAfterSend(t) \/ RecordFailure(t)
         \/ \E n \in tick[t].sends : Send(t, n)
  BY DEF Statement, Aside

\* But for the list of due rows, which is made anew, a list only gets shorter,
\* the row in hand taken from it.
LEMMA ListsShrink ==
  ASSUME TInv, NEW t \in Ticks,
         Aside(t) \/ UpdateAfterSend(t) \/ RecordFailure(t) \/ StatementFails(t)
  PROVE  /\ tick'[t].sends \subseteq tick[t].sends /\ tick'[t].note \subseteq tick[t].note
         /\ tick'[t].pc # "sent"
<1>1. tick \in [Ticks -> TickRow] /\ tick[t] \in TickRow
  BY DEF TInv, Types
<1> USE DEF At
<1>2. CASE FindPending(t)
  BY <1>1, <1>2 DEF FindPending, Resting
<1>3. CASE MarkProcessing(t)
  BY <1>1, <1>3 DEF MarkProcessing, Goto, TickRow
<1>4. CASE Decide(t)
  BY <1>1, <1>4 DEF Decide, Goto, TickRow
<1>5. CASE CreateNotification(t)
  BY <1>1, <1>5 DEF CreateNotification, Goto, TickRow
<1>6. CASE MarkProcessed(t) \/ MarkFailed(t)
  <2>1. tick' = [tick EXCEPT ![t] = [tick[t] EXCEPT !.pc = "dispatch", !.event = {}, !.at = 0]]
    BY <1>6 DEF MarkProcessed, MarkFailed, Settle
  <2>2. tick'[t] = [tick[t] EXCEPT !.pc = "dispatch", !.event = {}, !.at = 0]
    BY <1>1, <2>1
  <2>3. QED
    BY <1>1, <2>2 DEF TickRow
<1>7. CASE EndTick(t)
  BY <1>1, <1>7 DEF EndTick, Resting
<1>8. ASSUME NEW e \in Events, TakeEvent(t, e)
      PROVE  /\ tick'[t].sends \subseteq tick[t].sends /\ tick'[t].note \subseteq tick[t].note
             /\ tick'[t].pc # "sent"
  BY <1>1, <1>8 DEF TakeEvent, TickRow
<1>9. CASE UpdateAfterSend(t) \/ RecordFailure(t)
  <2>1. tick' = [tick EXCEPT ![t] = [tick[t] EXCEPT !.pc = "send", !.note = {}]]
    BY <1>9 DEF UpdateAfterSend, RecordFailure, NextSend
  <2>2. tick'[t] = [tick[t] EXCEPT !.pc = "send", !.note = {}]
    BY <1>1, <2>1
  <2>3. QED
    BY <1>1, <2>2 DEF TickRow
<1>10. CASE StatementFails(t)
  <2>1. \/ tick'[t] = Resting
        \/ /\ tick'[t].pc \in {"failed", "sendFailed"}
           /\ tick'[t].sends = tick[t].sends /\ tick'[t].note = tick[t].note
    BY <1>1, <1>10 DEF StatementFails, Goto, TickRow
  <2>2. QED
    BY <2>1 DEF Resting
<1>11. QED
  BY <1>2, <1>3, <1>4, <1>5, <1>6, <1>7, <1>8, <1>9, <1>10 DEF Aside

\* What the statements aside do to rows: the insert makes one.
LEMMA AsideRows ==
  ASSUME TInv, NEW t \in Ticks, Aside(t), NEW k \in Keys
  PROVE  /\ \/ notes'[k] = notes[k]
            \/ notes[k].status = "NONE" /\ notes'[k] = NewNote
         /\ UNCHANGED <<delivered, failures, shared, faults, lost>>
<1> USE DEF tables, history, bounds, TInv, Types
<1>1. CASE CreateNotification(t)
  BY <1>1 DEF CreateNotification
<1>2. CASE FindPending(t) \/ MarkProcessing(t) \/ Decide(t) \/ EndTick(t)
           \/ \E e \in Events : TakeEvent(t, e)
  BY <1>2 DEF FindPending, MarkProcessing, Decide, EndTick, TakeEvent
<1>3. CASE MarkProcessed(t) \/ MarkFailed(t)
  BY <1>3 DEF MarkProcessed, MarkFailed, Settle
<1>4. QED
  BY <1>1, <1>2, <1>3 DEF Aside

\* What users and time do to rows and ticks.
LEMMA ClientRows ==
  ASSUME TInv, Client \/ \E j \in Keys : BackoffElapses(j), NEW k \in Keys
  PROVE  /\ \/ notes'[k] = notes[k]
            \/ notes[k].status # "NONE" /\ notes'[k] = [notes[k] EXCEPT !.status = "READ"]
            \/ notes[k].status # "NONE" /\ notes'[k] = [notes[k] EXCEPT !.due = TRUE]
         /\ UNCHANGED <<tick, delivered, failures, shared, faults, lost>>
<1> USE DEF tables, history, bounds, TInv, Types
<1>1. CASE \E j \in Keys : MarkRead(j) \/ BackoffElapses(j)
  BY <1>1 DEF MarkRead, BackoffElapses
<1>2. CASE \/ \E e \in Events : Publish(e)
           \/ \E u \in Users : RegisterDevice(u)
           \/ \E p \in Switchable, enabled \in BOOLEAN : UpdatePreference(p, enabled)
  BY <1>2 DEF Publish, RegisterDevice, UpdatePreference
<1>3. QED
  BY <1>1, <1>2 DEF Client

-----------------------------------------------------------------------------
(* SENT rows were delivered *)

SentInv ==
  /\ SentWasDelivered
  /\ \A t \in Ticks : tick[t].pc = "sent" => \A n \in tick[t].note : delivered[n.key] > 0

LEMMA SentInductive ==
  ASSUME TInv, TInv', SentInv, [Next]_vars
  PROVE  SentInv'
<1> USE DEF SentInv, SentWasDelivered
<1>1. Types /\ Types' /\ \A t \in Ticks : TickLinked(tick[t])
  BY DEF TInv
<1>2. ASSUME NEW t \in Ticks, NEW n \in tick[t].sends \union tick[t].note
      PROVE  n.key \in Keys
  BY <1>1, <1>2 DEF Types, TickRow, Sending
<1>3. ASSUME NEW t \in Ticks, Statement(t) \/ StatementFails(t), UNCHANGED delivered,
             \A k \in Keys : notes'[k].status = "SENT" => notes[k].status = "SENT",
             tick'[t].pc # "sent"
      PROVE  SentInv'
  BY <1>3, Alone
<1>4. ASSUME NEW t \in Ticks, Aside(t), Statement(t) PROVE SentInv'
  <2>1. UNCHANGED delivered
    BY <1>4 DEF Aside, FindPending, MarkProcessing, Decide, EndTick, TakeEvent, CreateNotification,
                MarkProcessed, MarkFailed, Settle, history
  <2>2. NewNote.status = "QUEUED"
    BY DEF NewNote
  <2>3. \A k \in Keys : notes'[k].status = "SENT" => notes[k].status = "SENT"
    BY <1>4, <2>2, AsideRows
  <2>4. QED
    BY <1>3, <1>4, <2>1, <2>3, ListsShrink
<1>5. ASSUME NEW t \in Ticks, FindDueForDispatch(t), Statement(t) PROVE SentInv'
  <2>1. UNCHANGED <<notes, delivered>> /\ tick'[t].pc = "send"
    BY <1>1, <1>5 DEF FindDueForDispatch, tables, Types, Resting
  <2>2. QED
    BY <1>3, <1>5, <2>1
<1>6. ASSUME NEW t \in Ticks, UpdateAfterSend(t), Statement(t) PROVE SentInv'
  <2>1. PICK n \in tick[t].note : notes' = [notes EXCEPT ![n.key].status = "SENT"]
    BY <1>6 DEF UpdateAfterSend
  <2>2. delivered[n.key] > 0 /\ UNCHANGED delivered
    BY <1>6 DEF UpdateAfterSend, At, history
  <2>3. \A k \in Keys : notes'[k].status = "SENT" => delivered'[k] > 0
    BY <1>1, <1>2, <2>1, <2>2 DEF Types
  <2>4. tick'[t].pc # "sent"
    BY <1>6, ListsShrink
  <2>5. QED
    BY <1>6, <2>2, <2>3, <2>4, Alone
<1>7. ASSUME NEW t \in Ticks, RecordFailure(t), Statement(t) PROVE SentInv'
  <2>1. \A k \in Keys : notes'[k].status = "SENT" => notes[k].status = "SENT"
    <3>1. PICK n \in tick[t].note :
             notes' = IF n.attempts + 1 >= MaxAttempts
                      THEN [notes EXCEPT ![n.key].status = "DEAD_LETTER"]
                      ELSE [notes EXCEPT ![n.key].attempts = @ + 1, ![n.key].due = FALSE]
      BY <1>7 DEF RecordFailure
    <3>2. CASE n.attempts + 1 >= MaxAttempts
      BY <1>1, <3>1, <3>2 DEF Types, NoteValue, NoteRow, NoNote
    <3>3. CASE ~(n.attempts + 1 >= MaxAttempts)
      BY <1>1, <3>1, <3>3 DEF Types, NoteValue, NoteRow, NoNote
    <3>4. QED
      BY <3>2, <3>3
  <2>2. UNCHANGED delivered
    BY <1>7 DEF RecordFailure
  <2>3. QED
    BY <1>3, <1>7, <2>1, <2>2, ListsShrink
<1>8. ASSUME NEW t \in Ticks, NEW n \in tick[t].sends, Send(t, n), Statement(t) PROVE SentInv'
  <2>1. PICK pc \in {"sent", "sendFailed"}, reached \in {0, 1} :
          /\ pc = "sent" => reached = 1
          /\ delivered' = [delivered EXCEPT ![n.key] = @ + reached]
          /\ tick' = [tick EXCEPT ![t].pc = pc, ![t].sends = @ \ {n}, ![t].note = {n}]
    BY <1>8 DEF Send
  <2>2. \A k \in Keys : delivered[k] > 0 => delivered'[k] > 0
    BY <1>1, <2>1 DEF Types
  <2>3. UNCHANGED notes
    BY <1>8 DEF Send, tables
  <2>4. tick'[t].pc = "sent" => \A m \in tick'[t].note : delivered'[m.key] > 0
    <3>1. tick'[t].pc = pc /\ tick'[t].note = {n}
      BY <1>1, <2>1 DEF Types, TickRow
    <3>2. reached = 1 => delivered'[n.key] > 0
      BY <1>1, <1>2, <2>1 DEF Types
    <3>3. QED
      BY <2>1, <3>1, <3>2
  <2>5. \A q \in Ticks \ {t} : tick'[q] = tick[q]
    BY <1>8, Alone
  <2>6. QED
    BY <1>2, <2>2, <2>3, <2>4, <2>5
<1>9. ASSUME NEW t \in Ticks, StatementFails(t) PROVE SentInv'
  BY <1>3, <1>9, ListsShrink DEF StatementFails, tables, history
<1>10. CASE Client \/ \E k \in Keys : BackoffElapses(k)
  <2>1. UNCHANGED <<tick, delivered>>
    BY <1>10 DEF Client, Publish, UpdatePreference, RegisterDevice, MarkRead, BackoffElapses, history
  <2>2. ASSUME NEW k \in Keys, notes'[k].status = "SENT" PROVE notes[k].status = "SENT"
    <3>1. notes[k] \in NoteValue
      BY <1>1 DEF Types
    <3>2. QED
      BY <1>10, <2>2, <3>1, ClientRows DEF NoteValue, NoteRow, NoNote
  <2>3. QED
    BY <2>1, <2>2
<1>11. CASE Restart
  BY <1>11 DEF Restart, Resting, tables, history
<1>12. CASE UNCHANGED vars
  BY <1>12 DEF vars
<1>13. QED
  BY <1>4, <1>5, <1>6, <1>7, <1>8, <1>9, <1>10, <1>11, <1>12, Cases DEF Next

-----------------------------------------------------------------------------
(* Dead letters were tried *)

\* The failed sends counted for a row cover its attempts, or are all there may be.
Counted(n, k) == failures[k] >= MaxAttempts \/ n <= failures[k]

Listed(t) == tick[t].sends \union tick[t].note

DeadInv ==
  /\ DeadLettersWereTried
  /\ \A k \in Keys : Counted(notes[k].attempts, k)
  /\ \A t \in Ticks : \A n \in Listed(t) : Counted(n.attempts, n.key)

\* What a step must not do for this.
LEMMA DeadKept ==
  ASSUME TInv, TInv', DeadInv,
         \A k \in Keys :
           /\ failures'[k] >= failures[k]
           /\ notes'[k].status = "DEAD_LETTER" =>
                notes[k].status = "DEAD_LETTER" \/ failures'[k] >= MaxAttempts
           /\ \/ notes'[k].attempts = notes[k].attempts
              \/ failures'[k] >= MaxAttempts \/ notes'[k].attempts <= failures'[k],
         \A t \in Ticks : \A n \in Listed(t)' :
           n \in Listed(t) \/ n.attempts = notes[n.key].attempts
  PROVE  DeadInv'
<1>1. Types /\ Types' /\ MaxAttempts \in Nat
  BY LimitAssumption DEF TInv
<1>2. ASSUME NEW k \in Keys
      PROVE  /\ failures[k] \in Nat /\ failures'[k] \in Nat
             /\ notes[k].attempts \in Nat /\ notes'[k].attempts \in Nat
  BY <1>1 DEF Types, NoteValue, NoteRow, NoNote
<1>3. ASSUME NEW t \in Ticks, NEW n \in Listed(t)'
      PROVE  n.key \in Keys /\ n.attempts \in Nat
  BY <1>1, <1>3 DEF Types, TickRow, Sending, Listed
<1>4. DeadLettersWereTried'
  BY <1>1, <1>2 DEF DeadInv, DeadLettersWereTried
<1>5. \A k \in Keys : Counted(notes[k].attempts, k)'
  BY <1>1, <1>2 DEF DeadInv, Counted
<1>6. ASSUME NEW t \in Ticks, NEW n \in Listed(t)'
      PROVE  failures'[n.key] >= MaxAttempts \/ n.attempts <= failures'[n.key]
  <2>1. failures[n.key] >= MaxAttempts \/ n.attempts <= failures[n.key]
    BY <1>3, <1>6 DEF DeadInv, Counted
  <2>2. failures'[n.key] >= failures[n.key]
    BY <1>3, <1>6
  <2>3. n.attempts \in Nat /\ failures[n.key] \in Nat /\ failures'[n.key] \in Nat
    BY <1>2, <1>3, <1>6
  <2>4. QED
    BY <1>1, <2>1, <2>2, <2>3
<1>7. QED
  BY <1>4, <1>5, <1>6 DEF DeadInv, Counted

LEMMA DeadInductive ==
  ASSUME TInv, TInv', DeadInv, [Next]_vars
  PROVE  DeadInv'
<1>1. Types /\ Types' /\ MaxAttempts \in Nat
  BY LimitAssumption DEF TInv
<1>2. ASSUME NEW k \in Keys
      PROVE  /\ failures[k] \in Nat /\ failures[k] >= failures[k]
             /\ notes[k] \in NoteValue /\ notes[k].attempts \in Nat
  BY <1>1 DEF Types, NoteValue, NoteRow, NoNote
<1>3. ASSUME UNCHANGED failures,
             \A k \in Keys :
               /\ notes'[k].status = "DEAD_LETTER" => notes[k].status = "DEAD_LETTER"
               /\ \/ notes'[k].attempts = notes[k].attempts
                  \/ notes'[k].attempts <= failures'[k],
             \A t \in Ticks : \A n \in Listed(t)' :
               n \in Listed(t) \/ n.attempts = notes[n.key].attempts
      PROVE  DeadInv'
  BY <1>2, <1>3, DeadKept
\* The lists of the other ticks, and of a tick whose list only shrinks.
<1>4. ASSUME NEW t \in Ticks, Statement(t) \/ StatementFails(t),
             \A n \in Listed(t)' : n \in Listed(t) \/ n.attempts = notes[n.key].attempts
      PROVE  \A q \in Ticks : \A n \in Listed(q)' :
               n \in Listed(q) \/ n.attempts = notes[n.key].attempts
  BY <1>4, Alone DEF Listed
<1>5. ASSUME NEW t \in Ticks, Aside(t), Statement(t) PROVE DeadInv'
  <2>1. UNCHANGED failures
    BY <1>5 DEF Aside, FindPending, MarkProcessing, Decide, EndTick, TakeEvent, CreateNotification,
                MarkProcessed, MarkFailed, Settle, history
  <2>2. NewNote.status = "QUEUED" /\ NewNote.attempts = 0
    BY DEF NewNote
  <2>3. ASSUME NEW k \in Keys
        PROVE  /\ notes'[k].status = "DEAD_LETTER" => notes[k].status = "DEAD_LETTER"
               /\ \/ notes'[k].attempts = notes[k].attempts
                  \/ notes'[k].attempts <= failures'[k]
    <3>1. notes'[k] = notes[k] \/ notes'[k] = NewNote
      BY <1>5, AsideRows
    <3>2. 0 <= failures'[k]
      BY <1>2, <2>1
    <3>3. QED
      BY <2>2, <3>1, <3>2
  <2>4. \A n \in Listed(t)' : n \in Listed(t)
    BY <1>5, ListsShrink DEF Listed
  <2>5. QED
    BY <1>3, <1>4, <1>5, <2>1, <2>3, <2>4
<1>6. ASSUME NEW t \in Ticks, FindDueForDispatch(t), Statement(t) PROVE DeadInv'
  <2>1. UNCHANGED <<notes, failures>>
    BY <1>6 DEF FindDueForDispatch, tables
  <2>2. /\ tick'[t].note = {}
        /\ tick'[t].sends = {[key |-> k, attempts |-> notes[k].attempts] :
                               k \in {k \in Keys : DueForDispatch(k)}}
    BY <1>1, <1>6 DEF FindDueForDispatch, Types, Resting
  <2>3. \A n \in Listed(t)' : n.attempts = notes[n.key].attempts
    BY <2>2 DEF Listed
  <2>4. QED
    BY <1>3, <1>4, <1>6, <2>1, <2>3
<1>7. ASSUME NEW t \in Ticks, UpdateAfterSend(t), Statement(t) PROVE DeadInv'
  <2>1. PICK n \in tick[t].note : notes' = [notes EXCEPT ![n.key].status = "SENT"]
    BY <1>7 DEF UpdateAfterSend
  <2>2. \A k \in Keys :
          /\ notes'[k].status = "DEAD_LETTER" => notes[k].status = "DEAD_LETTER"
          /\ notes'[k].attempts = notes[k].attempts
    BY <1>1, <1>2, <2>1 DEF Types, NoteValue, NoteRow, NoNote
  <2>3. UNCHANGED failures
    BY <1>7 DEF UpdateAfterSend, history
  <2>4. \A m \in Listed(t)' : m \in Listed(t)
    BY <1>7, ListsShrink DEF Listed
  <2>5. QED
    BY <1>3, <1>4, <1>7, <2>2, <2>3, <2>4
<1>8. ASSUME NEW t \in Ticks, RecordFailure(t), Statement(t) PROVE DeadInv'
  <2>1. PICK n \in tick[t].note :
          /\ notes' = IF n.attempts + 1 >= MaxAttempts
                      THEN [notes EXCEPT ![n.key].status = "DEAD_LETTER"]
                      ELSE [notes EXCEPT ![n.key].attempts = @ + 1, ![n.key].due = FALSE]
          /\ OneMoreFailure(n.key)
    BY <1>8 DEF RecordFailure
  <2>2. /\ n.key \in Keys /\ n.attempts \in Nat
        /\ failures[n.key] >= MaxAttempts \/ n.attempts <= failures[n.key]
        /\ failures[n.key] >= MaxAttempts \/ notes[n.key].attempts <= failures[n.key]
    BY <1>1 DEF Types, TickRow, Sending, DeadInv, Counted, Listed
  <2>3. \A m \in Listed(t)' : m \in Listed(t)
    BY <1>8, ListsShrink DEF Listed
  <2>4. ASSUME NEW k \in Keys, k # n.key
        PROVE  notes'[k] = notes[k] /\ failures'[k] = failures[k]
    BY <1>1, <2>1, <2>4 DEF Types, OneMoreFailure
  <2>5. failures'[n.key] = IF failures[n.key] < MaxAttempts THEN failures[n.key] + 1 ELSE failures[n.key]
    BY <1>1, <2>1, <2>2 DEF Types, OneMoreFailure
  <2>6. /\ failures'[n.key] >= failures[n.key]
        /\ \/ failures'[n.key] >= MaxAttempts
           \/ n.attempts + 1 <= failures'[n.key] /\ notes[n.key].attempts + 1 <= failures'[n.key]
    BY <1>1, <1>2, <2>2, <2>5
  <2>7. CASE n.attempts + 1 >= MaxAttempts
    <3>1. failures'[n.key] >= MaxAttempts
      <4>1. failures'[n.key] \in Nat
        BY <1>2, <2>2, <2>5
      <4>2. QED
        BY <1>1, <2>2, <2>6, <2>7, <4>1
    <3>2. \A k \in Keys :
            /\ failures'[k] >= failures[k]
            /\ notes'[k].status = "DEAD_LETTER" =>
                 notes[k].status = "DEAD_LETTER" \/ failures'[k] >= MaxAttempts
            /\ notes'[k].attempts = notes[k].attempts \/ failures'[k] >= MaxAttempts
      BY <1>2, <2>4, <2>6, <3>1
    <3>3. QED
      BY <1>4, <1>8, <2>3, <3>2, DeadKept
  <2>8. CASE ~(n.attempts + 1 >= MaxAttempts)
    <3>1. notes'[n.key].status = notes[n.key].status
          /\ notes'[n.key].attempts = notes[n.key].attempts + 1
      BY <1>1, <1>2, <2>1, <2>2, <2>8 DEF Types, NoteValue, NoteRow, NoNote
    <3>2. \A k \in Keys :
            /\ failures'[k] >= failures[k]
            /\ notes'[k].status = "DEAD_LETTER" => notes[k].status = "DEAD_LETTER"
            /\ \/ notes'[k].attempts = notes[k].attempts
               \/ failures'[k] >= MaxAttempts \/ notes'[k].attempts <= failures'[k]
      BY <1>2, <2>4, <2>6, <3>1
    <3>3. QED
      BY <1>4, <1>8, <2>3, <3>2, DeadKept
  <2>9. QED
    BY <2>7, <2>8
<1>9. ASSUME NEW t \in Ticks, NEW n \in tick[t].sends, Send(t, n), Statement(t) PROVE DeadInv'
  <2>1. UNCHANGED <<notes, failures>>
    BY <1>9 DEF Send, tables
  <2>2. tick'[t].sends = tick[t].sends \ {n} /\ tick'[t].note = {n}
    BY <1>1, <1>9 DEF Send, Types, TickRow
  <2>3. \A m \in Listed(t)' : m \in Listed(t)
    BY <2>2 DEF Listed
  <2>4. QED
    BY <1>3, <1>4, <1>9, <2>1, <2>3
<1>10. ASSUME NEW t \in Ticks, StatementFails(t) PROVE DeadInv'
  <2>1. UNCHANGED <<notes, failures>>
    BY <1>10 DEF StatementFails, tables, history
  <2>2. \A m \in Listed(t)' : m \in Listed(t)
    BY <1>10, ListsShrink DEF Listed
  <2>3. QED
    BY <1>3, <1>4, <1>10, <2>1, <2>2
<1>11. CASE Client \/ \E k \in Keys : BackoffElapses(k)
  <2>1. UNCHANGED <<tick, failures>>
    BY <1>11 DEF Client, Publish, UpdatePreference, RegisterDevice, MarkRead, BackoffElapses, history
  <2>2. ASSUME NEW k \in Keys
        PROVE  /\ notes'[k].status = "DEAD_LETTER" => notes[k].status = "DEAD_LETTER"
               /\ notes'[k].attempts = notes[k].attempts
    BY <1>2, <1>11, ClientRows DEF NoteValue, NoteRow, NoNote
  <2>3. \A t \in Ticks : Listed(t)' = Listed(t)
    BY <2>1 DEF Listed
  <2>4. QED
    BY <1>3, <2>1, <2>2, <2>3
<1>12. CASE Restart
  <2>1. UNCHANGED <<notes, failures>> /\ \A t \in Ticks : tick'[t] = Resting
    BY <1>12 DEF Restart, tables, history
  <2>2. \A t \in Ticks : Listed(t)' = {}
    BY <2>1 DEF Listed, Resting
  <2>3. QED
    BY <1>3, <2>1, <2>2
<1>13. CASE UNCHANGED vars
  BY <1>3, <1>13 DEF vars, Listed
<1>14. QED
  BY <1>5, <1>6, <1>7, <1>8, <1>9, <1>10, <1>11, <1>12, <1>13, Cases DEF Next

-----------------------------------------------------------------------------
(* Processed events are expanded *)

Made(e, i) == Target(e, i) \in MustHave(e) => HasRow(Target(e, i))

\* What a tick passed by it has made, or need not make.
TickExpanded(q) ==
  \A e \in q.event :
    /\ q.pc \in {"expand", "create"} => \A i \in 1..(q.at - 1) : Made(e, i)
    /\ q.pc = "processed" => \A i \in 1..Expansion(e) : Made(e, i)

ExpandInv ==
  /\ ProcessedIsExpanded
  /\ \A t \in Ticks : TickExpanded(tick[t])

\* All positions are all mandatory notifications.
LEMMA AllMade ==
  ASSUME NEW e \in Events, \A i \in 1..Expansion(e) : Made(e, i), NEW k \in MustHave(e)
  PROVE  HasRow(k)
<1>1. PICK j \in DOMAIN Recipients[e] : Recipients[e][j] = k[3]
  BY DEF MustHave
<1>2. k = <<e, "IN_APP", k[3]>>
  BY DEF MustHave
<1>3. 2 * j \in Nat /\ 2 * j >= 1 /\ 2 * j <= Expansion(e) /\ Target(e, 2 * j) = k
  BY <1>1, <1>2, InboxTarget
<1>4. Len(Recipients[e]) \in Nat /\ Expansion(e) \in Int
  BY EventAssumption DEF Expansion
<1>5. Made(e, 2 * j)
  BY <1>3, <1>4
<1>6. QED
  BY <1>3, <1>5 DEF Made

\* What is not wanted need not be.
LEMMA UnwantedMade ==
  ASSUME NEW e \in Events, NEW i \in Nat, ~Wanted(Target(e, i))
  PROVE  Made(e, i)
<1> DEFINE k == Target(e, i)
<1>1. k[1] = e
  BY DEF Target
<1>2. k \in MustHave(e) => k[2] = "IN_APP" /\ "IN_APP" \in Templates[e] /\ CategoryOf[e] \in Mandatory
  BY DEF MustHave
<1>3. k \in MustHave(e) => Wanted(k)
  BY <1>1, <1>2 DEF Wanted
<1>4. QED
  BY <1>3 DEF Made

LEMMA RowsInKeys ==
  ASSUME NEW e \in Events
  PROVE  MustHave(e) \subseteq Keys
  BY DEF MustHave, Keys, ChannelSet

LEMMA ExpandInductive ==
  ASSUME TInv, TInv', ExpandInv, [Next]_vars
  PROVE  ExpandInv'
<1> USE DEF At
<1>1. Types /\ Types' /\ \A t \in Ticks : tick[t] \in TickRow /\ TickLinked(tick[t])
  BY DEF TInv, Types
<1>2. RowsStay
  <2>1. UNCHANGED vars => RowsStay
    BY DEF vars, RowsStay, HasRow
  <2>2. QED
    BY <2>1, StepTyped
<1>3. ASSUME NEW e \in Events, NEW i, Made(e, i) PROVE Made(e, i)'
  BY <1>2, <1>3, RowsInKeys DEF Made, RowsStay, Target, MustHave
<1>4. ASSUME NEW q \in Ticks, tick'[q] = tick[q] PROVE TickExpanded(tick[q])'
  <2>1. tick[q].event \subseteq Events /\ TickExpanded(tick[q])
    BY <1>1 DEF TickRow, ExpandInv
  <2>2. QED
    BY <1>3, <1>4, <2>1 DEF TickExpanded, Expansion
<1>5. ASSUME NEW q \in Ticks, tick'[q] = Resting PROVE TickExpanded(tick[q])'
  BY <1>5 DEF TickExpanded, Resting
<1>6. ASSUME \A e \in Events : outbox'[e] = "PROCESSED" => outbox[e] = "PROCESSED"
      PROVE  ProcessedIsExpanded'
  <2>1. ASSUME NEW e \in Events, outbox'[e] = "PROCESSED", NEW k \in MustHave(e)
        PROVE  HasRow(k)'
    BY <1>2, <1>6, <2>1, RowsInKeys DEF ExpandInv, ProcessedIsExpanded, RowsStay
  <2>2. QED
    BY <2>1 DEF ProcessedIsExpanded, MustHave
\* A tick that is not at an expansion says nothing.
<1>7. ASSUME NEW t \in Ticks, Statement(t) \/ StatementFails(t),
             \A e \in Events : outbox'[e] = "PROCESSED" => outbox[e] = "PROCESSED",
             TickExpanded(tick[t])'
      PROVE  ExpandInv'
  BY <1>4, <1>6, <1>7, Alone DEF ExpandInv
<1>8. ASSUME NEW t \in Ticks, tick'[t].pc \notin {"expand", "create", "processed"}
      PROVE  TickExpanded(tick[t])'
  BY <1>8 DEF TickExpanded
<1>9. ASSUME NEW t \in Ticks, Statement(t),
             \/ FindPending(t) \/ EndTick(t) \/ FindDueForDispatch(t)
             \/ UpdateAfterSend(t) \/ RecordFailure(t)
      PROVE  ExpandInv'
  <2>1. outbox' = outbox
    BY <1>9 DEF FindPending, EndTick, FindDueForDispatch, UpdateAfterSend, RecordFailure, tables
  <2>2. tick'[t].pc \notin {"expand", "create", "processed"}
    <3>1. CASE FindPending(t)
      <4> DEFINE pending == {e \in Events : Pending(e)}
      <4>1. tick' = [tick EXCEPT ![t] = [Resting EXCEPT !.pc = "dispatch", !.events = pending]]
        BY <3>1 DEF FindPending
      <4> HIDE DEF pending
      <4>2. QED
        BY <1>1, <4>1 DEF Types, Resting
    <3>3. CASE EndTick(t)
      BY <1>1, <3>3 DEF EndTick, Resting, Types
    <3>5. CASE FindDueForDispatch(t)
      <4> DEFINE sends == {[key |-> k, attempts |-> notes[k].attempts] :
                             k \in {j \in Keys : DueForDispatch(j)}}
      <4>1. tick' = [tick EXCEPT ![t] = [Resting EXCEPT !.pc = "send", !.sends = sends]]
        BY <3>5 DEF FindDueForDispatch
      <4> HIDE DEF sends
      <4>2. QED
        BY <1>1, <4>1 DEF Types, Resting
    <3>2. CASE UpdateAfterSend(t) \/ RecordFailure(t)
      <4>1. OnlyTick(t, [tick[t] EXCEPT !.pc = "send", !.note = {}])
        BY <3>2, NextSendMoves DEF UpdateAfterSend, RecordFailure
      <4>2. QED
        BY <1>1, <4>1 DEF OnlyTick, TickRow
    <3>4. QED
      BY <1>9, <3>1, <3>2, <3>3, <3>5
  <2>3. QED
    BY <1>7, <1>8, <1>9, <2>1, <2>2
<1>10. ASSUME NEW t \in Ticks, StatementFails(t) PROVE ExpandInv'
  <2>1. outbox' = outbox
    BY <1>10 DEF StatementFails, tables
  <2>2. tick'[t].pc \notin {"expand", "create", "processed"}
    BY <1>1, <1>10 DEF StatementFails, Goto, Resting, TickRow, Types
  <2>3. QED
    BY <1>7, <1>8, <1>10, <2>1, <2>2
<1>11. ASSUME NEW t \in Ticks, NEW n \in tick[t].sends, Send(t, n), Statement(t) PROVE ExpandInv'
  <2>1. outbox' = outbox /\ tick'[t].pc \in {"sent", "sendFailed"}
    BY <1>1, <1>11 DEF Send, tables, Types, TickRow
  <2>2. QED
    BY <1>7, <1>8, <1>11, <2>1
<1>12. ASSUME NEW t \in Ticks, NEW e \in Events, TakeEvent(t, e), Statement(t) PROVE ExpandInv'
  <2>1. outbox' = outbox /\ tick'[t].pc \in {"dispatch", "mark"}
    BY <1>1, <1>12 DEF TakeEvent, tables, Types, TickRow
  <2>2. QED
    BY <1>7, <1>8, <1>12, <2>1
<1>13. ASSUME NEW t \in Ticks, MarkProcessing(t), Statement(t) PROVE ExpandInv'
  <2>1. \A e \in Events : outbox'[e] = "PROCESSED" => outbox[e] = "PROCESSED"
    BY <1>1, <1>13 DEF MarkProcessing, Types
  <2>2. tick'[t].pc = "expand" /\ tick'[t].at = 1
    BY <1>1, <1>13 DEF MarkProcessing, Goto, Types, TickRow, TickLinked
  <2>3. TickExpanded(tick[t])'
    BY <2>2 DEF TickExpanded
  <2>4. QED
    BY <1>7, <1>13, <2>1, <2>3
<1>14. ASSUME NEW t \in Ticks, Decide(t), Statement(t) PROVE ExpandInv'
  <2>1. PICK e \in tick[t].event :
          IF tick[t].at > Expansion(e) THEN Goto(t, "processed")
          ELSE IF Wanted(Target(e, tick[t].at)) THEN Goto(t, "create")
          ELSE tick' = [tick EXCEPT ![t].at = @ + 1]
    BY <1>14 DEF Decide
  <2>2. /\ tick'[t].event = tick[t].event /\ tick[t].event = {e} /\ e \in Events
        /\ tick[t].at \in Nat /\ tick[t].at >= 1 /\ tick[t].pc = "expand"
    BY <1>1, <1>14, <2>1 DEF Decide, Goto, Types, TickRow, TickLinked
  <2>3. \A i \in 1..(tick[t].at - 1) : Made(e, i)
    BY <2>2 DEF ExpandInv, TickExpanded
  <2>4. \A i \in 1..(tick[t].at - 1) : Made(e, i)'
    BY <1>3, <2>2, <2>3
  <2>5. Expansion(e) \in Int
    BY <2>2, EventAssumption DEF Expansion
  <2>6. CASE tick[t].at > Expansion(e)
    <3>1. tick'[t].pc = "processed"
      BY <1>1, <2>1, <2>6 DEF Goto, Types, TickRow
    <3>2. \A i \in 1..Expansion(e) : Made(e, i)'
      BY <2>2, <2>4, <2>5, <2>6
    <3>3. QED
      BY <1>7, <1>14, <2>2, <3>1, <3>2 DEF TickExpanded, Decide, tables, Expansion
  <2>7. CASE ~(tick[t].at > Expansion(e)) /\ Wanted(Target(e, tick[t].at))
    <3>1. tick'[t].pc = "create" /\ tick'[t].at = tick[t].at
      BY <1>1, <2>1, <2>7 DEF Goto, Types, TickRow
    <3>2. QED
      BY <1>7, <1>14, <2>2, <2>4, <3>1 DEF TickExpanded, Decide, tables
  <2>8. CASE ~(tick[t].at > Expansion(e)) /\ ~Wanted(Target(e, tick[t].at))
    <3>1. tick'[t].pc = "expand" /\ tick'[t].at = tick[t].at + 1
      BY <1>1, <2>1, <2>2, <2>8 DEF Types, TickRow
    <3>6. PICK last \in Nat : last = tick[t].at
      BY <2>2
    <3>2. Made(e, last)'
      BY <1>3, <2>2, <2>8, <3>6, UnwantedMade
    <3>3. \A i \in 1..(tick'[t].at - 1) : i \in 1..(tick[t].at - 1) \/ i = last
      BY <2>2, <3>1, <3>6
    <3>4. \A i \in 1..(tick'[t].at - 1) : Made(e, i)'
      BY <2>4, <3>2, <3>3
    <3>5. QED
      BY <1>7, <1>14, <2>2, <3>1, <3>4 DEF TickExpanded, Decide, tables
  <2>9. QED
    BY <2>6, <2>7, <2>8
<1>15. ASSUME NEW t \in Ticks, CreateNotification(t), Statement(t) PROVE ExpandInv'
  <2>1. PICK e \in tick[t].event :
          LET k == Target(e, tick[t].at) IN
            IF notes[k].status = "NONE"
            THEN /\ notes' = [notes EXCEPT ![k] = NewNote]
                 /\ tick' = [tick EXCEPT ![t].pc = "expand", ![t].at = @ + 1]
            ELSE /\ Goto(t, "failed")
                 /\ UNCHANGED notes
    BY <1>15 DEF CreateNotification
  <2>2. /\ tick[t].event = {e} /\ e \in Events /\ outbox' = outbox
        /\ tick[t].at \in Nat /\ tick[t].at >= 1 /\ tick[t].at <= Expansion(e)
        /\ tick[t].pc = "create"
    BY <1>1, <1>15, <2>1 DEF CreateNotification, TickRow, TickLinked
  <2>3. \A i \in 1..(tick[t].at - 1) : Made(e, i)
    BY <2>2 DEF ExpandInv, TickExpanded
  <2> DEFINE k == Target(e, tick[t].at)
  <2>4. k \in Keys
    BY <2>2, TargetKey
  <2>5. CASE notes[k].status = "NONE"
    <3>1. /\ tick'[t].pc = "expand" /\ tick'[t].at = tick[t].at + 1
          /\ tick'[t].event = tick[t].event /\ notes'[k] = NewNote
      BY <1>1, <2>1, <2>4, <2>5 DEF Types, TickRow
    <3>6. PICK last \in Nat : last = tick[t].at
      BY <2>2
    <3>2. Made(e, last)'
      BY <3>1, <3>6 DEF Made, HasRow, NewNote, Target
    <3>3. \A i \in 1..(tick'[t].at - 1) : i \in 1..(tick[t].at - 1) \/ i = last
      BY <2>2, <3>1, <3>6
    <3>4. \A i \in 1..(tick'[t].at - 1) : Made(e, i)'
      BY <1>3, <2>2, <2>3, <3>2, <3>3
    <3>5. QED
      BY <1>7, <1>15, <2>2, <3>1, <3>4 DEF TickExpanded
  <2>6. CASE notes[k].status # "NONE"
    <3>1. tick'[t].pc = "failed"
      BY <1>1, <2>1, <2>6 DEF Goto, Types, TickRow
    <3>2. QED
      BY <1>7, <1>8, <1>15, <2>2, <3>1
  <2>7. QED
    BY <2>5, <2>6
<1>16. ASSUME NEW t \in Ticks, MarkFailed(t), Statement(t) PROVE ExpandInv'
  <2>2. tick'[t].pc = "dispatch" /\ \E e \in tick[t].event : outbox' = [outbox EXCEPT ![e] = "FAILED"]
    BY <1>16, SettleMoves DEF MarkFailed
  <2>1. \A e \in Events : outbox'[e] = "PROCESSED" => outbox[e] = "PROCESSED"
    BY <1>1, <2>2 DEF Types
  <2>3. QED
    BY <1>7, <1>8, <1>16, <2>1, <2>2
<1>17. ASSUME NEW t \in Ticks, MarkProcessed(t), Statement(t) PROVE ExpandInv'
  <2>1. PICK e \in tick[t].event : outbox' = [outbox EXCEPT ![e] = "PROCESSED"]
    BY <1>17 DEF MarkProcessed, Settle
  <2>2. e \in Events /\ \A i \in 1..Expansion(e) : Made(e, i)
    BY <1>1, <1>17 DEF MarkProcessed, TickRow, ExpandInv, TickExpanded
  <2>3. \A k \in MustHave(e) : HasRow(k)
    BY <2>2, AllMade
  <2>4. ASSUME NEW f \in Events, outbox'[f] = "PROCESSED", NEW k \in MustHave(f)
        PROVE  HasRow(k)'
    <3>1. HasRow(k)
      BY <1>1, <2>1, <2>2, <2>3, <2>4 DEF Types, ExpandInv, ProcessedIsExpanded
    <3>2. QED
      BY <1>2, <2>4, <3>1, RowsInKeys DEF RowsStay
  <2>5. ProcessedIsExpanded'
    BY <2>4 DEF ProcessedIsExpanded, MustHave
  <2>6. tick'[t].pc = "dispatch"
    BY <1>17, SettleMoves DEF MarkProcessed
  <2>8. TickExpanded(tick[t])'
    BY <1>8, <2>6
  <2>9. \A q \in Ticks \ {t} : TickExpanded(tick[q])'
    BY <1>4, <1>17, Alone
  <2>7. QED
    BY <2>5, <2>8, <2>9 DEF ExpandInv
<1>18. CASE Client \/ \E k \in Keys : BackoffElapses(k)
  <2>1. UNCHANGED tick
    BY <1>18 DEF Client, Publish, UpdatePreference, RegisterDevice, MarkRead, BackoffElapses
  <2>2. \A e \in Events : outbox'[e] = "PROCESSED" => outbox[e] = "PROCESSED"
    BY <1>1, <1>18 DEF Client, Publish, UpdatePreference, RegisterDevice, MarkRead, BackoffElapses,
                       Types
  <2>3. QED
    BY <1>4, <1>6, <2>1, <2>2 DEF ExpandInv
<1>19. CASE Restart
  <2>1. outbox' = outbox /\ \A t \in Ticks : tick'[t] = Resting
    BY <1>19 DEF Restart, tables
  <2>2. QED
    BY <1>5, <1>6, <2>1 DEF ExpandInv
<1>20. CASE UNCHANGED vars
  BY <1>4, <1>6, <1>20 DEF vars, ExpandInv
<1>21. QED
  BY <1>9, <1>10, <1>11, <1>12, <1>13, <1>14, <1>15, <1>16, <1>17, <1>18, <1>19, <1>20
     DEF Next, Statement

-----------------------------------------------------------------------------
(* Nothing is sent twice without a cause *)

Holds(t, k) == \E n \in Listed(t) : n.key = k
InSends(t, k) == \E n \in tick[t].sends : n.key = k
JustSent(t, k) == tick[t].pc = "sent" /\ \E n \in tick[t].note : n.key = k

\* A tick has a row in its hands once.
Once(t) ==
  /\ \A n, m \in Listed(t) : n.key = m.key => n = m
  /\ \A n \in tick[t].sends : n \notin tick[t].note
  /\ \A n, m \in tick[t].note : n = m

Single(k) == \A t, u \in Ticks : Holds(t, k) /\ Holds(u, k) => t = u

\* It may be sent once more, unless that has happened and is being recorded.
Open(k) == notes[k].status \in {"NONE", "QUEUED"} \/ \E t \in Ticks : InSends(t, k)
Sent(k) == \E t \in Ticks : JustSent(t, k)

Bounded(k) ==
  /\ delivered[k] <= 1 + faults + lost
  /\ Open(k) /\ ~Sent(k) => delivered[k] <= faults + lost

DoubleInv ==
  /\ \A t \in Ticks : Once(t)
  /\ \A k \in Keys \ shared : Single(k) /\ Bounded(k)

LEMMA OnceShrinks ==
  ASSUME NEW t \in Ticks, Once(t),
         tick'[t].sends \subseteq tick[t].sends, tick'[t].note \subseteq tick[t].note
  PROVE  Once(t)'
  BY DEF Once, Listed

LEMMA OnceStep ==
  ASSUME TInv, \A t \in Ticks : Once(t), [Next]_vars
  PROVE  \A t \in Ticks : Once(t)'
<1>1. tick \in [Ticks -> TickRow]
  BY DEF TInv, Types
<1>2. ASSUME NEW q \in Ticks, tick'[q] \in {tick[q], Resting} PROVE Once(q)'
  BY <1>2 DEF Once, Listed, Resting
<1>3. ASSUME NEW t \in Ticks, Statement(t) \/ StatementFails(t), Once(t)'
      PROVE  \A q \in Ticks : Once(q)'
  BY <1>2, <1>3, Alone
<1>4. ASSUME NEW t \in Ticks,
             Aside(t) \/ UpdateAfterSend(t) \/ RecordFailure(t) \/ StatementFails(t)
      PROVE  Once(t)'
  BY <1>4, ListsShrink, OnceShrinks
<1>5. ASSUME NEW t \in Ticks, FindDueForDispatch(t) PROVE Once(t)'
  <2>1. /\ tick'[t].note = {}
        /\ tick'[t].sends = {[key |-> k, attempts |-> notes[k].attempts] :
                               k \in {k \in Keys : DueForDispatch(k)}}
    BY <1>1, <1>5 DEF FindDueForDispatch, Resting
  <2>2. QED
    BY <2>1 DEF Once, Listed
<1>6. ASSUME NEW t \in Ticks, NEW n \in tick[t].sends, Send(t, n) PROVE Once(t)'
  <2>1. tick'[t].sends = tick[t].sends \ {n} /\ tick'[t].note = {n}
    BY <1>1, <1>6 DEF Send, TickRow
  <2>2. QED
    BY <1>6, <2>1 DEF Once, Listed
<1>7. CASE Client \/ Restart \/ \E k \in Keys : BackoffElapses(k)
  BY <1>2, <1>7, Idling
<1>8. CASE UNCHANGED vars
  BY <1>2, <1>8 DEF vars
<1>9. QED
  BY <1>3, <1>4, <1>5, <1>6, <1>7, <1>8, Cases DEF Next

\* A step that sends nothing, and makes no list, keeps the count of a row when it
\* neither opens the row nor ends a send of it.
LEMMA Calm ==
  ASSUME TInv, TInv', NEW k \in Keys, Single(k), Bounded(k),
         \A q \in Ticks : Holds(q, k)' => Holds(q, k),
         Open(k)' => Open(k), Sent(k) => Sent(k)',
         delivered'[k] = delivered[k], faults' >= faults, lost' >= lost
  PROVE  Single(k)' /\ Bounded(k)'
<1>1. /\ delivered[k] \in Nat /\ faults \in Nat /\ lost \in Nat
      /\ faults' \in Nat /\ lost' \in Nat
  BY DEF TInv, Types
<1>2. Single(k)'
  BY DEF Single
<1>3. Bounded(k)'
  BY <1>1 DEF Bounded
<1>4. QED
  BY <1>2, <1>3

\* A step that is paid for by a fault.
LEMMA Paid ==
  ASSUME TInv, TInv', NEW k \in Keys, Single(k), Bounded(k),
         \A q \in Ticks : Holds(q, k)' => Holds(q, k),
         delivered'[k] = delivered[k], faults' = faults + 1, lost' = lost
  PROVE  Single(k)' /\ Bounded(k)'
<1>1. delivered[k] \in Nat /\ faults \in Nat /\ lost \in Nat
  BY DEF TInv, Types
<1>2. Single(k)'
  BY DEF Single
<1>3. Bounded(k)'
  BY <1>1 DEF Bounded
<1>4. QED
  BY <1>2, <1>3

\* Of a tick whose lists shrink and that was not recording a send.
LEMMA CalmTick ==
  ASSUME TInv, TInv', NEW t \in Ticks, Statement(t), NEW k \in Keys, Single(k), Bounded(k),
         tick'[t].sends \subseteq tick[t].sends, tick'[t].note \subseteq tick[t].note,
         ~JustSent(t, k),
         notes'[k].status \in {"NONE", "QUEUED"} => notes[k].status \in {"NONE", "QUEUED"},
         delivered'[k] = delivered[k], UNCHANGED <<faults, lost>>
  PROVE  Single(k)' /\ Bounded(k)'
<1>1. \A q \in Ticks : tick'[q] = tick[q] \/ q = t
  BY Alone
<1>2. ASSUME NEW q \in Ticks
      PROVE  /\ Holds(q, k)' => Holds(q, k)
             /\ InSends(q, k)' => InSends(q, k)
             /\ JustSent(q, k) => JustSent(q, k)'
  BY <1>1 DEF Holds, InSends, JustSent, Listed
<1>3. Open(k)' => Open(k)
  BY <1>2 DEF Open
<1>4. Sent(k) => Sent(k)'
  BY <1>2 DEF Sent
<1>5. faults \in Nat /\ lost \in Nat
  BY DEF TInv, Types
<1>6. QED
  BY <1>2, <1>3, <1>4, <1>5, Calm

LEMMA ListBounded ==
  ASSUME TInv, TInv', NEW t \in Ticks, Statement(t), FindDueForDispatch(t),
         NEW k \in Keys \ shared', Single(k), Bounded(k)
  PROVE  Single(k)' /\ Bounded(k)'
<1> DEFINE due == {j \in Keys : DueForDispatch(j)}
<1>1. /\ tick'[t].note = {} /\ tick[t].pc = "dispatch"
      /\ tick'[t].sends = {[key |-> j, attempts |-> notes[j].attempts] : j \in due}
      /\ shared' = shared \union (due \cap UNION {WorkingOn(q) : q \in Ticks})
      /\ UNCHANGED <<notes, delivered, faults, lost>>
  BY DEF FindDueForDispatch, TInv, Types, Resting, At, tables, bounds
<1>2. \A q \in Ticks : tick'[q] = tick[q] \/ q = t
  BY Alone
<1>3. faults \in Nat /\ lost \in Nat /\ delivered[k] \in Nat
  BY DEF TInv, Types
<1> HIDE DEF due
<1>a. ASSUME k \in due
      PROVE  \E n \in tick'[t].sends : n.key = k
  <2>1. [key |-> k, attempts |-> notes[k].attempts] \in tick'[t].sends
    BY <1>1, <1>a
  <2>2. [key |-> k, attempts |-> notes[k].attempts].key = k
    OBVIOUS
  <2>3. QED
    BY <2>1, <2>2
<1>b. ASSUME NEW n \in tick'[t].sends, n.key = k
      PROVE  k \in due
  <2>1. PICK j \in due : n = [key |-> j, attempts |-> notes[j].attempts]
    BY <1>1
  <2>2. QED
    BY <2>1, <1>b
<1>4. Holds(t, k)' <=> k \in due
  BY <1>1, <1>a, <1>b DEF Holds, Listed
<1>5. InSends(t, k)' <=> k \in due
  BY <1>1, <1>a, <1>b DEF InSends
<1> USE DEF due
<1>6. CASE k \in due
  <2>1. \A q \in Ticks : ~Holds(q, k)
    BY <1>1, <1>6 DEF Holds, Listed, WorkingOn
  <2>2. Single(k)'
    BY <1>2, <2>1 DEF Single, Holds, Listed
  <2>3. Open(k)
    BY <1>6 DEF Open, DueForDispatch
  <2>4. ~Sent(k)
    BY <2>1 DEF Sent, JustSent, Holds, Listed
  <2>5. delivered[k] <= faults + lost
    BY <2>3, <2>4 DEF Bounded
  <2>6. QED
    BY <1>1, <1>3, <2>2, <2>5 DEF Bounded
<1>7. CASE k \notin due
  <2>1. ASSUME NEW q \in Ticks
        PROVE  /\ Holds(q, k)' => Holds(q, k)
               /\ InSends(q, k)' => InSends(q, k)
               /\ JustSent(q, k) => JustSent(q, k)'
    <3>1. CASE q = t
      BY <1>1, <1>4, <1>5, <1>7, <3>1 DEF JustSent
    <3>2. CASE q # t
      BY <1>2, <3>2 DEF Holds, InSends, JustSent, Listed
    <3>3. QED
      BY <3>1, <3>2
  <2>2. Open(k)' => Open(k)
    BY <1>1, <2>1 DEF Open
  <2>3. Sent(k) => Sent(k)'
    BY <2>1 DEF Sent
  <2>4. QED
    BY <1>1, <1>3, <2>1, <2>2, <2>3, Calm
<1>8. QED
  BY <1>6, <1>7

LEMMA SendBounded ==
  ASSUME TInv, TInv', NEW t \in Ticks, Statement(t), NEW n \in tick[t].sends, Send(t, n),
         NEW k \in Keys, Single(k), Bounded(k)
  PROVE  Single(k)' /\ Bounded(k)'
<1>1. PICK pc \in {"sent", "sendFailed"}, reached \in {0, 1} :
        /\ IF pc = "sendFailed" /\ reached = 1
           THEN lost < MaxLost /\ lost' = lost + 1 ELSE UNCHANGED lost
        /\ delivered' = [delivered EXCEPT ![n.key] = @ + reached]
        /\ tick' = [tick EXCEPT ![t].pc = pc, ![t].sends = @ \ {n}, ![t].note = {n}]
  BY DEF Send
<1>2. /\ tick[t].pc = "send" /\ tick'[t].pc = pc
      /\ tick'[t].sends = tick[t].sends \ {n} /\ tick'[t].note = {n}
      /\ UNCHANGED <<notes, faults>>
  BY <1>1 DEF Send, At, tables, TInv, Types, TickRow
<1>3. \A q \in Ticks : tick'[q] = tick[q] \/ q = t
  BY Alone
<1>4. faults \in Nat /\ lost \in Nat /\ delivered[k] \in Nat /\ n.key \in Keys
  BY DEF TInv, Types, TickRow, Sending
<1>5. ASSUME NEW q \in Ticks PROVE Holds(q, k)' => Holds(q, k)
  BY <1>2, <1>3 DEF Holds, Listed
<1>6. CASE n.key = k
  <2>1. InSends(t, k) /\ Holds(t, k)
    BY <1>6 DEF InSends, Holds, Listed
  <2>2. Open(k)
    BY <2>1 DEF Open
  <2>3. ~Sent(k)
    BY <1>2, <2>1 DEF Sent, JustSent, Single, Holds, Listed
  <2>4. delivered[k] <= faults + lost
    BY <2>2, <2>3 DEF Bounded
  <2>5. delivered'[k] = delivered[k] + reached
    BY <1>1, <1>6 DEF TInv, Types
  <2>6. Single(k)'
    BY <1>5 DEF Single
  <2>7. CASE pc = "sent"
    <3>1. Sent(k)'
      BY <1>2, <1>6, <2>7 DEF Sent, JustSent
    <3>2. lost' = lost
      BY <1>1, <2>7
    <3>3. delivered'[k] <= 1 + faults + lost
      BY <1>4, <2>4, <2>5
    <3>4. QED
      BY <1>2, <2>6, <3>1, <3>2, <3>3 DEF Bounded
  <2>8. CASE pc = "sendFailed"
    <3>1. lost' = lost + reached
      BY <1>1, <1>4, <2>8
    <3>2. delivered'[k] <= faults' + lost' /\ delivered'[k] <= 1 + faults' + lost'
      BY <1>2, <1>4, <2>4, <2>5, <3>1
    <3>3. QED
      BY <2>6, <3>2 DEF Bounded
  <2>9. QED
    BY <2>7, <2>8
<1>7. CASE n.key # k
  <2>1. delivered'[k] = delivered[k] /\ lost' >= lost /\ faults' >= faults
    BY <1>1, <1>2, <1>4, <1>7 DEF TInv, Types
  <2>2. ASSUME NEW q \in Ticks
        PROVE  /\ InSends(q, k)' => InSends(q, k)
               /\ JustSent(q, k) => JustSent(q, k)'
    BY <1>2, <1>3 DEF InSends, JustSent
  <2>3. Open(k)' => Open(k)
    BY <1>2, <2>2 DEF Open
  <2>4. Sent(k) => Sent(k)'
    BY <2>2 DEF Sent
  <2>5. QED
    BY <1>5, <2>1, <2>3, <2>4, Calm
<1>8. QED
  BY <1>6, <1>7

LEMMA UpdateBounded ==
  ASSUME TInv, TInv', NEW t \in Ticks, Statement(t), UpdateAfterSend(t), Once(t),
         NEW k \in Keys, Single(k), Bounded(k)
  PROVE  Single(k)' /\ Bounded(k)'
<1>1. PICK n \in tick[t].note : notes' = [notes EXCEPT ![n.key].status = "SENT"]
  BY DEF UpdateAfterSend
<1>2. /\ tick'[t].sends \subseteq tick[t].sends /\ tick'[t].note \subseteq tick[t].note
      /\ UNCHANGED <<delivered, faults, lost>>
  BY ListsShrink DEF UpdateAfterSend, history, bounds
<1>3. n.key \in Keys /\ notes \in [Keys -> NoteValue]
  BY DEF TInv, Types, TickRow, Sending
<1>4. CASE n.key = k
  <2>1. ASSUME NEW q \in Ticks, InSends(q, k)' PROVE FALSE
    <3>1. InSends(q, k)
      BY <1>2, <2>1, Alone DEF InSends
    <3>2. Holds(q, k) /\ Holds(t, k)
      BY <1>4, <3>1 DEF InSends, Holds, Listed
    <3>3. q = t
      BY <3>2 DEF Single
    <3>4. PICK m \in tick[t].sends : m.key = n.key
      BY <1>4, <3>1, <3>3 DEF InSends
    <3>5. m = n
      BY <3>4 DEF Once, Listed
    <3>6. QED
      BY <3>4, <3>5 DEF Once
  <2>2. notes'[k].status = "SENT"
    BY <1>1, <1>3, <1>4 DEF NoteValue, NoteRow, NoNote
  <2>3. ~Open(k)'
    BY <2>1, <2>2 DEF Open
  <2>4. Bounded(k)'
    BY <1>2, <2>3 DEF Bounded
  <2>5. \A q \in Ticks : Holds(q, k)' => Holds(q, k)
    BY <1>2, Alone DEF Holds, Listed
  <2>6. QED
    BY <2>4, <2>5 DEF Single
<1>5. CASE n.key # k
  <2>1. ~JustSent(t, k)
    BY <1>5 DEF JustSent, Once
  <2>2. notes'[k] = notes[k]
    BY <1>1, <1>3, <1>5
  <2>3. QED
    BY <1>2, <2>1, <2>2, CalmTick
<1>6. QED
  BY <1>4, <1>5

\* Once two ticks have worked on a row, they have.
LEMMA SharedGrows ==
  ASSUME [Next]_vars
  PROVE  shared \subseteq shared'
<1>1. ASSUME NEW t \in Ticks, Statement(t) PROVE shared \subseteq shared'
  BY <1>1 DEF Statement, FindPending, MarkProcessing, Decide, EndTick, TakeEvent,
              CreateNotification, MarkProcessed, MarkFailed, Settle, FindDueForDispatch, Send,
              UpdateAfterSend, RecordFailure, history
<1>2. ASSUME NEW t \in Ticks, StatementFails(t) PROVE shared \subseteq shared'
  BY <1>2 DEF StatementFails, history
<1>3. CASE Client \/ Restart \/ \E j \in Keys : BackoffElapses(j)
  BY <1>3 DEF Client, Publish, UpdatePreference, RegisterDevice, MarkRead, BackoffElapses,
              Restart, history
<1>4. CASE UNCHANGED vars
  BY <1>4 DEF vars
<1>5. QED
  BY <1>1, <1>2, <1>3, <1>4 DEF Next

LEMMA DoubleInductive ==
  ASSUME TInv, TInv', DoubleInv, [Next]_vars
  PROVE  DoubleInv'
<1>1. \A t \in Ticks : Once(t)
  BY DEF DoubleInv
<1> SUFFICES ASSUME NEW k \in Keys \ shared' PROVE Single(k)' /\ Bounded(k)'
  BY <1>1, OnceStep DEF DoubleInv
<1>2. k \notin shared /\ Single(k) /\ Bounded(k)
  BY SharedGrows DEF DoubleInv
<1>3. faults \in Nat /\ lost \in Nat /\ notes[k] \in NoteValue /\ tick \in [Ticks -> TickRow]
  BY DEF TInv, Types
<1>4. ASSUME NEW t \in Ticks, Aside(t), Statement(t) PROVE Single(k)' /\ Bounded(k)'
  <2>1. UNCHANGED <<delivered, faults, lost>>
    BY <1>4 DEF Aside, FindPending, MarkProcessing, Decide, EndTick, TakeEvent, CreateNotification,
                MarkProcessed, MarkFailed, Settle, history, bounds
  <2>2. notes'[k].status \in {"NONE", "QUEUED"} => notes[k].status \in {"NONE", "QUEUED"}
    BY <1>4, AsideRows
  <2>3. tick[t].pc # "sent"
    BY <1>4 DEF Aside, FindPending, MarkProcessing, Decide, EndTick, TakeEvent, CreateNotification,
                MarkProcessed, MarkFailed, At
  <2>4. ~JustSent(t, k)
    BY <2>3 DEF JustSent
  <2>5. QED
    BY <1>2, <1>4, <2>1, <2>2, <2>4, ListsShrink, CalmTick
<1>5. ASSUME NEW t \in Ticks, RecordFailure(t), Statement(t) PROVE Single(k)' /\ Bounded(k)'
  <2>1. UNCHANGED <<delivered, faults, lost>>
    BY <1>5 DEF RecordFailure, bounds
  <2>2. PICK n \in tick[t].note :
          notes' = IF n.attempts + 1 >= MaxAttempts
                   THEN [notes EXCEPT ![n.key].status = "DEAD_LETTER"]
                   ELSE [notes EXCEPT ![n.key].attempts = @ + 1, ![n.key].due = FALSE]
    BY <1>5 DEF RecordFailure
  <2>3. notes \in [Keys -> NoteValue]
    BY DEF TInv, Types
  <2>4. notes'[k].status = notes[k].status \/ notes'[k].status = "DEAD_LETTER"
    <3>1. CASE n.attempts + 1 >= MaxAttempts
      BY <2>2, <2>3, <3>1 DEF NoteValue, NoteRow, NoNote
    <3>2. CASE ~(n.attempts + 1 >= MaxAttempts)
      BY <2>2, <2>3, <3>2 DEF NoteValue, NoteRow, NoNote
    <3>3. QED
      BY <3>1, <3>2
  <2>5. ~JustSent(t, k)
    BY <1>5 DEF RecordFailure, At, JustSent
  <2>6. QED
    BY <1>2, <1>5, <2>1, <2>4, <2>5, ListsShrink, CalmTick
<1>6. ASSUME NEW t \in Ticks, StatementFails(t) PROVE Single(k)' /\ Bounded(k)'
  <2>1. UNCHANGED <<delivered, lost>> /\ faults' = faults + 1
    BY <1>6 DEF StatementFails, Fault, history
  <2>2. \A q \in Ticks : Holds(q, k)' => Holds(q, k)
    BY <1>6, ListsShrink, Alone DEF Holds, Listed
  <2>3. QED
    BY <1>2, <2>1, <2>2, Paid
<1>7. CASE Restart
  <2>1. UNCHANGED <<delivered, lost>> /\ faults' = faults + 1 /\ \A q \in Ticks : tick'[q] = Resting
    BY <1>7 DEF Restart, Fault, history
  <2>2. \A q \in Ticks : Holds(q, k)' => Holds(q, k)
    BY <2>1 DEF Holds, Listed, Resting
  <2>3. QED
    BY <1>2, <2>1, <2>2, Paid
<1>8. CASE Client \/ \E j \in Keys : BackoffElapses(j)
  <2>1. UNCHANGED <<tick, delivered, faults, lost>>
    BY <1>8 DEF Client, Publish, UpdatePreference, RegisterDevice, MarkRead, BackoffElapses,
                history, bounds
  <2>2. notes'[k].status \in {"NONE", "QUEUED"} => notes[k].status \in {"NONE", "QUEUED"}
    BY <1>3, <1>8, ClientRows DEF NoteValue, NoteRow, NoNote
  <2>3. \A q \in Ticks : /\ Holds(q, k)' <=> Holds(q, k)
                         /\ InSends(q, k)' <=> InSends(q, k)
                         /\ JustSent(q, k)' <=> JustSent(q, k)
    BY <2>1 DEF Holds, InSends, JustSent, Listed
  <2>4. Open(k)' => Open(k)
    BY <2>2, <2>3 DEF Open
  <2>5. Sent(k) => Sent(k)'
    BY <2>3 DEF Sent
  <2>6. QED
    BY <1>2, <1>3, <2>1, <2>3, <2>4, <2>5, Calm
<1>9. CASE UNCHANGED vars
  BY <1>2, <1>9 DEF vars, Single, Bounded, Open, Sent, Holds, InSends, JustSent, Listed
<1>10. QED
  BY <1>1, <1>2, <1>4, <1>5, <1>6, <1>7, <1>8, <1>9, Cases, ListBounded, SendBounded, UpdateBounded
     DEF Next

-----------------------------------------------------------------------------
(* Rows wait with an attempt left, and go forward *)

\* A row in the queue has its failed sends on it, and an attempt left.
Waiting(k) ==
  notes[k].status \in {"NONE", "QUEUED"} =>
    failures[k] = notes[k].attempts /\ notes[k].attempts < MaxAttempts

\* A row in the hands of a tick is what the tick listed, unless the user read it.
InHand(k) ==
  \A t \in Ticks : \A n \in Listed(t) :
    n.key = k => n.attempts = notes[k].attempts /\ notes[k].status \in {"QUEUED", "READ"}

CountInv == \A k \in Keys \ shared : Waiting(k) /\ InHand(k)

\* A step that puts no row into the queue or into a hand.
LEMMA CountKept ==
  ASSUME NEW k \in Keys, Waiting(k), InHand(k),
         failures'[k] = failures[k], notes'[k].attempts = notes[k].attempts,
         notes'[k].status \in {"NONE", "QUEUED"} => notes[k].status \in {"NONE", "QUEUED"},
         notes[k].status \in {"QUEUED", "READ"} => notes'[k].status \in {"QUEUED", "READ"},
         \A t \in Ticks : \A n \in Listed(t)' : n.key = k => n \in Listed(t)
  PROVE  Waiting(k)' /\ InHand(k)'
<1>1. Waiting(k)'
  BY DEF Waiting
<1>2. InHand(k)'
  BY DEF InHand
<1>3. QED
  BY <1>1, <1>2

\* The rows in hand of all ticks after a statement of one whose lists shrink.
LEMMA NothingTaken ==
  ASSUME TInv, NEW t \in Ticks, Statement(t) \/ StatementFails(t), Listed(t)' \subseteq Listed(t)
  PROVE  \A q \in Ticks : \A n \in Listed(q)' : n \in Listed(q)
  BY Alone DEF Listed

\* A tick that has written what came of a send lets go of the row, and unless it
\* was shared nobody has it.
LEMMA Released ==
  ASSUME TInv, NEW t \in Ticks, UpdateAfterSend(t) \/ RecordFailure(t), Statement(t), Once(t),
         NEW n \in tick[t].note, Single(n.key)
  PROVE  \A q \in Ticks : ~Holds(q, n.key)'
<1>1. tick'[t] = [tick[t] EXCEPT !.pc = "send", !.note = {}] /\ tick[t] \in TickRow
  BY NextSendMoves DEF UpdateAfterSend, RecordFailure, OnlyTick, TInv, Types
<1>2. tick'[t].sends = tick[t].sends /\ tick'[t].note = {}
  BY <1>1 DEF TickRow
<1>3. Holds(t, n.key)
  BY DEF Holds, Listed
<1>4. ASSUME NEW q \in Ticks, q # t, Holds(q, n.key)' PROVE FALSE
  <2>1. Holds(q, n.key)
    BY <1>4, Alone DEF Holds, Listed
  <2>2. QED
    BY <1>3, <1>4, <2>1 DEF Single
<1>5. ASSUME Holds(t, n.key)' PROVE FALSE
  <2>1. PICK m \in tick[t].sends : m.key = n.key
    BY <1>2, <1>5 DEF Holds, Listed
  <2>2. m = n
    BY <2>1 DEF Once, Listed
  <2>3. QED
    BY <2>1, <2>2 DEF Once
<1>6. QED
  BY <1>4, <1>5

LEMMA ListCounts ==
  ASSUME TInv, NEW t \in Ticks, Statement(t), FindDueForDispatch(t),
         NEW k \in Keys, Waiting(k), InHand(k)
  PROVE  Waiting(k)' /\ InHand(k)'
<1>1. UNCHANGED <<notes, failures>>
  BY DEF FindDueForDispatch, tables
<1>2. /\ tick'[t].note = {}
      /\ tick'[t].sends = {[key |-> j, attempts |-> notes[j].attempts] :
                             j \in {j \in Keys : DueForDispatch(j)}}
  BY DEF FindDueForDispatch, TInv, Types, Resting
<1>3. Waiting(k)'
  BY <1>1 DEF Waiting
<1>4. ASSUME NEW q \in Ticks, NEW n \in Listed(q)', n.key = k
      PROVE  n.attempts = notes[k].attempts /\ notes[k].status \in {"QUEUED", "READ"}
  <2>1. CASE q = t
    BY <1>2, <1>4, <2>1 DEF Listed, DueForDispatch
  <2>2. CASE q # t
    BY <1>4, <2>2, Alone DEF Listed, InHand
  <2>3. QED
    BY <2>1, <2>2
<1>5. InHand(k)'
  BY <1>1, <1>4 DEF InHand
<1>6. QED
  BY <1>3, <1>5

LEMMA UpdateCounts ==
  ASSUME TInv, NEW t \in Ticks, Statement(t), UpdateAfterSend(t), Once(t),
         NEW k \in Keys, Single(k), Waiting(k), InHand(k)
  PROVE  Waiting(k)' /\ InHand(k)'
<1>1. PICK n \in tick[t].note : notes' = [notes EXCEPT ![n.key].status = "SENT"]
  BY DEF UpdateAfterSend
<1>2. n.key \in Keys /\ notes \in [Keys -> NoteValue] /\ UNCHANGED failures
  BY DEF TInv, Types, TickRow, Sending, UpdateAfterSend, history
<1>3. CASE n.key = k
  <2>1. notes'[k].status = "SENT"
    BY <1>1, <1>2, <1>3 DEF NoteValue, NoteRow, NoNote
  <2>2. \A q \in Ticks : ~Holds(q, k)'
    BY <1>3, Released
  <2>3. QED
    BY <2>1, <2>2 DEF Waiting, InHand, Holds
<1>4. CASE n.key # k
  <2>1. notes'[k] = notes[k]
    BY <1>1, <1>2, <1>4
  <2>2. \A q \in Ticks : \A m \in Listed(q)' : m \in Listed(q)
    BY ListsShrink, NothingTaken DEF Listed
  <2>3. QED
    BY <1>2, <2>1, <2>2, CountKept
<1>5. QED
  BY <1>3, <1>4

LEMMA FailureCounts ==
  ASSUME TInv, NEW t \in Ticks, Statement(t), RecordFailure(t), Once(t),
         NEW k \in Keys, Single(k), Waiting(k), InHand(k)
  PROVE  Waiting(k)' /\ InHand(k)'
<1>1. PICK n \in tick[t].note :
        /\ notes' = IF n.attempts + 1 >= MaxAttempts
                    THEN [notes EXCEPT ![n.key].status = "DEAD_LETTER"]
                    ELSE [notes EXCEPT ![n.key].attempts = @ + 1, ![n.key].due = FALSE]
        /\ OneMoreFailure(n.key)
  BY DEF RecordFailure
<1>2. /\ n.key \in Keys /\ n.attempts \in Nat
      /\ notes \in [Keys -> NoteValue] /\ failures \in [Keys -> Nat] /\ MaxAttempts \in Nat
  BY LimitAssumption DEF TInv, Types, TickRow, Sending
<1>3. CASE n.key = k
  <2>1. \A q \in Ticks : ~Holds(q, k)'
    BY <1>3, Released
  <2>2. InHand(k)'
    BY <2>1 DEF InHand, Holds
  <2>3. n.attempts = notes[k].attempts /\ notes[k].status \in {"QUEUED", "READ"}
    BY <1>3 DEF InHand, Listed
  <2>4. notes[k] \in NoteRow
    BY <1>2, <2>3 DEF NoteValue, NoNote
  <2>5. CASE n.attempts + 1 >= MaxAttempts
    <3>1. notes'[k].status = "DEAD_LETTER"
      BY <1>1, <1>2, <1>3, <2>4, <2>5 DEF NoteRow
    <3>2. QED
      BY <2>2, <3>1 DEF Waiting
  <2>6. CASE ~(n.attempts + 1 >= MaxAttempts)
    <3>1. /\ notes'[k].status = notes[k].status
          /\ notes'[k].attempts = notes[k].attempts + 1
      BY <1>1, <1>2, <1>3, <2>4, <2>6 DEF NoteRow
    <3>2. failures'[k] = IF failures[k] < MaxAttempts THEN failures[k] + 1 ELSE failures[k]
      BY <1>1, <1>2, <1>3 DEF OneMoreFailure
    <3>3. notes[k].attempts \in Nat /\ failures[k] \in Nat
      BY <1>2, <2>4 DEF NoteRow
    <3>4. Waiting(k)'
      BY <1>2, <2>3, <2>6, <3>1, <3>2, <3>3 DEF Waiting
    <3>5. QED
      BY <2>2, <3>4
  <2>7. QED
    BY <2>5, <2>6
<1>4. CASE n.key # k
  <2>1. notes'[k] = notes[k] /\ failures'[k] = failures[k]
    BY <1>1, <1>2, <1>4 DEF OneMoreFailure
  <2>2. \A q \in Ticks : \A m \in Listed(q)' : m \in Listed(q)
    BY ListsShrink, NothingTaken DEF Listed
  <2>3. QED
    BY <2>1, <2>2, CountKept
<1>5. QED
  BY <1>3, <1>4

LEMMA CountInductive ==
  ASSUME TInv, DoubleInv, CountInv, [Next]_vars
  PROVE  CountInv'
<1> SUFFICES ASSUME NEW k \in Keys \ shared' PROVE Waiting(k)' /\ InHand(k)'
  BY DEF CountInv
<1>1. k \in Keys \ shared /\ Single(k) /\ Waiting(k) /\ InHand(k) /\ \A t \in Ticks : Once(t)
  BY SharedGrows DEF DoubleInv, CountInv
<1>2. tick \in [Ticks -> TickRow] /\ notes[k] \in NoteValue
  BY DEF TInv, Types
<1>3. ASSUME NEW t \in Ticks, Aside(t), Statement(t) PROVE Waiting(k)' /\ InHand(k)'
  <2>1. UNCHANGED failures
    BY <1>1, <1>3, AsideRows
  <2>2. /\ notes'[k].attempts = notes[k].attempts
        /\ notes'[k].status \in {"NONE", "QUEUED"} => notes[k].status \in {"NONE", "QUEUED"}
        /\ notes[k].status \in {"QUEUED", "READ"} => notes'[k].status \in {"QUEUED", "READ"}
    BY <1>1, <1>2, <1>3, AsideRows DEF NoteValue, NoteRow, NoNote, NewNote, NoteStatus
  <2>3. \A q \in Ticks : \A n \in Listed(q)' : n \in Listed(q)
    BY <1>3, ListsShrink, NothingTaken DEF Listed
  <2>4. QED
    BY <1>1, <2>1, <2>2, <2>3, CountKept
<1>4. ASSUME NEW t \in Ticks, NEW n \in tick[t].sends, Send(t, n), Statement(t)
      PROVE  Waiting(k)' /\ InHand(k)'
  <2>1. UNCHANGED <<notes, failures>> /\ tick'[t].sends = tick[t].sends \ {n} /\ tick'[t].note = {n}
    BY <1>2, <1>4 DEF Send, tables, TickRow
  <2>2. \A q \in Ticks : \A m \in Listed(q)' : m \in Listed(q)
    BY <1>4, <2>1, NothingTaken DEF Listed
  <2>3. QED
    BY <1>1, <2>1, <2>2, CountKept
<1>5. ASSUME NEW t \in Ticks, StatementFails(t) PROVE Waiting(k)' /\ InHand(k)'
  <2>1. UNCHANGED <<notes, failures>>
    BY <1>5 DEF StatementFails, tables, history
  <2>2. \A q \in Ticks : \A n \in Listed(q)' : n \in Listed(q)
    BY <1>5, ListsShrink, NothingTaken DEF Listed
  <2>3. QED
    BY <1>1, <2>1, <2>2, CountKept
<1>6. CASE Restart
  <2>1. UNCHANGED <<notes, failures>> /\ \A q \in Ticks : tick'[q] = Resting
    BY <1>6 DEF Restart, tables, history
  <2>2. \A q \in Ticks : Listed(q)' = {}
    BY <2>1 DEF Listed, Resting
  <2>3. QED
    BY <1>1, <2>1, <2>2, CountKept
<1>7. CASE Client \/ \E j \in Keys : BackoffElapses(j)
  <2>1. UNCHANGED <<tick, failures>>
    BY <1>1, <1>7, ClientRows
  <2>2. /\ notes'[k].attempts = notes[k].attempts
        /\ notes'[k].status \in {"NONE", "QUEUED"} => notes[k].status \in {"NONE", "QUEUED"}
        /\ notes[k].status \in {"QUEUED", "READ"} => notes'[k].status \in {"QUEUED", "READ"}
    BY <1>1, <1>2, <1>7, ClientRows DEF NoteValue, NoteRow, NoNote
  <2>3. \A q \in Ticks : Listed(q)' = Listed(q)
    BY <2>1 DEF Listed
  <2>4. QED
    BY <1>1, <2>1, <2>2, <2>3, CountKept
<1>8. CASE UNCHANGED vars
  BY <1>1, <1>8 DEF vars, Waiting, InHand, Listed
<1>9. QED
  BY <1>1, <1>3, <1>4, <1>5, <1>6, <1>7, <1>8, Cases, ListCounts, UpdateCounts, FailureCounts
     DEF Next

\* The status of a row over one step: written by the tick that has the row in
\* hand, whose row is neither sent nor given up, or by its user.
LEMMA RowForward ==
  ASSUME TInv, CountInv, [Next]_vars, NEW k \in Keys \ shared
  PROVE  /\ notes[k].status \in {"SENT", "DEAD_LETTER"} =>
              notes'[k].status \in {notes[k].status, "READ"}
         /\ notes[k].status = "READ" /\ (\A t \in Ticks : k \notin WorkingOn(t)) =>
              notes'[k].status = "READ"
<1>1. notes \in [Keys -> NoteValue] /\ InHand(k)
  BY DEF TInv, Types, CountInv
<1>2. ASSUME NEW t \in Ticks, UpdateAfterSend(t) \/ RecordFailure(t)
      PROVE  \/ notes'[k].status = notes[k].status
             \/ k \in WorkingOn(t) /\ notes[k].status \in {"QUEUED", "READ"}
  <2>1. PICK n \in tick[t].note :
          \/ notes' = [notes EXCEPT ![n.key].status = "SENT"]
          \/ notes' = [notes EXCEPT ![n.key].status = "DEAD_LETTER"]
          \/ notes' = [notes EXCEPT ![n.key].attempts = @ + 1, ![n.key].due = FALSE]
    BY <1>2 DEF UpdateAfterSend, RecordFailure
  <2>2. CASE n.key = k
    BY <1>1, <2>2 DEF InHand, Listed, WorkingOn
  <2>3. CASE n.key # k
    BY <1>1, <2>1, <2>3
  <2>4. QED
    BY <2>2, <2>3
<1>3. ASSUME NEW t \in Ticks, Aside(t) PROVE notes'[k] = notes[k] \/ notes[k].status = "NONE"
  BY <1>3, AsideRows
<1>4. ASSUME NEW t \in Ticks,
             FindDueForDispatch(t) \/ StatementFails(t) \/ \E n \in tick[t].sends : Send(t, n)
      PROVE  notes' = notes
  BY <1>4 DEF FindDueForDispatch, StatementFails, Send, tables
<1>5. CASE Restart \/ UNCHANGED vars
  BY <1>5 DEF Restart, tables, vars
<1>6. CASE Client \/ \E j \in Keys : BackoffElapses(j)
  <2>1. \/ notes'[k] = notes[k]
        \/ notes'[k] = [notes[k] EXCEPT !.status = "READ"]
        \/ notes'[k] = [notes[k] EXCEPT !.due = TRUE]
    BY <1>6, ClientRows
  <2>2. notes'[k].status \in {notes[k].status, "READ"}
    BY <1>1, <2>1 DEF NoteValue, NoteRow, NoNote
  <2>3. QED
    BY <2>2
<1>7. ASSUME NEW t \in Ticks, Statement(t) \/ StatementFails(t)
      PROVE  \/ notes'[k].status = notes[k].status \/ notes[k].status = "NONE"
             \/ k \in WorkingOn(t) /\ notes[k].status \in {"QUEUED", "READ"}
  BY <1>2, <1>3, <1>4, <1>7, Cases
<1>8. CASE \E t \in Ticks : Statement(t) \/ StatementFails(t)
  BY <1>7, <1>8
<1>9. QED
  BY <1>5, <1>6, <1>8 DEF Next

-----------------------------------------------------------------------------
(* The theorems *)

\* Tables, lists and ticks are typed in every reachable state, and every row a
\* tick is to send exists.
THEOREM Linking == Spec => []TInv
<1>1. Init => TInv
  BY InitTInv
<1>2. TInv /\ [Next]_vars => TInv'
  BY TInvInductive
<1>3. QED
  BY <1>1, <1>2, PTL DEF Spec

\* Every column and every tick holds a value of its type.
THEOREM TypeCorrect == Spec => []TypeOK
<1>1. TInv => TypeOK
  BY DEF TInv, Types, TypeOK, TickRow, NoteValue
<1>2. QED
  BY <1>1, Linking, PTL

\* A row says SENT only if a send of it reached the user.
THEOREM SentDelivered == Spec => []SentWasDelivered
<1>1. Init => SentInv
  BY DEF Init, SentInv, SentWasDelivered, NoNote, Resting
<1>2. TInv /\ TInv' /\ SentInv /\ [Next]_vars => SentInv'
  BY SentInductive
<1>3. SentInv => SentWasDelivered
  BY DEF SentInv
<1>4. QED
  BY <1>1, <1>2, <1>3, Linking, PTL DEF Spec

\* A row is given up only after MAX_ATTEMPTS of its sends failed.
THEOREM DeadTried == Spec => []DeadLettersWereTried
<1>1. Init => DeadInv
  BY LimitAssumption DEF Init, DeadInv, DeadLettersWereTried, Counted, Listed, NoNote, Resting
<1>2. TInv /\ TInv' /\ DeadInv /\ [Next]_vars => DeadInv'
  BY DeadInductive
<1>3. DeadInv => DeadLettersWereTried
  BY DEF DeadInv
<1>4. QED
  BY <1>1, <1>2, <1>3, Linking, PTL DEF Spec

\* An event that says PROCESSED has its mandatory rows.
THEOREM ProcessedExpanded == Spec => []ProcessedIsExpanded
<1>1. Init => ExpandInv
  BY DEF Init, ExpandInv, ProcessedIsExpanded, TickExpanded, Resting
<1>2. TInv /\ TInv' /\ ExpandInv /\ [Next]_vars => ExpandInv'
  BY ExpandInductive
<1>3. ExpandInv => ProcessedIsExpanded
  BY DEF ExpandInv
<1>4. QED
  BY <1>1, <1>2, <1>3, Linking, PTL DEF Spec

\* A row that was never shared is in the hands of one tick at most, and reached
\* its user at most as often as NoDoubleSend allows.
THEOREM HeldOnce == Spec => []DoubleInv
<1>1. Init => DoubleInv
  BY DEF Init, DoubleInv, Once, Single, Bounded, Holds, Listed, NoNote, Resting
<1>2. TInv /\ TInv' /\ DoubleInv /\ [Next]_vars => DoubleInv'
  BY DoubleInductive
<1>3. QED
  BY <1>1, <1>2, Linking, PTL DEF Spec

\* A user is notified twice only if two ticks worked on the row at once, or
\* once per fault and lost answer.
THEOREM SentOnce == Spec => []NoDoubleSend
<1>1. TInv /\ DoubleInv => NoDoubleSend
  BY DEF DoubleInv, Bounded, NoDoubleSend, TInv, Types
<1>2. QED
  BY <1>1, HeldOnce, Linking, PTL

\* A row that was never shared counts its failed sends while it waits, and a tick
\* that has it in hand knows its attempts.
THEOREM AttemptsKnown == Spec => []CountInv
<1>1. Init => CountInv
  BY LimitAssumption DEF Init, CountInv, Waiting, InHand, Listed, NoNote, Resting
<1>2. TInv /\ DoubleInv /\ CountInv /\ [Next]_vars => CountInv'
  BY CountInductive
<1>3. QED
  BY <1>1, <1>2, HeldOnce, Linking, PTL DEF Spec

\* A row that waits in the queue has an attempt left, unless it was shared.
THEOREM AttemptsLeft == Spec => []QueuedHasAttempts
<1>1. CountInv => QueuedHasAttempts
  BY DEF CountInv, Waiting, QueuedHasAttempts
<1>2. QED
  BY <1>1, AttemptsKnown, PTL

\* Rows given up had all their attempts, and rows that wait have one left.
THEOREM AttemptsCounted == Spec => []AttemptsAreCounted
<1>1. DeadLettersWereTried /\ QueuedHasAttempts => AttemptsAreCounted
  BY DEF AttemptsAreCounted
<1>2. QED
  BY <1>1, DeadTried, AttemptsLeft, PTL

\* A row is never sent again or given up once it is settled, unless it was shared.
THEOREM RowsForward == Spec => RowsGoForward
<1>1. TInv /\ CountInv /\ [Next]_vars =>
        [\A k \in Keys \ shared :
           /\ notes[k].status \in {"SENT", "DEAD_LETTER"} =>
                notes'[k].status \in {notes[k].status, "READ"}
           /\ notes[k].status = "READ" /\ (\A t \in Ticks : k \notin WorkingOn(t)) =>
                notes'[k].status = "READ"]_vars
  BY RowForward
<1>2. QED
  BY <1>1, AttemptsKnown, Linking, PTL DEF Spec, RowsGoForward
=============================================================================
