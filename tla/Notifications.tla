---------------------------- MODULE Notifications ----------------------------
(***************************************************************************)
(* The notification worker: outbox events are expanded into notification   *)
(* rows, and due rows are handed to the provider of their channel.         *)
(*                                                                         *)
(* The worker calls tick() on a timer and never waits for the previous     *)
(* call, so several ticks run at once; each awaits one database statement  *)
(* or provider call after another, from lists it read earlier.  A          *)
(* statement may fail and the process may restart between any two of them. *)
(*                                                                         *)
(* nextAttemptAt is a flag: due says that it is null or has passed.        *)
(* The lists are shorter than the limit of 50 rows, and are worked off in  *)
(* any order.                                                              *)
(***************************************************************************)
EXTENDS Integers, Sequences, FiniteSets

CONSTANTS
  Events,       \* rows of OutboxEvent
  Users,
  Categories,   \* notification categories
  Ticks,        \* calls of tick() that may run at once
  Recipients,   \* the userIds in each event's payload, in order
  CategoryOf,   \* the category of each event's name
  Mandatory,    \* categories that bypass preferences
  Templates,    \* channels with an active template, per event
  Registered,   \* channels with a provider
  Switchable,   \* bound: the <<user, channel, category>> that users switch
  MaxAttempts,  \* failed sends before a row is a dead letter
  MaxFaults,    \* bound on failed statements and restarts
  MaxLost       \* bound on sends that reach the user and still report failure

\* The channels an event is expanded to, in this order.
Channels == <<"PUSH", "IN_APP">>
ChannelSet == {"PUSH", "IN_APP"}

ASSUME EventAssumption ==
  /\ Recipients \in [Events -> Seq(Users)]
  /\ CategoryOf \in [Events -> Categories]
  /\ Mandatory \subseteq Categories
  /\ Templates \in [Events -> SUBSET ChannelSet]
  /\ Registered \subseteq ChannelSet
  /\ Switchable \subseteq Users \X ChannelSet \X Categories

ASSUME LimitAssumption ==
  MaxAttempts \in Nat \ {0} /\ MaxFaults \in Nat /\ MaxLost \in Nat

VARIABLES
  outbox,     \* OutboxEvent: status
  notes,      \* Notification: a row per idempotency key <<event, channel, user>>
  muted,      \* NotificationPreference: <<user, channel, category>> switched off
  devices,    \* users with a push token
  tick,       \* the ticks in progress
  faults, lost,   \* faults and lost answers so far
  delivered,  \* history: how often each notification reached its user
  failures,   \* history: how many of its sends were recorded as failed, up to
              \* MaxAttempts
  shared      \* history: notifications two ticks worked on at the same time

tables == <<outbox, notes, muted, devices>>
vars == <<outbox, notes, muted, devices, tick, faults, lost, delivered, failures, shared>>

Keys == Events \X ChannelSet \X Users

OutboxStatus == {"PENDING", "PROCESSING", "PROCESSED", "FAILED"}
NoteStatus == {"QUEUED", "SENT", "READ", "DEAD_LETTER"}

\* "NONE" stands for the absence of a row.
NoNote == [status |-> "NONE", attempts |-> 0, due |-> FALSE]
NewNote == [status |-> "QUEUED", attempts |-> 0, due |-> TRUE]

\* events and sends are the lists still to do, event and note the element in
\* hand (sets of at most one), at the position in the expansion of the event.
Resting == [pc |-> "idle", events |-> {}, event |-> {}, at |-> 0,
            sends |-> {}, note |-> {}]

Pcs == {"idle", "dispatch", "mark", "expand", "create", "processed", "failed",
        "send", "sent", "sendFailed"}

-----------------------------------------------------------------------------
(* The expansion of an event: recipients in order, each on every channel. *)

Expansion(e) == 2 * Len(Recipients[e])

Target(e, i) == <<e, Channels[1 + ((i - 1) % 2)], Recipients[e][1 + ((i - 1) \div 2)]>>

Wanted(k) ==
  /\ k[2] \in Templates[k[1]]
  /\ CategoryOf[k[1]] \in Mandatory \/ <<k[3], k[2], CategoryOf[k[1]]>> \notin muted
  /\ k[2] = "PUSH" => k[3] \in devices

Pending(e) == outbox[e] \in {"PENDING", "PROCESSING"}

\* Mutant: rows are due whatever their status.
DueWhateverStatus(k) == notes[k].status # "NONE" /\ notes[k].due

DueForDispatch(k) == notes[k].status = "QUEUED" /\ notes[k].due

-----------------------------------------------------------------------------
Init ==
  /\ outbox = [e \in Events |-> "NONE"]
  /\ notes = [k \in Keys |-> NoNote]
  /\ muted = {}
  /\ devices = {}
  /\ tick = [t \in Ticks |-> Resting]
  /\ faults = 0
  /\ lost = 0
  /\ delivered = [k \in Keys |-> 0]
  /\ failures = [k \in Keys |-> 0]
  /\ shared = {}

history == <<delivered, failures, shared>>
bounds == <<faults, lost>>

\* Some code outside the worker writes the event.
Publish(e) ==
  /\ outbox[e] = "NONE"
  /\ outbox' = [outbox EXCEPT ![e] = "PENDING"]
  /\ UNCHANGED <<notes, muted, devices, tick, bounds, history>>

UpdatePreference(preference, enabled) ==
  /\ muted' = IF enabled THEN muted \ {preference} ELSE muted \union {preference}
  /\ UNCHANGED <<outbox, notes, devices, tick, bounds, history>>

RegisterDevice(u) ==
  /\ devices' = devices \union {u}
  /\ UNCHANGED <<outbox, notes, muted, tick, bounds, history>>

MarkRead(k) ==
  /\ notes[k].status # "NONE"
  /\ notes' = [notes EXCEPT ![k].status = "READ"]
  /\ UNCHANGED <<outbox, muted, devices, tick, bounds, history>>

BackoffElapses(k) ==
  /\ notes[k].status # "NONE"
  /\ ~notes[k].due
  /\ notes' = [notes EXCEPT ![k].due = TRUE]
  /\ UNCHANGED <<outbox, muted, devices, tick, bounds, history>>

-----------------------------------------------------------------------------
(* A tick: first the outbox ... *)

At(t, pc) == tick[t].pc = pc
Goto(t, pc) == tick' = [tick EXCEPT ![t].pc = pc]

FindPending(t) ==
  /\ At(t, "idle")
  /\ tick' = [tick EXCEPT ![t] =
       [Resting EXCEPT !.pc = "dispatch", !.events = {e \in Events : Pending(e)}]]
  /\ UNCHANGED <<tables, bounds, history>>

\* The status is read again before the event is processed, and only PROCESSED
\* is left out.
TakeEvent(t, e) ==
  /\ At(t, "dispatch")
  /\ e \in tick[t].events
  /\ tick' =
       IF outbox[e] = "PROCESSED"
       THEN [tick EXCEPT ![t].events = @ \ {e}]
       ELSE [tick EXCEPT ![t].pc = "mark", ![t].events = @ \ {e}, ![t].event = {e}, ![t].at = 1]
  /\ UNCHANGED <<tables, bounds, history>>

MarkProcessing(t) ==
  /\ At(t, "mark")
  /\ \E e \in tick[t].event : outbox' = [outbox EXCEPT ![e] = "PROCESSING"]
  /\ Goto(t, "expand")
  /\ UNCHANGED <<notes, muted, devices, bounds, history>>

\* Template, preference and device decide whether a row is wanted.
Decide(t) ==
  /\ At(t, "expand")
  /\ \E e \in tick[t].event :
       IF tick[t].at > Expansion(e) THEN Goto(t, "processed")
       ELSE IF Wanted(Target(e, tick[t].at)) THEN Goto(t, "create")
       ELSE tick' = [tick EXCEPT ![t].at = @ + 1]
  /\ UNCHANGED <<tables, bounds, history>>

\* Mutant: an idempotency key that is taken ends the expansion quietly.
CreateNotificationQuietly(t) ==
  /\ At(t, "create")
  /\ \E e \in tick[t].event :
       LET k == Target(e, tick[t].at) IN
         IF notes[k].status = "NONE"
         THEN /\ notes' = [notes EXCEPT ![k] = NewNote]
              /\ tick' = [tick EXCEPT ![t].pc = "expand", ![t].at = @ + 1]
         ELSE /\ Goto(t, "processed")
              /\ UNCHANGED notes
  /\ UNCHANGED <<outbox, muted, devices, bounds, history>>

\* The idempotency key is unique: the insert throws when an earlier attempt at
\* the event, or an earlier occurrence of the user, already made the row.
CreateNotification(t) ==
  /\ At(t, "create")
  /\ \E e \in tick[t].event :
       LET k == Target(e, tick[t].at) IN
         IF notes[k].status = "NONE"
         THEN /\ notes' = [notes EXCEPT ![k] = NewNote]
              /\ tick' = [tick EXCEPT ![t].pc = "expand", ![t].at = @ + 1]
         ELSE /\ Goto(t, "failed")
              /\ UNCHANGED notes
  /\ UNCHANGED <<outbox, muted, devices, bounds, history>>

Settle(t, status) ==
  /\ \E e \in tick[t].event : outbox' = [outbox EXCEPT ![e] = status]
  /\ tick' = [tick EXCEPT ![t] = [@ EXCEPT !.pc = "dispatch", !.event = {}, !.at = 0]]
  /\ UNCHANGED <<notes, muted, devices, bounds, history>>

MarkProcessed(t) == At(t, "processed") /\ Settle(t, "PROCESSED")

\* Mutant: a failed event goes back to PENDING.
MarkPendingAgain(t) == At(t, "failed") /\ Settle(t, "PENDING")

MarkFailed(t) == At(t, "failed") /\ Settle(t, "FAILED")

-----------------------------------------------------------------------------
(* ... then the notifications. *)

WorkingOn(t) == {n.key : n \in tick[t].sends \union tick[t].note}

FindDueForDispatch(t) ==
  /\ At(t, "dispatch")
  /\ tick[t].events = {}
  /\ LET due == {k \in Keys : DueForDispatch(k)} IN
       /\ tick' = [tick EXCEPT ![t] = [Resting EXCEPT !.pc = "send",
            !.sends = {[key |-> k, attempts |-> notes[k].attempts] : k \in due}]]
       /\ shared' = shared \union (due \cap UNION {WorkingOn(q) : q \in Ticks})
  /\ UNCHANGED <<tables, bounds, delivered, failures>>

\* Mutant: a channel without a provider counts as sent.
SendIfRegistered(t, n) ==
  /\ At(t, "send")
  /\ n \in tick[t].sends
  /\ \E pc \in {"sent", "sendFailed"}, reached \in {0, 1} :
       /\ pc = "sent" /\ n.key[2] \in Registered => reached = 1
       /\ reached = 1 => n.key[2] \in Registered
       /\ IF pc = "sendFailed" /\ reached = 1
          THEN lost < MaxLost /\ lost' = lost + 1
          ELSE UNCHANGED lost
       /\ delivered' = [delivered EXCEPT ![n.key] = @ + reached]
       /\ tick' = [tick EXCEPT ![t].pc = pc, ![t].sends = @ \ {n}, ![t].note = {n}]
  /\ UNCHANGED <<tables, faults, failures, shared>>

\* The provider of the channel is asked: there may be none, the send may fail,
\* and it may report failure (a timeout) after it reached the user.
Send(t, n) ==
  /\ At(t, "send")
  /\ n \in tick[t].sends
  /\ \E pc \in {"sent", "sendFailed"}, reached \in {0, 1} :
       /\ pc = "sent" => reached = 1
       /\ reached = 1 => n.key[2] \in Registered
       /\ IF pc = "sendFailed" /\ reached = 1
          THEN lost < MaxLost /\ lost' = lost + 1
          ELSE UNCHANGED lost
       /\ delivered' = [delivered EXCEPT ![n.key] = @ + reached]
       /\ tick' = [tick EXCEPT ![t].pc = pc, ![t].sends = @ \ {n}, ![t].note = {n}]
  /\ UNCHANGED <<tables, faults, failures, shared>>

NextSend(t) == tick' = [tick EXCEPT ![t] = [@ EXCEPT !.pc = "send", !.note = {}]]

\* Mutant: the provider's own word for it.
UpdateAfterSendDelivered(t) ==
  /\ At(t, "sent")
  /\ \E n \in tick[t].note : notes' = [notes EXCEPT ![n.key].status = "DELIVERED"]
  /\ NextSend(t)
  /\ UNCHANGED <<outbox, muted, devices, bounds, history>>

UpdateAfterSend(t) ==
  /\ At(t, "sent")
  /\ \E n \in tick[t].note : notes' = [notes EXCEPT ![n.key].status = "SENT"]
  /\ NextSend(t)
  /\ UNCHANGED <<outbox, muted, devices, bounds, history>>

OneMoreFailure(k) ==
  failures' = [failures EXCEPT ![k] = IF @ < MaxAttempts THEN @ + 1 ELSE @]

\* Mutant: one attempt is missing.
RecordFailureEarly(t) ==
  /\ At(t, "sendFailed")
  /\ \E n \in tick[t].note :
       /\ notes' = IF n.attempts + 2 >= MaxAttempts
                   THEN [notes EXCEPT ![n.key].status = "DEAD_LETTER"]
                   ELSE [notes EXCEPT ![n.key].attempts = @ + 1, ![n.key].due = FALSE]
       /\ OneMoreFailure(n.key)
  /\ NextSend(t)
  /\ UNCHANGED <<outbox, muted, devices, bounds, delivered, shared>>

\* Mutant: failures are not counted.
RecordFailureUncounted(t) ==
  /\ At(t, "sendFailed")
  /\ \E n \in tick[t].note :
       /\ notes' = [notes EXCEPT ![n.key].due = FALSE]
       /\ OneMoreFailure(n.key)
  /\ NextSend(t)
  /\ UNCHANGED <<outbox, muted, devices, bounds, delivered, shared>>

\* The attempts read with the list decide; the row's own are incremented.
RecordFailure(t) ==
  /\ At(t, "sendFailed")
  /\ \E n \in tick[t].note :
       /\ notes' = IF n.attempts + 1 >= MaxAttempts
                   THEN [notes EXCEPT ![n.key].status = "DEAD_LETTER"]
                   ELSE [notes EXCEPT ![n.key].attempts = @ + 1, ![n.key].due = FALSE]
       /\ OneMoreFailure(n.key)
  /\ NextSend(t)
  /\ UNCHANGED <<outbox, muted, devices, bounds, delivered, shared>>

EndTick(t) ==
  /\ At(t, "send")
  /\ tick[t].sends = {}
  /\ tick' = [tick EXCEPT ![t] = Resting]
  /\ UNCHANGED <<tables, bounds, history>>

-----------------------------------------------------------------------------
(* Faults *)

Fault == faults < MaxFaults /\ faults' = faults + 1

\* A statement inside a try block fails into its catch block; any other ends
\* the tick.  It leaves no trace in the tables.
StatementFails(t) ==
  /\ tick[t].pc \notin {"idle", "send"}
  /\ Fault
  /\ CASE tick[t].pc \in {"expand", "create", "processed"} -> Goto(t, "failed")
       [] At(t, "sent") -> Goto(t, "sendFailed")
       [] OTHER -> tick' = [tick EXCEPT ![t] = Resting]
  /\ UNCHANGED <<tables, lost, history>>

\* The worker restarts.
Restart ==
  /\ \E t \in Ticks : ~At(t, "idle")
  /\ Fault
  /\ tick' = [t \in Ticks |-> Resting]
  /\ UNCHANGED <<tables, lost, history>>

-----------------------------------------------------------------------------
Statement(t) ==
  \/ FindPending(t)
  \/ \E e \in Events : TakeEvent(t, e)
  \/ MarkProcessing(t)
  \/ Decide(t)
  \/ CreateNotification(t)
  \/ MarkProcessed(t)
  \/ MarkFailed(t)
  \/ FindDueForDispatch(t)
  \/ \E n \in tick[t].sends : Send(t, n)
  \/ UpdateAfterSend(t)
  \/ RecordFailure(t)
  \/ EndTick(t)

Client ==
  \/ \E e \in Events : Publish(e)
  \/ \E preference \in Switchable, enabled \in BOOLEAN :
       UpdatePreference(preference, enabled)
  \/ \E u \in Users : RegisterDevice(u)
  \/ \E k \in Keys : MarkRead(k)

Next ==
  \/ Client
  \/ \E k \in Keys : BackoffElapses(k)
  \/ \E t \in Ticks : Statement(t) \/ StatementFails(t)
  \/ Restart

Spec == Init /\ [][Next]_vars

\* The timer starts tick after tick, a tick executes its statements, and time
\* passes.
FairSpec ==
  /\ Spec
  /\ \A t \in Ticks : WF_vars(Statement(t))
  /\ \A k \in Keys : WF_vars(BackoffElapses(k))

-----------------------------------------------------------------------------
(* Properties *)

NoteRow == [status : NoteStatus, attempts : Nat, due : BOOLEAN]
Sending == [key : Keys, attempts : Nat]

\* The shape of the tables and of the ticks.
TypeOK ==
  /\ outbox \in [Events -> OutboxStatus \union {"NONE"}]
  /\ notes \in [Keys -> NoteRow \union {NoNote}]
  /\ muted \subseteq Switchable
  /\ devices \subseteq Users
  /\ \A t \in Ticks :
       /\ tick[t].pc \in Pcs
       /\ tick[t].events \subseteq Events /\ tick[t].event \subseteq Events
       /\ tick[t].at \in Nat
       /\ tick[t].sends \subseteq Sending /\ tick[t].note \subseteq Sending
  /\ delivered \in [Keys -> Nat] /\ failures \in [Keys -> Nat]
  /\ shared \subseteq Keys

\* What an event must become whatever users switched off: a row in the inbox of
\* every recipient, when its category bypasses preferences.
MustHave(e) ==
  {k \in {e} \X {"IN_APP"} \X Users :
     /\ \E i \in DOMAIN Recipients[e] : Recipients[e][i] = k[3]
     /\ "IN_APP" \in Templates[e] /\ CategoryOf[e] \in Mandatory}

HasRow(k) == notes[k].status # "NONE"

\* However ticks overlap, fail and restart, an event that says PROCESSED has the
\* row of every mandatory notification: no retry, and no second tick on the same
\* event, ends an expansion early and still calls it processed.
ProcessedIsExpanded ==
  \A e \in Events : outbox[e] = "PROCESSED" => \A k \in MustHave(e) : HasRow(k)

\* A row becomes a dead letter only after MAX_ATTEMPTS of its sends failed,
\* although each tick decides on the attempts it read before.
DeadLettersWereTried ==
  \A k \in Keys : notes[k].status = "DEAD_LETTER" => failures[k] >= MaxAttempts

\* A user is notified twice only if two ticks worked on the row at once, or a
\* send that reached the user was not recorded (a fault, a lost answer).
NoDoubleSend ==
  \A k \in Keys : delivered[k] > 1 + faults + lost => k \in shared

\* What a row says it is was once true: SENT only if a send reached the user.
SentWasDelivered ==
  \A k \in Keys : notes[k].status = "SENT" => delivered[k] > 0

\* As long as two ticks have not worked on a row, each failed send is on the row
\* while it waits for the next, and an attempt is left: a fault or a lost answer
\* wastes a send, but no row waits that the next tick would not settle or count.
QueuedHasAttempts ==
  \A k \in Keys \ shared :
    notes[k].status = "QUEUED" =>
      failures[k] = notes[k].attempts /\ notes[k].attempts < MaxAttempts

\* Every row that is given up had all its attempts, and every row that waits still
\* has one, however ticks overlap in the one case, unless they did in the other.
AttemptsAreCounted == DeadLettersWereTried /\ QueuedHasAttempts

\* As long as two ticks have not worked on it, a row that was sent or given up is
\* only ever read, and a row that was read stays so unless a tick, which listed it
\* before, has yet to write what came of its send.
RowsGoForward ==
  [][\A k \in Keys \ shared :
       /\ notes[k].status \in {"SENT", "DEAD_LETTER"} =>
            notes'[k].status \in {notes[k].status, "READ"}
       /\ notes[k].status = "READ" /\ (\A t \in Ticks : k \notin WorkingOn(t)) =>
            notes'[k].status = "READ"]_vars

\* Once ticks do not overlap and faults stop, every event is settled for good: a
\* restart leaves none in PROCESSING.  (Two ticks that keep overlapping may take
\* turns to reopen an event, for a FAILED event in a list is processed again.)
Settled(e) == outbox[e] \in {"PROCESSED", "FAILED"}

EventsSettle == \A e \in Events : outbox[e] = "PENDING" ~> []Settled(e)

\* Every row leaves the queue in the end: it is sent, given up or read.
NotesLeaveQueue ==
  \A k \in Keys : notes[k].status = "QUEUED" ~> notes[k].status # "QUEUED"

\* What apps/worker/README.md says: workers are idempotent and safe to retry.
\* So an event that was published becomes its mandatory rows, restarts or not.
SafeToRetry ==
  \A e \in Events : outbox[e] = "PENDING" ~> \A k \in MustHave(e) : HasRow(k)

\* What the comment in logging-notification.provider.ts says: without external
\* providers the pipeline is fully functional.  So a queued row is sent.
PipelineDelivers ==
  \A k \in Keys : notes[k].status = "QUEUED" ~> notes[k].status \in {"SENT", "READ"}
=============================================================================
