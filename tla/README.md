# A TLA+ model of the tutor marketplace

This directory specifies the parts of the marketplace in which state is shared
and several actors write it: what the use cases do to bookings and slots, to
payments, refunds and the money at the gateway, to sessions and codes, to the
verification of tutors, their reviews, timetables and profiles; what the
notification worker does to the outbox and to the notification rows; how the
receiver of the payment provider's events treats repeated deliveries; and how
the web client's lists follow the server's pages. The modules are translated
from the TypeScript sources (`packages/application`, `packages/infrastructure`,
`apps/api`, `apps/worker`, `apps/web`, `apps/admin`); `PROJECT.json` maps each
definition to the lines it stands for.

All paths below are relative to the repository.

## 1. The system

A NestJS API (`apps/api`) exposes use cases (`packages/application`) that reach
Postgres through Prisma repositories (`packages/infrastructure`). A worker
(`apps/worker`) polls the same database. Almost no use case opens a transaction:
each `await` of a repository method is one committed statement, the API serves
requests concurrently, and so the statements of different requests interleave
and a process that stops leaves the earlier statements behind. That one fact is
the source of most of the hard behaviour, and the models are built around it: **a
request is a process, one statement is one step, and a request acts on what it
read earlier.**

| component | state | operations | interacts with | what is hard |
|---|---|---|---|---|
| Bookings (`bookings/booking.use-cases.ts`) | `Booking`, `BookingStatusHistory` | create, accept, reject, cancel (parent, tutor), reschedule, complete | slots (status writes), admin, payments (booking status) | check-then-act, 3 to 7 writes per request without a transaction, blind status updates |
| Availability slots (`prisma-tutor-availability-slot.repository.ts`) | `TutorAvailabilitySlot` | reserve, book, release | written only by booking requests | reservations have a deadline nobody reads |
| Admin (`admin/admin.use-cases.ts`) | audit log, user status | cancel a booking, suspend, activate | bookings, sessions | the audit row is the last of four writes |
| Notification worker (`notifications/notification.use-cases.ts`, `apps/worker`) | `OutboxEvent`, `Notification`, preferences, device tokens | expand events, send due rows, mark read, set preferences | any publisher, push and in-app providers | ticks overlap, statements fail, restarts, retries, lost answers |
| Payments and refunds (`payments/payment.use-cases.ts`) | `Payment`, `PaymentTransaction`, `Refund` | order, verify, capture, cancel, retry, refund | gateway, bookings | money moves before the row that records it |
| Payment webhooks (`payments/payment.use-cases.ts`) | `PaymentWebhookEvent` | receive, mark | the provider | deliveries repeat, and fail between two statements |
| Authentication (`auth/*.ts`) | users, OTP challenges, sessions | start, verify, log in, refresh, log out, log out everywhere, revoke | admin (suspension) | check-then-consume, refresh against revocation |
| Tutor verification (`tutors/verification.use-cases.ts`) | checks, documents, tutor status | upload, submit, approve, reject, ask for changes | search | decisions without a status guard, submissions that take several statements |
| Reviews (`reviews/review.use-cases.ts`) | `Review`, the tutor's stored rating | submit, publish, hide, flag | bookings, search | the rating is a cached aggregate |
| Weekly availability (`tutors/availability.use-cases.ts`) | weekly slots, breaks, blackouts | add, update, remove; public windows | search | check-then-write; interval arithmetic |
| Profiles (`tutors/tutor.use-cases.ts`, `subjects`, `students`) | tutor profile and score, students of a parent | create, update, rename, delete | authentication (roles) | check-then-insert, two rows that belong together, a cached score |
| Lists (`apps/web`, `apps/admin`, `common/api-response.ts`) | rows on a page, cursor, requests in flight | search, filter, load more, retry | the API | answers to older requests, cursors of two kinds |
| Catalog, cache, API shell, the rest of the front ends | rows and pages | reads and single-row writes | | nothing concurrent beyond the above |

What makes each correct:

- *Bookings and slots*: slot and booking agree; a tutor is not booked twice at
  one time; a status changes along the transition table; the history tells what
  happened; rescheduling moves a class.
- *Notifications*: a processed event has its rows; a user is not notified twice
  without a cause; rows are given up only after they were tried; events settle
  and the queue drains.
- *Payments*: what was captured and refunded agrees with the gateway; a payment of the
  gateway pays for one row; a booking is not paid twice.
- *Webhooks*: an event is recorded once, and what the provider was told is received
  is processed.
- *Authentication*: a code is good for one login, a token for one refresh, signing out
  everywhere leaves no live session, and guessing stops at a limit.
- *Verification*: a tutor is active only after a decision on everything submitted; a
  submission has all that is required and waits where administrators look.
- *Reviews*: the stored rating is the average of the published reviews.
- *Weekly availability*: weekly slots of a tutor do not overlap; public windows are
  exactly the weekly slots minus breaks.
- *Profiles*: the score counts the filled fields; a student's name is there once; no
  profile without its role, no student without a guardian.
- *Lists*: a page shows the first rows of its query, in order, each once.

The hazards behind these, at their lines, are the `hazards` of `PROJECT.json`.

## 2. Modules

| module | what it is | theorems in | run by |
|---|---|---|---|
| `BookingRules` | statuses, transition table and overlap of `booking.rules.ts`: pure operators | | |
| `Bookings` | booking requests as processes against the slot, booking, history and audit tables | `BookingsProofs` | `MCBookings` |
| `BookingLifecycle` | the abstract specification: what happens to the booking of one slot | | |
| `Notifications` | the worker's ticks against outbox, notifications, preferences and devices | `NotificationsProofs` | `MCNotifications` |
| `Payments` | payment and refund requests against their tables, the booking and the gateway | `PaymentsProofs` | `MCPayments` |
| `RequestSteps` | a request in flight as a record with a program counter: begin, continue, finish | | |
| `Sessions` | accounts, one-time codes, sessions and their rotation, suspension | `SessionsProofs` | `MCParts` |
| `Verification` | a tutor's documents and checks against an administrator's decisions | `VerificationProofs` | `MCParts` |
| `Reviews` | reviews, their moderation and the stored rating | `ReviewsProofs` | `MCParts` |
| `WeeklyAvailability` | weekly slots, breaks and the windows of the public page | `WeeklyAvailabilityProofs` | `MCParts` |
| `Webhooks` | deliveries of the payment provider against the rows that record them | `PartsProofs` | `MCParts` |
| `Profiles` | tutor profile and score, students | `PartsProofs` | `MCParts` |
| `ListPages` | a list in the web client that loads the server's pages | `PartsProofs` | `MCParts` |

`Payments` composes with bookings through `BookingLifecycle`, as said below. The
modules from `Sessions` on share no table with one another, so `MCParts` extends
`Sessions`, instantiates the others, and lets a behaviour be one of one of them: their
states add up and do not multiply. Those with requests use `RequestSteps`; each has its own record of what a request read, and `Abandon`, as in
`Bookings`, ends a request between any two statements.

### Bookings

`slots`, `bookings`, `history` and `auditLog` are the tables; `req` holds, for each
request in flight, the statement it executes next (`pc`) and what it read
(`booking`, `held`, `seen`). `CreateBooking`, `AcceptBooking`, ... are the
arrival of a request: the reads and checks that precede its first write, of which
only the last consistent reading matters, taken in one step. What follows a check
that another request may invalidate is a step of its own: `FindNewSlot`,
`CheckOverlap`, then the writes `ReleaseSlot`, `ReserveSlot`, `MarkAsBooked`,
`UpdateStatus`, `AddStatusHistory`, `InsertBooking`, `RecordCreation`,
`WriteAuditLog`, in the order in which the use case awaits them. The statements
are shared by the use cases, as the repository methods are. `Abandon` is a
restart, a lost connection or a statement that throws.

Three facts of the code shape the model:

- `updateStatus` and the slot writes name their row by id alone, so they overwrite
  whatever is there (`UpdateStatus`, `ReleaseSlot`).
- `availabilitySlotId` is unique over bookings of every status
  (`schema.prisma:500`), so a slot has at most one booking ever: `InsertBooking`
  fails once the slot was used, after the slot was already reserved again.
- The overlap check (`findOverlapping`) reads bookings, not slots, and counts the
  statuses REQUESTED and ACCEPTED.

`met` and `torn` are history variables, not state of the program. They say where
requests overlapped and where one was abandoned, so that a property can say
exactly when the code keeps its promise: *without a meeting on this slot, ...*.
A property restricted in this way still has to survive every other interleaving.

`BookingLifecycle` knows only the status of each slot's booking: it is requested
once, changes along the transition table (with the admin's cancellation added),
and once two requests have met on the slot may be overwritten with any status
that some request decided on earlier. `Bookings` implements it under the mapping
`Phase` (the status of the booking of a slot) and `disturbed` (the slots with
`{s} \in met`).

Left out of the model: prices, addresses and reasons; the expiry job, which
returns without touching anything (`booking.use-cases.ts:613`); the statuses
that payment use cases write, which `Payments` has; slots added later, which no
code path creates (`createConcreteSlot` has no caller).

### Notifications

`outbox` and `notes` are the tables, `muted` and `devices` the preferences and
tokens that decide whether a row is wanted, and `tick` the calls of `tick()` in
progress. `setInterval` does not wait for the previous call, so several ticks may
run. A tick reads the pending events (`FindPending`), and for each: reads it again
(`TakeEvent`), marks it (`MarkProcessing`), walks through its recipients and
channels (`Decide`, `CreateNotification`) and settles it (`MarkProcessed`,
`MarkFailed`). Then it reads the due rows (`FindDueForDispatch`) and for each asks
the provider (`Send`) and records the answer (`UpdateAfterSend`, `RecordFailure`).

`StatementFails` is a failed statement: inside a `try` it goes to the `catch` the
code has there, elsewhere it ends the tick. `Restart` ends all ticks. `Send` may
reach the user and still report failure. `nextAttemptAt` is abstracted to a flag
that `BackoffElapses` raises. `Publish` is external: no code of the repository
writes outbox events yet. Rendering of templates is left out; whether a template
exists is not.

`delivered`, `failures` and `shared` are history variables: how often a
notification reached its user, how many of its sends were recorded as failed, and
which rows two ticks worked on at once.

### Payments

`payments`, `trail` (`PaymentTransaction`) and `refunds` are the tables, `booking` the
status of each booking, and `req` the payment requests in flight, as in `Bookings`.
`gateway` is what the payment provider did with the money of each order. A row and the
payment of its order at the gateway go by the same id; `paidBy` (`providerPaymentId`) is
the gateway's payment that a row was confirmed with, and the one that its captures and
refunds name (`AtGateway`). The two need not be the same. `trail` leaves out the rows that
carry no event id and are looked at by nothing, such as that of a failed capture.

| use case | arrival | statements |
|---|---|---|
| `RetryPayment` | `RetryPayment` | `InsertPayment`, `RecordOrder` |
| `VerifyPayment` | `VerifyPayment` | `Authorize`, `MarkBookingPaid` |
| `CapturePayment` | `CapturePayment` | `GatewayCapture`, then `RecordCaptureFailure`, or `MarkCaptured` and `RecordCapture` |
| `InitiateRefund` | `InitiateRefund` | `CreateRefund` |
| `ApproveRefund` | `ApproveRefund` | `GatewayRefund`, `SumUp`, `UpdateRefundStatus`, `MarkRefunded`, `RecordRefund`, and `MarkBookingRefunded` when the refund is the last |
| `RejectRefund` | `RejectRefund` | `UpdateRefundStatus` |

Reading the code against the Prisma schema decides what a statement does:

- `CreatePaymentOrder` asks for a booking in PENDING_PAYMENT, which nothing writes.
  Only a retry makes payments.
- `VerifyPayment` hands the client's order, payment and signature to the gateway, which
  checks the signature. The order is not compared with the one the row was made with: the
  signed result of any checkout confirms any pending row. That each checkout still pays
  for one row only rests on the unique event id (`EventIdTaken`), not on the use case.
- Writing `failureReason` throws: `Payment` has no such column. So cancelling, a
  verification with a wrong signature, and a retry while a payment of the booking is
  PENDING throw before they change anything. They are no actions.
- The transaction row of a capture repeats the provider's payment id, which is the
  unique event id of the authorization: `RecordCapture` never adds its row, after the
  money was captured and the payment marked.
- The transaction row of a refund request has a status its enumeration lacks:
  `CreateRefund` leaves the refund and the request throws.
- `Authorize` is the one place where two statements share a database transaction, which
  asks for no status of the row. The event id of a checkout makes it happen once for each
  checkout, not once for each row: two confirmations of one row with the results of
  different checkouts both go through, and the second one is what the row is left with.
- `MarkBookingPaid` writes PAYMENT_AUTHORIZED whatever the booking's status is, and no
  transition leaves that status. Refunds want a cancelled or completed booking, so
  they are reached where a confirmation was abandoned half-way or a booking use case
  wrote at the same time.

The booking use cases take part as `DecideBooking` and `WriteBooking`, read and write,
with the statuses that `BookingLifecycle!MayBecome` admits: the abstract
specification that `Bookings` is proved to implement stands for the module.

The gateway is external. It captures an authorized payment once and no more than was
authorized, gives back no more than it captured, may refuse, and its answer may be lost
after it acted. A client has the results of checkouts that took place, and of no others:
signatures are not forged. Idempotency keys only
make an insert fail, which `Abandon` covers. Webhooks write no row of these tables.

`raced`, `met`, `crossed` and `torn` are history variables: the bookings a booking use case
wrote over without having read their status, the payments two refund decisions worked on at
once, the payments that were being confirmed with two different payments of the gateway at
once, and the payments where a request was abandoned or an answer lost.

### Sessions

`users`, `challenges`, `sessions` and `audit` are the tables. An account is named by the
phone number or address it is unique for, a session by the refresh token issued with
it, so that `from` of a session is the token that was exchanged for it.

| use case | arrival | statements |
|---|---|---|
| `OtpStart` | `OtpStart` | the insert is the arrival |
| `OtpVerify` | `VerifyRead` | `VerifyWrong`; or `VerifyConsume`, `VerifyFindUser`, `VerifyCreateUser` and `VerifyAssignRole` for a new account or `VerifyTouch` for an old one, `OpenSession` |
| password login | `LoginRead` | `OpenSession` |
| refresh | `RefreshRead` | `RevokeExpired`; or `Rotate`, `Reissue` |
| logout, revoke session | `RevokeSession` | |
| logout everywhere | `LogoutAll` | |
| suspend, activate | `ReadStatus` | `SetStatus`, `Log` |

The status of an account is checked before a session is opened (`VerifyTouch`,
`LoginRead`) and not when it is refreshed (`Reissue`): a suspended account keeps rotating
its session. `Rotate` names its row by id alone and revokes what may be revoked
already.

`signOuts`, `met`, `crossed` and `torn` are history variables: how often a user signed out
everywhere, the challenges, sessions and accounts two requests worked on at once, the
users who signed out everywhere with a request of theirs in flight, and those of whom a
request was abandoned. A session's `since` is the number of times its user had signed out
everywhere when the sign-in it goes back to was made.

### Verification

The checks and the documents of one tutor, and the status of the tutor. A decision is
one database transaction and one step (`Approve`, `Reject`, `RequestChanges`); it asks
for no status. An upload looks at the status, creates the check when there is none and
inserts the document; a submission reads the status, then the documents, writes a check
for every required type and then updates the tutor. That last statement does not write
the status it is given (`prisma-tutor.repository.ts:41-56`), so `SubmitEnd` changes no
table. `submitted` says whether a submission nothing disturbed has ended, `alone` of a
request whether no decision was made since it read the status, and `met`
whether a decision was made while a request of the tutor was in flight.

### Reviews

A review is named by its booking, and `rating` is the set of reviews the stored average
and count were computed from. Publishing writes the status and nothing else
(`Publish`); hiding and flagging write the status and then recompute, in two statements
(`TakeBack`, `Aggregate`, `Store`). `owed` has the reviews published since the reviews
were last read, and `accounted` says that no recomputation was abandoned or overtaken
since the last one that ran undisturbed.

### Weekly availability

`slots` and `breaks` are tables of one tutor. Adding and updating a slot look for
overlaps (`AddRead`, `UpdateRead`) and write in another statement (`AddCreate`,
`UpdateWrite`), the insert against the unique key on day, start and mode. `stale` marks a
request that checked before another one wrote; `met` has the slots written by such a
request. Breaks are compared with nothing. `Windows` folds `Split` over the breaks of a
day, in any order.

### Webhooks

`rows` records deliveries. A delivery whose event id is known is answered with success
at once (`Receive`), whatever became of the earlier one; otherwise it is saved, processed
and marked. An event that names a payment always fails, because the statement that would
write the payment's trail gives it a status its column does not admit: such an event ends
FAILED, is answered with an error, and its redelivery with success. An event without an
id is known by nothing and is recorded anew. `answered` and `deliveries` are the
provider's side: what it was told, and how often it will try.

### Profiles

The score is kept as the number of fields it counts. An update computes it from the
profile it read and the fields it was given, a null among them counted as empty and not
written (`UpdateRead`, `UpdateProfile`). A student is inserted and then linked to the
parent. Subjects have no rows (section 7).
`estranged` says why the score need not agree with the fields.

### List pages

`hook` is which list: the search of tutors, an administrators' list, or the queue of
reviews. A row is the query it answers and its place. The search aborts the request
before when it sends another (`Send`), the administrators' hooks do not, so an older
answer may come later. The server answers from a cursor: the search and the
administrators' lists send the last row's id, the queue of reviews the length of the page
(`NextCursor`). `mixed` says that the query changed after the first page was asked for,
or that two requests of a list that aborts none overlapped.

## 3. Runs

| run | question | bounds |
|---|---|---|
| `bookings` | do slots, bookings, history and audit log stay consistent, and do bookings follow the lifecycle? | one tutor, three slots (two overlap), two parents, three bookings, two concurrent requests, four in all |
| `bookings_overlap` | can a tutor have two accepted bookings at one time? (yes) | two overlapping slots |
| `bookings_reservation` | does every reservation without an active booking end? (no) | one slot, one request at a time |
| `notifications` | are the rows true whatever ticks overlap, fail or restart? | one event, one user, two channels, two ticks, two attempts, one fault, one lost answer |
| `notifications_live` | do events settle and does the queue drain? | one event, two users, one tick after another, one fault |
| `notifications_retry` | is an event that was interrupted expanded in the end? (no) | as above |
| `notifications_deployed` | does the worker deliver as it is wired? (no) | five attempts, no fault |
| `payments` | do rows, gateway and booking agree on what was paid and paid back? | one booking of price 2, two payments, two refunds, two requests, two booking statuses written, one fault |
| `payments_double` | can a booking be authorized twice? (yes) | as above, one request at a time |
| `parts` | do the other components keep what they promise wherever requests did not meet? | two requests, one fault, and for each component as below |
| `verification_queue` | does a submitted case wait in the queue? (no) | one tutor, two requests |
| `reviews_paging` | does the queue of reviews show its rows? (no) | six rows, two to a page |

Properties of `bookings`:

- `SlotAgreesWithBooking`: between requests, a slot on which no two requests met
  and none was abandoned is reserved, booked or free as its booking says.
- `HistoryIsChain`: on such a slot the history leads from creation to the present
  status without gaps or repetitions.
- `TrailIsComplete`: even when requests meet, a status nobody is still working on
  is in the history, and an admin's cancellation in the audit log.
- `RescheduleMoves`: a booking made by rescheduling has a closed predecessor with no
  other successor, abandoned requests included.
- `NoOverlapUnlessMet`: two active bookings of a tutor overlap only if the requests
  for the two slots were in flight together. The check has no other hole.
- `RefinesLifecycle`: the abstract specification above.

Properties of `notifications` and `notifications_live`:

- `ProcessedIsExpanded`: an event that says PROCESSED has all its mandatory rows.
- `AttemptsAreCounted`: a dead letter was tried `MAX_ATTEMPTS` times, although
  overlapping ticks decide on stale counters (`DeadLettersWereTried`); and as long as two
  ticks have not worked on a row, it has its failed sends on it and an attempt left while
  it waits (`QueuedHasAttempts`).
- `NoDoubleSend`: duplicates come only from overlapping ticks or from a send whose
  success was not recorded, one each.
- `SentWasDelivered`: SENT only if a send reached the user.
- `RowsGoForward`: as long as two ticks have not worked on a row, it is only ever read
  once it was sent or given up. A row that was read goes back only if a tick had listed it before:
  the tick writes SENT, or DEAD_LETTER, over the READ.
- `EventsSettle`, `NotesLeaveQueue`: events settle for good, the queue drains.

Properties of `payments`:

- `CapturedAtGateway`: a row that says CAPTURED, or refunded, had its whole amount captured
  of the payment it was confirmed with, whichever order that belongs to; and between
  requests nothing was captured that the row does not show. The exceptions are a row
  in `crossed`, and for the second half an abandoned request or a lost answer.
- `PaysForOne`: a payment of the gateway confirms one row at most, to whichever rows its
  result is offered, and none is captured that confirmed no row; without exception.
- `RefundsCovered`: whatever goes wrong, refunds that say PROCESSED were paid back, and
  all of the money when the payment says REFUNDED; but for rows in `crossed`, whose refunds
  go to the payment named last.
- `RefundsReflected`: between requests the gateway paid back nothing else, and the
  payment's status tells how much, where no two decisions met and no two confirmations
  crossed. Two approvals at once can leave PARTIALLY_REFUNDED on a payment that was refunded
  in full.
- `PaymentFollowsRules`: every status change is one of `isAllowedPaymentTransition`,
  which no use case asks; where two decisions met or two confirmations crossed, it need
  not be (a captured row may be written AUTHORIZED again).
- `PaidBookingSaysSo`: the booking of an authorized payment says so.

Properties of `parts`:

- `OneSessionPerCode`: a code opens one session unless two verifications of it
  overlapped; a challenge consumed late, an abandoned sign-up and a second account of the
  same contact included.
- `AttemptsStayNearLimit`: the attempts counted exceed the limit by at most one for every
  request served besides, although each checks a counter it read before.
- `RotationReplaces`: a refreshed session is revoked for good and has one successor unless
  two refreshes of it overlapped.
- `SignOutEverywhereHolds`: a session that goes back, refresh by refresh, to a sign-in
  before a sign-out everywhere is dead, unless a request of the user was in flight.
- `AccountHasRole`, `AuditNamesStatus`: an account has its role and the audit log its
  status, except for requests that are in flight, met, or were abandoned.
- `ActiveIsVerified`: nothing of an active tutor is undecided, unless a request of the
  tutor had read the status before the decision.
- `SubmissionIsWhole`: what a submission that nothing disturbed leaves behind is complete.
- `RatingOwesPublications`: between requests the stored rating is that of the published
  reviews, but for the publications since, which the next recomputation adds; unless a
  recomputation was abandoned or overtook another.
- `SlotsApartUnlessMet`: slots of one day and mode overlap only if one was written by a
  request that had checked before another wrote.
- `WindowsAreSlotsMinusBreaks`: every unit of time of a slot that no break has is in
  exactly one window, no other is in any, and no window is empty, for every order of
  breaks.
- `AnsweredIsProcessed`: an event answered with success is recorded; and processed, unless
  it names a payment, a statement failed, or a delivery is in flight.
- `ScoreCountsFields`, `StudentNamesDiffer`, `NothingHalfMade`: score and fields agree,
  names are not doubled, and neither a profile without role nor a student without guardian
  is left, each with the exceptions the code has and no others.
- `ListIsPrefix`: a page of the search or of the administrators shows the first rows of
  its query, each once, and all of them when it says so, unless `mixed`.

**Why the bounds are enough.** Two requests are the least that can interleave, and
each pair of operations meets at each pair of statements; four arrivals allow the
longest chain of interest (create, accept, then two requests that meet, or create,
cancel and create again). Three slots let a reschedule move to an overlapping and to
a disjoint slot. Two ticks are the least that overlap, one fault and one lost answer
the least that make a retry; `MaxAttempts` is 2 instead of 5 so that a dead letter is
near. With a price of 2 a refund is partial or full and two refunds may make up the
payment; two payments of one booking are the least that a retry leads to, and the least
whose results can be exchanged. With one booking both orders have the same amount: that
the gateway refuses to capture more of a smaller order than was authorized takes two
bookings of different prices, which are out of the run's reach and are covered by the
theorems, which hold for any prices. The one
fault is either a lost answer or an abandoned request. Of the booking statuses, one
that is refundable and one that is not tell the guards apart. The clock (`MaxTime`) covers before, during and after a class. `MaxTime`,
`MaxArrivals`, `MaxFaults`, `MaxLost`, `Switchable` and `Written` are bounds of the model
and nothing else; the proofs hold for every value of them.

In `parts`, three ids are the rows of whatever table a component has: a session, its
successor and the successor's, or two successors of one; three documents for two required
types and one that is not; three reviews, two requests about them and one beside; three
weekly slots or breaks, and a day of three units of time, in which ranges can be disjoint,
touch, overlap and contain each other. Signing in is explored twice, with codes over two sessions and with
refreshing over three, because together they have many more states and show nothing more;
in the same way slots and breaks, and the tables of `Profiles`, which no statement
relates, are explored one by one. One contact suffices because no statement of `Sessions`
relates two accounts; a limit of two attempts is passed by two requests that meet. Three
events are one with an id, one with an id that names a payment, and one without. Five rows
with two to a page are two full pages and one that is not; the run of the reviews has six,
so that its pages are full. `MaxFaults`, `MaxSignOuts`, `MaxDeliveries`, `MaxRows` and
`Times` are bounds of the model.

**Symmetry.** Parents, booking ids and requests are interchangeable, and so are the
slots `s1` and `s2`, which have the same tutor and times; and payments, refunds and
requests in `MCPayments`; and ids and requests in `MCParts`. Only safety is checked with
symmetry (`RefinesLifecycle` has no fairness part); the liveness runs have none.

**Deadlock** is not checked for the booking runs: time and arrivals are bounded
there, so the model stops when they are used up; nor for `payments` and `parts`, where the
ids run out. The notification runs check it.

**Fairness.** `Bookings!FairSpec` and `Notifications!FairSpec` assume that a handler
or tick that is not abandoned goes on after each `await`, that the timer starts
ticks for ever (`setInterval` in `notification-worker.service.ts`), and that time
passes. Nothing is assumed of users, publishers, providers or faults. The liveness
run has one tick at a time: with two, `EventsSettle` is false, because a FAILED event
that is still in another tick's list is processed again and two ticks that overlap
for ever may take turns.

## 4. Findings

Seven runs are expected to find a counterexample; each contradicts a sentence of the
documentation, a comment or a test.

1. **Overlapping bookings can be accepted** (`bookings_overlap`). The check and the
   insert are separate statements, and accepting does not check again.
   `docs/SystemArchitecture.md:395`.
2. **A reservation may never end** (`bookings_reservation`). Create, cancel, create
   again: the slot is reserved, the insert fails on the unique slot id, nothing
   releases the slot and `reservedUntil` is read nowhere.
   `docs/SystemArchitecture.md:403`.
3. **A failed expansion is not retried** (`notifications_retry`). FAILED events get a
   `nextAttemptAt`, but `findPending` does not select FAILED; after a restart the
   retry meets its own idempotency keys. `apps/worker/README.md:5`.
4. **As wired, nothing is delivered** (`notifications_deployed`). Events expand to PUSH
   and IN_APP, the only provider is for LOGGING, so every row becomes a dead letter.
   `logging-notification.provider.ts:9`.

5. **A booking can be authorized twice** (`payments_double`). The retry closes FAILED and
   PENDING payments only; next to an AUTHORIZED one it makes a second order, and its
   verification authorizes that too.
   `docs/milestones/Milestone-11A-Payment-Module-Plan.md:616`, `:619`.
6. **A submitted case is not in the queue** (`verification_queue`). The repository's update
   writes no status, so the tutor stays a DRAFT, and the list of pending cases selects by
   status. `verification.use-cases.test.ts:94` expects `PENDING_VERIFICATION`, of a
   repository in memory.
7. **The queue of reviews repeats its second page** (`reviews_paging`). The next cursor is
   the length of the page and not its place. `docs/RestApiSpecification.md:16`, `:198`.

## 5. What is proved

`BookingsProofs` proves, for any number of slots, tutors, parents, bookings and
requests, any times and any bounds:

- `TypeCorrect`: `Spec => []TypeOK`.
- `InductiveInvariant`: `Spec => []IInv`.
- `ImplementsLifecycle`: `Spec => RefinesLifecycle`.
- `OverlapsMet`: `Spec => []NoOverlapUnlessMet`.
- `ReschedulingMoves`: `Spec => []RescheduleMoves`.
- `TrailComplete`: `Spec => []TrailIsComplete`.
- `HistoryTold`: `Spec => []HistoryIsChain`.
- `SlotsAgree`: `Spec => []SlotAgreesWithBooking`.

The assumptions are those of `Bookings`: slots have a tutor and an interval that is
not empty (`SlotAssumption`), the bounds are naturals (`BoundAssumption`) and `NULL`
is none of the ids (`NullAssumption`).

`TypeOK` is not inductive: `UpdateStatus` writes to `req[r].booking`, which the type
allows to be `NULL`, and the type would not be kept. `IInv` adds what holds of a
request at each statement (`RequestsOK`: it has the booking, slot or parent its next
statements need, the booking it read exists, and still has the slot it had) and that
no two bookings have the same slot (`SlotsUnique`, from the failing insert). Each step
of a request preserves the record of the others because a statement never changes the
slot of an existing booking, and never removes one.

For the refinement, `LInv` adds what the steps need to be steps of the lifecycle:
`MeetingsNoted` (two requests in flight on one slot have put `{s}` in `met`) and
`SeenIsCurrent` (while no requests have met on its slot, the status a request read is
still the booking's status until it writes it). `InsertBooking` is then the
abstract request, `UpdateStatus` a change along the table or an overwrite of a
disturbed slot, `Begin` may mark a slot disturbed, and all else stutters. `CHOOSE` in
`Phase` is determined by `SlotsUnique`.

The five safety properties each have an invariant of their own, on top of these two:

- `OverlapInv`: requests at work on slots near each other have met on them, and a request
  that has passed the overlap check, or is accepting, has met every active booking near
  the slot it is for, unless it is that slot's own.
- `MoveInv`: a request that has closed the booking it moves is, unless it met another on
  its slot, the only one that may give it a successor, and nobody has.
- `TrailInv`: a status that is not recorded is about to be, by a request that works on the
  booking's slot; abandoning that request tears the slot.
- `ChainInv`: the history of a booking leads to its status or, while one request is about
  to add its row, to the status that request read. `ChainGrows` and `ChainStarts` are the
  facts about sequences it needs.
- `SlotInv`: what a slot and its booking are to each other at each statement of the one
  request that works on them (`Asked` for the slot a request wants, `Held` for the slot of
  the booking it changes). `Route` says which statements accepting and completing pass
  through, so that no slot is released under a booking that is being accepted.

`PaymentsProofs` proves, for any number of bookings, payments, refunds and requests, any
prices and any bounds:

- `TypeCorrect`: `Spec => []TypeOK`.
- `CapturesAgree`: `Spec => []CapturedAtGateway`.
- `EachPaysForOne`: `Spec => []PaysForOne`.
- `PaidBookingsSaySo`: `Spec => []PaidBookingSaysSo`.
- `MoneyInvariant`: `Spec => []MInv`, and from it
- `RefundsAreCovered`: `Spec => []RefundsCovered`,
- `RefundsAreReflected`: `Spec => []RefundsReflected`,
- `PaymentsFollowRules`: `Spec => PaymentFollowsRules`.

The assumptions are those of `Payments`: prices are positive (`PriceAssumption`), the
booking use cases write statuses of theirs (`BoundAssumption`), `NULL` is none of the
ids (`NullAssumption`), and there are finitely many refund ids (`RefundsAssumption`: they
are UUIDs), without which a sum over them is nothing.

None of `TypeOK`, `CapturedAtGateway` and `PaidBookingSaysSo` is inductive. `MarkCaptured`
writes blindly, so that the row agrees with the gateway only because a request reaches that
statement after the gateway has captured, which `RequestsOK` says of every request. What
ties a row to a payment of the gateway is nothing that the use case checks, but the event of
the authorization (`Confirms`): its id is unique, so one row at most has it (`GatewayOK`),
and all that the gateway took, it took for that row and in the row's amount. `LedgerOK` says
that a row whose money moved has such an event for the payment it names, that a row
nobody confirmed has none, and that a row outside `crossed` has no other. `Agreed` is why:
confirmations of such a row that are in flight all bring the same payment, the row's own
if it has one, so that the late ones run into the event id and turn no captured row
back into an authorized one. A capture that the row does not show yet is held by a request or
torn (`CapturesKnown`), and so is an authorization the booking does not show
(`BookingsTold`). `EachPaysForOne` is read off `GatewayOK` and `LedgerOK` and needs no
exception. The proof has one lemma per statement; `Grows` says what no statement takes back
and keeps the other requests well-formed, and `SideStep` covers the statements that write
neither a payment's nor a booking's status.

The other three properties compare sums of refund amounts. `MInv` states, on top of `IInv`
and for each payment that is not in `crossed`, what its refund rows, its rules and the gateway's sums are to each
other at each statement of the requests that work on it. What it needs of a sum over a set
of refunds (that it is a natural number, grows with the set, and changes by the amount that
one refund changes by) is proved at the head of that part. A sum is a fold, a recursive
function on the subsets of the set; a fact about all finite sets is proved by taking a
smallest set of which it fails (`SmallestCounterexample`), for the proper subset relation on
the subsets of a finite set is well-founded. That replaces the induction theorems of the
library, which take an operator as a parameter and cannot be cited.

`NotificationsProofs` proves, for any number of events, users, channels and ticks, any limit
of attempts, and any number of faults and lost answers: `TypeCorrect`, `SentDelivered`,
`ProcessedExpanded`, `SentOnce`, `AttemptsCounted` (from `DeadTried` and `AttemptsLeft`) and
`RowsForward`, which state `TypeOK`, `SentWasDelivered`, `ProcessedIsExpanded`,
`NoDoubleSend`, `AttemptsAreCounted` and `RowsGoForward`. All rest on `TInv`: the types, and
what a tick has in its hands (one event at most, a position within its recipients, and only
rows that exist). On top of it

- `SentInv`: a tick that is recording a send has a row that reached its user.
- `DeadInv`: the failures counted cover the attempts of every row and of every row a tick
  has listed, or are as many as there may be. The decision is taken on the listed
  number, so the invariant has to speak of both.
- `ExpandInv`: whatever position a tick has passed, the row is there or need not be.
- `DoubleInv`: as long as two ticks have not worked on a row, one tick at most has it,
  once; and it reached its user at most as often as there were faults and lost answers
  while it may be sent again, and at most once more afterwards.
- `CountInv`: such a row, as a tick has it in hand, still has the attempts that were listed
  and is queued or was read. It rests on `DoubleInv`, for the tick that writes what came of
  a send must be the only one to have the row (`Released`). This is the half of
  `NotesLeaveQueue` that needs no fairness: each send settles the row, or uses up one of
  finitely many attempts, or is undone by a fault.

`SessionsProofs` proves, for any number of accounts, challenges, sessions and requests:
`TypeCorrect`, `RotationReplaces` (`RefreshReplaces`), `OneSessionPerCode` (`CodesOpenOne`),
`SignOutEverywhereHolds` (`SignOutReaches`), `AccountHasRole` (`RolesAssigned`),
`AuditNamesStatus` (`AuditAgrees`) and, for finitely many requests and a positive limit,
`AttemptsStayNearLimit` (`GuessingStops`). `Linking` is the common ground: the record of a
request names rows that exist and are as far as the request brought them, and a row is
never undone, so that a step of one request keeps the records of all others. `RotationInv`
and `CodeInv` add that a request about to issue a session is the only one that may for its
token or code, unless two met; `SignOutInv` that every chain of refreshes is revoked behind
its last link or has a request in flight; `AuditInv` that the last entry of the log is the
status or an administrator is at work. For `GuessingStops`, a count of the requests that
are comparing is added to the attempts counted.

`VerificationProofs`, `ReviewsProofs` and `WeeklyAvailabilityProofs` prove `TypeCorrect` and

- `ActiveVerified`, `SubmissionWhole`: a request that has not been told of a decision read
  a status that still holds, and a submission under way has covered what it has passed;
- `RatingOwes`: the rating and what requests have read to store are each the published
  reviews but for those owed, as long as nobody was overtaken;
- `SlotsApart`: a request that checked and was not told of a write conflicts with no slot;
- `SplitIsDifference`: what `Split` leaves of a window is the window minus the break, each
  unit of time in one part, for all integer times;
- `WindowsCorrect`: the windows are the slot minus all of its breaks
  (`WindowsAreSlotsMinusBreaks`).

Each assumes what the module's constants need: `NULL` is none of the ids; for
`SubmissionWhole`, that the required types are types; for `WindowsCorrect`, that there are
finitely many break ids and that times are integers.

The windows of a slot are a fold over its breaks, which is a recursive function on the sets
of breaks. That the recursion has a solution (`CutsExist`), that its values are settled by
it (`CutsAgree`), and that cutting one more break keeps the windows apart, not empty and
equal to the difference so far (`CutIsDifference`) are proved step by step; all sets of
breaks follow by a smallest counterexample, as for the sums of `Payments`.

`PartsProofs` is about `MCParts`, where the components that share no table are explored
together, for every value of its constants. It assumes what `MCParts` names: the required
documents are of types there are (`VerificationAssumption`); there are finitely many ids and
times are integers (`AvailabilityAssumption`); there are finitely many fields
(`ProfilesAssumption`); `NULL` is none of the events (`WebhooksAssumption`), names
and sets of fields (`ProfilesAssumption`) and no number, a page has a row at least, and the
query a list opens with is one of the queries (`ListsAssumption`). No size of a set or of a
page is fixed. It proves, of the three components that have no module of proofs of their
own,

- `WebhooksHold`: a delivery in flight keeps its row as received, and every row is processed,
  about to be marked, or excused by its event;
- `ProfilesHold`: a request that updates the profile and was not outrun has counted the
  fields that its write will leave (`Scored`); one that creates a student found nobody of the
  name (`Naming`), and is alone with the student it has not linked yet (`LinksApart`); what is
  half made is in the hands of a request or was abandoned (`BeingMade`);
- `ListsHold`: one request's answer at most will count (`OneAlive`); it asks for the query
  shown and goes on where the rows shown end, or starts over (`Continues`, `Asked`); and what
  is shown is the first rows of the query, up to the cursor (`Shows`). `RowsGoOn` and
  `PagesEnd` are the facts about sequences of rows that appending a page needs. Each is
  subject to what the code leaves open: a list of the administrators never aborts, so that
  answers may overtake one another (`mixed`), and the queue of reviews pages wrongly.

and then of the whole, that `PartsInvariant`, the conjunction of the components' inductive
invariants each in its part, holds always (`PartsKeepInvariant`). The three modules of proofs
above are instantiated with the variables of `MCParts`, and `VerificationIsTheSame`,
`ReviewsAreTheSame` and `AvailabilityIsTheSame` say that the definitions the instance speaks
of are the ones that are explored. Each property of the run `parts` is a theorem of
`PartsSpec`: `PartsTypeCorrect`, `ActiveVerified`, `SubmissionWhole`, `RatingOwes`,
`SlotsApart`, `WindowsCorrect`, `AnsweredProcessed`, `ScoreCounts`,
`NamesDiffer`, `MadeWhole` and `ListsShowPrefix`. The rest of that run's properties are of `Sessions`,
whose theorems carry over by `PartsImplement`: a behaviour of `PartsSpec` is one of
`Sessions`' `Spec`, and in each part one of the component's own specification. The part
`breaks` is the exception: it opens with a slot that is stored already, which `Init` of
`WeeklyAvailability` has not, so that its invariant is proved from that state (`OneSlot`).

Only model-checked: the two liveness properties, `EventsSettle` and `NotesLeaveQueue` of
`Notifications` under `FairSpec`, for the prover does not reason about fairness or ENABLED.
Every other property of a passing run is stated by a theorem. The properties of the runs that
expect a violation (section 4) are claims the code does not keep, and have none.

## 6. Plan

Done: the modules of section 2, and the theorems of section 5. Left, in this order:

1. **The safety half of `EventsSettle`**: that an event, once settled, is reopened only by a
   tick that had it in its list before, which needs a history of the ticks that met on an
   event as `shared` is one for rows; fairness then only has to be added.
2. **Recovery**: the models go on after a torn slot, a failed event and an active tutor whose
   documents were reopened, but no property says which later request repairs the damage.
3. **The web client's forms**: what a submitted form does when its request fails after the
   server has written, along the lines of `ListPages`.

## 7. Not modelled

- *Blackouts, qualifications, languages, service areas, the parent's own profile*: one
  statement on one row behind an ownership check; nothing relates them to anything.
- *The subjects a tutor offers*: adding one never succeeds as the API is wired
  (`tutor-subject.use-cases.ts:22-48`). The subject is looked for by slug, and when there is
  none by `findById`, which `PrismaSubjectRepository` does not have, so that a subject's id
  throws; a slug passes the lookup and is inserted as `subjectId`, a foreign key to
  `Subject.id`, so that the insert fails. No other code makes a `TutorSubject` row, and
  listing and removing have nothing to act on. The tests of the use case pass with
  repositories in memory.
- *The list of notifications in the web client* is requested without an access token and is
  always refused; *the checkout* never opens, for the order carries no key. Neither has
  states worth a model.
- *Redis cache*: a cached answer is bounded by its time to live and nothing else; the
  models have no clock to bound it with.
- *Ordering and cancelling a payment*: the one is never enabled, the other always throws
  (section 2, Payments). *The expiry of bookings* returns without touching anything.
  *Concrete slots* are created by no code path.
- *Search and catalog* only read; their pages are in `ListPages`. The rest of the front
  ends and the API shell translate input. The schema and configuration are declarations, of
  which the unique keys that statements run into are part of those statements.
- Hashes, access tokens, templates, files, texts and prices beyond an amount are data that
  no property tells apart. Of a signature only this is modelled: it vouches that a checkout
  took place, and not for which row it is (section 2, Payments).
