---------------------------- MODULE BookingRules ----------------------------
(***************************************************************************)
(* The pure rules of the booking module: booking statuses, the transition  *)
(* table of the lifecycle and the overlap of two time ranges.              *)
(***************************************************************************)
EXTENDS Integers

\* Statuses a booking row takes in the flows of the booking and admin modules.
\* "NONE" stands for the null of a row that does not exist yet.
Closed == {"REJECTED", "CANCELLED_BY_PARENT", "CANCELLED_BY_TUTOR",
           "CANCELLED_BY_ADMIN", "RESCHEDULED"}
Active == {"REQUESTED", "ACCEPTED"}
Status == Active \union Closed \union {"COMPLETED"}

AllowedTransitions ==
  [ REQUESTED           |-> {"ACCEPTED", "REJECTED", "CANCELLED_BY_PARENT",
                             "CANCELLED_BY_TUTOR", "EXPIRED"},
    ACCEPTED            |-> {"COMPLETED", "CANCELLED_BY_PARENT",
                             "CANCELLED_BY_TUTOR", "RESCHEDULED"},
    REJECTED            |-> {},
    CANCELLED_BY_PARENT |-> {},
    CANCELLED_BY_TUTOR  |-> {},
    COMPLETED           |-> {},
    RESCHEDULED         |-> {},
    EXPIRED             |-> {} ]

\* A status without an entry (CANCELLED_BY_ADMIN) allows nothing.
IsAllowedTransition(current, next) ==
  /\ current \in DOMAIN AllowedTransitions
  /\ next \in AllowedTransitions[current]

\* The list the parent's and the tutor's cancel check instead of the table.
CancellableStatuses == {"REQUESTED", "ACCEPTED"}

\* The admin's list; nothing writes the last two statuses.
AdminCancellableStatuses == {"REQUESTED", "ACCEPTED", "SCHEDULED", "IN_PROGRESS"}

\* Half-open ranges: a class may start when another ends.
RangesOverlap(startA, endA, startB, endB) == startA < endB /\ startB < endA
=============================================================================
