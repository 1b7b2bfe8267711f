-------------------------- MODULE BookingLifecycle --------------------------
(***************************************************************************)
(* What the booking module promises of the booking made for a slot: it is  *)
(* requested once, follows the transition table (or is cancelled by an     *)
(* admin) one atomic step at a time, and is final once closed.  Where two  *)
(* requests worked on the slot at the same time the promise is weaker: a   *)
(* status decided on by either may overwrite what the other wrote, but the *)
(* booking neither disappears nor becomes a fresh request again.           *)
(***************************************************************************)
EXTENDS BookingRules

CONSTANT Slots

VARIABLES
  phase,     \* status of the slot's booking, "NONE" while there is none
  disturbed  \* slots on which requests have overlapped in time

Init ==
  /\ phase = [s \in Slots |-> "NONE"]
  /\ disturbed = {}

Request(s) ==
  /\ phase[s] = "NONE"
  /\ phase' = [phase EXCEPT ![s] = "REQUESTED"]
  /\ UNCHANGED disturbed

MayBecome(current, next) ==
  \/ IsAllowedTransition(current, next)
  \/ next = "CANCELLED_BY_ADMIN" /\ current \in AdminCancellableStatuses

Change(s, next) ==
  /\ s \notin disturbed
  /\ MayBecome(phase[s], next)
  /\ phase' = [phase EXCEPT ![s] = next]
  /\ UNCHANGED disturbed

Overwrite(s, next) ==
  /\ s \in disturbed
  /\ phase[s] # "NONE"
  /\ phase' = [phase EXCEPT ![s] = next]
  /\ UNCHANGED disturbed

Disturb(more) ==
  /\ disturbed' = disturbed \union more
  /\ UNCHANGED phase

Next ==
  \/ \E s \in Slots :
       \/ Request(s)
       \/ \E next \in Status \ {"REQUESTED"} : Change(s, next) \/ Overwrite(s, next)
  \/ \E more \in SUBSET Slots : Disturb(more)

Spec == Init /\ [][Next]_<<phase, disturbed>>
=============================================================================
