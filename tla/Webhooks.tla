------------------------------ MODULE Webhooks ------------------------------
(***************************************************************************)
(* The receiver of the payment provider's events.                          *)
(*                                                                         *)
(* The provider delivers an event at least once and again while it is not  *)
(* answered with success.  A delivery that is known is answered at once.   *)
(* Signatures and payloads are left out; the events here are signed.  No   *)
(* table of Payments changes: the one statement that would write a row of  *)
(* a payment's trail gives it a status its column does not admit.          *)
(***************************************************************************)
EXTENDS Naturals, FiniteSets

CONSTANTS
  Events,         \* what happened at the provider
  Named,          \* events that carry an id; the others get one per delivery
  OfPayment,      \* events that name a payment
  Rows,           \* ids of PaymentWebhookEvent rows
  Requests,       \* deliveries served at the same time
  MaxDeliveries,  \* bound on the deliveries of one event
  MaxFaults,      \* bound on failing statements
  NULL

VARIABLES
  rows,        \* PaymentWebhookEvent: status and event
  requests,    \* the deliveries in flight
  deliveries,  \* the provider: how often it delivered an event
  answered,    \* the provider: events answered with success
  torn,        \* history: events with a delivery during which a statement failed
  faults       \* failed statements so far

vars == <<rows, requests, deliveries, answered, torn, faults>>

NoRow == [status |-> "NONE", event |-> NULL]
Idle == [pc |-> "idle", event |-> NULL, row |-> NULL]

INSTANCE RequestSteps

RowsOf(e) == {w \in Rows : rows[w].event = e}
Known(e) == e \in Named /\ RowsOf(e) # {}
BeingServed(e) == \E r \in Requests : requests[r].event = e

-----------------------------------------------------------------------------
\* A delivery that is known is a success, whatever became of the one before.
Receive(r, e) ==
  /\ At(r, "idle")
  /\ deliveries[e] < MaxDeliveries
  /\ deliveries' = [deliveries EXCEPT ![e] = @ + 1]
  /\ IF Known(e)
       THEN answered' = answered \union {e} /\ UNCHANGED requests
       ELSE Begin(r, [Idle EXCEPT !.pc = "save", !.event = e]) /\ UNCHANGED answered
  /\ UNCHANGED <<rows, torn, faults>>

\* Of two deliveries at once the second insert fails on the unique id.
Save(r, w) ==
  /\ At(r, "save")
  /\ rows[w] = NoRow
  /\ LET e == requests[r].event IN
     IF Known(e)
       THEN Finish(r) /\ UNCHANGED rows
       ELSE /\ rows' = [rows EXCEPT ![w] = [status |-> "RECEIVED", event |-> e]]
            /\ requests' = [requests EXCEPT ![r].row = w,
                                            ![r].pc = IF e \in OfPayment THEN "fail" ELSE "mark"]
  /\ UNCHANGED <<deliveries, answered, torn, faults>>

\* Mutant: the row is left as it was received.
MarkNothing(r) ==
  /\ At(r, "mark")
  /\ answered' = answered \union {requests[r].event}
  /\ Finish(r)
  /\ UNCHANGED <<rows, deliveries, torn, faults>>

MarkProcessed(r) ==
  /\ At(r, "mark")
  /\ rows' = [rows EXCEPT ![requests[r].row].status = "PROCESSED"]
  /\ answered' = answered \union {requests[r].event}
  /\ Finish(r)
  /\ UNCHANGED <<deliveries, torn, faults>>

\* Marking the row as failed, and answering with the error.
MarkFailed(r) ==
  /\ At(r, "fail")
  /\ rows' = [rows EXCEPT ![requests[r].row].status = "FAILED"]
  /\ Finish(r)
  /\ UNCHANGED <<deliveries, answered, torn, faults>>

\* A statement fails: that of the mark is reported on the row, others end the
\* delivery.  Or the process stops.
StatementFails(r) ==
  /\ ~At(r, "idle")
  /\ faults < MaxFaults
  /\ faults' = faults + 1
  /\ torn' = torn \union {requests[r].event}
  /\ Finish(r) \/ (At(r, "mark") /\ Continue(r, "fail"))
  /\ UNCHANGED <<rows, deliveries, answered>>

Init ==
  /\ rows = [w \in Rows |-> NoRow]
  /\ requests = [r \in Requests |-> Idle]
  /\ deliveries = [e \in Events |-> 0]
  /\ answered = {} /\ torn = {} /\ faults = 0

Next ==
  \E r \in Requests :
    \/ \E e \in Events : Receive(r, e)
    \/ \E w \in Rows : Save(r, w)
    \/ MarkProcessed(r) \/ MarkFailed(r) \/ StatementFails(r)

Spec == Init /\ [][Next]_vars

-----------------------------------------------------------------------------
(* Properties. *)

\* Every row and every delivery holds a value of its type.
TypeOK ==
  /\ rows \in [Rows -> [status : {"NONE", "RECEIVED", "PROCESSED", "FAILED"},
                        event : Events \union {NULL}]]
  /\ requests \in [Requests -> [pc : {"idle", "save", "mark", "fail"},
                                event : Events \union {NULL}, row : Rows \union {NULL}]]
  /\ deliveries \in [Events -> Nat]
  /\ answered \subseteq Events /\ torn \subseteq Events /\ faults \in Nat

\* An event the provider was told is received, and will not deliver again, is
\* recorded; it is processed, unless it names a payment, a statement of a
\* delivery failed, or a delivery is in flight.
AnsweredIsProcessed ==
  \A e \in answered :
    /\ RowsOf(e) # {}
    /\ \/ e \in OfPayment \/ e \in torn \/ BeingServed(e)
       \/ \A w \in RowsOf(e) : rows[w].status = "PROCESSED"
=============================================================================
