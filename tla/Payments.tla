------------------------------ MODULE Payments ------------------------------
(***************************************************************************)
(* Payments and refunds of bookings, against a gateway that moves the      *)
(* money.                                                                  *)
(*                                                                         *)
(* As in Bookings a request executes one statement or gateway call per     *)
(* step, acts on what it read first, and may be abandoned between two      *)
(* steps.  The booking use cases run beside it: what they may do to a      *)
(* booking is taken from BookingLifecycle, and they too decide on the      *)
(* status they read before they write.                                     *)
(*                                                                         *)
(* Some statements of the use cases always throw, for the columns and      *)
(* enumerations of the schema do not admit what they write.  Where such a  *)
(* statement comes first the operation has no effect and is no action:     *)
(* cancelling a payment, failing its verification, and retrying while a    *)
(* payment of the booking is open.  Ordering is no action either: it asks  *)
(* for a booking status that nothing sets.                                 *)
(*                                                                         *)
(* A key that makes an order idempotent only makes an insert fail, as      *)
(* Abandon does.  Webhooks change no row of these tables.                  *)
(***************************************************************************)
EXTENDS BookingRules, FiniteSetsExt

CONSTANTS
  Bookings,   \* bookings with a parent who pays
  Payments,   \* ids of Payment rows, and of the gateway's payments of their orders
  Refunds,    \* ids of Refund rows
  Requests,   \* requests the API serves at the same time
  Price,      \* the price of each booking
  Written,    \* bound: the statuses the booking use cases write
  MaxFaults,  \* bound on abandoned requests and lost answers
  NULL

ASSUME PriceAssumption == Price \in [Bookings -> Nat \ {0}]

ASSUME BoundAssumption ==
  Written \subseteq Closed \union {"ACCEPTED", "COMPLETED"} /\ MaxFaults \in Nat

\* Ids are UUIDs, of which there are finitely many.
ASSUME RefundsAssumption == IsFiniteSet(Refunds)

ASSUME NullAssumption == NULL \notin Bookings \union Payments \union Refunds

VARIABLES
  booking,   \* Booking: status
  decided,   \* status a booking use case in flight is about to write, or "NONE"
  payments,  \* Payment: status, booking, and the gateway's payment it was
             \* confirmed with (providerPaymentId)
  trail,     \* PaymentTransaction: per payment, its events with an event id, which
             \* names the order, the gateway's payment or the refund
  refunds,   \* Refund: status, payment and amount
  gateway,   \* the gateway: state of each payment, what it took and gave back
  req,       \* the payment requests in flight
  faults,    \* abandoned requests and lost answers so far
  raced,     \* history: bookings a booking use case wrote to although the
             \* status it had read was no longer there
  met,       \* history: payments two refund decisions worked on at once
  crossed,   \* history: payments confirmed at once with different payments of
             \* the gateway
  torn       \* history: payments on which a request was abandoned, or the
             \* gateway's answer lost

tables == <<payments, trail, refunds>>
history == <<raced, met, crossed, torn>>
vars == <<booking, decided, payments, trail, refunds, gateway, req, faults, raced,
          met, crossed, torn>>

BookingStatus == Status \union {"PAYMENT_AUTHORIZED", "REFUNDED"}

PaymentTransitions ==
  [ PENDING            |-> {"AUTHORIZED", "FAILED", "CANCELLED"},
    AUTHORIZED         |-> {"CAPTURED", "FAILED", "CANCELLED"},
    CAPTURED           |-> {"REFUNDED", "PARTIALLY_REFUNDED"},
    FAILED             |-> {"PENDING", "CANCELLED"},
    CANCELLED          |-> {"PENDING"},
    REFUNDED           |-> {},
    PARTIALLY_REFUNDED |-> {"REFUNDED"} ]

PaymentStatus == {"PENDING", "AUTHORIZED", "CAPTURED", "REFUNDED", "PARTIALLY_REFUNDED"}
RefundStatus == {"REQUESTED", "PROCESSED", "REJECTED"}

RefundableBookingStatuses ==
  {"CANCELLED_BY_PARENT", "CANCELLED_BY_TUTOR", "CANCELLED_BY_ADMIN",
   "COMPLETED", "REFUNDED"}

NoPayment == [status |-> "NONE", booking |-> NULL, paidBy |-> NULL]
NoRefund == [status |-> "NONE", payment |-> NULL, amount |-> 0]
NoMoney == [state |-> "none", captured |-> 0, refunded |-> 0]

Ops == {"retry", "verify", "capture", "initiate", "approve", "reject"}

Pcs == {"idle", "insert", "ordered", "authorize", "paid", "capture",
        "captureFailed", "captured", "captureRow", "createRefund",
        "gatewayRefund", "sum", "processed", "refunded", "refundRow", "close",
        "reject"}

\* paidBy is the gateway's payment in hand; full says that the refund in hand
\* makes up the whole payment.
Idle == [pc |-> "idle", op |-> "retry", booking |-> NULL, payment |-> NULL,
         paidBy |-> NULL, refund |-> NULL, amount |-> 0, full |-> FALSE]

-----------------------------------------------------------------------------
\* The amount of a row, and of the order that was made for it at the gateway.
AmountOf(p) == Price[payments[p].booking]

\* The gateway's payment of a row: the one it was confirmed with.
AtGateway(p) ==
  IF payments[p].paidBy = NULL THEN NoMoney ELSE gateway[payments[p].paidBy]

PaymentsOf(b) == {p \in Payments : payments[p].booking = b}

SumRefunds(set) == SumFunctionOnSet([f \in Refunds |-> refunds[f].amount], set)

RefundsOf(p) == {f \in Refunds : refunds[f].payment = p}
Processed(set) == {f \in set : refunds[f].status = "PROCESSED"}

\* Both carry the provider's payment id, and the id of an event is unique.
EventIdTaken(g) ==
  \E p \in Payments :
    trail[p] \intersect {<<"PAYMENT_AUTHORIZED", g>>, <<"PAYMENT_CAPTURED", g>>} # {}

InFlight(r) == req[r].pc # "idle"
InFlightOn(p) == \E r \in Requests : InFlight(r) /\ req[r].payment = p

DecidingOn(p) == \E r \in Requests : InFlight(r) /\ req[r].payment = p
                                               /\ req[r].op \in {"approve", "reject"}

ConfirmedWithAnother(p, g) ==
  \E r \in Requests : req[r].pc = "authorize" /\ req[r].payment = p /\ req[r].paidBy # g

Init ==
  /\ booking = [b \in Bookings |-> "REQUESTED"]
  /\ decided = [b \in Bookings |-> "NONE"]
  /\ payments = [p \in Payments |-> NoPayment]
  /\ trail = [p \in Payments |-> {}]
  /\ refunds = [f \in Refunds |-> NoRefund]
  /\ gateway = [p \in Payments |-> NoMoney]
  /\ req = [r \in Requests |-> Idle]
  /\ faults = 0
  /\ raced = {}
  /\ met = {}
  /\ crossed = {}
  /\ torn = {}

-----------------------------------------------------------------------------
(* The booking use cases *)

Lifecycle == INSTANCE BookingLifecycle
  WITH Slots <- Bookings, phase <- booking, disturbed <- raced

\* One has read the booking and checked that it may write next ...
DecideBooking(b, next) ==
  /\ decided[b] = "NONE"
  /\ Lifecycle!MayBecome(booking[b], next)
  /\ decided' = [decided EXCEPT ![b] = next]
  /\ UNCHANGED <<booking, tables, gateway, req, faults, history>>

\* ... and writes it, whatever the status has become.
WriteBooking(b) ==
  /\ decided[b] # "NONE"
  /\ booking' = [booking EXCEPT ![b] = decided[b]]
  /\ decided' = [decided EXCEPT ![b] = "NONE"]
  /\ raced' = raced \union
       {c \in {b} : ~Lifecycle!MayBecome(booking[b], decided[b])}
  /\ UNCHANGED <<tables, gateway, req, faults, met, crossed, torn>>

\* The parent pays the order at the gateway.
Checkout(p) ==
  /\ gateway[p].state = "created"
  /\ <<"ORDER_CREATED", NULL>> \in trail[p]
  /\ gateway' = [gateway EXCEPT ![p].state = "authorized"]
  /\ UNCHANGED <<booking, decided, tables, req, faults, history>>

-----------------------------------------------------------------------------
(* Requests: the first reads are the guards, what follows is a statement. *)

Begin(r, request) ==
  /\ ~InFlight(r)
  /\ req' = [req EXCEPT ![r] = request]
  /\ UNCHANGED <<booking, decided, tables, gateway, faults, raced, torn>>

RetryPayment(r, b) ==
  /\ \A p \in PaymentsOf(b) : payments[p].status # "PENDING"
  /\ Begin(r, [Idle EXCEPT !.pc = "insert", !.op = "retry", !.booking = b])
  /\ UNCHANGED <<met, crossed>>

\* The client confirms with a signed result of a checkout.  That it signs is all
\* that is asked: the order it belongs to is not compared with the row's own.
VerifyPayment(r, p, g) ==
  /\ payments[p].status = "PENDING"
  /\ gateway[g].state = "authorized"
  /\ Begin(r, [Idle EXCEPT !.pc = "authorize", !.op = "verify", !.paidBy = g,
                           !.booking = payments[p].booking, !.payment = p])
  /\ crossed' = crossed \union {q \in {p} : ConfirmedWithAnother(q, g)}
  /\ UNCHANGED met

CapturePayment(r, p) ==
  /\ payments[p].status = "AUTHORIZED"
  /\ Begin(r, [Idle EXCEPT !.pc = "capture", !.op = "capture", !.payment = p,
                           !.paidBy = payments[p].paidBy])
  /\ UNCHANGED <<met, crossed>>

\* Captured payments of the booking, less what its refunds gave back.  The refund
\* goes to the newest captured payment; here to any.
Available(b) ==
  LET captured == {p \in PaymentsOf(b) : payments[p].status = "CAPTURED"} IN
    MapThenSumSet(AmountOf, captured)
      - SumRefunds(Processed(UNION {RefundsOf(p) : p \in PaymentsOf(b)}))

InitiateRefund(r, b, p, amount) ==
  /\ booking[b] \in RefundableBookingStatuses
  /\ p \in PaymentsOf(b)
  /\ payments[p].status = "CAPTURED"
  /\ amount > 0
  /\ amount <= Available(b)
  /\ Begin(r, [Idle EXCEPT !.pc = "createRefund", !.op = "initiate",
                           !.booking = b, !.payment = p, !.amount = amount])
  /\ UNCHANGED <<met, crossed>>

Decision(r, op, first, f) ==
  /\ refunds[f].status = "REQUESTED"
  /\ Begin(r, [Idle EXCEPT !.pc = first, !.op = op, !.refund = f,
                           !.payment = refunds[f].payment,
                           !.paidBy = payments[refunds[f].payment].paidBy,
                           !.booking = payments[refunds[f].payment].booking,
                           !.amount = refunds[f].amount])
  /\ met' = met \union {p \in {refunds[f].payment} : DecidingOn(p)}
  /\ UNCHANGED crossed

ApproveRefund(r, f) == Decision(r, "approve", "gatewayRefund", f)
RejectRefund(r, f) == Decision(r, "reject", "reject", f)

-----------------------------------------------------------------------------
(* Statements and gateway calls of a request in flight *)

At(r, pc) == req[r].pc = pc
Goto(r, pc) == req' = [req EXCEPT ![r].pc = pc]
Finish(r) == req' = [req EXCEPT ![r] = Idle]

Pay(r) == req[r].payment
PaidBy(r) == req[r].paidBy

Fault(spoilt) ==
  /\ faults < MaxFaults
  /\ faults' = faults + 1
  /\ torn' = torn \union spoilt

\* The gateway's order and the row that names it: an order without a row is
\* never paid.
InsertPayment(r) ==
  /\ At(r, "insert")
  /\ \E p \in Payments :
       /\ payments[p].status = "NONE"
       /\ payments' = [payments EXCEPT ![p] =
                         [status |-> "PENDING", booking |-> req[r].booking,
                          paidBy |-> NULL]]
       /\ gateway' = [gateway EXCEPT ![p].state = "created"]
       /\ req' = [req EXCEPT ![r] = [@ EXCEPT !.pc = "ordered", !.payment = p]]
  /\ UNCHANGED <<booking, decided, trail, refunds, faults, history>>

AddTransaction(p, event) == trail' = [trail EXCEPT ![p] = @ \union {event}]

RecordOrder(r) ==
  /\ At(r, "ordered")
  /\ AddTransaction(Pay(r), <<"ORDER_CREATED", NULL>>)
  /\ Finish(r)
  /\ UNCHANGED <<booking, decided, payments, refunds, gateway, faults, history>>

MarkAuthorized(r) ==
  /\ payments' = [payments EXCEPT ![Pay(r)] =
                    [@ EXCEPT !.status = "AUTHORIZED", !.paidBy = PaidBy(r)]]
  /\ AddTransaction(Pay(r), <<"PAYMENT_AUTHORIZED", PaidBy(r)>>)

\* Mutant: neither the event id of an authorization nor the row's payment id is
\* unique.
AuthorizeAgain(r) ==
  /\ At(r, "authorize")
  /\ MarkAuthorized(r)
  /\ Goto(r, "paid")
  /\ UNCHANGED <<booking, decided, refunds, gateway, faults, history>>

\* Mutant: the booking is not told.
AuthorizeQuietly(r) ==
  /\ At(r, "authorize")
  /\ IF EventIdTaken(PaidBy(r)) THEN UNCHANGED <<payments, trail>> ELSE MarkAuthorized(r)
  /\ Finish(r)
  /\ UNCHANGED <<booking, decided, refunds, gateway, faults, history>>

\* Row and transaction row in one database transaction, whatever the row's
\* status has become: it is rolled back when the event id is taken.
Authorize(r) ==
  /\ At(r, "authorize")
  /\ IF EventIdTaken(PaidBy(r))
     THEN Finish(r) /\ UNCHANGED <<payments, trail>>
     ELSE MarkAuthorized(r) /\ Goto(r, "paid")
  /\ UNCHANGED <<booking, decided, refunds, gateway, faults, history>>

MarkBookingPaid(r) ==
  /\ At(r, "paid")
  /\ booking' = [booking EXCEPT ![req[r].booking] = "PAYMENT_AUTHORIZED"]
  /\ Finish(r)
  /\ UNCHANGED <<decided, tables, gateway, faults, history>>

\* The gateway captures a payment once, and no more than was authorized: what is
\* asked for is the amount of the row.
GatewayCaptures(r) ==
  /\ gateway[PaidBy(r)].state = "authorized"
  /\ gateway[PaidBy(r)].captured = 0
  /\ AmountOf(Pay(r)) <= AmountOf(PaidBy(r))
  /\ gateway' = [gateway EXCEPT ![PaidBy(r)].captured = AmountOf(Pay(r))]

\* Mutant: the gateway's refusal is not looked at.
GatewayCaptureUnseen(r) ==
  /\ At(r, "capture")
  /\ Goto(r, "captured")
  /\ UNCHANGED gateway \/ GatewayCaptures(r)
  /\ UNCHANGED <<booking, decided, tables, faults, history>>

\* It may refuse, and a capture whose answer is lost counts as refused too.
GatewayCapture(r) ==
  /\ At(r, "capture")
  /\ \/ /\ Goto(r, "captureFailed")
        /\ UNCHANGED <<gateway, faults, torn>>
     \/ /\ GatewayCaptures(r)
        /\ \/ Goto(r, "captured") /\ UNCHANGED <<faults, torn>>
           \/ Goto(r, "captureFailed") /\ Fault({Pay(r)})
  /\ UNCHANGED <<booking, decided, tables, raced, met, crossed>>

\* The row of a failure has no event id: trail leaves it out.
RecordCaptureFailure(r) ==
  /\ At(r, "captureFailed")
  /\ Finish(r)
  /\ UNCHANGED <<booking, decided, tables, gateway, faults, history>>

MarkCaptured(r) ==
  /\ At(r, "captured")
  /\ payments' = [payments EXCEPT ![Pay(r)].status = "CAPTURED"]
  /\ Goto(r, "captureRow")
  /\ UNCHANGED <<booking, decided, trail, refunds, gateway, faults, history>>

\* The row repeats the event id of the authorization, and the insert throws.
RecordCapture(r) ==
  /\ At(r, "captureRow")
  /\ IF EventIdTaken(PaidBy(r))
     THEN UNCHANGED trail
     ELSE AddTransaction(Pay(r), <<"PAYMENT_CAPTURED", PaidBy(r)>>)
  /\ Finish(r)
  /\ UNCHANGED <<booking, decided, payments, refunds, gateway, faults, history>>

\* The transaction row that follows has a status outside its enumeration: the
\* request throws after the refund row was made.
CreateRefund(r) ==
  /\ At(r, "createRefund")
  /\ \E f \in Refunds :
       /\ refunds[f].status = "NONE"
       /\ refunds' = [refunds EXCEPT ![f] =
            [status |-> "REQUESTED", payment |-> Pay(r), amount |-> req[r].amount]]
  /\ Finish(r)
  /\ UNCHANGED <<booking, decided, payments, trail, gateway, faults, history>>

\* The gateway gives back no more than it captured.
GatewayRefunds(r) ==
  /\ gateway[PaidBy(r)].refunded + req[r].amount <= gateway[PaidBy(r)].captured
  /\ gateway' = [gateway EXCEPT ![PaidBy(r)].refunded = @ + req[r].amount]

\* Mutant: the refund is recorded although the gateway refused it.
GatewayRefundUnseen(r) ==
  /\ At(r, "gatewayRefund")
  /\ Goto(r, "sum")
  /\ UNCHANGED gateway \/ GatewayRefunds(r)
  /\ UNCHANGED <<booking, decided, tables, faults, history>>

\* It may refuse, and its answer may be lost: then the request throws.
GatewayRefund(r) ==
  /\ At(r, "gatewayRefund")
  /\ \/ Finish(r) /\ UNCHANGED <<gateway, faults, torn>>
     \/ /\ GatewayRefunds(r)
        /\ \/ Goto(r, "sum") /\ UNCHANGED <<faults, torn>>
           \/ Finish(r) /\ Fault({Pay(r)})
  /\ UNCHANGED <<booking, decided, tables, raced, met, crossed>>

\* Mutant: refunds that are only requested count too.
SumUpRequested(r) ==
  /\ At(r, "sum")
  /\ req' = [req EXCEPT ![r] = [@ EXCEPT !.pc = "processed",
               !.full = SumRefunds(RefundsOf(Pay(r))) >= AmountOf(Pay(r))]]
  /\ UNCHANGED <<booking, decided, tables, gateway, faults, history>>

SumUp(r) ==
  /\ At(r, "sum")
  /\ LET counted == Processed(RefundsOf(Pay(r))) \union {req[r].refund} IN
       req' = [req EXCEPT ![r] = [@ EXCEPT !.pc = "processed",
                 !.full = SumRefunds(counted) >= AmountOf(Pay(r))]]
  /\ UNCHANGED <<booking, decided, tables, gateway, faults, history>>

\* Mutant: an approved refund is APPROVED.
UpdateRefundStatusApproved(r) ==
  /\ \/ At(r, "processed") /\ Goto(r, "refunded")
                           /\ refunds' = [refunds EXCEPT ![req[r].refund].status = "APPROVED"]
     \/ At(r, "reject") /\ Finish(r)
                        /\ refunds' = [refunds EXCEPT ![req[r].refund].status = "REJECTED"]
  /\ UNCHANGED <<booking, decided, payments, trail, gateway, faults, history>>

UpdateRefundStatus(r) ==
  /\ \/ At(r, "processed") /\ Goto(r, "refunded")
                           /\ refunds' = [refunds EXCEPT ![req[r].refund].status = "PROCESSED"]
     \/ At(r, "reject") /\ Finish(r)
                        /\ refunds' = [refunds EXCEPT ![req[r].refund].status = "REJECTED"]
  /\ UNCHANGED <<booking, decided, payments, trail, gateway, faults, history>>

MarkRefunded(r) ==
  /\ At(r, "refunded")
  /\ payments' = [payments EXCEPT ![Pay(r)].status =
                    IF req[r].full THEN "REFUNDED" ELSE "PARTIALLY_REFUNDED"]
  /\ Goto(r, "refundRow")
  /\ UNCHANGED <<booking, decided, trail, refunds, gateway, faults, history>>

RecordRefund(r) ==
  /\ At(r, "refundRow")
  /\ AddTransaction(Pay(r), <<"REFUND_PROCESSED", req[r].refund>>)
  /\ IF req[r].full THEN Goto(r, "close") ELSE Finish(r)
  /\ UNCHANGED <<booking, decided, payments, refunds, gateway, faults, history>>

MarkBookingRefunded(r) ==
  /\ At(r, "close")
  /\ booking' = [booking EXCEPT ![req[r].booking] = "REFUNDED"]
  /\ Finish(r)
  /\ UNCHANGED <<decided, tables, gateway, faults, history>>

\* The process dies or a statement fails: nothing undoes the earlier ones.
Abandon(r) ==
  /\ InFlight(r)
  /\ Fault({Pay(r)} \ {NULL})
  /\ Finish(r)
  /\ UNCHANGED <<booking, decided, tables, gateway, raced, met, crossed>>

-----------------------------------------------------------------------------
Arrive(r) ==
  \/ \E b \in Bookings :
       \/ RetryPayment(r, b)
       \/ \E p \in Payments, amount \in 1..Available(b) : InitiateRefund(r, b, p, amount)
  \/ \E p \in Payments :
       CapturePayment(r, p) \/ \E g \in Payments : VerifyPayment(r, p, g)
  \/ \E f \in Refunds : ApproveRefund(r, f) \/ RejectRefund(r, f)

Statement(r) ==
  \/ InsertPayment(r)
  \/ RecordOrder(r)
  \/ Authorize(r)
  \/ MarkBookingPaid(r)
  \/ GatewayCapture(r)
  \/ RecordCaptureFailure(r)
  \/ MarkCaptured(r)
  \/ RecordCapture(r)
  \/ CreateRefund(r)
  \/ GatewayRefund(r)
  \/ SumUp(r)
  \/ UpdateRefundStatus(r)
  \/ MarkRefunded(r)
  \/ RecordRefund(r)
  \/ MarkBookingRefunded(r)

Next ==
  \/ \E b \in Bookings :
       WriteBooking(b) \/ \E next \in Written : DecideBooking(b, next)
  \/ \E p \in Payments : Checkout(p)
  \/ \E r \in Requests : Arrive(r) \/ Statement(r) \/ Abandon(r)

Spec == Init /\ [][Next]_vars

-----------------------------------------------------------------------------
(* Properties *)

PaymentRow == [status : PaymentStatus, booking : Bookings, paidBy : Payments \union {NULL}]
RefundRow == [status : RefundStatus, payment : Payments, amount : Nat \ {0}]

Event == ({"ORDER_CREATED"} \X {NULL})
           \union ({"PAYMENT_AUTHORIZED", "PAYMENT_CAPTURED"} \X Payments)
           \union ({"REFUND_PROCESSED"} \X Refunds)

GatewayPayment == [state : {"none", "created", "authorized"}, captured : Nat, refunded : Nat]

Request == [pc : Pcs, op : Ops, booking : Bookings \union {NULL},
            payment : Payments \union {NULL}, paidBy : Payments \union {NULL},
            refund : Refunds \union {NULL}, amount : Nat, full : BOOLEAN]

\* The shape of the tables, the gateway and the requests.
TypeOK ==
  /\ booking \in [Bookings -> BookingStatus]
  /\ decided \in [Bookings -> Written \union {"NONE"}]
  /\ payments \in [Payments -> PaymentRow \union {NoPayment}]
  /\ trail \in [Payments -> SUBSET Event]
  /\ refunds \in [Refunds -> RefundRow \union {NoRefund}]
  /\ gateway \in [Payments -> GatewayPayment]
  /\ req \in [Requests -> Request]
  /\ faults \in 0..MaxFaults
  /\ raced \subseteq Bookings
  /\ met \subseteq Payments
  /\ crossed \subseteq Payments
  /\ torn \subseteq Payments

CapturedStatus == {"CAPTURED", "REFUNDED", "PARTIALLY_REFUNDED"}

\* No request on the payment is in flight, none was abandoned, no answer lost.
Quiet(p) == p \notin torn /\ ~InFlightOn(p)

\* A payment that says its money was captured had its whole amount captured, of
\* the gateway's payment it was confirmed with, its own order's or not; and between
\* requests no money was captured that its row does not show.  This is so however
\* confirmations and captures interleave, but for two confirmations at once with
\* different payments of the gateway; only an abandoned request or a lost answer
\* hides a capture.
CapturedAtGateway ==
  \A p \in Payments \ crossed :
    /\ payments[p].status \in CapturedStatus => AtGateway(p).captured = AmountOf(p)
    /\ Quiet(p) /\ AtGateway(p).captured > 0 => payments[p].status \in CapturedStatus

\* A payment of the gateway pays for one row only, whichever rows it is offered
\* to, and none is captured that no row was ever confirmed with.
PaysForOne ==
  /\ \A p, q \in Payments :
       payments[p].paidBy = payments[q].paidBy /\ payments[p].paidBy # NULL => p = q
  /\ \A g \in Payments :
       gateway[g].captured > 0 => \E p \in Payments : <<"PAYMENT_AUTHORIZED", g>> \in trail[p]

\* Whatever is abandoned, lost or decided twice, the refunds that say they were
\* processed were paid back by the gateway, the whole sum when the payment says
\* so.
RefundsCovered ==
  \A p \in Payments \ crossed :
    /\ SumRefunds(Processed(RefundsOf(p))) <= AtGateway(p).refunded
    /\ payments[p].status = "REFUNDED" => AtGateway(p).refunded = AmountOf(p)

\* And the other way round, where no two decisions on a payment's refunds met:
\* what the gateway paid back is what the refunds say, and the payment's status
\* tells whether it was all of it, some or nothing.
RefundsReflected ==
  \A p \in Payments \ (met \union crossed) :
    Quiet(p) /\ AtGateway(p).captured > 0 =>
      LET sum == SumRefunds(Processed(RefundsOf(p))) IN
        /\ AtGateway(p).refunded = sum
        /\ payments[p].status = CASE sum = 0 -> "CAPTURED"
                                  [] sum = AmountOf(p) -> "REFUNDED"
                                  [] OTHER -> "PARTIALLY_REFUNDED"

\* No use case asks isAllowedPaymentTransition, yet every change of a payment's
\* status is one of its transitions, repeated confirmations and captures
\* included, unless two decisions on its refunds met, or two confirmations with
\* different payments of the gateway.
Follows(p) ==
  \/ payments'[p] = payments[p]
  \/ payments[p].status = "NONE"
  \/ payments'[p].status \in PaymentTransitions[payments[p].status]
  \/ p \in met \union crossed

PaymentFollowsRules == [][\A p \in Payments : Follows(p)]_payments

\* The booking of an authorized payment says that it was paid, or paid back;
\* it drifts only when the confirmation was abandoned half-way or a booking use
\* case wrote over a status it had not read.
PaidBookingSaysSo ==
  \A p \in Payments :
    /\ payments[p].status \in CapturedStatus \union {"AUTHORIZED"}
    /\ Quiet(p)
    /\ payments[p].booking \notin raced
    => booking[payments[p].booking] \in {"PAYMENT_AUTHORIZED", "REFUNDED"}

\* What docs/milestones/Milestone-11A-Payment-Module-Plan.md says of the
\* transactions of verification and retry: they prevent double authorization
\* and multiple active payments for one booking.
OneAuthorization ==
  \A p, q \in Payments :
    /\ p # q
    /\ payments[p].status = "AUTHORIZED"
    /\ payments[q].status = "AUTHORIZED"
    => payments[p].booking # payments[q].booking
=============================================================================
