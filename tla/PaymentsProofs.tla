--------------------------- MODULE PaymentsProofs ---------------------------
(***************************************************************************)
(* Theorems about Payments, for every value of its constants.              *)
(*                                                                         *)
(* The first invariant relates rows, transactions, bookings and the        *)
(* gateway; the second, on top of it, the sums of money.  What ties a row  *)
(* to a payment of the gateway is the event of its authorization, whose id *)
(* no other row can have.  Sums are proved about by taking a smallest set  *)
(* of which a fact fails.                                                  *)
(***************************************************************************)
EXTENDS Payments, TLAPS, FiniteSetTheorems, WellFoundedInduction

-----------------------------------------------------------------------------
(* The inductive invariant *)

\* The authorization of the row by the gateway's payment is on record: its event
\* id will not be accepted again.
Confirms(p, g) == <<"PAYMENT_AUTHORIZED", g>> \in trail[p]

\* The gateway took money.
Taken(g) == gateway[g].captured > 0

\* It took it for the row.
Captured(p) == AtGateway(p).captured > 0

MoneyMoved == CapturedStatus \union {"AUTHORIZED"}

RetryRequest(q) ==
  \/ q.pc = "insert" /\ q.booking \in Bookings
  \/ q.pc = "ordered" /\ q.payment \in Payments

VerifyRequest(q) ==
  /\ q.pc \in {"authorize", "paid"}
  /\ q.payment \in Payments
  /\ payments[q.payment].status # "NONE"
  /\ q.booking = payments[q.payment].booking
  /\ q.paidBy \in Payments

CaptureRequest(q) ==
  /\ q.pc \in {"capture", "captureFailed", "captured", "captureRow"}
  /\ q.payment \in Payments
  /\ payments[q.payment].status \in MoneyMoved
  /\ q.paidBy \in Payments
  /\ Confirms(q.payment, q.paidBy)
  /\ q.pc \in {"captured", "captureRow"} => Taken(q.paidBy)

InitiateRequest(q) ==
  /\ q.pc = "createRefund"
  /\ q.payment \in Payments
  /\ payments[q.payment].status \in MoneyMoved
  /\ q.amount > 0

DecideRequest(q) ==
  /\ q.pc \in {"gatewayRefund", "sum", "processed", "refunded", "refundRow", "close",
               "reject"}
  /\ q.payment \in Payments
  /\ payments[q.payment].status \in MoneyMoved
  /\ q.refund \in Refunds
  /\ refunds[q.refund].status # "NONE"
  /\ q.paidBy \in Payments
  /\ q.amount > 0
  /\ Confirms(q.payment, q.paidBy)
  /\ q.pc \notin {"gatewayRefund", "reject"} => Taken(q.paidBy)

RequestOK(q) ==
  \/ q = Idle
  \/ RetryRequest(q)
  \/ VerifyRequest(q)
  \/ CaptureRequest(q)
  \/ InitiateRequest(q)
  \/ DecideRequest(q)

\* Every request is idle or carries what its next statement needs.
RequestsOK == \A r \in Requests : RequestOK(req[r])

\* Refunds are of payments that were captured once.
RefundsOK ==
  \A f \in Refunds :
    refunds[f].status # "NONE" => payments[refunds[f].payment].status \in MoneyMoved

\* A payment of the gateway confirms one row only, and what it took is the amount
\* of that row.
GatewayOK ==
  /\ \A p, q, g \in Payments : Confirms(p, g) /\ Confirms(q, g) => p = q
  /\ \A g \in Payments :
       /\ gateway[g].refunded <= gateway[g].captured
       /\ Taken(g) => \E p \in Payments : Confirms(p, g)
  /\ \A p, g \in Payments : Confirms(p, g) /\ Taken(g) => gateway[g].captured = AmountOf(p)

\* How the row of a payment, its transactions and the gateway hang together.
LedgerOK ==
  \A p \in Payments :
    /\ payments[p].status \in MoneyMoved =>
         payments[p].paidBy # NULL /\ Confirms(p, payments[p].paidBy)
    /\ payments[p].status \notin MoneyMoved =>
         payments[p].paidBy = NULL /\ \A g \in Payments : ~Confirms(p, g)
    /\ p \notin crossed => /\ \A g \in Payments : Confirms(p, g) => payments[p].paidBy = g
                           /\ payments[p].status \in CapturedStatus => Captured(p)

\* Confirmations of a row that was not crossed bring the same payment of the
\* gateway, the row's own when it has one.
Agreed ==
  \A r \in Requests : req[r].pc = "authorize" /\ req[r].payment \notin crossed =>
    /\ payments[req[r].payment].paidBy \in {NULL, req[r].paidBy}
    /\ \A s \in Requests : req[s].pc = "authorize" /\ req[s].payment = req[r].payment =>
         req[s].paidBy = req[r].paidBy

SomeAt(pc, p) == \E r \in Requests : req[r].pc = pc /\ req[r].payment = p

\* A capture that is not in the row yet is known to a request, unless it was lost.
CapturesKnown ==
  \A p \in Payments \ crossed :
    Captured(p) => payments[p].status \in CapturedStatus \/ p \in torn \/ SomeAt("captured", p)

SaysSo(b) == booking[b] \in {"PAYMENT_AUTHORIZED", "REFUNDED"}

\* So is an authorization of which the booking does not tell yet.
BookingsTold ==
  \A p \in Payments :
    payments[p].status \in MoneyMoved =>
      \/ SaysSo(payments[p].booking)
      \/ p \in torn
      \/ payments[p].booking \in raced
      \/ SomeAt("paid", p)

IInv == /\ TypeOK
        /\ RequestsOK /\ RefundsOK
        /\ GatewayOK /\ LedgerOK /\ Agreed
        /\ CapturesKnown /\ BookingsTold

-----------------------------------------------------------------------------
\* Empty tables and idle requests satisfy the invariant.
LEMMA InitIInv == Init => IInv
<1> SUFFICES ASSUME Init PROVE IInv
  OBVIOUS
<1>1. TypeOK
  BY NullAssumption, BoundAssumption
  DEF Init, TypeOK, BookingStatus, Status, Active, NoPayment, NoRefund, NoMoney,
      GatewayPayment, Idle, Request, Pcs, Ops
<1>2. /\ \A p \in Payments : payments[p].status = "NONE" /\ payments[p].paidBy = NULL
      /\ \A p, g \in Payments : ~Confirms(p, g)
      /\ \A g \in Payments : gateway[g].captured = 0 /\ gateway[g].refunded = 0
      /\ \A f \in Refunds : refunds[f].status = "NONE"
      /\ \A r \in Requests : req[r] = Idle /\ req[r].pc = "idle"
  BY DEF Init, NoPayment, NoRefund, NoMoney, Idle, Confirms
<1>3. GatewayOK /\ LedgerOK
  BY <1>2 DEF GatewayOK, LedgerOK, Taken, MoneyMoved, CapturedStatus
<1>4. CapturesKnown
  BY <1>2 DEF CapturesKnown, Captured, AtGateway, NoMoney
<1>5. QED
  BY <1>1, <1>2, <1>3, <1>4
  DEF IInv, RequestsOK, RequestOK, RefundsOK, Agreed, BookingsTold, MoneyMoved, CapturedStatus

\* What no statement takes back.
Grows ==
  /\ crossed \subseteq crossed'
  /\ \A p \in Payments :
       /\ payments[p].status # "NONE" =>
            /\ payments'[p].status # "NONE"
            /\ payments'[p].booking = payments[p].booking
       /\ payments[p].status \in MoneyMoved => payments'[p].status \in MoneyMoved
       /\ trail[p] \subseteq trail'[p]
       /\ Taken(p) => gateway'[p].captured = gateway[p].captured
  /\ \A f \in Refunds : refunds[f].status # "NONE" =>
       /\ refunds'[f].status # "NONE"
       /\ refunds'[f].payment = refunds[f].payment

\* A step that takes nothing back and gives one request a well-formed next
\* statement keeps every request well-formed.
LEMMA OneRequestMoves ==
  ASSUME IInv, Grows, NEW r \in Requests, NEW q \in Request,
         RequestOK(q)', req' = [req EXCEPT ![r] = q]
  PROVE  RequestsOK' /\ req' \in [Requests -> Request]
<1>1. req \in [Requests -> Request] /\ RequestsOK
  BY DEF IInv, TypeOK
<1>2. req' \in [Requests -> Request]
  BY <1>1
<1>3. ASSUME NEW k \in Requests, k # r
      PROVE  RequestOK(req[k])'
  <2>1. req'[k] = req[k] /\ RequestOK(req[k])
    BY <1>1, <1>3 DEF RequestsOK
  <2>2. QED
    BY <2>1 DEF Grows, RequestOK, RetryRequest, VerifyRequest, CaptureRequest,
           InitiateRequest, DecideRequest, Taken, Confirms
<1>4. QED
  BY <1>1, <1>2, <1>3 DEF RequestsOK

\* The same where nobody else's request moves.
LEMMA NoRequestMoves ==
  ASSUME IInv, Grows, req' = req
  PROVE  RequestsOK' /\ req' \in [Requests -> Request]
<1>1. req \in [Requests -> Request] /\ RequestsOK
  BY DEF IInv, TypeOK
<1>2. QED
  BY <1>1 DEF Grows, RequestsOK, RequestOK, RetryRequest, VerifyRequest, CaptureRequest,
           InitiateRequest, DecideRequest, Taken, Confirms

\* A request that moves leaves the others where they are.
LEMMA OthersStay ==
  ASSUME IInv, NEW r \in Requests, NEW q, req' = [req EXCEPT ![r] = q], NEW pc, NEW p,
         SomeAt(pc, p), req[r].pc # pc \/ req[r].payment # p
  PROVE  SomeAt(pc, p)'
  BY DEF IInv, TypeOK, SomeAt

\* The gateway's payments confirm what they confirmed, and took what they took.
SameMoney ==
  /\ \A p, g \in Payments : Confirms(p, g)' <=> Confirms(p, g)
  /\ \A g \in Payments : gateway'[g].captured = gateway[g].captured
  /\ \A p \in Payments : payments'[p].paidBy = payments[p].paidBy

\* Then what a row has at the gateway stays, too.
LEMMA CapturedStays ==
  ASSUME IInv, SameMoney, NEW p \in Payments
  PROVE  Captured(p)' <=> Captured(p)
<1>1. payments[p].paidBy \in Payments \union {NULL}
  BY DEF IInv, TypeOK, PaymentRow, NoPayment
<1>2. QED
  BY <1>1 DEF SameMoney, Captured, AtGateway, NoMoney

\* A step that confirms nothing and captures nothing keeps the ledger.
LEMMA LedgerStays ==
  ASSUME IInv, Grows, SameMoney,
         \A g \in Payments : gateway'[g].refunded <= gateway'[g].captured,
         \A p \in Payments : payments[p].status \in MoneyMoved <=> payments'[p].status \in MoneyMoved,
         \A p \in Payments \ crossed' :
           payments'[p].status \in CapturedStatus => payments[p].status \in CapturedStatus \/ Captured(p)
  PROVE  GatewayOK' /\ LedgerOK'
<1>1. \A p, g \in Payments : Confirms(p, g) => AmountOf(p)' = AmountOf(p)
  BY DEF IInv, LedgerOK, Grows, AmountOf, MoneyMoved, CapturedStatus
<1>2. GatewayOK'
  BY <1>1 DEF IInv, GatewayOK, SameMoney, Taken
<1>3. \A p \in Payments : payments[p].paidBy \in Payments \union {NULL}
  BY DEF IInv, TypeOK, PaymentRow, NoPayment
<1>4. ASSUME NEW p \in Payments
      PROVE  /\ payments'[p].status \in MoneyMoved =>
                  payments'[p].paidBy # NULL /\ Confirms(p, payments[p].paidBy)'
             /\ payments'[p].status \notin MoneyMoved =>
                  payments'[p].paidBy = NULL /\ \A g \in Payments : ~Confirms(p, g)'
             /\ p \notin crossed' =>
                  /\ \A g \in Payments : Confirms(p, g)' => payments'[p].paidBy = g
                  /\ payments'[p].status \in CapturedStatus => Captured(p)'
  <2>0. PICK g \in Payments \union {NULL} : g = payments[p].paidBy
    BY <1>3
  <2>1. payments'[p].paidBy = g
    BY <2>0 DEF SameMoney
  <2>2. Captured(p)' <=> Captured(p)
    BY CapturedStays
  <2>3. g # NULL => (Confirms(p, g)' <=> Confirms(p, g))
    BY DEF SameMoney
  <2>4. payments[p].status \in MoneyMoved => g # NULL /\ Confirms(p, g)
    BY <2>0 DEF IInv, LedgerOK
  <2>5. Confirms(p, payments[p].paidBy)' <=> Confirms(p, g)'
    BY <2>1 DEF Confirms
  <2>6. payments'[p].status \in MoneyMoved =>
          payments'[p].paidBy # NULL /\ Confirms(p, payments[p].paidBy)'
    BY <2>1, <2>3, <2>4, <2>5
  <2>7. /\ payments'[p].status \notin MoneyMoved =>
             payments'[p].paidBy = NULL /\ \A k \in Payments : ~Confirms(p, k)'
        /\ p \notin crossed' => \A k \in Payments : Confirms(p, k)' => payments'[p].paidBy = k
    BY <2>0, <2>1 DEF IInv, LedgerOK, SameMoney, Grows
  <2>8. p \notin crossed' /\ payments'[p].status \in CapturedStatus => Captured(p)'
    BY <2>2 DEF IInv, LedgerOK, Grows
  <2>9. QED
    BY <2>6, <2>7, <2>8
<1>5. LedgerOK'
  BY <1>4 DEF LedgerOK, Confirms, MoneyMoved
<1>6. QED
  BY <1>2, <1>5

\* So it is for what confirmations agree on, when none arrives.
LEMMA AgreedStays ==
  ASSUME IInv, crossed \subseteq crossed', NEW r \in Requests, NEW q,
         req' = [req EXCEPT ![r] = q], q.pc # "authorize",
         \A p \in Payments \ crossed' : payments'[p].paidBy = payments[p].paidBy
  PROVE  Agreed'
<1>1. req'[r] = q /\ \A s \in Requests \ {r} : req'[s] = req[s]
  BY DEF IInv, TypeOK
<1>2. \A s \in Requests : req[s].pc = "authorize" => req[s].payment \in Payments
  BY DEF IInv, RequestsOK, RequestOK, RetryRequest, VerifyRequest, CaptureRequest,
         InitiateRequest, DecideRequest, Idle
<1>3. QED
  BY <1>1, <1>2 DEF IInv, Agreed

\* A step of a request that neither writes a payment's or booking's status nor
\* asks for a capture, and holds no news of one, loses no news.
LEMMA NewsStays ==
  ASSUME IInv, SameMoney, crossed \subseteq crossed',
         NEW r \in Requests, NEW q, req' = [req EXCEPT ![r] = q],
         payments' = payments, booking' = booking, raced' = raced, torn \subseteq torn',
         \/ req[r].pc \notin {"captured", "paid"}
         \/ req[r].payment \in torn'
  PROVE  CapturesKnown' /\ BookingsTold'
<1>1. ASSUME NEW p \in Payments, NEW pc \in {"captured", "paid"}, SomeAt(pc, p)
      PROVE  p \in torn' \/ SomeAt(pc, p)'
  BY <1>1, OthersStay
<1>2. \A p \in Payments : Captured(p)' <=> Captured(p)
  BY CapturedStays
<1>3. CapturesKnown'
  BY <1>1, <1>2 DEF IInv, CapturesKnown
<1>4. BookingsTold'
  BY <1>1 DEF IInv, BookingsTold, SaysSo, MoneyMoved
<1>5. QED
  BY <1>3, <1>4

\* Refunds stay refunds of captured payments where no refund row is made.
LEMMA RefundsStay ==
  ASSUME IInv, Grows, \A f \in Refunds : refunds'[f].status # "NONE" => refunds[f].status # "NONE"
  PROVE  RefundsOK'
<1>1. \A f \in Refunds : refunds[f].status # "NONE" => refunds[f].payment \in Payments
  BY DEF IInv, TypeOK, RefundRow, NoRefund
<1>2. QED
  BY <1>1 DEF IInv, RefundsOK, Grows, MoneyMoved

-----------------------------------------------------------------------------
\* What the invariant says of one request.
LEMMA RequestOf ==
  ASSUME IInv, NEW r \in Requests
  PROVE  req[r] \in Request /\ RequestOK(req[r])
  BY DEF IInv, TypeOK, RequestsOK

\* An idle request carries nothing, and needs nothing.
LEMMA IdleOK == Idle \in Request /\ RequestOK(Idle)
  BY DEF Idle, Request, Pcs, Ops, RequestOK

\* Rows that exist have the type of rows.
LEMMA Rows ==
  ASSUME IInv
  PROVE  /\ \A p \in Payments : payments[p].status # "NONE" => payments[p] \in PaymentRow
         /\ \A f \in Refunds : refunds[f].status # "NONE" => refunds[f] \in RefundRow
  BY DEF IInv, TypeOK, NoPayment, NoRefund

\* The gateway's payment of a row on which money moved confirms it.
LEMMA OwnPayment ==
  ASSUME IInv, NEW p \in Payments, payments[p].status \in MoneyMoved
  PROVE  payments[p].paidBy \in Payments /\ Confirms(p, payments[p].paidBy)
  BY Rows DEF IInv, LedgerOK, PaymentRow, MoneyMoved, CapturedStatus

\* What a row that was not crossed has at the gateway is what confirms it.
LEMMA OnlyPayment ==
  ASSUME IInv, NEW p \in Payments, p \notin crossed, NEW g \in Payments, Confirms(p, g)
  PROVE  payments[p].paidBy = g /\ AtGateway(p) = gateway[g]
  BY NullAssumption DEF IInv, LedgerOK, AtGateway

\* What the gateway's payments take and give back are natural numbers.
LEMMA GatewayNumbers ==
  ASSUME IInv, NEW g \in Payments
  PROVE  gateway[g].captured \in Nat /\ gateway[g].refunded \in Nat
  BY DEF IInv, TypeOK, GatewayPayment

\* A request that arrives carries what its first statement needs.
LEMMA BeginIInv ==
  ASSUME IInv, NEW r \in Requests, NEW q \in Request, RequestOK(q), Begin(r, q),
         met' \subseteq Payments, crossed \subseteq crossed', crossed' \subseteq Payments,
         Agreed'
  PROVE  IInv'
<1> USE DEF Begin, tables
<1>1. Grows /\ SameMoney
  BY DEF Grows, SameMoney, Taken, Confirms
<1>2. RequestOK(q)'
  BY DEF RequestOK, RetryRequest, VerifyRequest, CaptureRequest, InitiateRequest,
         DecideRequest, Taken, Confirms
<1>3. RequestsOK' /\ req' \in [Requests -> Request]
  BY <1>1, <1>2, OneRequestMoves
<1>4. TypeOK'
  BY <1>3 DEF IInv, TypeOK
<1>5. GatewayOK' /\ LedgerOK'
  <2>1. \A g \in Payments : gateway'[g].refunded <= gateway'[g].captured
    BY DEF IInv, GatewayOK
  <2>2. QED
    BY <1>1, <2>1, LedgerStays
<1>6. CapturesKnown' /\ BookingsTold'
  BY <1>1, NewsStays DEF InFlight
<1>7. RefundsOK'
  BY <1>1, RefundsStay
<1>8. QED
  BY <1>3, <1>4, <1>5, <1>6, <1>7 DEF IInv

\* The same for a request that confirms no payment.
LEMMA BeginOther ==
  ASSUME IInv, NEW r \in Requests, NEW q \in Request, RequestOK(q), Begin(r, q),
         met' \subseteq Payments, crossed' = crossed, q.pc # "authorize"
  PROVE  IInv'
<1>1. Agreed'
  BY AgreedStays DEF Begin, tables
<1>2. crossed' \subseteq Payments
  BY DEF IInv, TypeOK
<1>3. QED
  BY <1>1, <1>2, BeginIInv

\* A confirmation that brings another payment of the gateway than one in flight
\* crosses it.
LEMMA VerifyPaymentIInv ==
  ASSUME IInv, NEW r \in Requests, NEW p \in Payments, NEW g \in Payments, VerifyPayment(r, p, g)
  PROVE  IInv'
<1> DEFINE q == [Idle EXCEPT !.pc = "authorize", !.op = "verify", !.paidBy = g,
                             !.booking = payments[p].booking, !.payment = p]
<1>1. q \in Request
  BY Rows DEF VerifyPayment, PaymentRow, Idle, Request, Pcs, Ops
<1>2. RequestOK(q)
  BY DEF VerifyPayment, Idle, RequestOK, VerifyRequest
<1>3. Begin(r, q) /\ met' = met
  BY DEF VerifyPayment
<1>4. q.pc = "authorize" /\ q.payment = p /\ q.paidBy = g
  BY DEF Idle
<1> HIDE DEF q
<1>5. crossed \subseteq crossed' /\ crossed' \subseteq Payments /\ met \subseteq Payments
  BY DEF VerifyPayment, IInv, TypeOK
<1>6. req'[r] = q /\ \A s \in Requests \ {r} : req'[s] = req[s]
  BY <1>3 DEF Begin, IInv, TypeOK
<1>7. p \notin crossed' =>
        \A s \in Requests : req[s].pc = "authorize" /\ req[s].payment = p => req[s].paidBy = g
  BY DEF VerifyPayment, ConfirmedWithAnother
<1>8. payments[p].paidBy = NULL /\ payments' = payments
  BY <1>3 DEF VerifyPayment, IInv, LedgerOK, MoneyMoved, CapturedStatus, Begin, tables
<1>9. ASSUME NEW s \in Requests, req'[s].pc = "authorize", req'[s].payment \notin crossed'
      PROVE  /\ payments'[req'[s].payment].paidBy \in {NULL, req'[s].paidBy}
             /\ \A k \in Requests : req'[k].pc = "authorize" /\ req'[k].payment = req'[s].payment =>
                  req'[k].paidBy = req'[s].paidBy
  <2>1. CASE req'[s].payment = p
    <3>1. \A k \in Requests : req'[k].pc = "authorize" /\ req'[k].payment = p => req'[k].paidBy = g
      BY <1>4, <1>6, <1>7, <1>9, <2>1
    <3>2. QED
      BY <1>8, <1>9, <2>1, <3>1
  <2>2. CASE req'[s].payment # p
    <3>1. s # r /\ req[s].payment \notin crossed
      BY <1>4, <1>5, <1>6, <1>9, <2>2
    <3>2. \A k \in Requests : req'[k].payment = req'[s].payment => req'[k] = req[k]
      BY <1>4, <1>6, <2>2
    <3>3. QED
      BY <1>6, <1>8, <1>9, <3>1, <3>2 DEF IInv, Agreed
  <2>3. QED
    BY <2>1, <2>2
<1>10. Agreed'
  BY <1>9 DEF Agreed
<1>11. QED
  BY <1>1, <1>2, <1>3, <1>5, <1>10, BeginIInv

\* Every operation that starts keeps the invariant.
LEMMA ArriveIInv ==
  ASSUME IInv, NEW r \in Requests, Arrive(r)
  PROVE  IInv'
<1>0. met \subseteq Payments
  BY DEF IInv, TypeOK
<1>1. ASSUME NEW b \in Bookings, RetryPayment(r, b)
      PROVE  IInv'
  <2> DEFINE q == [Idle EXCEPT !.pc = "insert", !.op = "retry", !.booking = b]
  <2>1. q \in Request /\ RequestOK(q) /\ q.pc = "insert"
    BY DEF Idle, Request, Pcs, Ops, RequestOK, RetryRequest
  <2>2. Begin(r, q) /\ met' = met /\ crossed' = crossed
    BY <1>1 DEF RetryPayment
  <2> HIDE DEF q
  <2>3. QED
    BY <1>0, <2>1, <2>2, BeginOther
<1>2. ASSUME NEW p \in Payments, CapturePayment(r, p)
      PROVE  IInv'
  <2> DEFINE q == [Idle EXCEPT !.pc = "capture", !.op = "capture", !.payment = p,
                               !.paidBy = payments[p].paidBy]
  <2>1. /\ payments[p].status \in MoneyMoved
        /\ payments[p].paidBy \in Payments
        /\ Confirms(p, payments[p].paidBy)
    BY <1>2, OwnPayment DEF CapturePayment, MoneyMoved
  <2>2. q \in Request /\ q.pc = "capture" /\ q.payment = p /\ q.paidBy = payments[p].paidBy
    BY <2>1 DEF Idle, Request, Pcs, Ops
  <2>3. Begin(r, q) /\ met' = met /\ crossed' = crossed
    BY <1>2 DEF CapturePayment
  <2> HIDE DEF q
  <2>4. RequestOK(q)
    BY <2>1, <2>2 DEF RequestOK, CaptureRequest
  <2>5. QED
    BY <1>0, <2>2, <2>3, <2>4, BeginOther
<1>3. ASSUME NEW b \in Bookings, NEW p \in Payments, NEW amount \in 1..Available(b),
             InitiateRefund(r, b, p, amount)
      PROVE  IInv'
  <2> DEFINE q == [Idle EXCEPT !.pc = "createRefund", !.op = "initiate",
                               !.booking = b, !.payment = p, !.amount = amount]
  <2>1. amount \in Nat /\ amount > 0
    BY <1>3 DEF InitiateRefund
  <2>2. q \in Request /\ q.pc = "createRefund"
    BY <2>1 DEF Idle, Request, Pcs, Ops
  <2>3. RequestOK(q)
    BY <1>3, <2>1 DEF InitiateRefund, Idle, RequestOK, InitiateRequest, MoneyMoved,
                      CapturedStatus
  <2>4. Begin(r, q) /\ met' = met /\ crossed' = crossed
    BY <1>3 DEF InitiateRefund
  <2> HIDE DEF q
  <2>5. QED
    BY <1>0, <2>2, <2>3, <2>4, BeginOther
<1>4. ASSUME NEW f \in Refunds, NEW op \in {"approve", "reject"},
             NEW first \in {"gatewayRefund", "reject"}, Decision(r, op, first, f)
      PROVE  IInv'
  <2> DEFINE q == [Idle EXCEPT !.pc = first, !.op = op, !.refund = f,
                               !.payment = refunds[f].payment,
                               !.paidBy = payments[refunds[f].payment].paidBy,
                               !.booking = payments[refunds[f].payment].booking,
                               !.amount = refunds[f].amount]
  <2>1. /\ refunds[f] \in RefundRow
        /\ refunds[f].status # "NONE"
        /\ payments[refunds[f].payment].status \in MoneyMoved
    BY <1>4, Rows DEF Decision, IInv, RefundsOK
  <2>2. PICK p \in Payments : p = refunds[f].payment
    BY <2>1 DEF RefundRow
  <2>3. /\ payments[p] \in PaymentRow
        /\ payments[p].paidBy \in Payments
        /\ Confirms(p, payments[p].paidBy)
    BY <2>1, <2>2, Rows, OwnPayment DEF MoneyMoved, CapturedStatus
  <2>4. q \in Request
    BY <2>1, <2>2, <2>3 DEF Idle, Request, Pcs, Ops, RefundRow, PaymentRow
  <2>5. /\ q.pc = first /\ q.refund = f /\ q.payment = p /\ q.paidBy = payments[p].paidBy
        /\ q.amount > 0
    BY <2>1, <2>2 DEF Idle, RefundRow
  <2>6. Begin(r, q) /\ crossed' = crossed
    BY <1>4 DEF Decision
  <2>7. met' \subseteq Payments
    BY <1>0, <1>4, <2>1 DEF Decision, RefundRow
  <2> HIDE DEF q
  <2>8. RequestOK(q)
    BY <2>1, <2>2, <2>3, <2>5 DEF RequestOK, DecideRequest
  <2>9. QED
    BY <2>4, <2>5, <2>6, <2>7, <2>8, BeginOther
<1>5. QED
  BY <1>1, <1>2, <1>3, <1>4, VerifyPaymentIInv DEF Arrive, ApproveRefund, RejectRefund

-----------------------------------------------------------------------------
(* The statements *)

\* A statement that adds to the refunds or to what was paid back, and leaves
\* payments, bookings and confirmations alone, keeps the invariant.
LEMMA SideStep ==
  ASSUME IInv, NEW r \in Requests, NEW q \in Request, req' = [req EXCEPT ![r] = q],
         RequestOK(q)', q.pc # "authorize",
         UNCHANGED <<booking, decided, payments, raced, met, crossed>>,
         Grows, SameMoney,
         trail' \in [Payments -> SUBSET Event],
         refunds' \in [Refunds -> RefundRow \union {NoRefund}],
         gateway' \in [Payments -> GatewayPayment],
         \A g \in Payments : gateway'[g].refunded <= gateway'[g].captured,
         RefundsOK',
         faults' \in 0..MaxFaults, torn \subseteq torn', torn' \subseteq Payments,
         req[r].pc \notin {"captured", "paid"} \/ req[r].payment \in torn'
  PROVE  IInv'
<1>1. RequestsOK' /\ req' \in [Requests -> Request]
  BY OneRequestMoves
<1>2. TypeOK'
  BY <1>1 DEF IInv, TypeOK
<1>3. GatewayOK' /\ LedgerOK'
  BY LedgerStays
<1>4. Agreed'
  BY AgreedStays
<1>5. CapturesKnown' /\ BookingsTold'
  BY NewsStays
<1>6. QED
  BY <1>1, <1>2, <1>3, <1>4, <1>5 DEF IInv

\* A statement that changes nothing else lets the request go on.
LEMMA OnlyGoesOn ==
  ASSUME IInv, NEW r \in Requests, NEW q \in Request, req' = [req EXCEPT ![r] = q],
         RequestOK(q)', q.pc # "authorize", req[r].pc \notin {"captured", "paid"},
         UNCHANGED <<booking, decided, tables, gateway, faults, history>>
  PROVE  IInv'
<1> USE DEF tables, history
<1>1. Grows /\ SameMoney
  BY DEF Grows, SameMoney, Taken, Confirms
<1>2. RefundsOK'
  BY <1>1, RefundsStay
<1>3. \A g \in Payments : gateway'[g].refunded <= gateway'[g].captured
  BY DEF IInv, GatewayOK
<1>4. QED
  BY <1>1, <1>2, <1>3, SideStep DEF IInv, TypeOK

\* Nor does what is added to the transactions matter, an authorization excepted.
LEMMA RowAdded ==
  ASSUME IInv, NEW r \in Requests, NEW q \in Request, req' = [req EXCEPT ![r] = q],
         RequestOK(q)', q.pc # "authorize", req[r].pc \notin {"captured", "paid"},
         NEW p \in Payments, NEW event \in Event, event[1] # "PAYMENT_AUTHORIZED",
         AddTransaction(p, event),
         UNCHANGED <<booking, decided, payments, refunds, gateway, faults, history>>
  PROVE  IInv'
<1> USE DEF history
<1>1. trail' \in [Payments -> SUBSET Event] /\ \A k \in Payments : trail[k] \subseteq trail'[k]
  BY DEF AddTransaction, IInv, TypeOK
<1>2. Grows
  BY <1>1 DEF Grows, Taken
<1>3. SameMoney
  <2>1. \A k, g \in Payments : Confirms(k, g)' => Confirms(k, g)
    BY DEF AddTransaction, Confirms, IInv, TypeOK
  <2>2. QED
    BY <1>1, <2>1 DEF SameMoney, Confirms
<1>4. RefundsOK'
  BY <1>2, RefundsStay
<1>5. \A g \in Payments : gateway'[g].refunded <= gateway'[g].captured
  BY DEF IInv, GatewayOK
<1>6. QED
  BY <1>1, <1>2, <1>3, <1>4, <1>5, SideStep DEF IInv, TypeOK

\* Where a request goes next: rigid names for the next record.
LEMMA NextRecord ==
  ASSUME IInv, NEW r \in Requests, NEW pc \in Pcs, Goto(r, pc)
  PROVE  \E q \in Request : q = [req[r] EXCEPT !.pc = pc] /\ req' = [req EXCEPT ![r] = q]
<1>1. [req[r] EXCEPT !.pc = pc] \in Request
  BY RequestOf DEF Request
<1>2. req' = [req EXCEPT ![r] = [req[r] EXCEPT !.pc = pc]]
  BY DEF Goto, IInv, TypeOK
<1>3. QED
  BY <1>1, <1>2

\* The same for a request that ends.
LEMMA LastRecord ==
  ASSUME NEW r \in Requests, Finish(r)
  PROVE  \E q \in Request : /\ q = Idle
                            /\ q.pc = "idle"
                            /\ RequestOK(q)'
                            /\ req' = [req EXCEPT ![r] = q]
<1>1. PICK q \in Request : q = Idle
  BY IdleOK
<1>2. q.pc = "idle"
  BY <1>1 DEF Idle
<1>3. QED
  BY <1>1, <1>2 DEF Finish, RequestOK

\* What a request at each of its statements carries.
LEMMA Carried ==
  ASSUME IInv, NEW r \in Requests
  PROVE  /\ At(r, "insert") => req[r].booking \in Bookings
         /\ At(r, "ordered") => Pay(r) \in Payments
         /\ req[r].pc \in {"authorize", "paid"} => VerifyRequest(req[r])
         /\ req[r].pc \in {"capture", "captureFailed", "captured", "captureRow"}
              => CaptureRequest(req[r])
         /\ At(r, "createRefund") => InitiateRequest(req[r])
         /\ req[r].pc \in {"gatewayRefund", "sum", "processed", "refunded", "refundRow",
                           "close", "reject"} => DecideRequest(req[r])
  BY RequestOf DEF RequestOK, RetryRequest, VerifyRequest, CaptureRequest,
                   InitiateRequest, DecideRequest, Idle, At, Pay

\* Making the refund row keeps the invariant.
LEMMA CreateRefundIInv ==
  ASSUME IInv, NEW r \in Requests, CreateRefund(r)
  PROVE  IInv'
<1> USE DEF CreateRefund, history
<1>1. PICK q \in Request : q.pc = "idle" /\ RequestOK(q)' /\ req' = [req EXCEPT ![r] = q]
  BY LastRecord
<1>2. InitiateRequest(req[r]) /\ req[r].amount \in Nat /\ req[r].pc = "createRefund"
  BY Carried, RequestOf DEF At, Request
<1>3. PICK f \in Refunds :
        /\ refunds[f].status = "NONE"
        /\ refunds' = [refunds EXCEPT ![f] =
             [status |-> "REQUESTED", payment |-> Pay(r), amount |-> req[r].amount]]
  OBVIOUS
<1>4. [status |-> "REQUESTED", payment |-> Pay(r), amount |-> req[r].amount] \in RefundRow
  BY <1>2 DEF InitiateRequest, RefundRow, RefundStatus, Pay
<1>5. refunds' \in [Refunds -> RefundRow \union {NoRefund}]
  BY <1>3, <1>4 DEF IInv, TypeOK
<1>6. Grows
  BY <1>3 DEF Grows, Taken, IInv, TypeOK
<1>7. SameMoney
  BY DEF SameMoney, Confirms
<1>8. RefundsOK'
  BY <1>2, <1>3 DEF IInv, TypeOK, RefundsOK, InitiateRequest, Pay, MoneyMoved
<1>9. \A g \in Payments : gateway'[g].refunded <= gateway'[g].captured
  BY DEF IInv, GatewayOK
<1>10. QED
  BY <1>1, <1>2, <1>5, <1>6, <1>7, <1>8, <1>9, SideStep DEF IInv, TypeOK

\* Whether the gateway pays a refund back or not, the invariant holds.
LEMMA GatewayRefundIInv ==
  ASSUME IInv, NEW r \in Requests, GatewayRefund(r)
  PROVE  IInv'
<1> USE DEF GatewayRefund, tables, history, Fault
<1>1. /\ DecideRequest(req[r])
      /\ req[r].amount \in Nat
      /\ req[r].pc = "gatewayRefund"
      /\ PaidBy(r) \in Payments /\ PaidBy(r) = req[r].paidBy
  BY Carried, RequestOf DEF At, Request, DecideRequest, PaidBy
<1>2. /\ gateway' \in [Payments -> GatewayPayment]
      /\ \A g \in Payments : /\ gateway'[g].captured = gateway[g].captured
                             /\ gateway'[g].refunded <= gateway'[g].captured
  <2>1. CASE UNCHANGED gateway
    BY <2>1 DEF IInv, TypeOK, GatewayOK
  <2>2. CASE GatewayRefunds(r)
    <3>1. PICK g \in Payments : g = PaidBy(r)
      BY <1>1
    <3>2. PICK given \in Nat : given = gateway[g].refunded + req[r].amount
      BY <1>1, GatewayNumbers
    <3>3. gateway' = [gateway EXCEPT ![g].refunded = given] /\ given <= gateway[g].captured
      BY <2>2, <3>1, <3>2 DEF GatewayRefunds
    <3>4. gateway'[g] = [gateway[g] EXCEPT !.refunded = given]
      BY <3>3 DEF IInv, TypeOK
    <3>5. gateway[g] \in GatewayPayment
      BY DEF IInv, TypeOK
    <3>6. /\ gateway'[g] \in GatewayPayment
          /\ gateway'[g].captured = gateway[g].captured
          /\ gateway'[g].refunded = given
      BY <3>4, <3>5 DEF GatewayPayment
    <3>7. \A k \in Payments \ {g} : gateway'[k] = gateway[k]
      BY <3>3 DEF IInv, TypeOK
    <3>8. gateway' \in [Payments -> GatewayPayment]
      BY <3>3, <3>6, <3>7 DEF IInv, TypeOK
    <3>9. QED
      BY <3>3, <3>6, <3>7, <3>8 DEF IInv, GatewayOK
  <2>3. QED
    BY <2>1, <2>2
<1>3. Grows
  BY <1>2 DEF Grows
<1>4. SameMoney
  BY <1>2 DEF SameMoney, Confirms
<1>5. RefundsOK'
  BY <1>3, RefundsStay
<1>6. faults' \in 0..MaxFaults /\ torn \subseteq torn' /\ torn' \subseteq Payments
  BY <1>1, BoundAssumption DEF IInv, TypeOK, DecideRequest, Pay
<1>7. PICK q \in Request :
        q.pc # "authorize" /\ RequestOK(q)' /\ req' = [req EXCEPT ![r] = q]
  <2>1. CASE Finish(r)
    BY <2>1, LastRecord
  <2>2. CASE Goto(r, "sum") /\ GatewayRefunds(r)
    <3>1. PICK q \in Request :
            q = [req[r] EXCEPT !.pc = "sum"] /\ req' = [req EXCEPT ![r] = q]
      BY <2>2, NextRecord DEF Pcs
    <3>2. /\ q.pc = "sum" /\ q.payment = req[r].payment /\ q.refund = req[r].refund
          /\ q.paidBy = PaidBy(r) /\ q.amount = req[r].amount
      BY <1>1, <3>1, RequestOf DEF Request
    <3>3. Taken(PaidBy(r))
      BY <1>1, <2>2, GatewayNumbers DEF GatewayRefunds, Taken, DecideRequest
    <3>4. DecideRequest(q)'
      BY <1>1, <1>2, <1>3, <3>2, <3>3 DEF DecideRequest, Grows, Taken, Confirms, MoneyMoved
    <3>5. QED
      BY <3>1, <3>2, <3>4 DEF RequestOK
  <2>3. QED
    BY <2>1, <2>2
<1>8. QED
  BY <1>1, <1>2, <1>3, <1>4, <1>5, <1>6, <1>7, SideStep DEF IInv, TypeOK

\* The decision on a refund keeps the invariant.
LEMMA UpdateRefundStatusIInv ==
  ASSUME IInv, NEW r \in Requests, UpdateRefundStatus(r)
  PROVE  IInv'
<1> USE DEF UpdateRefundStatus, history
<1>1. DecideRequest(req[r]) /\ req[r].pc \in {"processed", "reject"}
  BY Carried DEF At
<1>2. PICK status \in {"PROCESSED", "REJECTED"} :
        refunds' = [refunds EXCEPT ![req[r].refund].status = status]
  OBVIOUS
<1>3. refunds[req[r].refund] \in RefundRow
  BY <1>1, Rows DEF DecideRequest
<1>4. refunds' \in [Refunds -> RefundRow \union {NoRefund}]
  BY <1>2, <1>3 DEF IInv, TypeOK, RefundRow, RefundStatus
<1>5. /\ \A f \in Refunds : refunds'[f].payment = refunds[f].payment
      /\ \A f \in Refunds : refunds[f].status # "NONE" <=> refunds'[f].status # "NONE"
  BY <1>1, <1>2 DEF IInv, TypeOK, DecideRequest
<1>6. Grows
  BY <1>5 DEF Grows, Taken
<1>7. SameMoney
  BY DEF SameMoney, Confirms
<1>8. RefundsOK'
  BY <1>5, <1>6, RefundsStay
<1>9. \A g \in Payments : gateway'[g].refunded <= gateway'[g].captured
  BY DEF IInv, GatewayOK
<1>10. PICK q \in Request :
         q.pc # "authorize" /\ RequestOK(q)' /\ req' = [req EXCEPT ![r] = q]
  <2>1. CASE Finish(r)
    BY <2>1, LastRecord
  <2>2. CASE At(r, "processed") /\ Goto(r, "refunded")
    <3>1. PICK q \in Request :
            q = [req[r] EXCEPT !.pc = "refunded"] /\ req' = [req EXCEPT ![r] = q]
      BY <2>2, NextRecord DEF Pcs
    <3>2. /\ q.pc = "refunded" /\ q.payment = req[r].payment /\ q.refund = req[r].refund
          /\ q.paidBy = req[r].paidBy /\ q.amount = req[r].amount
      BY <3>1, RequestOf DEF Request
    <3>3. DecideRequest(q)'
      BY <1>1, <1>6, <2>2, <3>2
         DEF DecideRequest, Grows, Taken, Confirms, MoneyMoved, At
    <3>4. QED
      BY <3>1, <3>2, <3>3 DEF RequestOK
  <2>3. QED
    BY <2>1, <2>2
<1>11. QED
  BY <1>1, <1>4, <1>6, <1>7, <1>8, <1>9, <1>10, SideStep DEF IInv, TypeOK

\* The statements that end a request, and at most write a transaction row: that of
\* a capture never gets written.
LEMMA RowsIInv ==
  ASSUME IInv, NEW r \in Requests,
         RecordOrder(r) \/ RecordCaptureFailure(r) \/ RecordCapture(r)
  PROVE  IInv'
<1>1. PICK q \in Request : q.pc = "idle" /\ RequestOK(q)' /\ req' = [req EXCEPT ![r] = q]
  BY LastRecord DEF RecordOrder, RecordCaptureFailure, RecordCapture
<1>2. Pay(r) \in Payments /\ req[r].pc \notin {"captured", "paid"}
  BY Carried DEF RecordOrder, RecordCaptureFailure, RecordCapture, At, Pay, CaptureRequest
<1>3. RecordCapture(r) => EventIdTaken(PaidBy(r))
  BY Carried DEF RecordCapture, At, CaptureRequest, EventIdTaken, Confirms, PaidBy
<1>4. CASE UNCHANGED trail
  BY <1>1, <1>2, <1>4, OnlyGoesOn
  DEF RecordOrder, RecordCaptureFailure, RecordCapture, tables, history
<1>5. CASE RecordOrder(r)
  <2>1. <<"ORDER_CREATED", NULL>> \in Event
    BY DEF Event
  <2>2. QED
    BY <1>1, <1>2, <1>5, <2>1, RowAdded DEF RecordOrder
<1>6. QED
  BY <1>3, <1>4, <1>5 DEF RecordCaptureFailure, RecordCapture, tables

\* Adding up the refunds.
LEMMA SumUpIInv ==
  ASSUME IInv, NEW r \in Requests, SumUp(r)
  PROVE  IInv'
<1>1. DecideRequest(req[r]) /\ req[r].pc = "sum"
  BY Carried DEF SumUp, At
<1>2. PICK full \in BOOLEAN :
        req' = [req EXCEPT ![r] = [req[r] EXCEPT !.pc = "processed", !.full = full]]
  <2> DEFINE full ==
        SumRefunds(Processed(RefundsOf(Pay(r))) \union {req[r].refund}) >= AmountOf(Pay(r))
  <2>1. full \in BOOLEAN
    OBVIOUS
  <2>2. req' = [req EXCEPT ![r] = [req[r] EXCEPT !.pc = "processed", !.full = full]]
    BY DEF SumUp, IInv, TypeOK
  <2>3. QED
    BY <2>1, <2>2
<1>3. [req[r] EXCEPT !.pc = "processed", !.full = full] \in Request
  BY RequestOf DEF Request, Pcs
<1>4. PICK q \in Request : q = [req[r] EXCEPT !.pc = "processed", !.full = full]
  BY <1>3
<1>5. /\ q.pc = "processed" /\ q.payment = req[r].payment /\ q.refund = req[r].refund
      /\ q.paidBy = req[r].paidBy /\ q.amount = req[r].amount
  BY <1>4, RequestOf DEF Request
<1>6. RequestOK(q)'
  BY <1>1, <1>5 DEF SumUp, tables, RequestOK, DecideRequest, Taken, Confirms
<1>7. QED
  BY <1>1, <1>2, <1>4, <1>5, <1>6, OnlyGoesOn DEF SumUp

\* The transaction row of a refund.
LEMMA RecordRefundIInv ==
  ASSUME IInv, NEW r \in Requests, RecordRefund(r)
  PROVE  IInv'
<1> USE DEF RecordRefund
<1>1. DecideRequest(req[r]) /\ req[r].pc = "refundRow"
  BY Carried DEF At
<1>2. PICK event \in Event :
        event[1] # "PAYMENT_AUTHORIZED" /\ AddTransaction(Pay(r), event)
  BY <1>1 DEF Event, DecideRequest
<1>3. PICK q \in Request :
        q.pc # "authorize" /\ RequestOK(q)' /\ req' = [req EXCEPT ![r] = q]
  <2>1. CASE Finish(r)
    BY <2>1, LastRecord
  <2>2. CASE Goto(r, "close")
    <3>1. PICK q \in Request :
            q = [req[r] EXCEPT !.pc = "close"] /\ req' = [req EXCEPT ![r] = q]
      BY <2>2, NextRecord DEF Pcs
    <3>2. /\ q.pc = "close" /\ q.payment = req[r].payment /\ q.refund = req[r].refund
          /\ q.paidBy = req[r].paidBy /\ q.amount = req[r].amount
      BY <3>1, RequestOf DEF Request
    <3>3. Confirms(q.payment, q.paidBy)'
      BY <1>1, <1>2, <3>2 DEF DecideRequest, Confirms, AddTransaction, IInv, TypeOK
    <3>4. DecideRequest(q)'
      BY <1>1, <3>2, <3>3 DEF DecideRequest, Taken, MoneyMoved
    <3>5. QED
      BY <3>1, <3>2, <3>4 DEF RequestOK
  <2>3. QED
    BY <2>1, <2>2
<1>4. QED
  BY <1>1, <1>2, <1>3, RowAdded DEF DecideRequest, Pay

\* An abandoned request leaves its payment torn.
LEMMA AbandonIInv ==
  ASSUME IInv, NEW r \in Requests, Abandon(r)
  PROVE  IInv'
<1> USE DEF Abandon, Fault, tables
<1>1. PICK q \in Request : q.pc = "idle" /\ RequestOK(q)' /\ req' = [req EXCEPT ![r] = q]
  BY LastRecord
<1>2. Grows /\ SameMoney
  BY DEF Grows, SameMoney, Taken, Confirms
<1>3. RefundsOK'
  BY <1>2, RefundsStay
<1>4. faults' \in 0..MaxFaults /\ torn \subseteq torn' /\ torn' \subseteq Payments
  BY RequestOf, BoundAssumption DEF IInv, TypeOK, Pay, Request
<1>5. ASSUME req[r].pc \in {"captured", "paid"}
      PROVE  req[r].payment \in torn'
  BY <1>5, Carried, NullAssumption DEF Pay, CaptureRequest, VerifyRequest
<1>6. \A g \in Payments : gateway'[g].refunded <= gateway'[g].captured
  BY DEF IInv, GatewayOK
<1>7. QED
  BY <1>1, <1>2, <1>3, <1>4, <1>5, <1>6, SideStep DEF IInv, TypeOK

-----------------------------------------------------------------------------
(* The statements that write a payment's or a booking's status, and the capture *)

\* A new payment.
LEMMA InsertPaymentIInv ==
  ASSUME IInv, NEW r \in Requests, InsertPayment(r)
  PROVE  IInv'
<1> USE DEF InsertPayment, history
<1>1. req[r].booking \in Bookings /\ req[r].pc = "insert"
  BY Carried DEF At
<1>2. PICK p \in Payments :
        /\ payments[p].status = "NONE"
        /\ payments' = [payments EXCEPT ![p] =
                          [status |-> "PENDING", booking |-> req[r].booking, paidBy |-> NULL]]
        /\ gateway' = [gateway EXCEPT ![p].state = "created"]
        /\ req' = [req EXCEPT ![r] = [req[r] EXCEPT !.pc = "ordered", !.payment = p]]
  BY ZenonT(30) DEF IInv, TypeOK
<1>3. [req[r] EXCEPT !.pc = "ordered", !.payment = p] \in Request
  BY RequestOf DEF Request, Pcs
<1>4. PICK q \in Request : q = [req[r] EXCEPT !.pc = "ordered", !.payment = p]
  BY <1>3
<1>5. q.pc = "ordered" /\ q.payment = p
  BY <1>4, RequestOf DEF Request
<1>6. RequestOK(q)'
  BY <1>5 DEF RequestOK, RetryRequest
<1>7. /\ payments'[p] = [status |-> "PENDING", booking |-> req[r].booking, paidBy |-> NULL]
      /\ \A k \in Payments \ {p} : payments'[k] = payments[k]
  BY <1>2 DEF IInv, TypeOK
<1>8. /\ gateway' \in [Payments -> GatewayPayment]
      /\ \A g \in Payments : /\ gateway'[g].captured = gateway[g].captured
                             /\ gateway'[g].refunded = gateway[g].refunded
  BY <1>2 DEF IInv, TypeOK, GatewayPayment
<1>9. payments[p].status \notin MoneyMoved /\ payments[p].paidBy = NULL
  BY <1>2 DEF IInv, LedgerOK, MoneyMoved, CapturedStatus
<1>10. Grows
  BY <1>2, <1>7, <1>8, <1>9 DEF Grows, MoneyMoved
<1>11. SameMoney
  BY <1>7, <1>8, <1>9 DEF SameMoney, Confirms
<1>12. RequestsOK' /\ req' \in [Requests -> Request]
  BY <1>2, <1>4, <1>6, <1>10, OneRequestMoves
<1>13. TypeOK'
  <2>1. payments' \in [Payments -> PaymentRow \union {NoPayment}]
    BY <1>1, <1>2 DEF IInv, TypeOK, PaymentRow, PaymentStatus
  <2>2. QED
    BY <1>8, <1>12, <2>1 DEF IInv, TypeOK
<1>14. RefundsOK'
  BY <1>10, RefundsStay
<1>15. GatewayOK' /\ LedgerOK'
  <2>1. \A g \in Payments : gateway'[g].refunded <= gateway'[g].captured
    BY <1>8 DEF IInv, GatewayOK
  <2>2. \A k \in Payments : payments[k].status \in MoneyMoved <=> payments'[k].status \in MoneyMoved
    BY <1>7, <1>9 DEF MoneyMoved, CapturedStatus
  <2>3. \A k \in Payments : payments'[k].status \in CapturedStatus => payments[k].status \in CapturedStatus
    BY <1>7 DEF CapturedStatus
  <2>4. QED
    BY <1>10, <1>11, <2>1, <2>2, <2>3, LedgerStays
<1>16. Agreed'
  BY <1>2, <1>4, <1>5, <1>11, AgreedStays DEF SameMoney
<1>17. ASSUME NEW k \in Payments, NEW pc \in {"captured", "paid"}, SomeAt(pc, k)
       PROVE  SomeAt(pc, k)'
  BY <1>1, <1>2, <1>4, <1>17, OthersStay
<1>18. CapturesKnown'
  <2>1. ~Captured(p)
    BY <1>9 DEF Captured, AtGateway, NoMoney
  <2>2. \A k \in Payments : Captured(k)' <=> Captured(k)
    BY <1>11, CapturedStays
  <2>3. QED
    BY <1>7, <1>17, <2>1, <2>2 DEF IInv, CapturesKnown
<1>19. BookingsTold'
  BY <1>7, <1>9, <1>17 DEF IInv, BookingsTold, SaysSo, MoneyMoved, CapturedStatus
<1>20. QED
  BY <1>12, <1>13, <1>14, <1>15, <1>16, <1>18, <1>19 DEF IInv

\* The first authorization of a row that is not crossed finds none on it.
LEMMA FirstAuthorization ==
  ASSUME IInv, NEW r \in Requests, At(r, "authorize"), ~EventIdTaken(PaidBy(r)),
         Pay(r) \notin crossed
  PROVE  payments[Pay(r)].paidBy = NULL /\ payments[Pay(r)].status \notin MoneyMoved
<1>1. VerifyRequest(req[r]) /\ req[r].pc = "authorize"
  BY Carried DEF At
<1>2. ~Confirms(Pay(r), PaidBy(r))
  BY <1>1 DEF EventIdTaken, Confirms, VerifyRequest, Pay, PaidBy
<1>3. payments[Pay(r)].paidBy \in {NULL, PaidBy(r)}
  BY <1>1 DEF IInv, Agreed, Pay, PaidBy
<1>4. QED
  BY <1>1, <1>2, <1>3, OwnPayment DEF IInv, LedgerOK, VerifyRequest, Pay

\* The authorization: without effect where the event id is taken.
LEMMA AuthorizeIInv ==
  ASSUME IInv, NEW r \in Requests, Authorize(r)
  PROVE  IInv'
<1> USE DEF Authorize, history
<1>1. VerifyRequest(req[r]) /\ req[r].pc = "authorize"
  BY Carried DEF At
<1>2. CASE EventIdTaken(PaidBy(r))
  <2>1. PICK q \in Request : q.pc = "idle" /\ RequestOK(q)' /\ req' = [req EXCEPT ![r] = q]
    BY <1>2, LastRecord
  <2>2. QED
    BY <1>1, <1>2, <2>1, OnlyGoesOn DEF tables
<1>3. CASE ~EventIdTaken(PaidBy(r))
  <2>0. PICK p \in Payments, g \in Payments : p = Pay(r) /\ g = PaidBy(r)
    BY <1>1 DEF VerifyRequest, Pay, PaidBy
  <2>1. /\ p = req[r].payment /\ g = req[r].paidBy
        /\ payments[p] \in PaymentRow
        /\ payments' = [payments EXCEPT ![p] =
                          [payments[p] EXCEPT !.status = "AUTHORIZED", !.paidBy = g]]
        /\ trail' = [trail EXCEPT ![p] = trail[p] \union {<<"PAYMENT_AUTHORIZED", g>>}]
        /\ Goto(r, "paid")
    BY <1>1, <1>3, <2>0, Rows
       DEF VerifyRequest, Pay, PaidBy, MarkAuthorized, AddTransaction, IInv, TypeOK
  <2>2. p \notin crossed => payments[p].paidBy = NULL /\ payments[p].status \notin MoneyMoved
    BY <1>3, <2>0, FirstAuthorization
  <2>3. \A k \in Payments : ~Confirms(k, g)
    BY <1>3, <2>0 DEF EventIdTaken, Confirms
  <2>4. PICK q \in Request :
          q = [req[r] EXCEPT !.pc = "paid"] /\ req' = [req EXCEPT ![r] = q]
    BY <2>1, NextRecord DEF Pcs
  <2>5. /\ q.pc = "paid" /\ q.payment = p /\ q.booking = payments[p].booking
        /\ q.paidBy = g
    BY <1>1, <2>1, <2>4, RequestOf DEF Request, VerifyRequest
  <2>6. /\ payments'[p] = [payments[p] EXCEPT !.status = "AUTHORIZED", !.paidBy = g]
        /\ \A k \in Payments \ {p} : payments'[k] = payments[k] /\ trail'[k] = trail[k]
        /\ trail'[p] = trail[p] \union {<<"PAYMENT_AUTHORIZED", g>>}
    BY <2>1 DEF IInv, TypeOK
  <2>7. /\ payments'[p] \in PaymentRow
        /\ payments'[p].status = "AUTHORIZED"
        /\ payments'[p].booking = payments[p].booking
        /\ payments'[p].paidBy = g
    <3>1. PICK row : row = payments[p] /\ row \in PaymentRow
      BY <2>1
    <3>2. payments'[p] = [row EXCEPT !.status = "AUTHORIZED", !.paidBy = g]
      BY <2>6, <3>1
    <3>3. payments'[p] = [status |-> "AUTHORIZED", booking |-> row.booking, paidBy |-> g]
      BY <3>1, <3>2 DEF PaymentRow
    <3>4. QED
      BY <3>1, <3>3 DEF PaymentRow, PaymentStatus
  <2>8. \A k, h \in Payments : Confirms(k, h)' <=> Confirms(k, h) \/ (k = p /\ h = g)
    BY <2>6 DEF Confirms
  <2>9. RequestOK(q)'
    BY <2>5, <2>7 DEF RequestOK, VerifyRequest
  <2>10. Grows
    BY <2>6, <2>7 DEF Grows, MoneyMoved
  <2>11. RequestsOK' /\ req' \in [Requests -> Request]
    BY <2>4, <2>9, <2>10, OneRequestMoves
  <2>12. TypeOK'
    <3>1. payments' \in [Payments -> PaymentRow \union {NoPayment}]
      BY <2>1, <2>6, <2>7 DEF IInv, TypeOK
    <3>2. trail' \in [Payments -> SUBSET Event]
      BY <2>1 DEF IInv, TypeOK, Event
    <3>3. QED
      BY <2>11, <3>1, <3>2 DEF IInv, TypeOK
  <2>13. RefundsOK'
    BY <2>10, RefundsStay
  <2>14. ~Taken(g)
    BY <2>3 DEF IInv, GatewayOK
  <2>15. GatewayOK'
    <3>1. \A k \in Payments, h \in Payments : Confirms(k, h) => AmountOf(k)' = AmountOf(k)
      BY <2>10 DEF IInv, LedgerOK, MoneyMoved, CapturedStatus, AmountOf, Grows
    <3>2. \A k, l, h \in Payments : Confirms(k, h)' /\ Confirms(l, h)' => k = l
      BY <2>3, <2>8 DEF IInv, GatewayOK
    <3>3. \A h \in Payments : Taken(h) => \E k \in Payments : Confirms(k, h)'
      BY <2>8 DEF IInv, GatewayOK
    <3>4. \A k, h \in Payments : Confirms(k, h)' /\ Taken(h) => gateway[h].captured = AmountOf(k)'
      BY <2>8, <2>14, <3>1 DEF IInv, GatewayOK
    <3>5. QED
      BY <3>2, <3>3, <3>4 DEF IInv, GatewayOK, Taken
  <2>16. LedgerOK'
    <3>1. ASSUME NEW k \in Payments, k # p
          PROVE  /\ payments'[k] = payments[k]
                 /\ Captured(k)' <=> Captured(k)
                 /\ \A x : Confirms(k, x)' <=> Confirms(k, x)
      BY <2>6, <3>1 DEF Captured, AtGateway, Confirms
    <3>2. /\ Confirms(p, payments[p].paidBy)'
          /\ p \notin crossed => \A h \in Payments : Confirms(p, h)' => h = g
      BY <2>2, <2>6, <2>7, <2>8, NullAssumption DEF Confirms, IInv, LedgerOK
    <3>3. ASSUME NEW k \in Payments, k # p
          PROVE  Confirms(k, payments[k].paidBy)' <=> Confirms(k, payments[k].paidBy)
      BY <3>1, <3>3 DEF Confirms
    <3>4. QED
      BY <2>0, <2>7, <3>1, <3>2, <3>3, NullAssumption
         DEF IInv, LedgerOK, MoneyMoved, CapturedStatus
  <2>17. Agreed'
    <3>1. req'[r] = q /\ \A s \in Requests \ {r} : req'[s] = req[s]
      BY <2>4 DEF IInv, TypeOK
    <3>2. \A s \in Requests : req[s].pc = "authorize" => req[s].payment \in Payments
      BY Carried DEF VerifyRequest
    <3>3. ASSUME NEW s \in Requests, req'[s].pc = "authorize", req'[s].payment \notin crossed
          PROVE  payments'[req'[s].payment].paidBy \in {NULL, req'[s].paidBy}
      <4>1. s # r /\ req'[s] = req[s]
        BY <2>5, <3>1, <3>3
      <4>2. CASE req[s].payment = p
        BY <1>1, <2>1, <2>7, <3>3, <4>1, <4>2 DEF IInv, Agreed
      <4>3. CASE req[s].payment # p
        BY <2>6, <3>2, <3>3, <4>1, <4>3 DEF IInv, Agreed
      <4>4. QED
        BY <4>2, <4>3
    <3>4. QED
      BY <2>5, <3>1, <3>3 DEF IInv, Agreed
  <2>18. ASSUME NEW k \in Payments, NEW pc \in {"captured", "paid"}, SomeAt(pc, k)
         PROVE  SomeAt(pc, k)'
    BY <1>1, <2>4, <2>18, OthersStay
  <2>19. CapturesKnown'
    <3>1. ~Captured(p)'
      BY <2>7, <2>14, <2>0, NullAssumption DEF Captured, AtGateway, Taken
    <3>2. \A k \in Payments \ {p} : (Captured(k)' <=> Captured(k)) /\ payments'[k] = payments[k]
      BY <2>6 DEF Captured, AtGateway
    <3>3. QED
      BY <2>18, <3>1, <3>2 DEF IInv, CapturesKnown
  <2>20. SomeAt("paid", p)'
    BY <2>4, <2>5, <2>11 DEF SomeAt, IInv, TypeOK
  <2>21. BookingsTold'
    BY <2>6, <2>18, <2>20 DEF IInv, BookingsTold, SaysSo, MoneyMoved
  <2>22. QED
    BY <2>11, <2>12, <2>13, <2>15, <2>16, <2>17, <2>19, <2>21 DEF IInv
<1>4. QED
  BY <1>2, <1>3

\* The booking is told that it was paid, or paid back.
LEMMA TellBookingIInv ==
  ASSUME IInv, NEW r \in Requests, MarkBookingPaid(r) \/ MarkBookingRefunded(r)
  PROVE  IInv'
<1> USE DEF MarkBookingPaid, MarkBookingRefunded, tables, history
<1>1. PICK q \in Request : q.pc = "idle" /\ RequestOK(q)' /\ req' = [req EXCEPT ![r] = q]
  BY LastRecord
<1>2. PICK status \in {"PAYMENT_AUTHORIZED", "REFUNDED"} :
        booking' = [booking EXCEPT ![req[r].booking] = status]
  OBVIOUS
<1>3. Grows /\ SameMoney
  BY DEF Grows, SameMoney, Taken, Confirms
<1>4. RequestsOK' /\ req' \in [Requests -> Request]
  BY <1>1, <1>3, OneRequestMoves
<1>5. TypeOK'
  BY <1>2, <1>4 DEF IInv, TypeOK, BookingStatus
<1>6. RefundsOK'
  BY <1>3, RefundsStay
<1>7. GatewayOK' /\ LedgerOK' /\ Agreed'
  <2>1. \A g \in Payments : gateway'[g].refunded <= gateway'[g].captured
    BY DEF IInv, GatewayOK
  <2>2. GatewayOK' /\ LedgerOK'
    BY <1>3, <2>1, LedgerStays
  <2>3. QED
    BY <1>1, <2>2, AgreedStays
<1>8. \A b \in Bookings : SaysSo(b) => SaysSo(b)'
  BY <1>2 DEF IInv, TypeOK, SaysSo
<1>9. CapturesKnown'
  <2>1. \A p \in Payments : (Captured(p)' <=> Captured(p)) /\ (SomeAt("captured", p) => SomeAt("captured", p)')
    BY <1>1, <1>3, CapturedStays, OthersStay DEF At
  <2>2. QED
    BY <2>1 DEF IInv, CapturesKnown
<1>10. ASSUME NEW p \in Payments, payments[p].status \in MoneyMoved
       PROVE  \/ SaysSo(payments[p].booking)'
              \/ p \in torn
              \/ payments[p].booking \in raced
              \/ SomeAt("paid", p)'
  <2>1. payments[p].booking \in Bookings
    BY <1>10, Rows DEF PaymentRow, MoneyMoved, CapturedStatus
  <2>2. CASE SomeAt("paid", p) /\ req[r].pc = "paid" /\ req[r].payment = p
    <3>1. req[r].booking = payments[p].booking
      BY <2>2, Carried DEF VerifyRequest
    <3>2. QED
      BY <1>2, <2>1, <3>1 DEF SaysSo, IInv, TypeOK
  <2>3. CASE SomeAt("paid", p) /\ ~(req[r].pc = "paid" /\ req[r].payment = p)
    BY <1>1, <2>3, OthersStay
  <2>4. CASE ~SomeAt("paid", p)
    BY <1>8, <1>10, <2>1, <2>4 DEF IInv, BookingsTold
  <2>5. QED
    BY <2>2, <2>3, <2>4
<1>11. BookingsTold'
  BY <1>10 DEF BookingsTold, SaysSo, MoneyMoved
<1>12. QED
  BY <1>4, <1>5, <1>6, <1>7, <1>9, <1>11 DEF IInv

\* The capture: either the request knows it, or the payment is torn.
LEMMA GatewayCaptureIInv ==
  ASSUME IInv, NEW r \in Requests, GatewayCapture(r)
  PROVE  IInv'
<1> USE DEF GatewayCapture, tables, Fault
<1>1. CaptureRequest(req[r]) /\ req[r].pc = "capture"
  BY Carried DEF At
<1>2. PICK p \in Payments, g \in Payments :
        /\ p = req[r].payment /\ p = Pay(r)
        /\ g = req[r].paidBy /\ g = PaidBy(r)
        /\ payments[p].status \in MoneyMoved
        /\ Confirms(p, g)
  BY <1>1 DEF CaptureRequest, Pay, PaidBy
<1>3. CASE UNCHANGED <<gateway, faults, torn>> /\ Goto(r, "captureFailed")
  <2>1. PICK q \in Request :
          q = [req[r] EXCEPT !.pc = "captureFailed"] /\ req' = [req EXCEPT ![r] = q]
    BY <1>3, NextRecord DEF Pcs
  <2>2. q.pc = "captureFailed" /\ q.payment = req[r].payment /\ q.paidBy = req[r].paidBy
    BY <2>1, RequestOf DEF Request
  <2>3. RequestOK(q)'
    BY <1>1, <2>2 DEF RequestOK, CaptureRequest, MoneyMoved, Confirms
  <2>4. QED
    BY <1>1, <1>3, <2>1, <2>2, <2>3, OnlyGoesOn DEF history
<1>4. CASE /\ GatewayCaptures(r)
           /\ \/ Goto(r, "captured") /\ UNCHANGED <<faults, torn>>
              \/ Goto(r, "captureFailed") /\ Fault({Pay(r)})
  <2>1. PICK pc \in {"captured", "captureFailed"} :
          Goto(r, pc) /\ (pc = "captured" \/ p \in torn')
    BY <1>2, <1>4
  <2>2. PICK q \in Request : q = [req[r] EXCEPT !.pc = pc] /\ req' = [req EXCEPT ![r] = q]
    BY <2>1, NextRecord DEF Pcs
  <2>3. q.pc = pc /\ q.payment = p /\ q.paidBy = g
    BY <1>2, <2>2, RequestOf DEF Request
  <2>4. PICK price \in Nat \ {0} : price = AmountOf(p)
    BY <1>2, Rows, PriceAssumption DEF AmountOf, PaymentRow, MoneyMoved, CapturedStatus
  <2>5. ~Taken(g) /\ gateway' = [gateway EXCEPT ![g].captured = price]
    BY <1>2, <1>4, <2>4 DEF GatewayCaptures, Taken
  <2>6. /\ gateway' \in [Payments -> GatewayPayment]
        /\ gateway'[g].captured = price
        /\ gateway'[g].refunded = gateway[g].refunded
        /\ \A k \in Payments \ {g} : gateway'[k] = gateway[k]
    BY <2>4, <2>5 DEF IInv, TypeOK, GatewayPayment
  <2>7. torn \subseteq torn' /\ torn' \subseteq Payments /\ faults' \in 0..MaxFaults
    BY <1>2, <1>4, BoundAssumption DEF IInv, TypeOK
  <2>8. \A k, h \in Payments : Confirms(k, h)' <=> Confirms(k, h)
    BY DEF Confirms
  <2>9. Taken(g)' /\ \A k \in Payments \ {g} : Taken(k)' <=> Taken(k)
    BY <2>4, <2>6 DEF Taken
  <2>10. RequestOK(q)'
    BY <1>2, <2>1, <2>3, <2>8, <2>9 DEF RequestOK, CaptureRequest, MoneyMoved
  <2>11. Grows
    BY <2>5, <2>6 DEF Grows
  <2>12. RequestsOK' /\ req' \in [Requests -> Request]
    BY <2>2, <2>10, <2>11, OneRequestMoves
  <2>13. TypeOK'
    BY <2>6, <2>7, <2>12 DEF IInv, TypeOK
  <2>14. RefundsOK'
    BY <2>11, RefundsStay
  <2>15. GatewayOK'
    <3>1. \A k \in Payments : AmountOf(k)' = AmountOf(k)
      BY DEF AmountOf
    <3>2. gateway'[g].refunded <= gateway'[g].captured
      <4>1. gateway[g].refunded <= gateway[g].captured
        BY DEF IInv, GatewayOK
      <4>2. gateway[g].captured = 0
        BY <2>5, GatewayNumbers DEF Taken
      <4>3. QED
        BY <2>4, <2>6, <4>1, <4>2, GatewayNumbers
    <3>3. \A k \in Payments : Confirms(k, g) => k = p
      BY <1>2 DEF IInv, GatewayOK
    <3>4. QED
      BY <1>2, <2>4, <2>6, <2>8, <2>9, <3>1, <3>2, <3>3 DEF IInv, GatewayOK
  <2>16. ASSUME NEW k \in Payments
         PROVE  /\ Captured(k) => Captured(k)'
                /\ Captured(k)' /\ ~Captured(k) => k = p
    <3>1. CASE payments[k].paidBy = g
      <4>1. payments[k].status \in MoneyMoved /\ Confirms(k, g)
        BY <3>1, NullAssumption DEF IInv, LedgerOK
      <4>2. k = p
        BY <1>2, <4>1 DEF IInv, GatewayOK
      <4>3. QED
        BY <2>9, <3>1, <4>2, NullAssumption DEF Captured, AtGateway, Taken
    <3>2. CASE payments[k].paidBy # g
      <4>1. payments[k].paidBy \in Payments \union {NULL}
        BY DEF IInv, TypeOK, PaymentRow, NoPayment
      <4>2. QED
        BY <2>6, <3>2, <4>1 DEF Captured, AtGateway, NoMoney
    <3>3. QED
      BY <3>1, <3>2
  <2>17. LedgerOK'
    BY <2>8, <2>16 DEF IInv, LedgerOK, Confirms, MoneyMoved
  <2>18. Agreed'
    BY <2>1, <2>2, <2>3, AgreedStays
  <2>19. ASSUME NEW k \in Payments, NEW at \in {"captured", "paid"}, SomeAt(at, k)
         PROVE  SomeAt(at, k)'
    BY <1>1, <2>2, <2>19, OthersStay
  <2>20. p \in torn' \/ SomeAt("captured", p)'
    BY <2>1, <2>2, <2>3, <2>12 DEF SomeAt, IInv, TypeOK
  <2>21. CapturesKnown'
    BY <2>7, <2>16, <2>19, <2>20 DEF IInv, CapturesKnown
  <2>22. BookingsTold'
    BY <2>7, <2>19 DEF IInv, BookingsTold, SaysSo, MoneyMoved
  <2>23. QED
    BY <2>12, <2>13, <2>14, <2>15, <2>17, <2>18, <2>21, <2>22 DEF IInv
<1>5. QED
  BY <1>3, <1>4

\* A payment the gateway captured becomes captured or refunded in the row.
LEMMA MarkPaymentIInv ==
  ASSUME IInv, NEW r \in Requests, MarkCaptured(r) \/ MarkRefunded(r)
  PROVE  IInv'
<1> USE DEF MarkCaptured, MarkRefunded, history
<1>1. \/ CaptureRequest(req[r]) /\ req[r].pc = "captured" /\ Goto(r, "captureRow")
      \/ DecideRequest(req[r]) /\ req[r].pc = "refunded" /\ Goto(r, "refundRow")
  BY Carried DEF At
<1>2. PICK p \in Payments, g \in Payments :
        /\ p = req[r].payment
        /\ g = req[r].paidBy
        /\ payments[p].status \in MoneyMoved
        /\ Confirms(p, g)
        /\ Taken(g)
  BY <1>1 DEF CaptureRequest, DecideRequest
<1>3. PICK status \in CapturedStatus : payments' = [payments EXCEPT ![p].status = status]
  BY <1>2 DEF CapturedStatus, Pay
<1>4. PICK pc \in {"captureRow", "refundRow"} :
        /\ Goto(r, pc)
        /\ pc = "captureRow" => CaptureRequest(req[r])
        /\ pc = "refundRow" => DecideRequest(req[r])
  BY <1>1
<1>5. PICK q \in Request : q = [req[r] EXCEPT !.pc = pc] /\ req' = [req EXCEPT ![r] = q]
  BY <1>4, NextRecord DEF Pcs
<1>6. /\ q.pc = pc /\ q.payment = p /\ q.refund = req[r].refund /\ q.paidBy = g
      /\ q.amount = req[r].amount
  BY <1>2, <1>5, RequestOf DEF Request
<1>7. payments[p] \in PaymentRow
  BY <1>2, Rows DEF MoneyMoved, CapturedStatus
<1>8. /\ payments'[p].status = status
      /\ payments'[p].booking = payments[p].booking
      /\ payments'[p].paidBy = payments[p].paidBy
      /\ payments'[p] \in PaymentRow
      /\ \A k \in Payments \ {p} : payments'[k] = payments[k]
  BY <1>2, <1>3, <1>7 DEF IInv, TypeOK, PaymentRow, PaymentStatus, CapturedStatus
<1>9. status \in MoneyMoved /\ status # "NONE"
  BY DEF MoneyMoved, CapturedStatus
<1>10. Grows /\ SameMoney
  BY <1>8, <1>9 DEF Grows, SameMoney, Taken, Confirms
<1>11. RequestOK(q)'
  BY <1>2, <1>4, <1>6, <1>8, <1>9
  DEF RequestOK, CaptureRequest, DecideRequest, Taken, Confirms, MoneyMoved
<1>12. RequestsOK' /\ req' \in [Requests -> Request]
  BY <1>5, <1>10, <1>11, OneRequestMoves
<1>13. TypeOK'
  <2>1. payments' \in [Payments -> PaymentRow \union {NoPayment}]
    BY <1>3, <1>8 DEF IInv, TypeOK
  <2>2. QED
    BY <1>12, <2>1 DEF IInv, TypeOK
<1>14. RefundsOK'
  BY <1>10, RefundsStay
<1>15. p \notin crossed => Captured(p)
  BY <1>2, OnlyPayment DEF Captured, Taken
<1>16. GatewayOK' /\ LedgerOK'
  <2>1. \A h \in Payments : gateway'[h].refunded <= gateway'[h].captured
    BY DEF IInv, GatewayOK
  <2>2. \A k \in Payments : payments[k].status \in MoneyMoved <=> payments'[k].status \in MoneyMoved
    BY <1>2, <1>8, <1>9
  <2>3. \A k \in Payments \ crossed' : payments'[k].status \in CapturedStatus =>
          payments[k].status \in CapturedStatus \/ Captured(k)
    BY <1>8, <1>15
  <2>4. QED
    BY <1>10, <2>1, <2>2, <2>3, LedgerStays
<1>17. Agreed'
  BY <1>4, <1>5, <1>6, <1>10, AgreedStays DEF SameMoney
<1>18. ASSUME NEW k \in Payments, k # p, SomeAt("captured", k)
       PROVE  SomeAt("captured", k)'
  BY <1>2, <1>5, <1>18, OthersStay
<1>19. CapturesKnown'
  <2>1. \A k \in Payments : Captured(k)' <=> Captured(k)
    BY <1>10, CapturedStays
  <2>2. QED
    BY <1>8, <1>18, <2>1 DEF IInv, CapturesKnown
<1>20. ASSUME NEW k \in Payments, SomeAt("paid", k)
       PROVE  SomeAt("paid", k)'
  BY <1>1, <1>5, <1>20, OthersStay
<1>21. BookingsTold'
  BY <1>2, <1>8, <1>20 DEF IInv, BookingsTold, SaysSo, MoneyMoved
<1>22. QED
  BY <1>12, <1>13, <1>14, <1>16, <1>17, <1>19, <1>21 DEF IInv

-----------------------------------------------------------------------------
(* The booking use cases and the parent *)

\* Where no request moves and no row of a payment is written, only the bookings
\* have to be looked at.
LEMMA OnlyBookings ==
  ASSUME IInv, UNCHANGED <<payments, trail, refunds, req, crossed, torn>>, TypeOK',
         \A g \in Payments : /\ gateway'[g].captured = gateway[g].captured
                             /\ gateway'[g].refunded = gateway[g].refunded,
         \A b \in Bookings : SaysSo(b) \/ b \in raced => SaysSo(b)' \/ b \in raced'
  PROVE  IInv'
<1>1. Grows /\ SameMoney
  BY DEF Grows, SameMoney, Taken, Confirms
<1>2. RequestsOK' /\ RefundsOK'
  BY <1>1, NoRequestMoves, RefundsStay
<1>3. GatewayOK' /\ LedgerOK'
  <2>1. \A g \in Payments : gateway'[g].refunded <= gateway'[g].captured
    BY DEF IInv, GatewayOK
  <2>2. QED
    BY <1>1, <2>1, LedgerStays
<1>4. Agreed'
  BY DEF IInv, Agreed
<1>5. CapturesKnown'
  <2>1. \A p \in Payments : Captured(p)' <=> Captured(p)
    BY <1>1, CapturedStays
  <2>2. QED
    BY <2>1 DEF IInv, CapturesKnown, SomeAt
<1>6. \A p \in Payments : payments[p].status \in MoneyMoved => payments[p].booking \in Bookings
  BY Rows DEF PaymentRow, MoneyMoved, CapturedStatus
<1>7. \A p \in Payments : SomeAt("paid", p) => SomeAt("paid", p)'
  BY DEF SomeAt
<1>8. BookingsTold'
  BY <1>6, <1>7 DEF IInv, BookingsTold, MoneyMoved
<1>9. QED
  BY <1>2, <1>3, <1>4, <1>5, <1>8 DEF IInv

\* A booking use case that writes over what says that the booking was paid has
\* not read it.
LEMMA BookingIInv ==
  ASSUME IInv, NEW b \in Bookings,
         WriteBooking(b) \/ \E next \in Written : DecideBooking(b, next)
  PROVE  IInv'
<1> USE DEF WriteBooking, DecideBooking, tables, history
<1>1. TypeOK'
  <2>1. booking' \in [Bookings -> BookingStatus]
    BY BoundAssumption DEF IInv, TypeOK, BookingStatus, Status, Active
  <2>2. decided' \in [Bookings -> Written \union {"NONE"}]
    BY DEF IInv, TypeOK
  <2>3. raced' \subseteq Bookings
    BY DEF IInv, TypeOK
  <2>4. QED
    BY <2>1, <2>2, <2>3 DEF IInv, TypeOK
<1>2. ASSUME NEW c \in Bookings, SaysSo(c)
      PROVE  SaysSo(c)' \/ c \in raced'
  <2>1. CASE booking'[c] = booking[c]
    BY <1>2, <2>1 DEF SaysSo
  <2>2. CASE booking'[c] # booking[c]
    <3>1. c = b /\ WriteBooking(b)
      BY <2>2 DEF IInv, TypeOK
    <3>2. ~Lifecycle!MayBecome(booking[b], decided[b])
      BY <1>2, <3>1 DEF SaysSo, Lifecycle!MayBecome, Lifecycle!IsAllowedTransition,
                        Lifecycle!AllowedTransitions, Lifecycle!AdminCancellableStatuses
    <3>3. QED
      BY <3>1, <3>2
  <2>3. QED
    BY <2>1, <2>2
<1>3. raced \subseteq raced'
  OBVIOUS
<1>4. QED
  BY <1>1, <1>2, <1>3, OnlyBookings

\* A checkout moves no money yet.
LEMMA CheckoutIInv ==
  ASSUME IInv, NEW p \in Payments, Checkout(p)
  PROVE  IInv'
<1> USE DEF Checkout, tables, history
<1>1. /\ gateway' \in [Payments -> GatewayPayment]
      /\ \A g \in Payments : /\ gateway'[g].captured = gateway[g].captured
                             /\ gateway'[g].refunded = gateway[g].refunded
  BY DEF IInv, TypeOK, GatewayPayment
<1>2. TypeOK'
  BY <1>1 DEF IInv, TypeOK
<1>3. QED
  BY <1>1, <1>2, OnlyBookings DEF SaysSo

\* Every step keeps the invariant.
LEMMA NextIInv == IInv /\ [Next]_vars => IInv'
<1> SUFFICES ASSUME IInv, [Next]_vars PROVE IInv'
  OBVIOUS
<1>1. ASSUME NEW b \in Bookings,
             WriteBooking(b) \/ \E next \in Written : DecideBooking(b, next)
      PROVE  IInv'
  BY <1>1, BookingIInv
<1>2. ASSUME NEW p \in Payments, Checkout(p)
      PROVE  IInv'
  BY <1>2, CheckoutIInv
<1>3. ASSUME NEW r \in Requests, Arrive(r)
      PROVE  IInv'
  BY <1>3, ArriveIInv
<1>4. ASSUME NEW r \in Requests, Statement(r)
      PROVE  IInv'
  BY <1>4, InsertPaymentIInv, RowsIInv, AuthorizeIInv, TellBookingIInv, GatewayCaptureIInv,
     MarkPaymentIInv, CreateRefundIInv, GatewayRefundIInv, SumUpIInv, UpdateRefundStatusIInv,
     RecordRefundIInv DEF Statement
<1>5. ASSUME NEW r \in Requests, Abandon(r)
      PROVE  IInv'
  BY <1>5, AbandonIInv
<1>6. CASE UNCHANGED vars
  <2>1. TypeOK'
    BY <1>6 DEF IInv, TypeOK, vars, tables, history
  <2>2. QED
    BY <1>6, <2>1, OnlyBookings DEF vars, tables, history, SaysSo
<1>7. QED
  BY <1>1, <1>2, <1>3, <1>4, <1>5, <1>6 DEF Next

-----------------------------------------------------------------------------
(* The theorems *)

\* The invariant holds in every state that payments, refunds and booking use
\* cases can reach.
THEOREM InductiveInvariant == Spec => []IInv
  BY InitIInv, NextIInv, PTL DEF Spec

\* The tables, the gateway and the requests keep their shape.
THEOREM TypeCorrect == Spec => []TypeOK
<1>1. IInv => TypeOK
  BY DEF IInv
<1>2. QED
  BY <1>1, InductiveInvariant, PTL

\* A payment that says it was captured had its amount taken of the gateway's
\* payment it was confirmed with, be it of its own order or of another; and none
\* was taken that the row does not show unless a request was abandoned or an answer
\* lost.  Only two confirmations at once, of different payments of the gateway,
\* break this (verifyPayment, captureAuthorized).
THEOREM CapturesAgree == Spec => []CapturedAtGateway
<1>1. ASSUME IInv, NEW p \in Payments \ crossed
      PROVE  /\ payments[p].status \in CapturedStatus => AtGateway(p).captured = AmountOf(p)
             /\ Quiet(p) /\ AtGateway(p).captured > 0 => payments[p].status \in CapturedStatus
  <2>1. ASSUME payments[p].status \in CapturedStatus
        PROVE  AtGateway(p).captured = AmountOf(p)
    <3>1. PICK g \in Payments : Confirms(p, g)
      BY <1>1, <2>1, OwnPayment DEF MoneyMoved
    <3>2. AtGateway(p) = gateway[g] /\ Captured(p)
      BY <1>1, <2>1, <3>1, OnlyPayment DEF IInv, LedgerOK
    <3>3. QED
      BY <1>1, <3>1, <3>2 DEF Captured, Taken, IInv, GatewayOK
  <2>2. Quiet(p) /\ AtGateway(p).captured > 0 => payments[p].status \in CapturedStatus
    BY <1>1 DEF IInv, CapturesKnown, Captured, Quiet, SomeAt, InFlightOn, InFlight
  <2>3. QED
    BY <2>1, <2>2
<1>2. IInv => CapturedAtGateway
  BY <1>1 DEF CapturedAtGateway
<1>3. QED
  BY <1>2, InductiveInvariant, PTL

\* A payment of the gateway pays for one row only, whichever rows it is offered to,
\* and none is captured that confirmed no row: of the unique event id, in whatever
\* order confirmations and captures run (verifyPayment, captureAuthorized).
THEOREM EachPaysForOne == Spec => []PaysForOne
<1>1. ASSUME IInv, NEW p \in Payments, NEW q \in Payments,
             payments[p].paidBy = payments[q].paidBy, payments[p].paidBy # NULL
      PROVE  p = q
  <2>1. payments[p].status \in MoneyMoved /\ payments[q].status \in MoneyMoved
    BY <1>1 DEF IInv, LedgerOK
  <2>2. PICK g \in Payments : Confirms(p, g) /\ Confirms(q, g)
    BY <1>1, <2>1, OwnPayment
  <2>3. QED
    BY <1>1, <2>2 DEF IInv, GatewayOK
<1>2. ASSUME IInv, NEW g \in Payments, gateway[g].captured > 0
      PROVE  \E p \in Payments : <<"PAYMENT_AUTHORIZED", g>> \in trail[p]
  BY <1>2 DEF IInv, GatewayOK, Taken, Confirms
<1>3. IInv => PaysForOne
  BY <1>1, <1>2 DEF PaysForOne
<1>4. QED
  BY <1>3, InductiveInvariant, PTL

\* The booking of an authorized payment says so, unless its confirmation was
\* abandoned or a booking use case wrote over a status it had not read.
THEOREM PaidBookingsSaySo == Spec => []PaidBookingSaysSo
<1>1. IInv => PaidBookingSaysSo
  BY DEF IInv, BookingsTold, PaidBookingSaysSo, SaysSo, MoneyMoved, Quiet, SomeAt,
         InFlightOn, InFlight
<1>2. QED
  BY <1>1, InductiveInvariant, PTL

-----------------------------------------------------------------------------
(* Sums over finite sets *)

\* The element a sum takes off first.
First(s) == CHOOSE x \in s : TRUE

\* What a column adds up to over a set of rows.
Total(a, S) == SumFunctionOnSet(a, S)

\* The recursion that defines it, of which a set of partial sums is the solution.
Sums(g, a, S) ==
  g = [s \in SUBSET S |-> IF s = {} THEN 0 ELSE a[First(s)] + g[s \ {First(s)}]]

\* A sum is read off a solution of the recursion.
LEMMA SumIsChosen ==
  ASSUME NEW a, NEW S
  PROVE  Total(a, S) = (CHOOSE g : Sums(g, a, S))[S]
  BY DEF Total, SumFunctionOnSet, FoldFunctionOnSet, MapThenFoldSet, Sums, First

\* Where a fact fails of some subset of a finite set, it fails of one of which it
\* fails of no smaller subset.
LEMMA SmallestCounterexample ==
  ASSUME NEW S, IsFiniteSet(S), NEW C \in SUBSET (SUBSET S), C # {}
  PROVE  \E T \in C : IsFiniteSet(T) /\ \A U \in SUBSET T : U # T => U \notin C
<1>0. C \subseteq FiniteSubsetsOf(S) 
  BY FS_FiniteSubsetsOfFinite
<1>1. PICK T \in C : \A U \in C : <<U, T>> \notin StrictSubsetOrdering(S)
  BY <1>0, FS_StrictSubsetOrderingWellFounded, WFMin
<1>2. QED
  BY <1>0, <1>1 DEF StrictSubsetOrdering, FiniteSubsetsOf

\* The first element is one.
LEMMA FirstIn == ASSUME NEW S, S # {}
                 PROVE  First(S) \in S
  BY DEF First

\* What a solution says of each set.
LEMMA SumsAt ==
  ASSUME NEW g, NEW a, NEW S, Sums(g, a, S), NEW T \in SUBSET S
  PROVE  g[T] = IF T = {} THEN 0 ELSE a[First(T)] + g[T \ {First(T)}]
  BY DEF Sums

\* Solutions over two sets agree where both are defined.
LEMMA SumsAgree ==
  ASSUME NEW g, NEW h, NEW a, NEW S, NEW R, IsFiniteSet(S), R \subseteq S,
         Sums(g, a, S), Sums(h, a, R)
  PROVE  \A T \in SUBSET R : g[T] = h[T]
<1> DEFINE C == {T \in SUBSET R : g[T] # h[T]}
<1> SUFFICES ASSUME C # {}
             PROVE  FALSE
  OBVIOUS
<1>1. IsFiniteSet(R) /\ C \in SUBSET (SUBSET R)
  BY FS_Subset
<1>2. \A T \in C : g[T] # h[T] /\ T \subseteq R /\ T \subseteq S
  OBVIOUS
<1>3. \A T \in SUBSET R : T \notin C => g[T] = h[T]
  OBVIOUS
<1> HIDE DEF C
<1>4. PICK T \in C : \A U \in SUBSET T : U # T => U \notin C
  BY <1>1, SmallestCounterexample
<1>0. T \in SUBSET S /\ T \in SUBSET R
  BY <1>2
<1>5. g[T] = IF T = {} THEN 0 ELSE a[First(T)] + g[T \ {First(T)}]
  BY <1>0, SumsAt
<1>6. h[T] = IF T = {} THEN 0 ELSE a[First(T)] + h[T \ {First(T)}]
  BY <1>0, SumsAt
<1>7. ASSUME T # {}
      PROVE  g[T \ {First(T)}] = h[T \ {First(T)}]
  <2>1. First(T) \in T
    BY <1>7, FirstIn
  <2>2. T \ {First(T)} \in SUBSET R
    BY <1>2
  <2>3. QED
    BY <1>3, <1>4, <2>1, <2>2
<1>8. g[T] = h[T]
  BY <1>5, <1>6, <1>7
<1>9. QED
  BY <1>2, <1>8

\* There is a solution over every finite set.
LEMMA SumsExist ==
  ASSUME NEW a, NEW S, IsFiniteSet(S)
  PROVE  \E g : Sums(g, a, S)
<1> DEFINE C == {T \in SUBSET S : ~ \E g : Sums(g, a, T)}
<1> SUFFICES ASSUME C # {}
             PROVE  FALSE
  OBVIOUS
<1>1. /\ C \in SUBSET (SUBSET S)
      /\ \A T \in C : ~ \E g : Sums(g, a, T)
      /\ \A T \in SUBSET S : T \notin C => \E g : Sums(g, a, T)
  OBVIOUS
<1> HIDE DEF C
<1>2. PICK T \in C : IsFiniteSet(T) /\ \A U \in SUBSET T : U # T => U \notin C
  BY <1>1, SmallestCounterexample
<1> DEFINE G(U) == CHOOSE g : Sums(g, a, U)
<1>3. ASSUME NEW U \in SUBSET T, U # T
      PROVE  Sums(G(U), a, U)
  BY <1>1, <1>2, <1>3
<1> HIDE DEF G
<1> DEFINE h == [s \in SUBSET T |-> IF s = {} THEN 0
                   ELSE a[First(s)] + G(s \ {First(s)})[s \ {First(s)}]]
<1>4. \A s \in SUBSET T : h[s] = IF s = {} THEN 0
                   ELSE a[First(s)] + G(s \ {First(s)})[s \ {First(s)}]
  OBVIOUS
<1> HIDE DEF h
<1>5. ASSUME NEW u \in SUBSET T, u # T
      PROVE  h[u] = G(u)[u]
  <2>1. Sums(G(u), a, u)
    BY <1>3, <1>5
  <2>2. G(u)[u] = IF u = {} THEN 0 ELSE a[First(u)] + G(u)[u \ {First(u)}]
    BY <2>1, SumsAt
  <2>3. CASE u = {}
    BY <1>4, <2>2, <2>3
  <2>4. CASE u # {}
    <3> DEFINE v == u \ {First(u)}
    <3>1. v \in SUBSET T /\ v # T /\ v \subseteq u
      BY <1>5, <2>4, FirstIn
    <3>2. Sums(G(v), a, v) /\ IsFiniteSet(u)
      BY <1>2, <1>3, <3>1, FS_Subset
    <3>3. G(u)[v] = G(v)[v]
      BY <2>1, <3>1, <3>2, SumsAgree
    <3>4. QED
      BY <1>4, <2>2, <2>4, <3>3
  <2>5. QED
    BY <2>3, <2>4
<1>6. ASSUME NEW s \in SUBSET T, s # {}
      PROVE  h[s] = a[First(s)] + h[s \ {First(s)}]
  <2> DEFINE u == s \ {First(s)}
  <2>1. u \in SUBSET T /\ u # T
    BY <1>6, FirstIn
  <2>2. h[u] = G(u)[u]
    BY <1>5, <2>1
  <2>3. QED
    BY <1>4, <1>6, <2>2
<1>7. h = [s \in SUBSET T |-> h[s]]
  BY DEF h
<1>8. \A s \in SUBSET T : h[s] = IF s = {} THEN 0 ELSE a[First(s)] + h[s \ {First(s)}]
  BY <1>4, <1>6
<1>9. Sums(h, a, T)
  BY <1>7, <1>8 DEF Sums
<1>10. QED
  BY <1>1, <1>2, <1>9

\* So a sum is its first term and the sum of the others.
LEMMA SumStep ==
  ASSUME NEW a, NEW S, IsFiniteSet(S)
  PROVE  Total(a, S) = IF S = {} THEN 0 ELSE a[First(S)] + Total(a, S \ {First(S)})
<1> DEFINE G(U) == CHOOSE g : Sums(g, a, U)
<1>1. ASSUME NEW U, IsFiniteSet(U)
      PROVE  Sums(G(U), a, U) /\ Total(a, U) = G(U)[U]
  BY <1>1, SumsExist, SumIsChosen
<1> HIDE DEF G
<1>2. Sums(G(S), a, S) /\ Total(a, S) = G(S)[S]
  BY <1>1
<1>3. G(S)[S] = IF S = {} THEN 0 ELSE a[First(S)] + G(S)[S \ {First(S)}]
  BY <1>2, SumsAt
<1>4. G(S)[S \ {First(S)}] = Total(a, S \ {First(S)})
  <2>1. IsFiniteSet(S \ {First(S)})
    BY FS_RemoveElement
  <2>2. Sums(G(S \ {First(S)}), a, S \ {First(S)})
    BY <1>1, <2>1
  <2>3. G(S)[S \ {First(S)}] = G(S \ {First(S)})[S \ {First(S)}]
    BY <1>2, <2>2, SumsAgree
  <2>4. QED
    BY <1>1, <2>1, <2>3
<1>5. QED
  BY <1>2, <1>3, <1>4

\* Sums of natural numbers are natural numbers.
LEMMA SumNat ==
  ASSUME NEW S, IsFiniteSet(S), NEW a \in [S -> Nat]
  PROVE  \A T \in SUBSET S : Total(a, T) \in Nat
<1> DEFINE C == {T \in SUBSET S : Total(a, T) \notin Nat}
<1> SUFFICES ASSUME C # {}
             PROVE  FALSE
  OBVIOUS
<1>1. /\ C \in SUBSET (SUBSET S)
      /\ \A T \in C : Total(a, T) \notin Nat
      /\ \A T \in SUBSET S : T \notin C => Total(a, T) \in Nat
  OBVIOUS
<1> HIDE DEF C
<1>2. PICK T \in C : IsFiniteSet(T) /\ \A U \in SUBSET T : U # T => U \notin C
  BY <1>1, SmallestCounterexample
<1>3. T # {} /\ Total(a, T) = a[First(T)] + Total(a, T \ {First(T)})
  <2>1. Total(a, T) = IF T = {} THEN 0 ELSE a[First(T)] + Total(a, T \ {First(T)})
    BY <1>2, SumStep
  <2>2. QED
    BY <1>1, <2>1
<1>4. First(T) \in T
  BY <1>3, FirstIn
<1>5. Total(a, T \ {First(T)}) \in Nat /\ a[First(T)] \in Nat
  BY <1>1, <1>2, <1>4
<1>6. QED
  BY <1>1, <1>3, <1>5

\* Any term may be taken off first.
LEMMA SumRemove ==
  ASSUME NEW S, IsFiniteSet(S), NEW a \in [S -> Nat]
  PROVE  \A T \in SUBSET S : \A x \in T : Total(a, T) = a[x] + Total(a, T \ {x})
<1> DEFINE P(T) == \A x \in T : Total(a, T) = a[x] + Total(a, T \ {x})
           C == {T \in SUBSET S : ~P(T)}
<1> SUFFICES ASSUME C # {}
             PROVE  FALSE
  OBVIOUS
<1>1. /\ C \in SUBSET (SUBSET S)
      /\ \A T \in C : ~P(T)
      /\ \A T \in SUBSET S : T \notin C => P(T)
  OBVIOUS
<1> HIDE DEF C
<1>2. PICK T \in C : IsFiniteSet(T) /\ \A U \in SUBSET T : U # T => U \notin C
  BY <1>1, SmallestCounterexample
<1>3. T \in SUBSET S /\ \A U \in SUBSET T : U # T => P(U)
  BY <1>1, <1>2
<1>4. PICK x \in T : Total(a, T) # a[x] + Total(a, T \ {x})
  BY <1>1, <1>2
<1> DEFINE y == First(T)
<1>5. y \in T /\ Total(a, T) = a[y] + Total(a, T \ {y})
  BY <1>2, <1>4, SumStep, FirstIn
<1> HIDE DEF y
<1>6. x # y
  BY <1>4, <1>5
<1>7. Total(a, T \ {y}) = a[x] + Total(a, (T \ {y}) \ {x})
  <2>1. x \in T \ {y} /\ T \ {y} \in SUBSET T /\ T \ {y} # T
    BY <1>4, <1>5, <1>6
  <2>2. QED
    BY <1>3, <2>1
<1>8. Total(a, T \ {x}) = a[y] + Total(a, (T \ {x}) \ {y})
  <2>1. y \in T \ {x} /\ T \ {x} \in SUBSET T /\ T \ {x} # T
    BY <1>4, <1>5, <1>6
  <2>2. QED
    BY <1>3, <2>1
<1> DEFINE rest == Total(a, (T \ {y}) \ {x})
<1>9. a[x] \in Nat /\ a[y] \in Nat /\ rest \in Nat
  BY <1>3, <1>4, <1>5, SumNat
<1>10. Total(a, (T \ {x}) \ {y}) = rest
  <2>1. (T \ {x}) \ {y} = (T \ {y}) \ {x}
    OBVIOUS
  <2>2. QED
    BY <2>1
<1>11. Total(a, T) = a[y] + (a[x] + rest) /\ Total(a, T \ {x}) = a[y] + rest
  BY <1>5, <1>7, <1>8, <1>10
<1> HIDE DEF rest
<1>12. a[y] + (a[x] + rest) = a[x] + (a[y] + rest)
  BY <1>9
<1>13. QED
  BY <1>4, <1>11, <1>12

\* A term more makes the sum larger by it.
LEMMA SumAdd ==
  ASSUME NEW S, IsFiniteSet(S), NEW a \in [S -> Nat], NEW R \in SUBSET S, NEW x \in S,
         x \notin R
  PROVE  Total(a, R \union {x}) = Total(a, R) + a[x]
<1>1. Total(a, R \union {x}) = a[x] + Total(a, (R \union {x}) \ {x})
  BY SumRemove
<1>2. (R \union {x}) \ {x} = R
  OBVIOUS
<1>3. Total(a, R) \in Nat /\ a[x] \in Nat
  BY SumNat
<1>4. a[x] + Total(a, R) = Total(a, R) + a[x]
  BY <1>3
<1>5. QED
  BY <1>1, <1>2, <1>4

\* The sum depends on the terms only.
LEMMA SumSame ==
  ASSUME NEW S, IsFiniteSet(S), NEW a, NEW b, \A x \in S : a[x] = b[x]
  PROVE  \A T \in SUBSET S : Total(a, T) = Total(b, T)
<1> DEFINE C == {T \in SUBSET S : Total(a, T) # Total(b, T)}
<1> SUFFICES ASSUME C # {}
             PROVE  FALSE
  OBVIOUS
<1>1. /\ C \in SUBSET (SUBSET S)
      /\ \A T \in C : Total(a, T) # Total(b, T)
      /\ \A T \in SUBSET S : T \notin C => Total(a, T) = Total(b, T)
  OBVIOUS
<1> HIDE DEF C
<1>2. PICK T \in C : IsFiniteSet(T) /\ \A U \in SUBSET T : U # T => U \notin C
  BY <1>1, SmallestCounterexample
<1>3. /\ Total(a, T) = IF T = {} THEN 0 ELSE a[First(T)] + Total(a, T \ {First(T)})
      /\ Total(b, T) = IF T = {} THEN 0 ELSE b[First(T)] + Total(b, T \ {First(T)})
  BY <1>2, SumStep
<1>4. T # {} => First(T) \in T
  BY FirstIn
<1>5. QED
  BY <1>1, <1>2, <1>3, <1>4

\* More terms make no smaller sum.
LEMMA SumGrows ==
  ASSUME NEW S, IsFiniteSet(S), NEW a \in [S -> Nat], NEW T \in SUBSET S
  PROVE  \A R \in SUBSET T : Total(a, R) <= Total(a, T)
<1> DEFINE P(U) == \A R \in SUBSET U : Total(a, R) <= Total(a, U)
           C == {U \in SUBSET S : ~P(U)}
<1> SUFFICES ASSUME C # {}
             PROVE  FALSE
  OBVIOUS
<1>1. /\ C \in SUBSET (SUBSET S)
      /\ \A U \in C : ~P(U)
      /\ \A U \in SUBSET S : U \notin C => P(U)
  OBVIOUS
<1> HIDE DEF C
<1>2. PICK U \in C : \A V \in SUBSET U : V # U => V \notin C
  BY <1>1, SmallestCounterexample
<1>3. PICK R \in SUBSET U : ~(Total(a, R) <= Total(a, U))
  BY <1>1, <1>2
<1>4. Total(a, R) \in Nat /\ Total(a, U) \in Nat
  BY <1>1, <1>2, <1>3, SumNat
<1>5. PICK x \in U : x \notin R
  BY <1>3, <1>4
<1>6. Total(a, U) = a[x] + Total(a, U \ {x})
  BY <1>1, <1>2, <1>5, SumRemove
<1>7. Total(a, R) <= Total(a, U \ {x})
  <2>1. U \ {x} \in SUBSET U /\ U \ {x} # U /\ R \in SUBSET (U \ {x})
    BY <1>3, <1>5
  <2>2. QED
    BY <1>1, <1>2, <2>1
<1>8. a[x] \in Nat /\ Total(a, U \ {x}) \in Nat
  BY <1>1, <1>2, <1>5, SumNat
<1>9. QED
  BY <1>3, <1>4, <1>6, <1>7, <1>8

-----------------------------------------------------------------------------
(* The invariant about money *)

\* The statements of an approval or a rejection.
DecidePcs == {"gatewayRefund", "sum", "processed", "refunded", "refundRow", "close",
              "reject"}
Decides(q) == q.pc \in DecidePcs

\* What the gateway gave back of what it took for the row.
Refunded(p) == AtGateway(p).refunded

\* A request about refunds carries the refund's row, of a payment whose money was
\* captured; one that found the refunds to be all of it is right.
RefundRequest(q) ==
  /\ q.op \in {"approve", "reject"} <=> Decides(q)
  /\ Decides(q) => /\ refunds[q.refund].payment = q.payment
                   /\ refunds[q.refund].amount = q.amount
  /\ q.payment \notin crossed =>
       /\ Decides(q) \/ q.pc = "createRefund" => payments[q.payment].status \in CapturedStatus
       /\ q.pc = "captured" => payments[q.payment].status = "AUTHORIZED"
       /\ q.full /\ q.pc \in {"processed", "refunded"} =>
            Refunded(q.payment) = AmountOf(q.payment)

\* What the refunds of a payment say was paid back.
Given(p) == SumRefunds(Processed(RefundsOf(p)))

\* What a decision may rely on where no other one met it.
LoneDecision(q) ==
  Decides(q) /\ q.payment \notin met \union crossed =>
    /\ q.pc \in {"gatewayRefund", "sum", "processed", "reject"} =>
         refunds[q.refund].status = "REQUESTED"
    /\ q.pc \in {"sum", "processed", "refunded"} => payments[q.payment].status # "REFUNDED"
    /\ q.pc = "processed" =>
         (q.full <=> SumRefunds(Processed(RefundsOf(q.payment)) \union {q.refund})
                       >= AmountOf(q.payment))
    /\ q.pc = "refunded" =>
         /\ refunds[q.refund].status = "PROCESSED"
         /\ q.full <=> Given(q.payment) >= AmountOf(q.payment)

\* Every request is right in this.
RefundRequests == \A r \in Requests : RefundRequest(req[r]) /\ LoneDecision(req[r])

\* One request at most holds the news of a capture, one at most decides on the
\* refunds of a payment where no two met.
Alone ==
  \A r, s \in Requests :
    /\ req[r].payment = req[s].payment
    /\ req[r].payment \notin crossed
    /\ \/ req[r].pc = "captured" /\ req[s].pc = "captured"
       \/ req[r].payment \notin met /\ Decides(req[r]) /\ Decides(req[s])
    => r = s

\* Only what was captured is refunded.
RefundsCaptured ==
  \A f \in Refunds : refunds[f].status # "NONE" /\ refunds[f].payment \notin crossed =>
    payments[refunds[f].payment].status \in CapturedStatus

\* The refund was paid back by the gateway, and the row will say so next.
Working(f) ==
  \E r \in Requests : req[r].pc \in {"sum", "processed"} /\ req[r].refund = f

\* The refunds of a payment that the gateway is known to have paid back.
Back(p) == {f \in RefundsOf(p) : refunds[f].status = "PROCESSED" \/ Working(f)}

\* The gateway gave back what these refunds say at least, and no more than it took.
Covered ==
  \A p \in Payments \ crossed :
    /\ payments[p].status = "NONE" => Refunded(p) = 0
    /\ payments[p].status # "NONE" => Refunded(p) <= AmountOf(p)
    /\ SumRefunds(Back(p)) <= Refunded(p)
    /\ payments[p].status = "REFUNDED" => Refunded(p) = AmountOf(p)

\* The status that says how much of it that is.
StatusOf(p) == CASE Given(p) = 0 -> "CAPTURED"
                 [] Given(p) = AmountOf(p) -> "REFUNDED"
                 [] OTHER -> "PARTIALLY_REFUNDED"

\* Exactly that, where no decisions met and nothing was abandoned or lost, and the
\* status says so unless a request is about to write it.
Exact ==
  \A p \in Payments : p \notin met \union crossed \union torn =>
    /\ Refunded(p) = SumRefunds(Back(p))
    /\ payments[p].status \in CapturedStatus =>
         payments[p].status = StatusOf(p) \/ SomeAt("refunded", p)

\* All of it.
MInv == IInv /\ RefundRequests /\ Alone /\ RefundsCaptured /\ Covered /\ Exact

\* No refund of an empty table was paid back.
LEMMA TotalEmpty == ASSUME NEW a PROVE Total(a, {}) = 0
  BY SumStep, FS_EmptySet

\* The amount column of the refunds.
Amounts == [f \in Refunds |-> refunds[f].amount]

\* Amounts are natural numbers.
LEMMA AmountsAre == IInv => Amounts \in [Refunds -> Nat]
  BY DEF IInv, TypeOK, Amounts, RefundRow, NoRefund

\* What the use cases add up is a sum over that column.
LEMMA SumRefundsIs == \A T : SumRefunds(T) = Total(Amounts, T)
  BY DEF SumRefunds, Total, Amounts

\* The facts about sums, for the amounts of refunds.
LEMMA SumsOf ==
  IInv => \A T \in SUBSET Refunds :
            /\ SumRefunds(T) \in Nat
            /\ \A R \in SUBSET T : SumRefunds(R) <= SumRefunds(T)
            /\ \A x \in T : refunds[x].amount <= SumRefunds(T)
            /\ \A x \in Refunds \ T :
                 SumRefunds(T \union {x}) = SumRefunds(T) + refunds[x].amount
            /\ T = {} => SumRefunds(T) = 0
<1> SUFFICES ASSUME IInv, NEW T \in SUBSET Refunds
             PROVE  /\ SumRefunds(T) \in Nat
                    /\ \A R \in SUBSET T : SumRefunds(R) <= SumRefunds(T)
                    /\ \A x \in T : refunds[x].amount <= SumRefunds(T)
                    /\ \A x \in Refunds \ T :
                         SumRefunds(T \union {x}) = SumRefunds(T) + refunds[x].amount
                    /\ T = {} => SumRefunds(T) = 0
  OBVIOUS
<1>1. Amounts \in [Refunds -> Nat] /\ \A x \in Refunds : Amounts[x] = refunds[x].amount
  BY AmountsAre DEF Amounts
<1>2. SumRefunds(T) \in Nat
  BY <1>1, SumRefundsIs, SumNat, RefundsAssumption
<1>3. \A R \in SUBSET T : SumRefunds(R) <= SumRefunds(T)
  BY <1>1, SumRefundsIs, SumGrows, RefundsAssumption
<1>4. ASSUME NEW x \in T
      PROVE  refunds[x].amount <= SumRefunds(T)
  <2>1. Total(Amounts, T) = Amounts[x] + Total(Amounts, T \ {x})
    BY <1>1, SumRemove, RefundsAssumption
  <2>2. Total(Amounts, T \ {x}) \in Nat /\ Amounts[x] \in Nat
    BY <1>1, SumNat, RefundsAssumption
  <2>3. Amounts[x] <= Amounts[x] + Total(Amounts, T \ {x})
    BY <2>2
  <2>4. QED
    BY <1>1, <2>1, <2>3, SumRefundsIs
<1>5. ASSUME NEW x \in Refunds \ T
      PROVE  SumRefunds(T \union {x}) = SumRefunds(T) + refunds[x].amount
  BY <1>1, SumRefundsIs, SumAdd, RefundsAssumption
<1>6. T = {} => SumRefunds(T) = 0
  BY SumRefundsIs, TotalEmpty
<1>7. QED
  BY <1>2, <1>3, <1>4, <1>5, <1>6

\* A step that changes no amount of a set of refunds leaves their sum.
LEMMA SumKept ==
  ASSUME NEW T \in SUBSET Refunds, \A f \in T : refunds'[f].amount = refunds[f].amount
  PROVE  Total(Amounts', T) = Total(Amounts, T)
<1>1. IsFiniteSet(T)
  BY RefundsAssumption, FS_Subset
<1>2. \A f \in T : Amounts'[f] = Amounts[f]
  BY DEF Amounts
<1>3. QED
  BY <1>1, <1>2, SumSame

-----------------------------------------------------------------------------
(* Requests that do not move *)

\* What no statement takes back, and the bound on what the gateway gives back.
MoneyGrows ==
  /\ met \subseteq met'
  /\ crossed \subseteq crossed'
  /\ torn \subseteq torn'
  /\ \A p \in Payments : payments[p].status # "NONE" =>
       /\ payments'[p].status # "NONE"
       /\ payments'[p].booking = payments[p].booking
  /\ \A p \in Payments \ crossed' :
       /\ payments[p].status \in CapturedStatus => payments'[p].status \in CapturedStatus
       /\ Refunded(p) <= Refunded(p)'
       /\ payments'[p].status # "NONE" => Refunded(p)' <= AmountOf(p)'
  /\ \A f \in Refunds : refunds[f].status # "NONE" =>
       /\ refunds'[f].status # "NONE"
       /\ refunds'[f].payment = refunds[f].payment
       /\ refunds'[f].amount = refunds[f].amount

\* What the invariant says of one request, and of the rows it carries.
LEMMA RequestFacts ==
  ASSUME MInv, NEW r \in Requests
  PROVE  /\ req[r] \in Request
         /\ RefundRequest(req[r])
         /\ LoneDecision(req[r])
         /\ Decides(req[r]) => /\ DecideRequest(req[r])
                               /\ refunds[req[r].refund] \in RefundRow
                               /\ payments[req[r].payment] \in PaymentRow
                               /\ req[r].payment \in Payments
                               /\ req[r].refund \in Refunds
<1>1. req[r] \in Request /\ RefundRequest(req[r]) /\ LoneDecision(req[r])
  BY RequestOf DEF MInv, RefundRequests
<1>2. ASSUME Decides(req[r])
      PROVE  /\ DecideRequest(req[r])
             /\ refunds[req[r].refund] \in RefundRow
             /\ payments[req[r].payment] \in PaymentRow
  <2>1. DecideRequest(req[r])
    BY <1>2, Carried DEF Decides, DecidePcs, MInv
  <2>2. QED
    BY <2>1, Rows DEF DecideRequest, MInv, MoneyMoved, CapturedStatus
<1>3. QED
  BY <1>1, <1>2 DEF DecideRequest

\* What the gateway gave back and what a payment is worth are natural numbers.
LEMMA Numbers ==
  IInv => \A p \in Payments :
            /\ Refunded(p) \in Nat
            /\ payments[p].status # "NONE" => AmountOf(p) \in Nat \ {0}
<1> SUFFICES ASSUME IInv, NEW p \in Payments
             PROVE  /\ Refunded(p) \in Nat
                    /\ payments[p].status # "NONE" => AmountOf(p) \in Nat \ {0}
  OBVIOUS
<1>1. payments[p].paidBy \in Payments \union {NULL}
  BY DEF IInv, TypeOK, PaymentRow, NoPayment
<1>2. Refunded(p) \in Nat
  BY <1>1, GatewayNumbers DEF Refunded, AtGateway, NoMoney
<1>3. payments[p].status # "NONE" => AmountOf(p) \in Nat \ {0}
  BY Rows, PriceAssumption DEF AmountOf, PaymentRow
<1>4. QED
  BY <1>2, <1>3

\* The same after a step.
LEMMA NumbersNext ==
  ASSUME IInv', NEW p \in Payments
  PROVE  Refunded(p)' \in Nat
<1>1. payments'[p].paidBy \in Payments \union {NULL}
  BY DEF IInv, TypeOK, PaymentRow, NoPayment
<1>2. \A g \in Payments : gateway'[g].refunded \in Nat
  BY DEF IInv, TypeOK, GatewayPayment
<1>3. QED
  BY <1>1, <1>2 DEF Refunded, AtGateway, NoMoney

\* Refunds that were processed are rows.
LEMMA ProcessedOf ==
  ASSUME IInv, NEW p \in Payments, NEW f \in Processed(RefundsOf(p))
  PROVE  f \in Refunds /\ refunds[f] \in RefundRow /\ refunds[f].payment = p
  BY Rows DEF Processed, RefundsOf

\* A request that does not move stays right, when nobody decides on the same payment.
LEMMA OtherRequests ==
  ASSUME MInv, IInv', MoneyGrows, NEW s \in Requests, req'[s] = req[s],
         req[s].pc = "captured" /\ req[s].payment \notin crossed' =>
           payments'[req[s].payment].status = "AUTHORIZED",
         Decides(req[s]) /\ req[s].payment \notin met \union crossed' =>
           /\ payments'[req[s].payment] = payments[req[s].payment]
           /\ refunds'[req[s].refund] = refunds[req[s].refund]
           /\ Processed(RefundsOf(req[s].payment))' = Processed(RefundsOf(req[s].payment))
  PROVE  RefundRequest(req[s])' /\ LoneDecision(req[s])'
<1> PICK q \in Request : q = req[s]
  BY RequestFacts
<1>1. /\ req'[s] = q
      /\ RefundRequest(q)
      /\ LoneDecision(q)
      /\ Decides(q) => /\ DecideRequest(q)
                       /\ refunds[q.refund] \in RefundRow
                       /\ q.payment \in Payments
                       /\ q.refund \in Refunds
  BY RequestFacts
<1>2. IInv /\ \A p \in Payments : payments[p].status # "NONE" => AmountOf(p)' = AmountOf(p)
  BY DEF MoneyGrows, AmountOf, MInv
<1>3. RefundRequest(q)'
  <2>1. Decides(q) => /\ refunds'[q.refund].payment = q.payment
                      /\ refunds'[q.refund].amount = q.amount
    BY <1>1 DEF MoneyGrows, RefundRequest, DecideRequest
  <2>2. (Decides(q) \/ q.pc = "createRefund") /\ q.payment \notin crossed' =>
          payments'[q.payment].status \in CapturedStatus
    <3>1. q.pc = "createRefund" => q.payment \in Payments
      BY <1>2, Carried DEF InitiateRequest, At
    <3>2. QED
      BY <1>1, <3>1 DEF MoneyGrows, RefundRequest
  <2>3. q.pc = "captured" /\ q.payment \notin crossed' => payments'[q.payment].status = "AUTHORIZED"
    OBVIOUS
  <2>4. ASSUME q.full, q.pc \in {"processed", "refunded"}, q.payment \notin crossed'
        PROVE  Refunded(q.payment)' = AmountOf(q.payment)'
    <3>0. PICK p \in Payments : p = q.payment /\ p \notin crossed /\ p \notin crossed'
      BY <1>1, <2>4 DEF Decides, DecidePcs, MoneyGrows
    <3>1. Refunded(p) = AmountOf(p) /\ payments[p].status \in CapturedStatus
      BY <1>1, <2>4, <3>0 DEF RefundRequest, Decides, DecidePcs
    <3>2. payments[p].status # "NONE"
      BY <3>1 DEF CapturedStatus
    <3>3. Refunded(p) <= Refunded(p)' /\ Refunded(p)' <= AmountOf(p)'
      BY <3>0, <3>2 DEF MoneyGrows
    <3>4. AmountOf(p)' = AmountOf(p) /\ AmountOf(p) \in Nat /\ Refunded(p) \in Nat
      BY <1>2, <3>2, Numbers
    <3>5. Refunded(p)' \in Nat
      BY NumbersNext
    <3>6. Refunded(p)' = AmountOf(p)'
      BY <3>1, <3>3, <3>4, <3>5
    <3>7. QED
      BY <3>0, <3>6
  <2>5. QED
    BY <1>1, <2>1, <2>2, <2>3, <2>4 DEF RefundRequest, Decides
<1>4. LoneDecision(q)'
  <2> SUFFICES ASSUME Decides(q), q.payment \notin met \union crossed'
               PROVE  LoneDecision(q)'
    BY DEF LoneDecision, MoneyGrows, Decides
  <2>0. PICK p \in Payments : p = q.payment /\ p \notin met \union crossed
    BY <1>1 DEF MoneyGrows
  <2>1. /\ payments'[p] = payments[p]
        /\ refunds'[q.refund] = refunds[q.refund]
        /\ Processed(RefundsOf(p))' = Processed(RefundsOf(p))
    BY <2>0
  <2>2. AmountOf(p)' = AmountOf(p)
    BY <2>1 DEF AmountOf
  <2>3. PICK T \in SUBSET Refunds : T = Processed(RefundsOf(p))
    BY DEF Processed, RefundsOf
  <2>4. \A f \in T \union {q.refund} :
          f \in Refunds /\ refunds'[f].amount = refunds[f].amount
    BY <1>1, <1>2, <2>0, <2>1, <2>3, ProcessedOf DEF MoneyGrows, RefundRow, RefundStatus
  <2>5. /\ Total(Amounts', T) = Total(Amounts, T)
        /\ Total(Amounts', T \union {q.refund}) = Total(Amounts, T \union {q.refund})
    BY <1>1, <2>4, SumKept
  <2>6. Given(p)' = Given(p)
    <3>1. Given(p)' = Total(Amounts', T) /\ Given(p) = Total(Amounts, T)
      BY <2>1, <2>3 DEF Given, SumRefunds, Total, Amounts
    <3>2. QED
      BY <2>5, <3>1
  <2>7. SumRefunds(Processed(RefundsOf(p)) \union {q.refund})'
          = SumRefunds(Processed(RefundsOf(p)) \union {q.refund})
    <3>1. SumRefunds(Processed(RefundsOf(p)) \union {q.refund})'
            = Total(Amounts', T \union {q.refund})
      BY <2>1, <2>3 DEF SumRefunds, Total, Amounts
    <3>2. SumRefunds(Processed(RefundsOf(p)) \union {q.refund})
            = Total(Amounts, T \union {q.refund})
      BY <2>3 DEF SumRefunds, Total, Amounts
    <3>3. QED
      BY <2>5, <3>1, <3>2
  <2>8. QED
    BY <1>1, <2>0, <2>1, <2>2, <2>6, <2>7 DEF LoneDecision, Decides
<1>5. QED
  BY <1>1, <1>3, <1>4

\* A step that only moves one request, and payment rows, refunds and money not at
\* all, keeps the invariant when the request's next record is right.
LEMMA RequestMoves ==
  ASSUME MInv, IInv', NEW r \in Requests, NEW q \in Request, req' = [req EXCEPT ![r] = q],
         UNCHANGED <<payments, refunds>>,
         \A p \in Payments \ crossed' : Refunded(p)' = Refunded(p),
         met \subseteq met', crossed \subseteq crossed', torn \subseteq torn',
         RefundRequest(q)', LoneDecision(q)',
         \A s \in Requests \ {r} : req[s].payment = q.payment /\ q.payment \notin crossed' =>
           /\ ~(q.pc = "captured" /\ req[s].pc = "captured")
           /\ q.payment \in met' \/ ~(Decides(q) /\ Decides(req[s])),
         q.pc \in {"sum", "processed"} =>
           \/ req[r].pc \in {"sum", "processed"} /\ q.refund = req[r].refund
           \/ req[r].pc \notin {"sum", "processed"} /\ q.payment \in crossed',
         \/ req[r].payment \in torn' \union crossed'
         \/ /\ req[r].pc # "refunded"
            /\ req[r].pc \in {"sum", "processed"} => q.pc \in {"sum", "processed"}
  PROVE  MInv'
<1>0. IInv /\ req \in [Requests -> Request]
  BY DEF MInv, IInv, TypeOK
<1>1. req'[r] = q /\ \A s \in Requests \ {r} : req'[s] = req[s]
  BY <1>0
<1>2. MoneyGrows
  <2>1. \A p \in Payments \ crossed' : Refunded(p) <= Refunded(p)'
    BY <1>0, Numbers
  <2>2. \A p \in Payments \ crossed' :
          payments[p].status # "NONE" => Refunded(p)' <= AmountOf(p)'
    BY DEF MInv, Covered, AmountOf
  <2>3. QED
    BY <2>1, <2>2 DEF MoneyGrows
<1>3. RefundRequests'
  <2>1. ASSUME NEW s \in Requests, s # r
        PROVE  RefundRequest(req[s])' /\ LoneDecision(req[s])'
    <3>1. req'[s] = req[s]
      BY <1>1, <2>1
    <3>2. req[s].pc = "captured" /\ req[s].payment \notin crossed' =>
            payments'[req[s].payment].status = "AUTHORIZED"
      BY RequestFacts DEF RefundRequest
    <3>3. Processed(RefundsOf(req[s].payment))' = Processed(RefundsOf(req[s].payment))
      BY <3>1 DEF Processed, RefundsOf
    <3>4. QED
      BY <1>2, <3>1, <3>2, <3>3, OtherRequests
  <2>2. RefundRequest(req[r])' /\ LoneDecision(req[r])'
    BY <1>1
  <2>3. QED
    BY <2>1, <2>2 DEF RefundRequests
<1>4. Alone'
  BY <1>1 DEF MInv, Alone, Decides
<1>5. RefundsCaptured'
  BY DEF MInv, RefundsCaptured
<1>6. ASSUME NEW f \in Refunds, Working(f)', refunds[f].payment \notin crossed'
      PROVE  Working(f)
  <2>1. q.pc \in {"sum", "processed"} => refunds[q.refund].payment = q.payment
    BY DEF RefundRequest, Decides, DecidePcs
  <2>2. QED
    BY <1>1, <1>6, <2>1 DEF Working
<1>7. ASSUME NEW p \in Payments \ crossed'
      PROVE  /\ Back(p)' \subseteq Back(p)
             /\ p \notin torn' => Back(p)' = Back(p)
  <2>1. Back(p)' \subseteq Back(p)
    BY <1>6 DEF Back, RefundsOf
  <2>2. ASSUME p \notin torn', NEW f \in Back(p)
        PROVE  f \in Back(p)'
    <3>1. f \in RefundsOf(p)' /\ refunds[f].payment = p
      BY <2>2 DEF Back, RefundsOf
    <3>2. CASE refunds[f].status = "PROCESSED"
      BY <3>1, <3>2 DEF Back
    <3>3. CASE Working(f)
      <4>1. PICK s \in Requests : req[s].pc \in {"sum", "processed"} /\ req[s].refund = f
        BY <3>3 DEF Working
      <4>2. CASE s # r
        BY <1>1, <3>1, <4>1, <4>2 DEF Back, Working
      <4>3. CASE s = r
        <5>1. req[r].payment = p
          BY <3>1, <4>1, <4>3, RequestFacts DEF RefundRequest, Decides, DecidePcs
        <5>2. q.pc \in {"sum", "processed"}
          BY <2>2, <4>1, <4>3, <5>1
        <5>3. q.refund = f
          BY <4>1, <4>3, <5>2
        <5>4. QED
          BY <1>1, <3>1, <5>2, <5>3 DEF Back, Working
      <4>4. QED
        BY <4>2, <4>3
    <3>4. QED
      BY <2>2, <3>2, <3>3 DEF Back
  <2>3. QED
    BY <2>1, <2>2
<1>8. Covered'
  <2>1. ASSUME NEW p \in Payments \ crossed'
        PROVE  SumRefunds(Back(p))' <= Refunded(p)'
    <3>1. PICK T \in SUBSET Refunds : T = Back(p)
      BY DEF Back, RefundsOf
    <3>2. PICK U \in SUBSET T : U = Back(p)'
      BY <1>7, <3>1
    <3>3. SumRefunds(Back(p))' = SumRefunds(U)
      BY <3>2 DEF SumRefunds
    <3>4. SumRefunds(U) <= SumRefunds(T) /\ SumRefunds(U) \in Nat /\ SumRefunds(T) \in Nat
      BY <1>0, SumsOf
    <3>5. SumRefunds(T) <= Refunded(p)
      BY <3>1 DEF MInv, Covered
    <3>6. Refunded(p) \in Nat
      BY <1>0, Numbers
    <3>7. SumRefunds(U) <= Refunded(p)
      BY <3>4, <3>5, <3>6
    <3>8. QED
      BY <3>3, <3>7
  <2>2. QED
    BY <2>1 DEF MInv, Covered, AmountOf
<1>9. Exact'
  <2> SUFFICES ASSUME NEW p \in Payments, p \notin met' \union crossed' \union torn'
               PROVE  /\ Refunded(p)' = SumRefunds(Back(p))'
                      /\ payments[p].status \in CapturedStatus =>
                           payments[p].status = StatusOf(p)' \/ SomeAt("refunded", p)'
    BY DEF Exact
  <2>1. SumRefunds(Back(p))' = SumRefunds(Back(p))
    BY <1>7 DEF SumRefunds
  <2>2. StatusOf(p)' = StatusOf(p)
    BY DEF StatusOf, Given, SumRefunds, Processed, RefundsOf, AmountOf
  <2>3. SomeAt("refunded", p) => SomeAt("refunded", p)'
    BY <1>1 DEF SomeAt
  <2>4. QED
    BY <2>1, <2>2, <2>3 DEF MInv, Exact
<1>10. QED
  BY <1>3, <1>4, <1>5, <1>8, <1>9 DEF MInv

-----------------------------------------------------------------------------
(* Requests that arrive and end *)

\* An idle request knows of no money.
LEMMA IdleMoney == RefundRequest(Idle)' /\ LoneDecision(Idle)'
  BY DEF RefundRequest, LoneDecision, Idle, Decides, DecidePcs

\* Where the gateway gives nothing back, and confirms no row, every row keeps what
\* was given back for it.
LEMMA RefundedStays ==
  ASSUME IInv, NEW p \in Payments, payments'[p].paidBy = payments[p].paidBy,
         \A g \in Payments : gateway'[g].refunded = gateway[g].refunded
  PROVE  Refunded(p)' = Refunded(p)
<1>1. payments[p].paidBy \in Payments \union {NULL}
  BY DEF IInv, TypeOK, PaymentRow, NoPayment
<1>2. QED
  BY <1>1 DEF Refunded, AtGateway, NoMoney

\* A request that arrives, be it one that decides on a refund.
LEMMA BeginMInv ==
  ASSUME MInv, IInv', NEW r \in Requests, NEW q \in Request, Begin(r, q),
         met \subseteq met', crossed \subseteq crossed',
         q.pc \notin {"captured", "sum", "processed", "refunded"},
         RefundRequest(q),
         Decides(q) => refunds[q.refund].status = "REQUESTED",
         \A s \in Requests : req[s].payment = q.payment =>
           q.payment \in met' \/ ~(Decides(q) /\ Decides(req[s]))
  PROVE  MInv'
<1> USE DEF Begin, tables
<1>1. RefundRequest(q)'
  <2>1. Decides(q)' <=> Decides(q)
    BY DEF Decides
  <2>2. q.full => q.pc \notin {"processed", "refunded"}
    OBVIOUS
  <2>3. QED
    BY <2>1, <2>2 DEF RefundRequest
<1>2. \A p \in Payments : Refunded(p)' = Refunded(p)
  BY RefundedStays DEF MInv
<1>3. req[r].pc = "idle"
  BY DEF InFlight
<1>4. LoneDecision(q)'
  BY DEF LoneDecision, Decides
<1>5. /\ torn \subseteq torn' /\ UNCHANGED <<payments, refunds>>
      /\ req' = [req EXCEPT ![r] = q]
  OBVIOUS
<1> HIDE DEF Begin
<1>6. QED
  BY <1>1, <1>2, <1>3, <1>4, <1>5, RequestMoves

\* The requests that arrive.
LEMMA ArriveMInv ==
  ASSUME MInv, IInv', NEW r \in Requests, Arrive(r)
  PROVE  MInv'
<1>0. IInv
  BY DEF MInv
<1>1. ASSUME NEW b \in Bookings, RetryPayment(r, b)
      PROVE  MInv'
  <2> DEFINE q == [Idle EXCEPT !.pc = "insert", !.op = "retry", !.booking = b]
  <2>1. q \in Request
    BY DEF Idle, Request, Pcs, Ops
  <2>2. q.pc = "insert" /\ q.op = "retry"
    BY DEF Idle
  <2>3. Begin(r, q) /\ met' = met /\ crossed' = crossed
    BY <1>1 DEF RetryPayment
  <2> HIDE DEF q
  <2>4. RefundRequest(q) /\ ~Decides(q)
    BY <2>2 DEF RefundRequest, Decides, DecidePcs
  <2>5. QED
    BY <2>1, <2>2, <2>3, <2>4, BeginMInv
<1>2. ASSUME NEW p \in Payments, NEW g \in Payments, VerifyPayment(r, p, g)
      PROVE  MInv'
  <2> DEFINE q == [Idle EXCEPT !.pc = "authorize", !.op = "verify", !.paidBy = g,
                               !.booking = payments[p].booking, !.payment = p]
  <2>1. q \in Request
    BY <1>0, <1>2, Rows DEF VerifyPayment, PaymentRow, Idle, Request, Pcs, Ops
  <2>2. q.pc = "authorize" /\ q.op = "verify"
    BY DEF Idle
  <2>3. Begin(r, q) /\ met' = met /\ crossed \subseteq crossed'
    BY <1>2 DEF VerifyPayment
  <2> HIDE DEF q
  <2>4. RefundRequest(q) /\ ~Decides(q)
    BY <2>2 DEF RefundRequest, Decides, DecidePcs
  <2>5. QED
    BY <2>1, <2>2, <2>3, <2>4, BeginMInv
<1>3. ASSUME NEW p \in Payments, CapturePayment(r, p)
      PROVE  MInv'
  <2> DEFINE q == [Idle EXCEPT !.pc = "capture", !.op = "capture", !.payment = p,
                               !.paidBy = payments[p].paidBy]
  <2>1. q \in Request
    BY <1>0, <1>3, OwnPayment DEF CapturePayment, MoneyMoved, Idle, Request, Pcs, Ops
  <2>2. q.pc = "capture" /\ q.op = "capture"
    BY DEF Idle
  <2>3. Begin(r, q) /\ met' = met /\ crossed' = crossed
    BY <1>3 DEF CapturePayment
  <2> HIDE DEF q
  <2>4. RefundRequest(q) /\ ~Decides(q)
    BY <2>2 DEF RefundRequest, Decides, DecidePcs
  <2>5. QED
    BY <2>1, <2>2, <2>3, <2>4, BeginMInv
<1>4. ASSUME NEW b \in Bookings, NEW p \in Payments, NEW amount \in 1..Available(b),
             InitiateRefund(r, b, p, amount)
      PROVE  MInv'
  <2> DEFINE q == [Idle EXCEPT !.pc = "createRefund", !.op = "initiate",
                               !.booking = b, !.payment = p, !.amount = amount]
  <2>1. amount \in Nat
    BY <1>4 DEF InitiateRefund
  <2>2. q \in Request
    BY <2>1 DEF Idle, Request, Pcs, Ops
  <2>3. q.pc = "createRefund" /\ q.op = "initiate" /\ q.payment = p
    BY DEF Idle
  <2>4. Begin(r, q) /\ met' = met /\ crossed' = crossed
    BY <1>4 DEF InitiateRefund
  <2> HIDE DEF q
  <2>5. RefundRequest(q) /\ ~Decides(q)
    BY <1>4, <2>3 DEF InitiateRefund, RefundRequest, Decides, DecidePcs,
                      CapturedStatus
  <2>6. QED
    BY <2>2, <2>3, <2>4, <2>5, BeginMInv
<1>5. ASSUME NEW f \in Refunds, NEW op \in {"approve", "reject"},
             NEW first \in {"gatewayRefund", "reject"}, Decision(r, op, first, f)
      PROVE  MInv'
  <2> DEFINE q == [Idle EXCEPT !.pc = first, !.op = op, !.refund = f,
                               !.payment = refunds[f].payment,
                               !.paidBy = payments[refunds[f].payment].paidBy,
                               !.booking = payments[refunds[f].payment].booking,
                               !.amount = refunds[f].amount]
  <2>1. /\ refunds[f] \in RefundRow
        /\ refunds[f].status = "REQUESTED"
        /\ payments[refunds[f].payment].status \in MoneyMoved
        /\ refunds[f].payment \notin crossed =>
             payments[refunds[f].payment].status \in CapturedStatus
    BY <1>0, <1>5, Rows DEF Decision, MInv, RefundsCaptured, IInv, RefundsOK
  <2>2. payments[refunds[f].payment] \in PaymentRow
    BY <1>0, <2>1, Rows DEF RefundRow, MoneyMoved, CapturedStatus
  <2>3. q \in Request
    BY <2>1, <2>2 DEF Idle, Request, Pcs, Ops, RefundRow, PaymentRow
  <2>4. /\ q.pc = first /\ q.op = op /\ q.refund = f /\ q.payment = refunds[f].payment
        /\ q.amount = refunds[f].amount
    BY DEF Idle
  <2>5. Begin(r, q) /\ crossed' = crossed
    BY <1>5 DEF Decision
  <2> HIDE DEF q
  <2>6. RefundRequest(q)
    BY <2>1, <2>4 DEF RefundRequest, Decides, DecidePcs
  <2>7. refunds[q.refund].status = "REQUESTED"
    BY <2>1, <2>4
  <2>8. \A s \in Requests : req[s].payment = q.payment /\ Decides(req[s]) => q.payment \in met'
    <3> SUFFICES ASSUME NEW s \in Requests, req[s].payment = q.payment, Decides(req[s])
                 PROVE  q.payment \in met'
      OBVIOUS
    <3>1. InFlight(s) /\ req[s].op \in {"approve", "reject"}
      BY RequestFacts DEF RefundRequest, Decides, DecidePcs, InFlight
    <3>2. DecidingOn(q.payment)
      BY <3>1 DEF DecidingOn
    <3>3. QED
      BY <1>5, <2>4, <3>2 DEF Decision
  <2>9. met \subseteq met'
    BY <1>5 DEF Decision
  <2>10. q.pc \notin {"captured", "sum", "processed", "refunded"}
    BY <2>4
  <2>11. QED
    BY <2>3, <2>5, <2>6, <2>7, <2>8, <2>9, <2>10, BeginMInv
<1>6. QED
  BY <1>1, <1>2, <1>3, <1>4, <1>5 DEF Arrive, ApproveRefund, RejectRefund

\* A request that ends leaves money behind only when it is abandoned.
LEMMA FinishMInv ==
  ASSUME MInv, IInv', NEW r \in Requests, Finish(r),
         UNCHANGED <<payments, refunds>>,
         \A g \in Payments : gateway'[g].refunded = gateway[g].refunded,
         met \subseteq met', crossed \subseteq crossed', torn \subseteq torn',
         req[r].payment \in torn' \/ req[r].pc \notin {"sum", "processed", "refunded"}
  PROVE  MInv'
<1>1. PICK q \in Request : q = Idle /\ req' = [req EXCEPT ![r] = q]
  BY LastRecord DEF MInv
<1>2. RefundRequest(q)' /\ LoneDecision(q)' /\ ~Decides(q)
  BY <1>1, IdleMoney DEF Decides, DecidePcs, Idle
<1>3. q.pc = "idle"
  BY <1>1 DEF Idle
<1>4. \A p \in Payments : Refunded(p)' = Refunded(p)
  BY RefundedStays DEF MInv
<1>5. QED
  BY <1>1, <1>2, <1>3, <1>4, RequestMoves

\* The last statements of requests, and the ends that come too early.
LEMMA EndsMInv ==
  ASSUME MInv, IInv', NEW r \in Requests,
         \/ RecordOrder(r)
         \/ MarkBookingPaid(r)
         \/ RecordCaptureFailure(r)
         \/ RecordCapture(r)
         \/ MarkBookingRefunded(r)
         \/ Abandon(r)
  PROVE  MInv'
<1>1. /\ Finish(r)
      /\ UNCHANGED <<payments, refunds, gateway, met, crossed>>
      /\ torn \subseteq torn'
  BY DEF RecordOrder, MarkBookingPaid, RecordCaptureFailure, RecordCapture,
         MarkBookingRefunded, Abandon, Fault, tables, history
<1>2. ASSUME req[r].pc \in {"sum", "processed", "refunded"}
      PROVE  req[r].payment \in torn'
  <2>1. req[r].payment \in Payments
    BY <1>2, RequestFacts DEF Decides, DecidePcs
  <2>2. Abandon(r)
    BY <1>2 DEF RecordOrder, MarkBookingPaid, RecordCaptureFailure, RecordCapture,
                MarkBookingRefunded, At
  <2>3. QED
    BY <2>1, <2>2, NullAssumption DEF Abandon, Fault, Pay
<1>3. QED
  BY <1>1, <1>2, FinishMInv

-----------------------------------------------------------------------------
(* Captures and refunds *)

\* A decision that goes on to the next statement stays the only one.
LEMMA StaysAlone ==
  ASSUME MInv, NEW r \in Requests, Decides(req[r]), met \subseteq met',
         NEW s \in Requests \ {r}, req[s].payment = req[r].payment,
         req[r].payment \notin crossed
  PROVE  req[r].payment \in met' \/ ~Decides(req[s])
  BY DEF MInv, Alone

\* The transaction row of a refund.
LEMMA RecordRefundMInv ==
  ASSUME MInv, IInv', NEW r \in Requests, RecordRefund(r)
  PROVE  MInv'
<1>0. /\ IInv /\ req[r].pc = "refundRow" /\ Decides(req[r])
      /\ UNCHANGED <<payments, refunds, met, crossed, torn, gateway>>
  BY DEF MInv, At, Decides, DecidePcs, RecordRefund, history
<1>1. CASE Finish(r)
  BY <1>0, <1>1, FinishMInv
<1>2. CASE Goto(r, "close")
  <2>1. PICK q \in Request : q = [req[r] EXCEPT !.pc = "close"] /\ req' = [req EXCEPT ![r] = q]
    BY <1>0, <1>2, NextRecord DEF Pcs
  <2>2. /\ q.pc = "close" /\ q.payment = req[r].payment /\ q.refund = req[r].refund
        /\ q.op = req[r].op /\ q.amount = req[r].amount
    BY <2>1, RequestFacts DEF Request
  <2>3. Decides(q)
    BY <2>2 DEF Decides, DecidePcs
  <2>4. RefundRequest(q)'
    BY <1>0, <2>2, <2>3, RequestFacts DEF RefundRequest, Decides
  <2>5. LoneDecision(q)'
    BY <2>2 DEF LoneDecision
  <2>6. \A s \in Requests \ {r} : req[s].payment = q.payment /\ q.payment \notin crossed' =>
          q.payment \in met' \/ ~Decides(req[s])
    BY <1>0, <2>2, StaysAlone
  <2>7. q.pc \notin {"captured", "sum", "processed"} /\ req[r].pc \notin {"sum", "processed"}
    BY <1>0, <2>2
  <2>8. \A p \in Payments : Refunded(p)' = Refunded(p)
    BY <1>0, RefundedStays
  <2>9. QED
    BY <1>0, <2>1, <2>2, <2>4, <2>5, <2>6, <2>7, <2>8, RequestMoves
<1>3. QED
  BY <1>1, <1>2 DEF RecordRefund

\* The gateway captures what it had not captured: the row still says authorized.
LEMMA GatewayCaptureMInv ==
  ASSUME MInv, IInv', NEW r \in Requests, GatewayCapture(r)
  PROVE  MInv'
<1> USE DEF GatewayCapture, tables, Fault
<1>0. IInv /\ req[r].pc = "capture" /\ CaptureRequest(req[r])
  BY Carried DEF MInv, At
<1>1. PICK p \in Payments, g \in Payments :
        /\ p = req[r].payment /\ g = req[r].paidBy
        /\ payments[p].status \in MoneyMoved
        /\ Confirms(p, g)
  BY <1>0 DEF CaptureRequest
<1>2. PICK pc \in {"captured", "captureFailed"} :
        /\ Goto(r, pc)
        /\ pc = "captured" => gateway[g].captured = 0
  BY <1>1 DEF GatewayCaptures, PaidBy
<1>3. PICK q \in Request : q = [req[r] EXCEPT !.pc = pc] /\ req' = [req EXCEPT ![r] = q]
  BY <1>0, <1>2, NextRecord DEF Pcs
<1>4. q.pc = pc /\ q.payment = p /\ q.op = req[r].op
  BY <1>1, <1>3, RequestFacts DEF Request
<1>5. ~Decides(q) /\ ~Decides(req[r])
  BY <1>0, <1>4 DEF Decides, DecidePcs
<1>6. pc = "captured" /\ p \notin crossed => payments[p].status = "AUTHORIZED"
  BY <1>0, <1>1, <1>2, OnlyPayment DEF IInv, LedgerOK, MoneyMoved, Captured
<1>7. /\ torn \subseteq torn' /\ UNCHANGED <<payments, refunds, met, crossed>>
      /\ \A k \in Payments : gateway'[k].refunded = gateway[k].refunded
  BY <1>0 DEF IInv, TypeOK, GatewayPayment, GatewayCaptures
<1> HIDE DEF GatewayCapture, Fault
<1>8. RefundRequest(q)'
  BY <1>4, <1>5, <1>6, <1>7, RequestFacts DEF RefundRequest, Decides
<1>9. LoneDecision(q)'
  BY <1>5 DEF LoneDecision, Decides
<1>10. ASSUME NEW s \in Requests \ {r}, req[s].payment = p, pc = "captured", p \notin crossed
       PROVE  req[s].pc # "captured"
  <2> SUFFICES ASSUME req[s].pc = "captured"
               PROVE  FALSE
    OBVIOUS
  <2>1. PICK h \in Payments : h = req[s].paidBy /\ Confirms(p, h) /\ Taken(h)
    BY <1>0, <1>10, Carried DEF CaptureRequest
  <2>2. h = g
    BY <1>0, <1>1, <1>10, <2>1, OnlyPayment
  <2>3. QED
    BY <1>2, <1>10, <2>1, <2>2 DEF Taken
<1>11. \A k \in Payments : Refunded(k)' = Refunded(k)
  BY <1>0, <1>7, RefundedStays
<1>12. /\ req[r].pc \notin {"sum", "processed", "refunded"}
       /\ q.pc \notin {"sum", "processed"}
       /\ \A s \in Requests \ {r} : req[s].payment = q.payment /\ q.payment \notin crossed' =>
            ~(q.pc = "captured" /\ req[s].pc = "captured")
  BY <1>0, <1>4, <1>7, <1>10
<1>13. QED
  BY <1>3, <1>5, <1>7, <1>8, <1>9, <1>11, <1>12, RequestMoves

\* A sum that makes up the whole payment was paid back as a whole.
LEMMA SumUpMInv ==
  ASSUME MInv, IInv', NEW r \in Requests, SumUp(r)
  PROVE  MInv'
<1> USE DEF SumUp, tables, history
<1>0. IInv /\ req[r].pc = "sum" /\ Decides(req[r])
  BY DEF MInv, At, Decides, DecidePcs
<1>1. PICK p \in Payments, f \in Refunds :
        /\ p = req[r].payment
        /\ f = req[r].refund
        /\ refunds[f] \in RefundRow
        /\ refunds[f].payment = p
        /\ p \notin crossed => payments[p].status \in CapturedStatus
  BY <1>0, RequestFacts DEF RefundRequest
<1>2. PICK T \in SUBSET Refunds : T = Processed(RefundsOf(p)) \union {f}
  BY DEF Processed, RefundsOf
<1>3. PICK full \in BOOLEAN : full = (SumRefunds(T) >= AmountOf(p))
  <2>1. (SumRefunds(T) >= AmountOf(p)) \in BOOLEAN
    OBVIOUS
  <2>2. QED
    BY <2>1, Zenon
<1>4. req' = [req EXCEPT ![r] = [req[r] EXCEPT !.pc = "processed", !.full = full]]
  BY <1>0, <1>1, <1>2, <1>3 DEF Pay, IInv, TypeOK
<1>5. [req[r] EXCEPT !.pc = "processed", !.full = full] \in Request
  BY RequestFacts DEF Request, Pcs
<1>6. PICK q \in Request : q = [req[r] EXCEPT !.pc = "processed", !.full = full]
  BY <1>5
<1>7. /\ q.pc = "processed" /\ q.payment = p /\ q.refund = f /\ q.full = full
      /\ q.op = req[r].op /\ q.amount = req[r].amount
  BY <1>1, <1>6, RequestFacts DEF Request
<1>8. Decides(q)
  BY <1>7 DEF Decides, DecidePcs
<1>9. ASSUME full, p \notin crossed
      PROVE  Refunded(p) = AmountOf(p)
  <2>1. PICK B \in SUBSET Refunds : B = Back(p)
    BY DEF Back, RefundsOf
  <2>2. T \subseteq B
    <3>1. f \in Back(p)
      BY <1>0, <1>1 DEF Back, RefundsOf, Working
    <3>2. Processed(RefundsOf(p)) \subseteq Back(p)
      BY DEF Processed, Back
    <3>3. QED
      BY <1>2, <2>1, <3>1, <3>2
  <2>3. SumRefunds(T) <= SumRefunds(B) /\ SumRefunds(T) \in Nat /\ SumRefunds(B) \in Nat
    BY <1>0, <2>2, SumsOf
  <2>4. SumRefunds(B) <= Refunded(p)
    BY <1>9, <2>1 DEF MInv, Covered
  <2>5. Refunded(p) <= AmountOf(p)
    BY <1>1, <1>9 DEF MInv, Covered, CapturedStatus
  <2>6. Refunded(p) \in Nat /\ AmountOf(p) \in Nat
    BY <1>0, <1>1, <1>9, Numbers DEF CapturedStatus
  <2>7. SumRefunds(T) >= AmountOf(p)
    BY <1>3, <1>9
  <2>8. QED
    BY <2>3, <2>4, <2>5, <2>6, <2>7
<1>10. RefundRequest(q)'
  <2>1. full /\ p \notin crossed => Refunded(p)' = AmountOf(p)'
    BY <1>9 DEF AmountOf, Refunded, AtGateway
  <2>2. QED
    BY <1>0, <1>1, <1>7, <1>8, <2>1, RequestFacts DEF RefundRequest, Decides
<1>11. LoneDecision(q)'
  <2>1. SumRefunds(Processed(RefundsOf(p)) \union {f})' = SumRefunds(T)
    BY <1>2 DEF SumRefunds, Processed, RefundsOf
  <2>2. AmountOf(p)' = AmountOf(p)
    BY DEF AmountOf
  <2>3. LoneDecision(req[r])
    BY RequestFacts
  <2>4. p \notin met \union crossed => refunds[f].status = "REQUESTED" /\ payments[p].status # "REFUNDED"
    BY <1>0, <1>1, <2>3 DEF LoneDecision
  <2>5. QED
    BY <1>3, <1>7, <2>1, <2>2, <2>4 DEF LoneDecision
<1>12. \A s \in Requests \ {r} : req[s].payment = q.payment /\ q.payment \notin crossed' =>
         q.payment \in met' \/ ~Decides(req[s])
  BY <1>0, <1>1, <1>7, StaysAlone
<1>13. /\ UNCHANGED <<payments, refunds, gateway, met, crossed, torn>>
       /\ q.pc \in {"sum", "processed"}
       /\ q.refund = req[r].refund
       /\ req' = [req EXCEPT ![r] = q]
  BY <1>1, <1>4, <1>6, <1>7
<1>14. \A k \in Payments : Refunded(k)' = Refunded(k)
  BY DEF Refunded, AtGateway
<1> HIDE DEF SumUp
<1>15. QED
  BY <1>0, <1>7, <1>10, <1>11, <1>12, <1>13, <1>14, RequestMoves

\* A request that goes on, and learns of no capture, leaves the others alone.
LEMMA AloneKeeps ==
  ASSUME MInv, NEW r \in Requests, NEW q, req' = [req EXCEPT ![r] = q], met \subseteq met',
         crossed \subseteq crossed',
         q.pc # "captured",
         Decides(q) => Decides(req[r]) /\ q.payment = req[r].payment
  PROVE  Alone'
<1>1. req'[r] = q /\ \A s \in Requests \ {r} : req'[s] = req[s]
  BY DEF MInv, IInv, TypeOK
<1> SUFFICES ASSUME NEW s \in Requests, NEW k \in Requests,
                    req'[s].payment = req'[k].payment, req'[s].payment \notin crossed',
                    \/ req'[s].pc = "captured" /\ req'[k].pc = "captured"
                    \/ /\ req'[s].payment \notin met'
                       /\ Decides(req'[s])
                       /\ Decides(req'[k])
             PROVE  s = k
  BY DEF Alone, Decides
<1>2. ASSUME NEW x \in Requests
      PROVE  /\ req'[x].pc = "captured" => x # r /\ req'[x] = req[x]
             /\ Decides(req'[x]) => Decides(req[x]) /\ req'[x].payment = req[x].payment
  BY <1>1
<1>3. req[s].payment = req[k].payment /\ req[s].payment \notin crossed
  BY <1>2
<1>4. QED
  BY <1>2, <1>3 DEF MInv, Alone

\* The gateway pays back a refund: its row will say so next, or the answer is lost.
LEMMA GatewayRefundMInv ==
  ASSUME MInv, IInv', NEW r \in Requests, GatewayRefund(r)
  PROVE  MInv'
<1>0. IInv /\ req[r].pc = "gatewayRefund" /\ Decides(req[r])
  BY DEF MInv, At, Decides, DecidePcs, GatewayRefund
<1>1. CASE Finish(r) /\ UNCHANGED <<gateway, torn>>
  BY <1>0, <1>1, FinishMInv DEF GatewayRefund, tables
<1>2. CASE /\ GatewayRefunds(r)
           /\ \/ Goto(r, "sum") /\ UNCHANGED <<faults, torn>>
              \/ Finish(r) /\ Fault({Pay(r)})
  <2>1. PICK p \in Payments, f \in Refunds, g \in Payments :
          /\ p = req[r].payment /\ p = Pay(r)
          /\ g = req[r].paidBy /\ g = PaidBy(r)
          /\ f = req[r].refund
          /\ refunds[f] \in RefundRow
          /\ refunds[f].payment = p
          /\ refunds[f].amount = req[r].amount
          /\ payments[p].status \in MoneyMoved
          /\ p \notin crossed => payments[p].status \in CapturedStatus
          /\ Confirms(p, g)
          /\ RefundRequest(req[r])
          /\ LoneDecision(req[r])
    BY <1>0, RequestFacts DEF RefundRequest, Pay, PaidBy, DecideRequest
  <2>2. UNCHANGED <<payments, refunds, met, crossed>> /\ torn \subseteq torn'
    BY <1>2 DEF GatewayRefund, tables, Fault
  <2>3. /\ refunds[f].amount \in Nat \ {0}
        /\ AmountOf(p) \in Nat \ {0}
        /\ Refunded(p) \in Nat
    BY <1>0, <2>1, Numbers DEF RefundRow, MoneyMoved, CapturedStatus
  <2>4. /\ gateway'[g].refunded = gateway[g].refunded + refunds[f].amount
        /\ gateway'[g].refunded <= gateway[g].captured
        /\ \A h \in Payments \ {g} : gateway'[h] = gateway[h]
    BY <1>0, <1>2, <2>1 DEF GatewayRefunds, IInv, TypeOK, GatewayPayment
  <2>5. ASSUME NEW k \in Payments, k # p
        PROVE  Refunded(k)' = Refunded(k)
    <3>1. payments[k].paidBy \in Payments \union {NULL}
      BY <1>0 DEF IInv, TypeOK, PaymentRow, NoPayment
    <3>2. payments[k].paidBy # g
      BY <1>0, <2>1, <2>5, OwnPayment, NullAssumption DEF IInv, LedgerOK, GatewayOK
    <3>3. QED
      BY <2>2, <2>4, <3>1, <3>2 DEF Refunded, AtGateway, NoMoney
  <2>6. ASSUME p \notin crossed
        PROVE  /\ Refunded(p)' = Refunded(p) + refunds[f].amount
               /\ Refunded(p)' <= AmountOf(p)
               /\ payments[p].status # "REFUNDED"
    <3>1. payments[p].paidBy = g /\ g # NULL
      BY <1>0, <2>1, <2>6, OnlyPayment, NullAssumption
    <3>2. Refunded(p) = gateway[g].refunded /\ Refunded(p)' = gateway'[g].refunded
      BY <2>2, <3>1 DEF Refunded, AtGateway
    <3>3. Taken(g)
      BY <1>0, <2>3, <2>4, GatewayNumbers DEF Taken
    <3>4. gateway[g].captured = AmountOf(p)
      BY <1>0, <2>1, <3>3 DEF IInv, GatewayOK
    <3>5. payments[p].status # "REFUNDED"
      BY <2>3, <2>4, <2>6, <3>2, <3>4 DEF MInv, Covered
    <3>6. QED
      BY <2>4, <3>2, <3>4, <3>5
  <2>7. \E q \in Request :
          /\ req' = [req EXCEPT ![r] = q]
          /\ RefundRequest(q)' /\ LoneDecision(q)'
          /\ q.pc # "captured" /\ q.pc # "processed"
          /\ Decides(q) => q.payment = p
          /\ q.pc = "sum" => q.refund = f
          /\ q.pc = "sum" \/ p \in torn'
    <3>1. CASE Finish(r)
      <4>1. PICK q \in Request : q = Idle /\ req' = [req EXCEPT ![r] = q]
        BY <1>0, <3>1, LastRecord
      <4>2. q.pc = "idle" /\ ~Decides(q)
        BY <4>1 DEF Idle, Decides, DecidePcs
      <4>3. p \in torn'
        <5>1. ~At(r, "idle") /\ req \in [Requests -> Request]
          BY <1>0 DEF At, IInv, TypeOK
        <5>2. ~Goto(r, "sum")
          BY <3>1, <5>1 DEF Goto, Finish, Idle, Request
        <5>3. QED
          BY <1>2, <2>1, <5>2 DEF Fault
      <4>4. QED
        BY <4>1, <4>2, <4>3, IdleMoney
    <3>2. CASE Goto(r, "sum")
      <4>1. PICK q \in Request : q = [req[r] EXCEPT !.pc = "sum"] /\ req' = [req EXCEPT ![r] = q]
        BY <1>0, <3>2, NextRecord DEF Pcs
      <4>2. /\ q.pc = "sum" /\ q.payment = p /\ q.refund = f
            /\ q.op = req[r].op /\ q.amount = req[r].amount
        BY <2>1, <4>1, RequestFacts DEF Request
      <4>3. Decides(q)
        BY <4>2 DEF Decides, DecidePcs
      <4>4. RefundRequest(q)'
        BY <1>0, <2>1, <2>2, <4>2, <4>3 DEF RefundRequest, Decides
      <4>5. LoneDecision(q)'
        BY <1>0, <2>1, <2>2, <2>6, <4>2 DEF LoneDecision
      <4>6. QED
        BY <4>1, <4>2, <4>4, <4>5
    <3>3. QED
      BY <1>2, <3>1, <3>2
  <2>8. PICK q \in Request :
          /\ req' = [req EXCEPT ![r] = q]
          /\ RefundRequest(q)' /\ LoneDecision(q)'
          /\ q.pc # "captured" /\ q.pc # "processed"
          /\ Decides(q) => q.payment = p
          /\ q.pc = "sum" => q.refund = f
          /\ q.pc = "sum" \/ p \in torn'
    BY <2>7
  <2>9. req'[r] = q /\ \A s \in Requests \ {r} : req'[s] = req[s]
    BY <1>0, <2>8 DEF IInv, TypeOK
  <2>10. CASE p \in crossed
    <3>1. \A k \in Payments \ crossed' : Refunded(k)' = Refunded(k)
      BY <2>2, <2>5, <2>10
    <3>2. /\ req[r].pc \notin {"sum", "processed", "refunded"}
          /\ q.pc \in {"sum", "processed"} => q.payment \in crossed'
          /\ Decides(q) => q.payment \in crossed'
          /\ q.pc # "captured"
          /\ crossed \subseteq crossed' /\ met \subseteq met'
          /\ UNCHANGED <<payments, refunds>>
      BY <1>0, <2>2, <2>8, <2>10 DEF Decides, DecidePcs
    <3>3. QED
      BY <2>2, <2>8, <3>1, <3>2, RequestMoves
  <2> SUFFICES ASSUME p \notin crossed PROVE MInv'
    BY <2>10
  <2>11. MoneyGrows
    <3>1. \A k \in Payments \ crossed' : Refunded(k) <= Refunded(k)'
      BY <1>0, <2>3, <2>5, <2>6, Numbers
    <3>2. \A k \in Payments \ crossed' :
            payments[k].status # "NONE" => Refunded(k)' <= AmountOf(k)'
      BY <2>2, <2>5, <2>6 DEF MInv, Covered, AmountOf
    <3>3. QED
      BY <2>2, <3>1, <3>2 DEF MoneyGrows
  <2>12. RefundRequests'
    <3>1. ASSUME NEW s \in Requests, s # r
          PROVE  RefundRequest(req[s])' /\ LoneDecision(req[s])'
      <4>1. req[s].pc = "captured" /\ req[s].payment \notin crossed' => payments'[req[s].payment].status = "AUTHORIZED"
        BY <2>2, RequestFacts DEF RefundRequest
      <4>2. Processed(RefundsOf(req[s].payment))' = Processed(RefundsOf(req[s].payment))
        BY <2>2, <2>9, <3>1 DEF Processed, RefundsOf
      <4>3. QED
        BY <2>2, <2>9, <2>11, <3>1, <4>1, <4>2, OtherRequests
    <3>2. QED
      BY <2>8, <2>9, <3>1 DEF RefundRequests
  <2>13. Alone'
    BY <1>0, <2>1, <2>2, <2>8, AloneKeeps
  <2>14. RefundsCaptured'
    BY <2>2 DEF MInv, RefundsCaptured
  <2>15. ASSUME NEW h \in Refunds, h # f
         PROVE  Working(h)' <=> Working(h)
    BY <1>0, <2>1, <2>8, <2>9, <2>15 DEF Working
  <2>16. ASSUME NEW k \in Payments, k # p
         PROVE  SumRefunds(Back(k))' = SumRefunds(Back(k))
    <3>1. Back(k)' = Back(k)
      BY <2>1, <2>2, <2>15, <2>16 DEF Back, RefundsOf
    <3>2. QED
      BY <2>2, <3>1 DEF SumRefunds
  <2>17. PICK B \in SUBSET Refunds : B = Back(p)
    BY DEF Back, RefundsOf
  <2>18. /\ SumRefunds(B) \in Nat
         /\ f \notin B => SumRefunds(B \union {f}) = SumRefunds(B) + refunds[f].amount
         /\ SumRefunds(B) <= Refunded(p)
    BY <1>0, <2>17, SumsOf DEF MInv, Covered
  <2>19. SumRefunds(Back(p))' <= Refunded(p)'
    <3>1. PICK U \in SUBSET (B \union {f}) : U = Back(p)'
      BY <2>2, <2>15, <2>17 DEF Back, RefundsOf
    <3>2. SumRefunds(Back(p))' = SumRefunds(U)
      BY <2>2, <3>1 DEF SumRefunds
    <3>3. SumRefunds(U) <= SumRefunds(B \union {f}) /\ SumRefunds(U) \in Nat
      BY <1>0, SumsOf
    <3>4. SumRefunds(B \union {f}) <= SumRefunds(B) + refunds[f].amount
      <4>1. CASE f \in B
        <5>1. B \union {f} = B
          BY <4>1
        <5>2. SumRefunds(B) <= SumRefunds(B) + refunds[f].amount
          BY <2>3, <2>18
        <5>3. QED
          BY <5>1, <5>2
      <4>2. CASE f \notin B
        BY <2>3, <2>18, <4>2
      <4>3. QED
        BY <4>1, <4>2
    <3>5. SumRefunds(B \union {f}) \in Nat
      BY <1>0, SumsOf
    <3>6. SumRefunds(U) <= Refunded(p)'
      BY <2>3, <2>6, <2>18, <3>3, <3>4, <3>5
    <3>7. QED
      BY <3>2, <3>6
  <2>20. Covered'
    BY <2>2, <2>5, <2>6, <2>16, <2>19, <2>1 DEF MInv, Covered, AmountOf, CapturedStatus
  <2>21. ASSUME p \notin met' \union torn'
         PROVE  Refunded(p)' = SumRefunds(Back(p))'
    <3>1. q.pc = "sum" /\ q.refund = f /\ p \notin met /\ p \notin torn
      BY <2>2, <2>8, <2>21
    <3>2. refunds[f].status = "REQUESTED"
      BY <1>0, <2>1, <3>1 DEF LoneDecision
    <3>3. ~Working(f)
      <4> SUFFICES ASSUME NEW s \in Requests, req[s].pc \in {"sum", "processed"},
                          req[s].refund = f
                   PROVE  FALSE
        BY DEF Working
      <4>1. Decides(req[s]) /\ req[s].payment = p
        BY <2>1, RequestFacts DEF Decides, DecidePcs, RefundRequest
      <4>2. s = r
        BY <1>0, <2>1, <3>1, <4>1 DEF MInv, Alone
      <4>3. QED
        BY <1>0, <4>2
    <3>4. f \notin B
      BY <2>17, <3>2, <3>3 DEF Back
    <3>5. Back(p)' = B \union {f}
      <4>1. Working(f)'
        BY <2>9, <3>1 DEF Working
      <4>2. QED
        BY <2>1, <2>2, <2>15, <2>17, <4>1 DEF Back, RefundsOf
    <3>6. SumRefunds(Back(p))' = SumRefunds(B \union {f})
      BY <2>2, <3>5 DEF SumRefunds
    <3>7. Refunded(p) = SumRefunds(B)
      BY <2>17, <3>1 DEF MInv, Exact
    <3>8. QED
      BY <2>6, <2>18, <3>4, <3>6, <3>7
  <2>22. Exact'
    <3> SUFFICES ASSUME NEW k \in Payments, k \notin met' \union crossed' \union torn'
                 PROVE  /\ Refunded(k)' = SumRefunds(Back(k))'
                        /\ payments'[k].status \in CapturedStatus =>
                             payments'[k].status = StatusOf(k)' \/ SomeAt("refunded", k)'
      BY DEF Exact
    <3>1. k \notin met \union crossed \union torn
      BY <2>2
    <3>2. Refunded(k)' = SumRefunds(Back(k))'
      BY <2>2, <2>5, <2>16, <2>21, <3>1 DEF MInv, Exact
    <3>3. StatusOf(k)' = StatusOf(k)
      BY <2>2 DEF StatusOf, Given, SumRefunds, Processed, RefundsOf, AmountOf
    <3>4. SomeAt("refunded", k) => SomeAt("refunded", k)'
      BY <1>0, <2>9 DEF SomeAt
    <3>5. QED
      BY <2>2, <3>1, <3>2, <3>3, <3>4 DEF MInv, Exact
  <2>23. QED
    BY <2>12, <2>13, <2>14, <2>20, <2>22 DEF MInv
<1>3. QED
  BY <1>1, <1>2 DEF GatewayRefund

\* A new refund was not paid back yet.
LEMMA CreateRefundMInv ==
  ASSUME MInv, IInv', NEW r \in Requests, CreateRefund(r)
  PROVE  MInv'
<1>0. IInv /\ req[r].pc = "createRefund" /\ ~Decides(req[r])
  BY DEF MInv, At, Decides, DecidePcs, CreateRefund
<1>1. PICK p \in Payments :
        p = req[r].payment /\ p = Pay(r) /\ (p \notin crossed => payments[p].status \in CapturedStatus)
  BY <1>0, Carried, RequestFacts DEF InitiateRequest, At, RefundRequest, Pay
<1>2. PICK f \in Refunds :
        /\ refunds[f].status = "NONE"
        /\ refunds' = [refunds EXCEPT ![f] =
             [status |-> "REQUESTED", payment |-> p, amount |-> req[r].amount]]
  BY <1>1 DEF CreateRefund
<1>3. /\ UNCHANGED <<payments, gateway, met, crossed, torn>>
      /\ Finish(r)
  BY DEF CreateRefund, history
<1>4. /\ refunds'[f].status = "REQUESTED"
      /\ refunds'[f].payment = p
      /\ \A g \in Refunds \ {f} : refunds'[g] = refunds[g]
  BY <1>0, <1>2 DEF IInv, TypeOK
<1>5. PICK q \in Request : q = Idle /\ req' = [req EXCEPT ![r] = q]
  BY <1>0, <1>3, LastRecord
<1>6. q.pc = "idle" /\ ~Decides(q) /\ RefundRequest(q)' /\ LoneDecision(q)'
  BY <1>5, IdleMoney DEF Idle, Decides, DecidePcs
<1>7. req'[r] = q /\ \A s \in Requests \ {r} : req'[s] = req[s]
  BY <1>0, <1>5 DEF IInv, TypeOK
<1>8. MoneyGrows
  <2>1. \A k \in Payments \ crossed' : Refunded(k) <= Refunded(k)'
    BY <1>0, <1>3, RefundedStays, Numbers
  <2>2. \A k \in Payments \ crossed' :
          payments[k].status # "NONE" => Refunded(k)' <= AmountOf(k)'
    BY <1>0, <1>3, RefundedStays DEF MInv, Covered, AmountOf
  <2>3. QED
    BY <1>2, <1>3, <1>4, <2>1, <2>2 DEF MoneyGrows
<1>9. ASSUME NEW k
      PROVE  Processed(RefundsOf(k))' = Processed(RefundsOf(k))
  BY <1>2, <1>4 DEF Processed, RefundsOf
<1>10. ASSUME NEW s \in Requests, Decides(req[s])
       PROVE  s # r /\ req[s].refund \in Refunds /\ req[s].refund # f
  BY <1>0, <1>2, <1>10, RequestFacts DEF RefundRow, RefundStatus
<1>11. RefundRequests'
  <2>1. ASSUME NEW s \in Requests, s # r
        PROVE  RefundRequest(req[s])' /\ LoneDecision(req[s])'
    <3>1. req'[s] = req[s]
      BY <1>7, <2>1
    <3>2. req[s].pc = "captured" /\ req[s].payment \notin crossed' => payments'[req[s].payment].status = "AUTHORIZED"
      BY <1>3, RequestFacts DEF RefundRequest
    <3>3. Decides(req[s]) => refunds'[req[s].refund] = refunds[req[s].refund]
      BY <1>4, <1>10
    <3>4. Processed(RefundsOf(req[s].payment))' = Processed(RefundsOf(req[s].payment))
      BY <3>1, <1>2, <1>4 DEF Processed, RefundsOf
    <3>5. QED
      BY <1>3, <1>8, <3>1, <3>2, <3>3, <3>4, OtherRequests
  <2>2. QED
    BY <1>6, <1>7, <2>1 DEF RefundRequests
<1>12. Alone'
  BY <1>3, <1>5, <1>6, AloneKeeps
<1>13. RefundsCaptured'
  BY <1>1, <1>3, <1>4 DEF MInv, RefundsCaptured
<1>14. ASSUME NEW g \in Refunds
       PROVE  Working(g)' <=> Working(g)
  BY <1>0, <1>6, <1>7 DEF Working
<1>15. ~Working(f)
  BY <1>10 DEF Working, Decides, DecidePcs
<1>16. ASSUME NEW k \in Payments
       PROVE  /\ SumRefunds(Back(k))' = SumRefunds(Back(k))
              /\ StatusOf(k)' = StatusOf(k)
  <2>0. f \notin Back(k) /\ f \notin Processed(RefundsOf(k))
    BY <1>2, <1>15 DEF Back, Processed
  <2>1. PICK B \in SUBSET Refunds : B = Back(k) /\ f \notin B
    <3>1. Back(k) \in SUBSET Refunds
      BY DEF Back, RefundsOf
    <3>2. QED
      BY <2>0, <3>1
  <2>2. Back(k)' = B
    BY <1>4, <1>14, <1>15, <2>1 DEF Back, RefundsOf
  <2>3. PICK T \in SUBSET Refunds : T = Processed(RefundsOf(k)) /\ f \notin T
    <3>1. Processed(RefundsOf(k)) \in SUBSET Refunds
      BY DEF Processed, RefundsOf
    <3>2. QED
      BY <2>0, <3>1
  <2>4. Total(Amounts', B) = Total(Amounts, B) /\ Total(Amounts', T) = Total(Amounts, T)
    BY <1>4, <2>1, <2>3, SumKept
  <2>5. /\ SumRefunds(Back(k))' = Total(Amounts', B)
        /\ SumRefunds(Back(k)) = Total(Amounts, B)
    BY <2>1, <2>2 DEF SumRefunds, Total, Amounts
  <2>6. /\ Given(k)' = Total(Amounts', T)
        /\ Given(k) = Total(Amounts, T)
    BY <1>9, <2>3 DEF Given, SumRefunds, Total, Amounts
  <2>7. AmountOf(k)' = AmountOf(k)
    BY <1>3 DEF AmountOf
  <2>8. QED
    BY <2>4, <2>5, <2>6, <2>7 DEF StatusOf
<1>17. Covered'
  BY <1>0, <1>3, <1>16, RefundedStays DEF MInv, Covered, AmountOf
<1>18. ASSUME NEW k \in Payments, SomeAt("refunded", k)
       PROVE  SomeAt("refunded", k)'
  BY <1>0, <1>7, <1>18 DEF SomeAt
<1>19. Exact'
  BY <1>0, <1>3, <1>16, <1>18, RefundedStays DEF MInv, Exact
<1>20. QED
  BY <1>11, <1>12, <1>13, <1>17, <1>19 DEF MInv

\* The status of a refund.  Where nobody else decides, the row was still REQUESTED.
LEMMA UpdateRefundStatusMInv ==
  ASSUME MInv, IInv', NEW r \in Requests, UpdateRefundStatus(r)
  PROVE  MInv'
<1>0. IInv /\ req[r].pc \in {"processed", "reject"} /\ Decides(req[r])
  BY DEF MInv, At, Decides, DecidePcs, UpdateRefundStatus
<1>1. PICK p \in Payments, f \in Refunds :
        /\ p = req[r].payment
        /\ f = req[r].refund
        /\ refunds[f] \in RefundRow
        /\ refunds[f].payment = p
        /\ p \notin crossed => payments[p].status \in CapturedStatus
        /\ RefundRequest(req[r])
        /\ LoneDecision(req[r])
  BY <1>0, RequestFacts DEF RefundRequest
<1>2. PICK status \in {"PROCESSED", "REJECTED"} :
        /\ refunds' = [refunds EXCEPT ![f].status = status]
        /\ \/ /\ status = "PROCESSED"
              /\ req[r].pc = "processed"
              /\ Goto(r, "refunded")
           \/ /\ status = "REJECTED"
              /\ req[r].pc = "reject"
              /\ Finish(r)
  BY <1>1 DEF UpdateRefundStatus, At
<1>3. /\ UNCHANGED <<payments, gateway, met, crossed, torn>>
      /\ \A k \in Payments : Refunded(k)' = Refunded(k)
  BY DEF UpdateRefundStatus, history, Refunded, AtGateway
<1>4. /\ refunds'[f].status = status
      /\ refunds'[f].payment = p
      /\ \A g \in Refunds : refunds'[g].payment = refunds[g].payment
                            /\ refunds'[g].amount = refunds[g].amount
      /\ \A g \in Refunds \ {f} : refunds'[g] = refunds[g]
  BY <1>0, <1>1, <1>2 DEF IInv, TypeOK, RefundRow
<1>5. MoneyGrows
  <2>1. \A k \in Payments \ crossed' : Refunded(k) <= Refunded(k)'
    BY <1>0, <1>3, Numbers
  <2>2. \A k \in Payments \ crossed' :
          payments[k].status # "NONE" => Refunded(k)' <= AmountOf(k)'
    BY <1>3 DEF MInv, Covered, AmountOf
  <2>3. \A g \in Refunds : refunds[g].status # "NONE" => refunds'[g].status # "NONE"
    BY <1>4
  <2>4. QED
    BY <1>3, <1>4, <2>1, <2>2, <2>3 DEF MoneyGrows
<1>6. \A k \in Payments : AmountOf(k)' = AmountOf(k)
  BY <1>3 DEF AmountOf
<1>7. ASSUME NEW k \in Payments, k # p
      PROVE  Processed(RefundsOf(k))' = Processed(RefundsOf(k))
  BY <1>1, <1>4, <1>7 DEF Processed, RefundsOf
<1>8. PICK T \in SUBSET Refunds : T = Processed(RefundsOf(p))
  BY DEF Processed, RefundsOf
<1>9. Processed(RefundsOf(p))' = IF status = "PROCESSED" THEN T \union {f} ELSE T \ {f}
  BY <1>1, <1>4, <1>8 DEF Processed, RefundsOf
<1>10. \A U \in SUBSET Refunds : Total(Amounts', U) = Total(Amounts, U)
  BY <1>4, SumKept
<1>11. \E q \in Request :
         /\ req' = [req EXCEPT ![r] = q]
         /\ RefundRequest(q)' /\ LoneDecision(q)'
         /\ q.pc \in {"idle", "refunded"}
         /\ Decides(q) => q.payment = p
         /\ status = "PROCESSED" => q.pc = "refunded" /\ q.payment = p
  <2>1. CASE status = "REJECTED"
    <3>1. PICK q \in Request : q = Idle /\ req' = [req EXCEPT ![r] = q]
      BY <1>0, <1>2, <2>1, LastRecord
    <3>2. q.pc = "idle" /\ ~Decides(q)
      BY <3>1 DEF Idle, Decides, DecidePcs
    <3>3. QED
      BY <2>1, <3>1, <3>2, IdleMoney
  <2>2. CASE status = "PROCESSED"
    <3>0. Goto(r, "refunded") /\ req[r].pc = "processed"
      BY <1>2, <2>2
    <3>1. PICK q \in Request :
            q = [req[r] EXCEPT !.pc = "refunded"] /\ req' = [req EXCEPT ![r] = q]
      BY <1>0, <3>0, NextRecord DEF Pcs
    <3>2. /\ q.pc = "refunded" /\ q.payment = p /\ q.refund = f
          /\ q.op = req[r].op /\ q.amount = req[r].amount /\ q.full = req[r].full
      BY <1>1, <3>1, RequestFacts DEF Request
    <3>3. Decides(q)
      BY <3>2 DEF Decides, DecidePcs
    <3>4. RefundRequest(q)'
      <4>1. q.full /\ p \notin crossed => Refunded(p)' = AmountOf(p)'
        BY <1>1, <1>3, <1>6, <3>0, <3>2 DEF RefundRequest
      <4>2. q.op \in {"approve", "reject"} /\ refunds'[f].amount = q.amount
        BY <1>0, <1>1, <1>4, <3>2 DEF RefundRequest
      <4>3. QED
        BY <1>1, <1>3, <1>4, <3>2, <3>3, <4>1, <4>2 DEF RefundRequest, Decides
    <3>5. ASSUME p \notin met \union crossed
          PROVE  /\ payments'[p].status # "REFUNDED"
                 /\ q.full <=> Given(p)' >= AmountOf(p)'
      <4>1. /\ payments[p].status # "REFUNDED"
            /\ q.full <=> SumRefunds(Processed(RefundsOf(p)) \union {f}) >= AmountOf(p)
        BY <1>0, <1>1, <3>0, <3>2, <3>5 DEF LoneDecision
      <4>2. SumRefunds(Processed(RefundsOf(p)) \union {f}) = Total(Amounts, T \union {f})
        BY <1>8 DEF SumRefunds, Total, Amounts
      <4>3. Given(p)' = Total(Amounts', T \union {f})
        BY <1>9, <2>2 DEF Given, SumRefunds, Total, Amounts
      <4>4. T \union {f} \in SUBSET Refunds
        OBVIOUS
      <4>5. QED
        BY <1>3, <1>6, <1>10, <4>1, <4>2, <4>3, <4>4
    <3>6. LoneDecision(q)'
      BY <1>3, <1>4, <2>2, <3>2, <3>5 DEF LoneDecision
    <3>7. QED
      BY <3>1, <3>2, <3>4, <3>6
  <2>3. QED
    BY <2>1, <2>2
<1>12. PICK q \in Request :
         /\ req' = [req EXCEPT ![r] = q]
         /\ RefundRequest(q)' /\ LoneDecision(q)'
         /\ q.pc \in {"idle", "refunded"}
         /\ Decides(q) => q.payment = p
         /\ status = "PROCESSED" => q.pc = "refunded" /\ q.payment = p
  BY <1>11
<1>13. req'[r] = q /\ \A s \in Requests \ {r} : req'[s] = req[s]
  BY <1>0, <1>12 DEF IInv, TypeOK
<1>14. RefundRequests'
  <2>1. ASSUME NEW s \in Requests, s # r
        PROVE  RefundRequest(req[s])' /\ LoneDecision(req[s])'
    <3>1. req'[s] = req[s]
      BY <1>13, <2>1
    <3>2. req[s].pc = "captured" /\ req[s].payment \notin crossed' => payments'[req[s].payment].status = "AUTHORIZED"
      BY <1>3, RequestFacts DEF RefundRequest
    <3>3. ASSUME Decides(req[s]), req[s].payment \notin met \union crossed
          PROVE  /\ refunds'[req[s].refund] = refunds[req[s].refund]
                 /\ Processed(RefundsOf(req[s].payment))' = Processed(RefundsOf(req[s].payment))
      <4>1. PICK k \in Payments : k = req[s].payment /\ k # p
        BY <1>0, <1>1, <2>1, <3>3, RequestFacts DEF MInv, Alone
      <4>2. req[s].refund \in Refunds /\ refunds[req[s].refund].payment = k
        BY <3>3, <4>1, RequestFacts DEF RefundRequest
      <4>3. Processed(RefundsOf(req[s].payment))' = Processed(RefundsOf(k))'
        BY <3>1, <4>1
      <4>4. QED
        BY <1>1, <1>4, <1>7, <4>1, <4>2, <4>3
    <3>4. QED
      BY <1>3, <1>5, <3>1, <3>2, <3>3, OtherRequests
  <2>2. QED
    BY <1>12, <1>13, <2>1 DEF RefundRequests
<1>15. Alone'
  BY <1>0, <1>1, <1>3, <1>12, AloneKeeps
<1>16. RefundsCaptured'
  BY <1>1, <1>3, <1>4 DEF MInv, RefundsCaptured
<1>17. ASSUME NEW g \in Refunds
       PROVE  /\ Working(g)' => Working(g)
              /\ g # f => (Working(g)' <=> Working(g))
  BY <1>0, <1>1, <1>12, <1>13 DEF Working
<1>18. req[r].pc = "processed" => Working(f)
  BY <1>1 DEF Working
<1>19. ASSUME NEW k \in Payments
       PROVE  Back(k)' \subseteq Back(k)
  <2> SUFFICES ASSUME NEW g \in Refunds, g \in Back(k)'
               PROVE  g \in Back(k)
    BY DEF Back, RefundsOf
  <2>1. refunds[g].payment = k /\ (refunds'[g].status = "PROCESSED" \/ Working(g)')
    BY <1>4 DEF Back, RefundsOf
  <2>2. refunds[g].status = "PROCESSED" \/ Working(g)
    BY <1>2, <1>4, <1>17, <1>18, <2>1
  <2>3. QED
    BY <2>1, <2>2 DEF Back, RefundsOf
<1>20. ASSUME NEW k \in Payments
       PROVE  SumRefunds(Back(k))' = Total(Amounts, Back(k)')
  <2>1. PICK B \in SUBSET Refunds : B = Back(k)'
    BY DEF Back, RefundsOf
  <2>2. SumRefunds(Back(k))' = Total(Amounts', B)
    BY <2>1 DEF SumRefunds, Total, Amounts
  <2>3. QED
    BY <1>10, <2>1, <2>2
<1>21. Covered'
  <2>1. ASSUME NEW k \in Payments \ crossed
        PROVE  SumRefunds(Back(k))' <= Refunded(k)'
    <3>1. PICK B \in SUBSET Refunds : B = Back(k)
      BY DEF Back, RefundsOf
    <3>2. PICK U \in SUBSET B : U = Back(k)'
      BY <1>19, <3>1
    <3>3. SumRefunds(U) <= SumRefunds(B) /\ SumRefunds(U) \in Nat /\ SumRefunds(B) \in Nat
      BY <1>0, SumsOf
    <3>4. SumRefunds(B) <= Refunded(k) /\ Refunded(k) \in Nat
      BY <1>0, <3>1, Numbers DEF MInv, Covered
    <3>5. SumRefunds(Back(k))' = SumRefunds(U)
      BY <1>20, <3>2, SumRefundsIs
    <3>6. SumRefunds(U) <= Refunded(k)
      BY <3>3, <3>4
    <3>7. QED
      BY <1>3, <3>5, <3>6
  <2>2. QED
    BY <1>3, <1>6, <2>1 DEF MInv, Covered
<1>22. ASSUME NEW k \in Payments, k \notin met \union crossed
       PROVE  Back(k) \subseteq Back(k)'
  <2> SUFFICES ASSUME NEW g \in Refunds, g \in Back(k)
               PROVE  g \in Back(k)'
    BY DEF Back, RefundsOf
  <2>1. refunds'[g].payment = k /\ (refunds[g].status = "PROCESSED" \/ Working(g))
    BY <1>4 DEF Back, RefundsOf
  <2>2. CASE g # f
    BY <1>4, <1>17, <2>1, <2>2 DEF Back, RefundsOf
  <2>3. CASE g = f /\ status = "PROCESSED"
    BY <1>4, <2>1, <2>3 DEF Back, RefundsOf
  <2>4. CASE g = f /\ status = "REJECTED"
    <3>1. k = p /\ req[r].pc = "reject"
      BY <1>2, <1>4, <2>1, <2>4
    <3>2. refunds[f].status = "REQUESTED"
      BY <1>0, <1>1, <1>22, <3>1 DEF LoneDecision
    <3>3. PICK s \in Requests : req[s].pc \in {"sum", "processed"} /\ req[s].refund = f
      BY <2>1, <2>4, <3>2 DEF Working
    <3>4. Decides(req[s]) /\ req[s].payment = p
      BY <1>1, <3>3, RequestFacts DEF Decides, DecidePcs, RefundRequest
    <3>5. s = r
      BY <1>0, <1>1, <1>22, <3>1, <3>4 DEF MInv, Alone
    <3>6. QED
      BY <3>1, <3>3, <3>5
  <2>5. QED
    BY <2>2, <2>3, <2>4
<1>23. Exact'
  <2> SUFFICES ASSUME NEW k \in Payments, k \notin met \union crossed \union torn
               PROVE  /\ Refunded(k) = SumRefunds(Back(k))'
                      /\ payments[k].status \in CapturedStatus =>
                           payments[k].status = StatusOf(k)' \/ SomeAt("refunded", k)'
    BY <1>3 DEF Exact
  <2>1. Refunded(k) = SumRefunds(Back(k))'
    <3>1. Back(k)' = Back(k)
      BY <1>19, <1>22
    <3>2. SumRefunds(Back(k))' = SumRefunds(Back(k))
      BY <1>20, <3>1, SumRefundsIs
    <3>3. QED
      BY <3>2 DEF MInv, Exact
  <2>2. CASE k = p /\ status = "PROCESSED"
    BY <1>12, <1>13, <2>1, <2>2 DEF SomeAt
  <2>3. CASE ~(k = p /\ status = "PROCESSED")
    <3>1. Processed(RefundsOf(k))' = Processed(RefundsOf(k))
      <4>1. CASE k # p
        BY <1>7, <4>1
      <4>2. CASE k = p /\ status = "REJECTED"
        <5>1. f \notin T
          BY <1>0, <1>1, <1>2, <1>8, <4>2 DEF LoneDecision, Processed
        <5>2. QED
          BY <1>8, <1>9, <4>2, <5>1
      <4>3. QED
        BY <2>3, <4>1, <4>2
    <3>2. Given(k)' = Given(k)
      <4>1. PICK U \in SUBSET Refunds : U = Processed(RefundsOf(k))
        BY DEF Processed, RefundsOf
      <4>2. Given(k)' = Total(Amounts', U) /\ Given(k) = Total(Amounts, U)
        BY <3>1, <4>1 DEF Given, SumRefunds, Total, Amounts
      <4>3. QED
        BY <1>10, <4>2
    <3>3. StatusOf(k)' = StatusOf(k)
      BY <1>6, <3>2 DEF StatusOf
    <3>4. SomeAt("refunded", k) => SomeAt("refunded", k)'
      BY <1>0, <1>13 DEF SomeAt
    <3>5. QED
      BY <2>1, <3>3, <3>4 DEF MInv, Exact
  <2>4. QED
    BY <2>2, <2>3
<1>24. QED
  BY <1>14, <1>15, <1>16, <1>21, <1>23 DEF MInv

-----------------------------------------------------------------------------
(* The statements that write the status of a payment *)

\* A step that writes the row of one payment, and moves no money, keeps the
\* invariant when what it writes is right.
LEMMA PaymentWritten ==
  ASSUME MInv, IInv', NEW r \in Requests, NEW q \in Request, req' = [req EXCEPT ![r] = q],
         NEW p \in Payments,
         \A k \in Payments \ {p} : payments'[k] = payments[k],
         UNCHANGED <<refunds, met, crossed, torn>>,
         \A g \in Payments : gateway'[g].refunded = gateway[g].refunded,
         payments'[p].status # "NONE",
         payments[p].status # "NONE" => payments'[p].booking = payments[p].booking,
         p \notin crossed =>
           /\ payments[p].status \in CapturedStatus => payments'[p].status \in CapturedStatus
           /\ Refunded(p)' = Refunded(p)
           /\ Refunded(p) <= AmountOf(p)'
           /\ payments'[p].status = "REFUNDED" => Refunded(p) = AmountOf(p)',
         p \notin met \union crossed \union torn /\ payments'[p].status \in CapturedStatus =>
           payments'[p].status = StatusOf(p)',
         RefundRequest(q)', LoneDecision(q)',
         q.pc \notin {"captured", "sum", "processed", "refunded"},
         Decides(q) => Decides(req[r]) /\ q.payment = req[r].payment,
         \A s \in Requests \ {r} : req[s].payment = p /\ p \notin crossed =>
           req[s].pc # "captured" /\ (p \in met \/ ~Decides(req[s])),
         req[r].pc \notin {"sum", "processed"},
         req[r].pc = "refunded" => req[r].payment = p
  PROVE  MInv'
<1>0. IInv
  BY DEF MInv
<1>1. req'[r] = q /\ \A s \in Requests \ {r} : req'[s] = req[s]
  BY <1>0 DEF IInv, TypeOK
<1>2. /\ \A k \in Payments \ {p} : AmountOf(k)' = AmountOf(k)
      /\ \A k \in Payments \ crossed : Refunded(k)' = Refunded(k)
  BY <1>0, RefundedStays DEF AmountOf
<1>3. MoneyGrows
  <2>1. ASSUME NEW k \in Payments
        PROVE  /\ payments[k].status # "NONE" =>
                    /\ payments'[k].status # "NONE"
                    /\ payments'[k].booking = payments[k].booking
               /\ k \notin crossed /\ payments[k].status \in CapturedStatus =>
                    payments'[k].status \in CapturedStatus
    BY <2>1
  <2>2. ASSUME NEW k \in Payments \ crossed
        PROVE  Refunded(k) <= Refunded(k)'
    BY <1>0, <1>2, Numbers
  <2>3. ASSUME NEW k \in Payments \ crossed, payments'[k].status # "NONE"
        PROVE  Refunded(k)' <= AmountOf(k)'
    BY <1>2, <2>3 DEF MInv, Covered
  <2>4. QED
    BY <2>1, <2>2, <2>3 DEF MoneyGrows
<1>4. ASSUME NEW k
      PROVE  Processed(RefundsOf(k))' = Processed(RefundsOf(k))
  BY DEF Processed, RefundsOf
<1>5. RefundRequests'
  <2>1. ASSUME NEW s \in Requests, s # r
        PROVE  RefundRequest(req[s])' /\ LoneDecision(req[s])'
    <3>1. req'[s] = req[s]
      BY <1>1, <2>1
    <3>2. ASSUME req[s].pc = "captured", req[s].payment \notin crossed
          PROVE  payments'[req[s].payment].status = "AUTHORIZED"
      <4>1. req[s].payment \in Payments
        BY <1>0, <3>2, Carried DEF CaptureRequest
      <4>2. req[s].payment # p
        BY <2>1, <3>2
      <4>3. QED
        BY <3>2, <4>1, <4>2, RequestFacts DEF RefundRequest
    <3>3. Decides(req[s]) /\ req[s].payment \notin met \union crossed =>
            payments'[req[s].payment] = payments[req[s].payment]
      BY <2>1, RequestFacts
    <3>4. Processed(RefundsOf(req[s].payment))' = Processed(RefundsOf(req[s].payment))
      BY <3>1 DEF Processed, RefundsOf
    <3>5. QED
      BY <1>3, <3>1, <3>2, <3>3, <3>4, OtherRequests
  <2>2. QED
    BY <1>1, <2>1 DEF RefundRequests
<1>6. Alone'
  BY AloneKeeps
<1>7. RefundsCaptured'
  <2>1. \A f \in Refunds : refunds[f].status # "NONE" => refunds[f].payment \in Payments
    BY <1>0, Rows DEF RefundRow
  <2>2. QED
    BY <1>3, <2>1 DEF MInv, RefundsCaptured, MoneyGrows
<1>8. ASSUME NEW f \in Refunds
      PROVE  Working(f)' <=> Working(f)
  BY <1>1 DEF Working
<1>9. ASSUME NEW k \in Payments
      PROVE  SumRefunds(Back(k))' = SumRefunds(Back(k))
  <2>1. Back(k)' = Back(k)
    BY <1>8 DEF Back, RefundsOf
  <2>2. QED
    BY <2>1 DEF SumRefunds
<1>10. Covered'
  <2>1. ASSUME NEW k \in Payments \ crossed, k # p
        PROVE  /\ payments'[k].status = "NONE" => Refunded(k)' = 0
               /\ payments'[k].status # "NONE" => Refunded(k)' <= AmountOf(k)'
               /\ payments'[k].status = "REFUNDED" => Refunded(k)' = AmountOf(k)'
    BY <1>2, <2>1 DEF MInv, Covered
  <2>2. ASSUME NEW k \in Payments \ crossed
        PROVE  SumRefunds(Back(k))' <= Refunded(k)'
    BY <1>2, <1>9 DEF MInv, Covered
  <2>3. QED
    BY <1>2, <2>1, <2>2 DEF Covered
<1>11. Exact'
  <2> SUFFICES ASSUME NEW k \in Payments, k \notin met \union crossed \union torn
               PROVE  /\ Refunded(k)' = SumRefunds(Back(k))'
                      /\ payments'[k].status \in CapturedStatus =>
                           payments'[k].status = StatusOf(k)' \/ SomeAt("refunded", k)'
    BY DEF Exact
  <2>1. Refunded(k)' = SumRefunds(Back(k))'
    BY <1>2, <1>9 DEF MInv, Exact
  <2>2. CASE k = p
    BY <2>1, <2>2
  <2>3. CASE k # p
    <3>1. Given(k)' = Given(k)
      BY <1>4 DEF Given, SumRefunds
    <3>2. StatusOf(k)' = StatusOf(k)
      BY <1>2, <2>3, <3>1 DEF StatusOf
    <3>3. SomeAt("refunded", k) => SomeAt("refunded", k)'
      BY <1>1, <2>3 DEF SomeAt
    <3>4. QED
      BY <2>1, <2>3, <3>2, <3>3 DEF MInv, Exact
  <2>4. QED
    BY <2>2, <2>3
<1>12. QED
  BY <1>5, <1>6, <1>7, <1>10, <1>11 DEF MInv

\* A new row is of a payment that nobody has worked on.
LEMMA InsertPaymentMInv ==
  ASSUME MInv, IInv', NEW r \in Requests, InsertPayment(r)
  PROVE  MInv'
<1>0. IInv /\ req[r].pc = "insert" /\ req[r] \in Request
  BY RequestFacts DEF MInv, At, InsertPayment
<1>1. PICK p \in Payments :
        /\ payments[p].status = "NONE"
        /\ payments' = [payments EXCEPT ![p] =
                          [status |-> "PENDING", booking |-> req[r].booking, paidBy |-> NULL]]
        /\ gateway' = [gateway EXCEPT ![p].state = "created"]
        /\ req' = [req EXCEPT ![r] = [req[r] EXCEPT !.pc = "ordered", !.payment = p]]
  BY <1>0, ZenonT(30) DEF InsertPayment, IInv, TypeOK
<1>2. UNCHANGED <<refunds, met, crossed, torn>>
  BY DEF InsertPayment, history
<1>3. PICK q \in Request : q = [req[r] EXCEPT !.pc = "ordered", !.payment = p]
  <2>1. [req[r] EXCEPT !.pc = "ordered", !.payment = p] \in Request
    BY <1>0 DEF Request, Pcs
  <2>2. QED
    BY <2>1
<1>4. q.pc = "ordered" /\ q.payment = p /\ q.op = req[r].op
  BY <1>0, <1>3 DEF Request
<1>5. ~Decides(q) /\ ~Decides(req[r])
  BY <1>0, <1>4 DEF Decides, DecidePcs
<1>6. RefundRequest(q)' /\ LoneDecision(q)'
  BY <1>0, <1>4, <1>5, RequestFacts DEF RefundRequest, LoneDecision, Decides
<1>7. /\ \A k \in Payments \ {p} : payments'[k] = payments[k]
      /\ \A k \in Payments : gateway'[k].refunded = gateway[k].refunded
      /\ payments'[p].status = "PENDING" /\ payments'[p].paidBy = NULL
      /\ req' = [req EXCEPT ![r] = q]
  BY <1>0, <1>1, <1>3 DEF IInv, TypeOK, GatewayPayment
<1>8. Refunded(p) <= AmountOf(p)' /\ Refunded(p)' = Refunded(p)
  <2>1. AmountOf(p)' \in Nat
    BY <1>7, PriceAssumption DEF AmountOf, IInv, TypeOK, PaymentRow, NoPayment
  <2>2. payments[p].paidBy = NULL
    BY <1>0, <1>1 DEF IInv, LedgerOK, MoneyMoved, CapturedStatus
  <2>3. Refunded(p) = 0 /\ Refunded(p)' = 0
    BY <1>7, <2>2 DEF Refunded, AtGateway, NoMoney
  <2>4. QED
    BY <2>1, <2>3
<1>9. ASSUME NEW s \in Requests, req[s].payment = p, p \notin crossed
      PROVE  req[s].pc # "captured" /\ ~Decides(req[s])
  BY <1>0, <1>1, <1>9, RequestFacts, Carried DEF RefundRequest, CapturedStatus
<1>10. payments'[p].status \notin CapturedStatus /\ payments[p].status \notin CapturedStatus
  BY <1>1, <1>7 DEF CapturedStatus
<1>11. /\ q.pc \notin {"captured", "sum", "processed", "refunded"}
       /\ req[r].pc \notin {"sum", "processed", "refunded"}
       /\ payments'[p].status \notin {"NONE", "REFUNDED"}
  BY <1>0, <1>4, <1>7
<1>12. /\ payments[p].status # "NONE" => payments'[p].booking = payments[p].booking
       /\ payments[p].status \in CapturedStatus => payments'[p].status \in CapturedStatus
       /\ p \notin met \union crossed \union torn /\ payments'[p].status \in CapturedStatus =>
            payments'[p].status = StatusOf(p)'
       /\ Decides(q) => Decides(req[r]) /\ q.payment = req[r].payment
       /\ \A s \in Requests \ {r} : req[s].payment = p /\ p \notin crossed =>
            req[s].pc # "captured" /\ (p \in met \/ ~Decides(req[s]))
  BY <1>1, <1>5, <1>9, <1>10
<1>13. QED
  BY <1>2, <1>6, <1>7, <1>8, <1>11, <1>12, PaymentWritten

\* The authorization that was not recorded before.
LEMMA AuthorizeMInv ==
  ASSUME MInv, IInv', NEW r \in Requests, Authorize(r)
  PROVE  MInv'
<1>0. IInv /\ req[r].pc = "authorize" /\ req[r] \in Request /\ VerifyRequest(req[r])
  BY RequestFacts, Carried DEF MInv, At, Authorize
<1>1. CASE EventIdTaken(PaidBy(r))
  BY <1>0, <1>1, FinishMInv DEF Authorize, history
<1>2. CASE ~EventIdTaken(PaidBy(r))
  <2>1. PICK p \in Payments :
          /\ p = req[r].payment /\ p = Pay(r)
          /\ payments[p] \in PaymentRow
          /\ payments[p].status # "NONE"
          /\ payments' = [payments EXCEPT ![p] =
                            [payments[p] EXCEPT !.status = "AUTHORIZED", !.paidBy = PaidBy(r)]]
    BY <1>0, <1>2, Rows DEF VerifyRequest, Pay, Authorize, MarkAuthorized, IInv, TypeOK
  <2>2. UNCHANGED <<refunds, met, crossed, torn, gateway>> /\ Goto(r, "paid")
    BY <1>2 DEF Authorize, history
  <2>3. PICK q \in Request :
          q = [req[r] EXCEPT !.pc = "paid"] /\ req' = [req EXCEPT ![r] = q]
    BY <1>0, <2>2, NextRecord DEF Pcs
  <2>4. q.pc = "paid" /\ q.op = req[r].op
    BY <1>0, <2>3 DEF Request
  <2>5. ~Decides(q) /\ ~Decides(req[r])
    BY <1>0, <2>4 DEF Decides, DecidePcs
  <2>6. RefundRequest(q)' /\ LoneDecision(q)'
    BY <1>0, <2>4, <2>5, RequestFacts DEF RefundRequest, LoneDecision, Decides
  <2>7. p \notin crossed => payments[p].status \notin MoneyMoved /\ payments[p].paidBy = NULL
    BY <1>0, <1>2, <2>1, FirstAuthorization DEF At
  <2>8. /\ \A k \in Payments \ {p} : payments'[k] = payments[k]
        /\ payments'[p].status = "AUTHORIZED"
        /\ payments'[p].booking = payments[p].booking
        /\ payments'[p].paidBy = PaidBy(r)
    BY <1>0, <2>1 DEF IInv, TypeOK, PaymentRow
  <2>9. p \notin crossed => Refunded(p)' = Refunded(p) /\ Refunded(p) <= AmountOf(p)'
    <3>1. PICK g \in Payments : g = PaidBy(r)
      BY <1>0 DEF VerifyRequest, PaidBy
    <3>2. \A k \in Payments : ~Confirms(k, g)
      BY <1>2, <3>1 DEF EventIdTaken, Confirms
    <3>3. gateway[g].captured = 0 /\ gateway[g].refunded = 0
      BY <1>0, <3>2, GatewayNumbers DEF IInv, GatewayOK, Taken
    <3>4. Refunded(p)' = 0
      BY <2>2, <2>8, <3>1, <3>3, NullAssumption DEF Refunded, AtGateway
    <3>5. p \notin crossed => Refunded(p) = 0
      BY <2>7 DEF Refunded, AtGateway, NoMoney
    <3>6. AmountOf(p)' \in Nat
      BY <2>1, <2>8, PriceAssumption DEF AmountOf, PaymentRow
    <3>7. QED
      BY <3>4, <3>5, <3>6
  <2>10. ASSUME NEW s \in Requests, req[s].payment = p, p \notin crossed
         PROVE  req[s].pc # "captured" /\ ~Decides(req[s])
    BY <2>7, <2>10, RequestFacts DEF RefundRequest, MoneyMoved
  <2>11. /\ payments'[p].status \notin CapturedStatus
         /\ p \notin crossed => payments[p].status \notin CapturedStatus
    BY <2>7, <2>8 DEF MoneyMoved, CapturedStatus
  <2>12. /\ q.pc \notin {"captured", "sum", "processed", "refunded"}
         /\ req[r].pc \notin {"sum", "processed", "refunded"}
         /\ payments'[p].status \notin {"NONE", "REFUNDED"}
         /\ UNCHANGED <<refunds, met, crossed, torn>>
         /\ \A k \in Payments : gateway'[k].refunded = gateway[k].refunded
    BY <1>0, <2>2, <2>4, <2>8
  <2>13. /\ p \notin met \union crossed \union torn /\ payments'[p].status \in CapturedStatus =>
              payments'[p].status = StatusOf(p)'
         /\ p \notin crossed /\ payments[p].status \in CapturedStatus => payments'[p].status \in CapturedStatus
         /\ Decides(q) => Decides(req[r]) /\ q.payment = req[r].payment
         /\ \A s \in Requests \ {r} : req[s].payment = p /\ p \notin crossed =>
              req[s].pc # "captured" /\ (p \in met \/ ~Decides(req[s]))
    BY <2>5, <2>10, <2>11
  <2>14. QED
    BY <2>3, <2>6, <2>8, <2>9, <2>12, <2>13, PaymentWritten
<1>3. QED
  BY <1>1, <1>2

\* No refund of a payment was paid back before the row says it was captured.
LEMMA MarkCapturedMInv ==
  ASSUME MInv, IInv', NEW r \in Requests, MarkCaptured(r)
  PROVE  MInv'
<1>0. IInv /\ req[r].pc = "captured" /\ req[r] \in Request /\ CaptureRequest(req[r])
  BY RequestFacts, Carried DEF MInv, At, MarkCaptured
<1>1. PICK p \in Payments :
        /\ p = req[r].payment
        /\ payments[p].status \in MoneyMoved
        /\ p \notin crossed => payments[p].status = "AUTHORIZED"
        /\ payments[p] \in PaymentRow
        /\ payments' = [payments EXCEPT ![p].status = "CAPTURED"]
  BY <1>0, Rows, RequestFacts DEF CaptureRequest, RefundRequest, Pay, MarkCaptured, MoneyMoved, CapturedStatus
<1>2. UNCHANGED <<refunds, met, crossed, torn, gateway>> /\ Goto(r, "captureRow")
  BY DEF MarkCaptured, history
<1>3. PICK q \in Request :
        q = [req[r] EXCEPT !.pc = "captureRow"] /\ req' = [req EXCEPT ![r] = q]
  BY <1>0, <1>2, NextRecord DEF Pcs
<1>4. q.pc = "captureRow" /\ q.op = req[r].op
  BY <1>0, <1>3 DEF Request
<1>5. ~Decides(q) /\ ~Decides(req[r])
  BY <1>0, <1>4 DEF Decides, DecidePcs
<1>6. RefundRequest(q)' /\ LoneDecision(q)'
  BY <1>0, <1>4, <1>5, RequestFacts DEF RefundRequest, LoneDecision, Decides
<1>7. /\ \A k \in Payments \ {p} : payments'[k] = payments[k]
      /\ payments'[p].status = "CAPTURED"
      /\ payments'[p].booking = payments[p].booking
      /\ payments'[p].paidBy = payments[p].paidBy
  BY <1>0, <1>1 DEF IInv, TypeOK, PaymentRow
<1>8. p \notin crossed => Refunded(p)' = Refunded(p) /\ Refunded(p) <= AmountOf(p)'
  <2>1. p \notin crossed => Refunded(p) <= AmountOf(p)'
    BY <1>1, <1>7 DEF AmountOf, MInv, Covered
  <2>2. Refunded(p)' = Refunded(p)
    BY <1>0, <1>2, <1>7, RefundedStays
  <2>3. QED
    BY <2>1, <2>2
<1>9. ASSUME NEW s \in Requests \ {r}, req[s].payment = p, p \notin crossed
      PROVE  req[s].pc # "captured" /\ ~Decides(req[s])
  <2>1. ~Decides(req[s])
    BY <1>1, <1>9, RequestFacts DEF RefundRequest, CapturedStatus
  <2>2. req[s].pc # "captured"
    BY <1>0, <1>1, <1>9 DEF MInv, Alone
  <2>3. QED
    BY <2>1, <2>2
<1>10. ASSUME p \notin crossed
       PROVE  StatusOf(p)' = "CAPTURED"
  <2>1. RefundsOf(p)' \subseteq Refunds /\ Processed(RefundsOf(p))' = {}
    BY <1>1, <1>2, <1>10 DEF MInv, RefundsCaptured, CapturedStatus, RefundsOf, Processed
  <2>2. Given(p)' = Total(Amounts', {})
    BY <2>1 DEF Given, SumRefunds, Total, Amounts
  <2>3. Given(p)' = 0
    BY <2>2, TotalEmpty
  <2>4. AmountOf(p)' # 0
    BY <1>0, <1>1, <1>7, <1>10, Numbers DEF AmountOf
  <2>5. QED
    BY <2>3, <2>4 DEF StatusOf
<1>11. (p \notin crossed => payments[p].status \notin CapturedStatus) /\ payments'[p].status = "CAPTURED"
  BY <1>1, <1>7 DEF CapturedStatus
<1>12. /\ q.pc \notin {"captured", "sum", "processed", "refunded"}
       /\ req[r].pc \notin {"sum", "processed", "refunded"}
       /\ payments'[p].status \notin {"NONE", "REFUNDED"}
       /\ UNCHANGED <<refunds, met, crossed, torn>>
       /\ \A k \in Payments : gateway'[k].refunded = gateway[k].refunded
  BY <1>0, <1>2, <1>4, <1>7
<1>13. /\ p \notin met \union crossed \union torn /\ payments'[p].status \in CapturedStatus =>
            payments'[p].status = StatusOf(p)'
       /\ p \notin crossed /\ payments[p].status \in CapturedStatus => payments'[p].status \in CapturedStatus
       /\ Decides(q) => Decides(req[r]) /\ q.payment = req[r].payment
       /\ \A s \in Requests \ {r} : req[s].payment = p /\ p \notin crossed =>
            req[s].pc # "captured" /\ (p \in met \/ ~Decides(req[s]))
  BY <1>5, <1>9, <1>10, <1>11
<1>14. QED
  BY <1>3, <1>6, <1>7, <1>8, <1>12, <1>13, PaymentWritten

\* The status is of what was paid back before, and the refund in hand says so too.
LEMMA MarkRefundedMInv ==
  ASSUME MInv, IInv', NEW r \in Requests, MarkRefunded(r)
  PROVE  MInv'
<1>0. IInv /\ req[r].pc = "refunded" /\ req[r] \in Request /\ Decides(req[r])
  BY RequestFacts DEF MInv, At, MarkRefunded, Decides, DecidePcs
<1>1. PICK p \in Payments, f \in Refunds :
        /\ p = req[r].payment
        /\ f = req[r].refund
        /\ refunds[f] \in RefundRow
        /\ refunds[f].payment = p
        /\ p \notin crossed => payments[p].status \in CapturedStatus
        /\ payments[p].status # "NONE"
        /\ payments[p] \in PaymentRow
        /\ RefundRequest(req[r])
        /\ LoneDecision(req[r])
  BY <1>0, RequestFacts DEF RefundRequest, PaymentRow, PaymentStatus
<1>2. PICK status \in {"REFUNDED", "PARTIALLY_REFUNDED"} :
        /\ payments' = [payments EXCEPT ![p].status = status]
        /\ status = "REFUNDED" <=> req[r].full
  BY <1>1 DEF MarkRefunded, Pay
<1>3. UNCHANGED <<refunds, met, crossed, torn, gateway>> /\ Goto(r, "refundRow")
  BY DEF MarkRefunded, history
<1>4. PICK q \in Request :
        q = [req[r] EXCEPT !.pc = "refundRow"] /\ req' = [req EXCEPT ![r] = q]
  BY <1>0, <1>3, NextRecord DEF Pcs
<1>5. /\ q.pc = "refundRow" /\ q.op = req[r].op /\ q.payment = p /\ q.refund = f
      /\ q.amount = req[r].amount
  BY <1>0, <1>1, <1>4 DEF Request
<1>6. Decides(q)
  BY <1>5 DEF Decides, DecidePcs
<1>7. /\ \A k \in Payments \ {p} : payments'[k] = payments[k]
      /\ payments'[p].status = status
      /\ payments'[p].booking = payments[p].booking
      /\ payments'[p].paidBy = payments[p].paidBy
      /\ status \in CapturedStatus
  BY <1>0, <1>1, <1>2 DEF IInv, TypeOK, PaymentRow, CapturedStatus
<1>8. AmountOf(p)' = AmountOf(p) /\ Refunded(p)' = Refunded(p)
  BY <1>0, <1>3, <1>7, RefundedStays DEF AmountOf
<1>9. RefundRequest(q)' /\ LoneDecision(q)'
  <2>1. refunds'[f].payment = p /\ refunds'[f].amount = q.amount
    BY <1>0, <1>1, <1>3, <1>5 DEF RefundRequest
  <2>2. RefundRequest(q)'
    BY <1>0, <1>1, <1>3, <1>5, <1>6, <1>7, <2>1 DEF RefundRequest, Decides
  <2>3. LoneDecision(q)'
    BY <1>5 DEF LoneDecision
  <2>4. QED
    BY <2>2, <2>3
<1>10. p \notin crossed => Refunded(p) <= AmountOf(p)
  BY <1>1 DEF MInv, Covered, CapturedStatus
<1>11. status = "REFUNDED" /\ p \notin crossed => Refunded(p) = AmountOf(p)
  BY <1>0, <1>1, <1>2 DEF RefundRequest
<1>12. ASSUME NEW s \in Requests \ {r}, req[s].payment = p, p \notin crossed
       PROVE  req[s].pc # "captured" /\ (p \in met \/ ~Decides(req[s]))
  BY <1>0, <1>1, <1>12, RequestFacts DEF RefundRequest, MInv, Alone, CapturedStatus
<1>13. ASSUME p \notin met \union crossed
       PROVE  status = StatusOf(p)'
  <2>1. PICK T \in SUBSET Refunds : T = Processed(RefundsOf(p))
    BY DEF Processed, RefundsOf
  <2>2. PICK B \in SUBSET Refunds : B = Back(p)
    BY DEF Back, RefundsOf
  <2>3. T \subseteq B
    BY <2>1, <2>2 DEF Processed, Back
  <2>4. f \in T /\ (req[r].full <=> Given(p) >= AmountOf(p))
    BY <1>0, <1>1, <1>13, <2>1 DEF LoneDecision, Processed, RefundsOf
  <2>5. Given(p) = SumRefunds(T) /\ Given(p)' = SumRefunds(T)
    BY <1>3, <2>1 DEF Given, SumRefunds, Processed, RefundsOf
  <2>6. /\ refunds[f].amount <= SumRefunds(T)
        /\ SumRefunds(T) <= SumRefunds(B)
        /\ SumRefunds(T) \in Nat /\ SumRefunds(B) \in Nat
    BY <1>0, <2>3, <2>4, SumsOf
  <2>7. SumRefunds(B) <= Refunded(p)
    BY <1>13, <2>2 DEF MInv, Covered
  <2>8. /\ Refunded(p) \in Nat
        /\ AmountOf(p) \in Nat \ {0}
        /\ refunds[f].amount \in Nat \ {0}
    BY <1>0, <1>1, Numbers DEF RefundRow, CapturedStatus
  <2>9. SumRefunds(T) # 0 /\ SumRefunds(T) <= AmountOf(p)
    BY <1>10, <1>13, <2>6, <2>7, <2>8
  <2>10. req[r].full <=> SumRefunds(T) = AmountOf(p)
    BY <2>4, <2>5, <2>6, <2>8, <2>9
  <2>11. QED
    BY <1>2, <1>8, <2>5, <2>9, <2>10 DEF StatusOf
<1>14. QED
  BY <1>0, <1>1, <1>3, <1>4, <1>5, <1>6, <1>7, <1>8, <1>9, <1>10, <1>11, <1>12, <1>13,
     PaymentWritten DEF CapturedStatus

-----------------------------------------------------------------------------
(* The theorems about money *)

\* Steps that move neither money, nor rows, nor requests.
LEMMA NothingMoves ==
  ASSUME MInv, IInv', UNCHANGED <<payments, refunds, req, met, crossed, torn>>,
         \A g \in Payments : gateway'[g].refunded = gateway[g].refunded
  PROVE  MInv'
<1>0. \A p \in Payments : Refunded(p)' = Refunded(p)
  BY RefundedStays DEF MInv
<1>1. RefundRequests'
  <2>1. MoneyGrows
    <3>1. \A p \in Payments \ crossed' : Refunded(p) <= Refunded(p)'
      BY <1>0, Numbers DEF MInv
    <3>2. \A p \in Payments \ crossed' :
            payments[p].status # "NONE" => Refunded(p)' <= AmountOf(p)'
      BY <1>0 DEF MInv, Covered, AmountOf
    <3>3. QED
      BY <3>1, <3>2 DEF MoneyGrows
  <2>2. ASSUME NEW r \in Requests
        PROVE  RefundRequest(req[r])' /\ LoneDecision(req[r])'
    <3>1. req[r].pc = "captured" /\ req[r].payment \notin crossed' => payments'[req[r].payment].status = "AUTHORIZED"
      BY RequestFacts DEF RefundRequest
    <3>2. Processed(RefundsOf(req[r].payment))' = Processed(RefundsOf(req[r].payment))
      BY DEF Processed, RefundsOf
    <3>3. req'[r] = req[r]
      OBVIOUS
    <3>4. QED
      BY <2>1, <3>1, <3>2, <3>3, OtherRequests
  <2>3. QED
    BY <2>2 DEF RefundRequests
<1>2. Alone'
  BY DEF MInv, Alone, Decides
<1>3. RefundsCaptured'
  BY DEF MInv, RefundsCaptured
<1>4. ASSUME NEW p \in Payments
      PROVE  SumRefunds(Back(p))' = SumRefunds(Back(p))
  BY DEF Back, RefundsOf, Working, SumRefunds
<1>5. Covered'
  BY <1>0, <1>4 DEF MInv, Covered, AmountOf
<1>6. Exact'
  BY <1>0, <1>4 DEF MInv, Exact, StatusOf, Given, SumRefunds, Processed, RefundsOf, AmountOf, SomeAt
<1>7. QED
  BY <1>1, <1>2, <1>3, <1>5, <1>6 DEF MInv

\* Every step keeps the invariant.
LEMMA NextMInv == MInv /\ [Next]_vars => MInv'
<1> SUFFICES ASSUME MInv, [Next]_vars PROVE MInv'
  OBVIOUS
<1>0. IInv /\ IInv'
  BY NextIInv DEF MInv
<1>1. ASSUME NEW b \in Bookings,
             WriteBooking(b) \/ \E next \in Written : DecideBooking(b, next)
      PROVE  MInv'
  BY <1>0, <1>1, NothingMoves DEF WriteBooking, DecideBooking, tables, history
<1>2. ASSUME NEW p \in Payments, Checkout(p)
      PROVE  MInv'
  <2>1. \A k \in Payments : gateway'[k].refunded = gateway[k].refunded
    BY <1>0, <1>2 DEF Checkout, IInv, TypeOK, GatewayPayment
  <2>2. QED
    BY <1>0, <1>2, <2>1, NothingMoves DEF Checkout, tables, history
<1>3. ASSUME NEW r \in Requests, Arrive(r)
      PROVE  MInv'
  BY <1>0, <1>3, ArriveMInv
<1>4. ASSUME NEW r \in Requests, Statement(r) \/ Abandon(r)
      PROVE  MInv'
  BY <1>0, <1>4, InsertPaymentMInv, AuthorizeMInv, MarkCapturedMInv, MarkRefundedMInv,
     CreateRefundMInv, GatewayCaptureMInv, GatewayRefundMInv, SumUpMInv,
     UpdateRefundStatusMInv, RecordRefundMInv, EndsMInv DEF Statement
<1>5. CASE UNCHANGED vars
  BY <1>0, <1>5, NothingMoves DEF vars, tables, history
<1>6. QED
  BY <1>1, <1>2, <1>3, <1>4, <1>5 DEF Next

\* Before anything happened no money moved.
LEMMA InitMInv == Init => MInv
<1> SUFFICES ASSUME Init PROVE MInv
  OBVIOUS
<1>0. IInv
  BY InitIInv
<1>1. /\ \A r \in Requests : req[r] = Idle
      /\ \A p \in Payments : payments[p].status = "NONE" /\ Refunded(p) = 0
      /\ \A f \in Refunds : refunds[f].status = "NONE"
  BY DEF Init, NoPayment, NoRefund, Refunded, AtGateway, NoMoney
<1>2. Idle.pc = "idle" /\ Idle.op = "retry"
  BY DEF Idle
<1>3. RefundRequests /\ Alone
  BY <1>1, <1>2 DEF RefundRequests, RefundRequest, LoneDecision, Alone, Decides, DecidePcs
<1>4. RefundsCaptured
  BY <1>1 DEF RefundsCaptured
<1>5. ASSUME NEW p \in Payments
      PROVE  SumRefunds(Back(p)) = 0
  <2>1. Back(p) = {}
    BY <1>1, <1>2 DEF Back, RefundsOf, Working
  <2>2. QED
    BY <2>1, SumRefundsIs, TotalEmpty
<1>6. Covered /\ Exact
  BY <1>1, <1>5 DEF Covered, Exact, CapturedStatus
<1>7. QED
  BY <1>0, <1>3, <1>4, <1>6 DEF MInv

\* The invariant about money holds in every state.
THEOREM MoneyInvariant == Spec => []MInv
  BY InitMInv, NextMInv, PTL DEF Spec

\* Whatever is abandoned, lost or decided twice, the refunds that say they were
\* processed were paid back by the gateway, and the whole sum when the payment says
\* so (approveRefund).
THEOREM RefundsAreCovered == Spec => []RefundsCovered
<1>1. ASSUME MInv, NEW p \in Payments \ crossed
      PROVE  /\ SumRefunds(Processed(RefundsOf(p))) <= Refunded(p)
             /\ payments[p].status = "REFUNDED" => Refunded(p) = AmountOf(p)
  <2>0. IInv
    BY <1>1 DEF MInv
  <2>1. PICK B \in SUBSET Refunds : B = Back(p)
    BY DEF Back, RefundsOf
  <2>2. PICK T \in SUBSET B : T = Processed(RefundsOf(p))
    BY <2>1 DEF Processed, Back
  <2>3. SumRefunds(T) <= SumRefunds(B) /\ SumRefunds(T) \in Nat /\ SumRefunds(B) \in Nat
    BY <2>0, SumsOf
  <2>4. SumRefunds(B) <= Refunded(p) /\ Refunded(p) \in Nat
    BY <1>1, <2>0, <2>1, Numbers DEF MInv, Covered
  <2>5. SumRefunds(T) <= Refunded(p)
    BY <2>3, <2>4
  <2>6. QED
    BY <1>1, <2>2, <2>5 DEF MInv, Covered
<1>2. MInv => RefundsCovered
  BY <1>1 DEF RefundsCovered, Refunded
<1>3. QED
  BY <1>2, MoneyInvariant, PTL

\* Where no two decisions met, nor two confirmations with different payments of the
\* gateway, and nothing is in flight, abandoned or lost, what the gateway paid back
\* is what the refunds say, and the payment's status tells how much of it that is.
THEOREM RefundsAreReflected == Spec => []RefundsReflected
<1>1. ASSUME MInv, NEW p \in Payments \ (met \union crossed), Quiet(p), Captured(p)
      PROVE  Refunded(p) = Given(p) /\ payments[p].status = StatusOf(p)
  <2>1. payments[p].status \in CapturedStatus
    BY <1>1 DEF MInv, IInv, CapturesKnown, Quiet, SomeAt, InFlightOn, InFlight
  <2>2. ~SomeAt("refunded", p) /\ p \notin met \union crossed \union torn
    BY <1>1 DEF Quiet, SomeAt, InFlightOn, InFlight
  <2>3. ASSUME NEW f \in RefundsOf(p)
        PROVE  ~Working(f)
    <3> SUFFICES ASSUME NEW r \in Requests, req[r].pc \in {"sum", "processed"},
                        req[r].refund = f
                 PROVE  FALSE
      BY DEF Working
    <3>1. req[r].payment = p
      BY <1>1, RequestFacts DEF RefundRequest, Decides, DecidePcs, RefundsOf
    <3>2. QED
      BY <1>1, <3>1 DEF Quiet, InFlightOn, InFlight
  <2>4. Back(p) = Processed(RefundsOf(p))
    BY <2>3 DEF Back, Processed
  <2>5. QED
    BY <1>1, <2>1, <2>2, <2>4 DEF MInv, Exact, Given
<1>2. MInv => RefundsReflected
  BY <1>1 DEF RefundsReflected, StatusOf, Given, Refunded, Captured
<1>3. QED
  BY <1>2, MoneyInvariant, PTL

\* The statements that write a status write one that follows, where no decisions met
\* and no confirmations crossed.
LEMMA StatementsFollow ==
  ASSUME MInv, NEW r \in Requests, Statement(r)
  PROVE  \A p \in Payments : Follows(p)
<1>0. IInv
  BY DEF MInv
<1>1. CASE payments' = payments
  BY <1>1 DEF Follows
<1>2. CASE InsertPayment(r)
  BY <1>0, <1>2 DEF InsertPayment, Follows, IInv, TypeOK
<1>3. CASE Authorize(r) /\ payments' # payments
  <2>1. PICK p \in Payments :
          /\ p = Pay(r)
          /\ payments[p].status # "NONE"
          /\ payments' = [payments EXCEPT ![p] =
                            [payments[p] EXCEPT !.status = "AUTHORIZED", !.paidBy = PaidBy(r)]]
    BY <1>0, <1>3, Carried DEF Authorize, At, VerifyRequest, Pay, MarkAuthorized, IInv, TypeOK
  <2>2. payments[p] \in PaymentRow
    BY <1>0, <2>1, Rows
  <2>3. p \notin crossed => payments[p].status = "PENDING"
    BY <1>0, <1>3, <2>1, <2>2, FirstAuthorization
       DEF Authorize, PaymentRow, PaymentStatus, MoneyMoved, CapturedStatus
  <2>4. payments'[p].status = "AUTHORIZED" /\ \A k \in Payments \ {p} : payments'[k] = payments[k]
    BY <1>0, <2>1, <2>2 DEF IInv, TypeOK, PaymentRow
  <2>5. Follows(p)
    BY <2>3, <2>4 DEF Follows, PaymentTransitions
  <2>6. QED
    BY <2>4, <2>5 DEF Follows
<1>4. CASE MarkCaptured(r)
  <2>1. PICK p \in Payments :
          /\ p = Pay(r)
          /\ payments[p].status \in MoneyMoved
          /\ p \notin crossed => payments[p].status = "AUTHORIZED"
          /\ payments' = [payments EXCEPT ![p].status = "CAPTURED"]
    BY <1>0, <1>4, Carried, RequestFacts
       DEF MarkCaptured, At, CaptureRequest, RefundRequest, Pay
  <2>2. payments[p] \in PaymentRow
    BY <1>0, <2>1, Rows DEF MoneyMoved, CapturedStatus
  <2>3. payments'[p].status = "CAPTURED" /\ \A k \in Payments \ {p} : payments'[k] = payments[k]
    BY <1>0, <2>1, <2>2 DEF IInv, TypeOK, PaymentRow
  <2>4. Follows(p)
    BY <2>1, <2>3 DEF Follows, PaymentTransitions
  <2>5. QED
    BY <2>3, <2>4 DEF Follows
<1>5. CASE MarkRefunded(r)
  <2>1. Decides(req[r]) /\ req[r].pc = "refunded"
    BY <1>5 DEF MarkRefunded, At, Decides, DecidePcs
  <2>2. PICK p \in Payments, status \in {"REFUNDED", "PARTIALLY_REFUNDED"} :
          /\ p = req[r].payment
          /\ payments[p] \in PaymentRow
          /\ p \notin crossed => payments[p].status \in CapturedStatus
          /\ p \notin met \union crossed => payments[p].status # "REFUNDED"
          /\ payments' = [payments EXCEPT ![p].status = status]
    BY <1>5, <2>1, RequestFacts DEF MarkRefunded, Pay, RefundRequest, LoneDecision
  <2>3. /\ payments'[p] = [payments[p] EXCEPT !.status = status]
        /\ \A k \in Payments \ {p} : payments'[k] = payments[k]
    BY <1>0, <2>2 DEF IInv, TypeOK
  <2>4. payments'[p].status = status /\ (status = payments[p].status => payments'[p] = payments[p])
    BY <2>2, <2>3 DEF PaymentRow
  <2>5. Follows(p)
    BY <2>2, <2>4 DEF Follows, PaymentTransitions, CapturedStatus
  <2>6. QED
    BY <2>3, <2>5 DEF Follows
<1>6. QED
  BY <1>1, <1>2, <1>3, <1>4, <1>5
  DEF Statement, RecordOrder, MarkBookingPaid, GatewayCapture, RecordCaptureFailure,
      RecordCapture, CreateRefund, GatewayRefund, SumUp, UpdateRefundStatus, RecordRefund,
      MarkBookingRefunded, tables

\* Nothing else writes a payment.
LEMMA NextFollows == MInv /\ [Next]_vars => [\A p \in Payments : Follows(p)]_payments
<1> SUFFICES ASSUME MInv, [Next]_vars, payments' # payments
             PROVE  \A p \in Payments : Follows(p)
  OBVIOUS
<1>1. PICK r \in Requests : Statement(r)
  BY DEF Next, vars, WriteBooking, DecideBooking, Checkout, Arrive, RetryPayment,
     VerifyPayment, CapturePayment, InitiateRefund, ApproveRefund, RejectRefund, Decision,
     Begin, Abandon, tables
<1>2. QED
  BY <1>1, StatementsFollow

\* No use case asks isAllowedPaymentTransition, yet every change of a payment's
\* status is one of its transitions, unless two decisions on its refunds met, or two
\* confirmations with different payments of the gateway.
THEOREM PaymentsFollowRules == Spec => PaymentFollowsRules
  BY MoneyInvariant, NextFollows, PTL DEF Spec, PaymentFollowsRules
=============================================================================
