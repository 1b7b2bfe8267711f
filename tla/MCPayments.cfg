CONSTANTS
  NULL = NULL
  Bookings = {b1}
  Payments = {p1, p2}
  Refunds = {f1, f2}
  Requests = {r1, r2}
  Price <- MCPrice
  Written = {"ACCEPTED", "CANCELLED_BY_PARENT"}
  MaxFaults = 1
SPECIFICATION Spec
SYMMETRY Symmetry
INVARIANTS
  TypeOK
  CapturedAtGateway
  PaysForOne
  RefundsCovered
  RefundsReflected
  PaidBookingSaysSo
PROPERTY PaymentFollowsRules
CHECK_DEADLOCK FALSE
