CONSTANTS
  NULL = NULL
  Bookings = {b1}
  Payments = {p1, p2}
  Refunds = {f1}
  Requests = {r1}
  Price <- MCPrice
  Written = {"ACCEPTED", "CANCELLED_BY_PARENT"}
  MaxFaults = 1
SPECIFICATION Spec
INVARIANT OneAuthorization
CHECK_DEADLOCK FALSE
