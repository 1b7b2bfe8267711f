CONSTANTS
  Parts = {"verification"}
  NULL = NULL
  Requests = {r1, r2}
  MaxFaults = 1
  Contacts = {c1}
  Challenges = {h1}
  SessionIds = {i1, i2, i3}
  Ids = {i1, i2, i3}
  MaxOtpAttempts = 2
  MaxSignOuts = 1
  Types = {identity, degree, address}
  Required = {identity, degree}
  Days = {monday}
  Modes = {online}
  Times = {0, 1, 2, 3}
  Events = {e1, e2, e3}
  Named = {e1, e2}
  OfPayment = {e2}
  MaxDeliveries = 2
  Fields = {headline, city}
  Names = {ann, bob}
  Hooks = {"search", "admin"}
  Queries = {rating, price}
  First = rating
  MaxRows = 5
  Limit = 2
SPECIFICATION PartsSpec
SYMMETRY Symmetry
INVARIANT SubmittedIsPending
CHECK_DEADLOCK FALSE
