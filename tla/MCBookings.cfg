CONSTANTS
  t1 = t1
  s1 = s1
  s2 = s2
  s3 = s3
  NULL = NULL
  Parents = {p1, p2}
  Tutors = {t1}
  Slots = {s1, s2, s3}
  Bookings = {b1, b2, b3}
  Requests = {r1, r2}
  TutorOf <- MCTutorOf
  StartAt <- MCStartAt
  EndAt <- MCEndAt
  MaxTime = 2
  MaxArrivals = 4
SPECIFICATION Spec
SYMMETRY Symmetry
INVARIANTS
  TypeOK
  SlotAgreesWithBooking
  HistoryIsChain
  TrailIsComplete
  RescheduleMoves
  NoOverlapUnlessMet
PROPERTY RefinesLifecycle
CHECK_DEADLOCK FALSE
