CONSTANTS
  t1 = t1
  s1 = s1
  s2 = s2
  s3 = s3
  NULL = NULL
  Parents = {p1, p2}
  Tutors = {t1}
  Slots = {s1}
  Bookings = {b1}
  Requests = {r1}
  TutorOf <- MCTutorOf
  StartAt <- MCStartAt
  EndAt <- MCEndAt
  MaxTime = 2
  MaxArrivals = 4
SPECIFICATION FairSpec
PROPERTY ReservationsEnd
CHECK_DEADLOCK FALSE
