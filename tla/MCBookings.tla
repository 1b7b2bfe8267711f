----------------------------- MODULE MCBookings -----------------------------
(***************************************************************************)
(* Instances of Bookings for TLC: one tutor, slot s1 overlapping s2, slot  *)
(* s3 later, so that overlap, contention for a slot and rescheduling all   *)
(* occur.                                                                  *)
(***************************************************************************)
EXTENDS Bookings, TLC

CONSTANTS t1, s1, s2, s3

MCTutorOf == [s \in Slots |-> t1]
MCStartAt == [s \in Slots |-> IF s = s3 THEN 2 ELSE 1]
MCEndAt == [s \in Slots |-> IF s = s3 THEN 3 ELSE 2]

\* s1 and s2 have the same tutor and times, so they may be exchanged too.
Symmetry == Permutations(Parents) \union Permutations(Bookings)
              \union Permutations(Requests) \union Permutations({s1, s2})
=============================================================================
