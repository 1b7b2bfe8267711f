----------------------------- MODULE MCPayments -----------------------------
(***************************************************************************)
(* Instances of Payments for TLC: a booking costs 2, so that a refund may  *)
(* be partial.                                                             *)
(***************************************************************************)
EXTENDS Payments, TLC

MCPrice == [b \in Bookings |-> 2]

Symmetry == Permutations(Payments) \union Permutations(Refunds)
              \union Permutations(Requests)
=============================================================================
