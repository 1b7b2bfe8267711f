---------------------------- MODULE RequestSteps ----------------------------
(***************************************************************************)
(* The requests a server has in flight, each at one statement of its use   *)
(* case: what it read, and what it does next, is a record with a pc.       *)
(***************************************************************************)
CONSTANTS Requests, Idle
VARIABLE requests

At(r, pc) == requests[r].pc = pc
Busy == \E q \in Requests : ~At(q, "idle")

Begin(r, fields) == At(r, "idle") /\ requests' = [requests EXCEPT ![r] = fields]
Continue(r, pc) == requests' = [requests EXCEPT ![r].pc = pc]
Finish(r) == requests' = [requests EXCEPT ![r] = Idle]
=============================================================================
