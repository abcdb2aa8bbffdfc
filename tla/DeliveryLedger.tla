--------------------------- MODULE DeliveryLedger ---------------------------
(***************************************************************************)
(* What the webhook outbox promises, seen from a delivery's row and        *)
(* nothing else: a delivery is queued once, settles, may be put back in    *)
(* the queue only after it failed, and disappears with its endpoint.       *)
(***************************************************************************)
CONSTANT Deliveries

VARIABLE state

States == {"none", "pending", "succeeded", "failed", "gone"}

Init == state = [d \in Deliveries |-> "none"]

(* Deliveries of one batch move together; `to' is reachable from `from'.   *)
Move(D, from, to) ==
    /\ \A d \in D : state[d] \in from
    /\ state' = [d \in Deliveries |-> IF d \in D THEN to ELSE state[d]]

Queue(D) == Move(D, {"none"}, "pending")
Settle(d) == \E result \in {"succeeded", "failed"} : Move({d}, {"pending"}, result)
Requeue(d) == Move({d}, {"failed"}, "pending")
Withdraw(D) == Move(D, States, "gone")

Next ==
    \/ \E D \in SUBSET Deliveries : Queue(D) \/ Withdraw(D)
    \/ \E d \in Deliveries : Settle(d) \/ Requeue(d)

Spec == Init /\ [][Next]_state

(* A queued delivery does not stay queued.                                 *)
Settles == \A d \in Deliveries : state[d] = "pending" ~> state[d] # "pending"
=============================================================================
