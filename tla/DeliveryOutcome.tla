--------------------------- MODULE DeliveryOutcome ---------------------------
(***************************************************************************)
(* What the delivery core promises a customer, with no handlers, aircraft, *)
(* queues or retries in it: an order is settled once, the settlement never *)
(* changes, money goes back only for an order that did not arrive, and an  *)
(* order that has turned for home cannot arrive any more.                  *)
(***************************************************************************)
CONSTANT Deliveries

VARIABLES
    outcome,  \* how far the order has got, as the customer sees it
    repaid    \* the refund was made

Settled == {"delivered", "canceled", "failed", "returned"}
Outcomes == {"none", "open", "homebound"} \cup Settled

Init ==
    /\ outcome = [d \in Deliveries |-> "none"]
    /\ repaid = [d \in Deliveries |-> FALSE]

Become(d, from, to) ==
    /\ outcome[d] \in from
    /\ outcome' = [outcome EXCEPT ![d] = to]
    /\ UNCHANGED repaid

Accept(d) == Become(d, {"none"}, "open")
TurnBack(d) == Become(d, {"open"}, "homebound")
Deliver(d) == Become(d, {"open"}, "delivered")
CallOff(d) == \E to \in {"canceled", "failed"} : Become(d, {"open", "homebound"}, to)
Land(d) == Become(d, {"homebound"}, "returned")

\* Money goes back at most once, and never for an order that is open or arrived.
Repay(d) ==
    /\ outcome[d] \in {"homebound", "canceled", "failed", "returned"}
    /\ ~repaid[d]
    /\ repaid' = [repaid EXCEPT ![d] = TRUE]
    /\ UNCHANGED outcome

Next == \E d \in Deliveries :
    Accept(d) \/ TurnBack(d) \/ Deliver(d) \/ CallOff(d) \/ Land(d) \/ Repay(d)

Spec == Init /\ [][Next]_<<outcome, repaid>>
=============================================================================
