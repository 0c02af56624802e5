----------------------------- MODULE MCCheckout -----------------------------
EXTENDS Checkout
\* Bookings contend for credits and the promo slot, longest when they reserve first, and not
\* for the card: elsewhere only one of them is made.
Scenario ==
    \/ config.mock /\ config.debitFirst
    \/ \E d \in Bookings : \A e \in Bookings \ {d} : call[e] = Refused
MCInit == Init /\ Scenario
MCSpec == MCInit /\ [][Next]_vars
FairSpec == MCSpec /\ Fairness
=============================================================================
