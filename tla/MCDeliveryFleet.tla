--------------------------- MODULE MCDeliveryFleet ---------------------------
EXTENDS DeliveryFleet, TLC
Symmetry == Permutations(Deliveries) \cup Permutations(Drones) \cup Permutations(Procs)
=============================================================================
