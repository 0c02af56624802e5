SPECIFICATION Spec
CONSTANTS
    Deliveries = {d1,d2}
    Drones = {x1}
    Procs = {p1,p2}
    None = None
    LiveDispatch = {TRUE}
    MAX_HANDOFF_ATTEMPTS = 1
    OperatorStatuses = {}
    Faults = {"redeliver"}
SYMMETRY Symmetry
INVARIANT NoDoubleBooking
