SPECIFICATION Spec
CONSTANTS
    Deliveries = {d1}
    Drones = {x1,x2}
    Procs = {p1,p2,p3}
    None = None
    LiveDispatch = {TRUE, FALSE}
    MAX_HANDOFF_ATTEMPTS = 2
    OperatorStatuses = {"AVAILABLE"}
    Faults = {}
SYMMETRY Symmetry
INVARIANTS
    NoLeakedClaim
    FaultIsRefunded
PROPERTIES
    WatchdogSparesHandoff
    KeepsPromise
