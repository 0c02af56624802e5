SPECIFICATION Spec
CONSTANTS
    Deliveries = {d1}
    Drones = {x1}
    Procs = {p1}
    None = None
    LiveDispatch = {TRUE}
    MAX_HANDOFF_ATTEMPTS = 1
    OperatorStatuses = {"GROUNDED"}
    Faults = {}
PROPERTY GroundingSticks
