SPECIFICATION FairQueueSpec
CONSTANTS
    Stages = {"CONFIRMED", "IN_TRANSIT", "AWAITING_HANDOFF"}
    ATTEMPTS = 2
    PREFLIGHT_MAX_ATTEMPTS = 2
    Regimes = {"punctual"}
    MaxThrows = 1
PROPERTY LifecycleRuns
CHECK_DEADLOCK FALSE
