SPECIFICATION FairQueueSpec
CONSTANTS
    Stages = {"CONFIRMED", "AWAITING_HANDOFF"}
    ATTEMPTS = 2
    PREFLIGHT_MAX_ATTEMPTS = 2
    Regimes = {"late", "calm"}
    MaxThrows = 2
INVARIANT LaunchedOnce
PROPERTIES
    
    LifecycleRuns
CHECK_DEADLOCK FALSE
