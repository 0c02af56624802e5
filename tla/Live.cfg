SPECIFICATION MCSpec

CONSTANTS
  Deliveries = {d1}
  Drones = {x1}
  Procs = {p1, p2}
  None = None
  LiveDispatch = {TRUE}
  MAX_HANDOFF_ATTEMPTS = 2
  OperatorStatuses = {}
  Faults = {}
  CommandBound = 1
  MAX_COMMANDS_PER_DELIVERY = 1
  FlightStatuses = {"IN_TRANSIT", "RETURNING", "CANCELED"}
  Acks = {a1, a2}
  Orders = {o1, o2}
  Workers = {w1, w2}
  OUTBOX_MAX_ATTEMPTS = 2
  OUTBOX_MAX_RECOVERY_ATTEMPTS = 3
  Sockets = {c1, c2}
  MaxPhase = 1
  MaxInbox = 1
  MaxOutages = 1
  Tracked = {t1}
  CHECKPOINT_BATCH = 1
  CHECKPOINT_INTERVAL = 2
  WATCHDOG_SILENCE = 9
  MaxFaults = 2

INVARIANTS
  CommandActsOnce
  RewardPaidOnce
  
  TransmittingIsNeverSilent

PROPERTIES
  AircraftComesBack
  LockedHandoffSettles
  CommandsResolve
  RewardArrives
  SubscribedIsArmed
  LostIsReaped

CHECK_DEADLOCK FALSE
