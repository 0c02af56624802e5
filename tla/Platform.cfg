SPECIFICATION MCSpec

CONSTANTS
  DAY = 4
  OFFSET = 1
  MAX_DAY_PROBE = 14
  LOOKAHEAD = 1
  MISSED_GRACE = 0
  Rules <- MCRules
  Scans = {s1, s2}
  MaxResumes = 1
  ClockStart = 28
  ClockEnd = 34

  Instances = {i1}
  Operators = {o1}
  AIRSPACE_CACHE_TTL = 2
  Opens = {3}
  Closes = {2, 4}
  MaxEdits = 2
  LastTick = 5

  Addresses = {"harbor", "hill", "unknown"}
  Location <- MCLocation
  Pins <- MCPins
  SERVICE_AREAS <- MCAreas
  Zones <- MCZones
  MAX_ROUTE = 8
  MAX_COORD_DEVIATION = 1
  PREFLIGHT_MAX_ATTEMPTS = 2

  RANGE = 112
  MAX_PAYLOAD = 2
  Payloads = {1, 2}
  Places = {4, 11, 20}
  PARTS = 9
  BURN <- MCBurn
  AUTO_RETURN_COOLDOWN = 1
  MaxLag = 0
  MaxHolds = 60
  MaxMissions = 2
  MaxRefused = 1

  Tokens = {t1, t2, t3}
  Devices = {d1, d2}
  MaxResets = 1

  Customers = {k1}
  Agents = {g1}
  MaxFrames = 1
  MaxDrops = 1

  Users = {u1, u2}
  FirstAdmins = {u1, u2}
  Staff = {f1, f2}
  MaxWrites = 3

  PushTokens = {p1, p2, p3}
  Unsupported = {p3}
  EXPO_PUSH_CHUNK_SIZE = 1
  QuietBounds = {22}
  MaxNotices = 1
  MaxUpdates = 1
  MaxReinstalls = 1

  PARTITION_MONTHS_AHEAD = 1
  PARTITION_RETAIN_MONTHS = 1
  LastMonth = 2
  MaxMaintenanceFailures = 1

  WorkflowSteps = {"scan"}
  QR_TTL = 1
  LastMinute = 3
  MaxVersions = 2

  Callers = {c1}
  SheetCards = {"visa", "amex"}
  MAX_ADDRESSES_PER_USER = 2
  MaxRows = 3

  Nodes = {n1, n2}
  NodeRoles <- MCRoles
  Releases <- MCReleases
  MaxStarts = 4

INVARIANTS
  NextOccurrenceIsFirst
  MaterializedOncePerResume
  EnforcedWithinTtl
  LaunchedRouteIsClear
  
  
  ChatGaugeSettles
  
  OneDefault
  SweepFollowsRelease
  JobsKeepTheirDatabase

PROPERTIES
  ReapsOnlyReported
  OnlyRetentionDeletes
  ProofNeverDowngraded

CHECK_DEADLOCK FALSE
