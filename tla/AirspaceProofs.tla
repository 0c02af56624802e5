--------------------------- MODULE AirspaceProofs ---------------------------
(***************************************************************************)
(* Proofs about where a drone may fly: the restrictions that operators     *)
(* edit (Airspace), the checks of a booking and of a launch against them   *)
(* (BookingGate), and how far it may go (FlightSafety).                    *)
(***************************************************************************)
EXTENDS Airspace, BookingGate, FlightSafety, TLAPS

----------------------------------------------------------------------------
(* Airspace, for any instances, operators, cache TTL and windows.          *)

\* What a query for the active rows answers.
ActiveRows == IF zone.active THEN zone ELSE NoZone

\* Rows stamped `at` were read at `at` or later, so nothing written before `at` is missing.
Covers(at, row) == zoneSince < at => row = ActiveRows

StampsArePast ==
  /\ zoneSince <= tick
  /\ \A i \in Instances : /\ zoneCache[i].at <= tick /\ check[i].now <= tick
                          /\ check[i].at # "idle" => check[i].now # NoBound

AirspaceInv ==
  /\ AirspaceTypeOK
  /\ StampsArePast
  /\ \A i \in Instances : /\ Covers(zoneCache[i].at, zoneCache[i].row)
                          /\ check[i].at = "fetched" => Covers(check[i].now, check[i].row)
  /\ ~missedZone

----------------------------------------------------------------------------

LEMMA RowTypes ==
  /\ NoZone \in ZoneRows
  /\ Empty \in [at : 0..LastTick \cup {NoBound}, row : ZoneRows]
  /\ Empty.at = NoBound /\ Empty.row = NoZone
  /\ NoCheck \in [at : {"idle", "fetching", "fetched"}, now : 0..LastTick \cup {NoBound},
                  row : ZoneRows]
  /\ NoCheck.at = "idle" /\ NoCheck.now = NoBound
  /\ NoEdit \in [at : {"idle", "read", "committed"}, on : Consoles, saw : ZoneRows]
<1>1. NoZone \in ZoneRows
  BY DEF NoZone, ZoneRows
<1> QED
  BY <1>1 DEF Empty, NoCheck, NoEdit, Consoles

\* An answer from rows that cover its time overlooks nothing written before that time.
LEMMA CoveringAnswerSees ==
  ASSUME AirspaceInv, NEW row, NEW at \in 0..LastTick, NEW now \in 0..LastTick, Covers(at, row),
         zoneSince + AIRSPACE_CACHE_TTL <= now /\ zoneSince < now => zoneSince < at
  PROVE  ~Overlooks(row, now)
<1> SUFFICES ASSUME Overlooks(row, now) PROVE FALSE
  OBVIOUS
<1>1. row = ActiveRows /\ zone.active
  BY DEF Overlooks, Covers, IsZoneInForce
<1> QED
  BY <1>1 DEF Overlooks, ActiveRows

\* A console call that commits nothing touches neither the rows nor the clock.
LEMMA EditOnly ==
  ASSUME AirspaceInv, UNCHANGED <<tick, zone, zoneSince, edits, zoneCache, check, missedZone>>,
         edit' \in [Operators -> [at : {"idle", "read", "committed"}, on : Consoles, saw : ZoneRows]]
  PROVE  AirspaceInv'
BY DEF AirspaceInv, AirspaceTypeOK, StampsArePast, Covers, ActiveRows

\* A committed write is newer than, or of the same tick as, every stamp.
LEMMA CommitKeeps ==
  ASSUME AirspaceInv, NEW row \in ZoneRows, CommitZone(row), edits < MaxEdits,
         UNCHANGED <<tick, zoneCache, check, missedZone>>,
         edit' \in [Operators -> [at : {"idle", "read", "committed"}, on : Consoles, saw : ZoneRows]]
  PROVE  AirspaceInv'
<1> USE AirspaceAssumption DEF AirspaceInv, CommitZone, AirspaceAssumption
<1>1. AirspaceTypeOK'
  BY DEF AirspaceTypeOK
<1>2. StampsArePast'
  BY DEF StampsArePast, AirspaceTypeOK
<1>3. \A i \in Instances : ~(zoneSince' < zoneCache'[i].at) /\ ~(zoneSince' < check'[i].now)
  BY DEF StampsArePast, AirspaceTypeOK, NoBound
<1> QED
  BY <1>1, <1>2, <1>3 DEF Covers

\* One instance's check moves; the rest stays.
LEMMA CheckStep ==
  ASSUME AirspaceInv, NEW i \in Instances,
         UNCHANGED <<tick, zone, zoneSince, edit, edits, zoneCache, missedZone>>,
         NEW c \in [at : {"idle", "fetching", "fetched"}, now : 0..LastTick \cup {NoBound},
                    row : ZoneRows],
         check' = [check EXCEPT ![i] = c], c.now <= tick,
         c.at # "idle" => c.now # NoBound, c.at = "fetched" => c.row = ActiveRows
  PROVE  AirspaceInv'
<1> USE DEF AirspaceInv
<1>1. AirspaceTypeOK'
  BY DEF AirspaceTypeOK
<1>2. check'[i] = c /\ \A j \in Instances : j # i => check'[j] = check[j]
  BY DEF AirspaceTypeOK
<1>3. StampsArePast'
  BY <1>2 DEF StampsArePast
<1>4. ActiveRows' = ActiveRows
  BY DEF ActiveRows
<1> QED
  BY <1>1, <1>2, <1>3, <1>4 DEF Covers

LEMMA AirspaceInvInit == AirspaceInit => AirspaceInv
<1> SUFFICES ASSUME AirspaceInit PROVE AirspaceInv
  OBVIOUS
<1> USE RowTypes, AirspaceAssumption DEF AirspaceInit, AirspaceAssumption
<1>1. AirspaceTypeOK
  <2>1. edit \in [Operators -> [at : {"idle", "read", "committed"}, on : Consoles, saw : ZoneRows]]
    OBVIOUS
  <2>2. zoneCache \in [Instances -> [at : 0..LastTick \cup {NoBound}, row : ZoneRows]]
    OBVIOUS
  <2>3. check \in [Instances -> [at : {"idle", "fetching", "fetched"},
                                now : 0..LastTick \cup {NoBound}, row : ZoneRows]]
    OBVIOUS
  <2>4. tick \in 0..LastTick /\ zoneSince \in 0..LastTick /\ edits \in 0..MaxEdits
    OBVIOUS
  <2> QED
    BY Zenon, <2>1, <2>2, <2>3, <2>4 DEF AirspaceTypeOK
<1>2. StampsArePast
  BY DEF StampsArePast, NoBound
<1> QED
  BY <1>1, <1>2 DEF AirspaceInv, Covers, NoBound

LEMMA EditKeeps ==
  ASSUME AirspaceInv, NEW o \in Operators,
         \/ \E i \in Consoles : CreateZone(o, i) \/ ReadZone(o, i)
         \/ UpdateZone(o) \/ DeactivateZone(o) \/ EditRefused(o) \/ Invalidate(o)
  PROVE  AirspaceInv'
<1> DEFINE Edits == [at : {"idle", "read", "committed"}, on : Consoles, saw : ZoneRows]
<1>0. edit \in [Operators -> Edits] /\ zone \in ZoneRows
  BY DEF AirspaceInv, AirspaceTypeOK
<1>1. ASSUME NEW i \in Consoles, CreateZone(o, i) PROVE AirspaceInv'
  <2>1. PICK from \in Opens \cup {NoBound}, until \in Closes \cup {NoBound} :
          CommitZone([exists |-> TRUE, active |-> TRUE, from |-> from, until |-> until])
    BY <1>1 DEF CreateZone
  <2>2. [exists |-> TRUE, active |-> TRUE, from |-> from, until |-> until] \in ZoneRows
    BY DEF ZoneRows
  <2>3. edit' \in [Operators -> Edits]
    BY Zenon, <1>0, <1>1 DEF CreateZone
  <2> QED
    BY Zenon, <1>1, <2>1, <2>2, <2>3, CommitKeeps DEF CreateZone
<1>2. ASSUME NEW i \in Consoles, ReadZone(o, i) PROVE AirspaceInv'
  <2>1. edit' \in [Operators -> Edits]
    BY SMTT(60), ZenonT(60), <1>0, <1>2 DEF ReadZone
  <2> QED
    BY Zenon, <1>2, <2>1, EditOnly DEF ReadZone
<1>3. CASE UpdateZone(o) \/ DeactivateZone(o)
  <2>1. edit' \in [Operators -> Edits]
    <3>1. edit' = [edit EXCEPT ![o].at = "committed", ![o].saw = NoZone]
      BY Zenon, <1>3 DEF UpdateZone, DeactivateZone
    <3>2. [edit[o] EXCEPT !.at = "committed", !.saw = NoZone] \in Edits
      BY Zenon, <1>0, RowTypes
    <3> QED
      BY <1>0, <3>1, <3>2
  <2>2. ASSUME NEW from \in Opens \cup {NoBound}, NEW until \in Closes \cup {NoBound}, NEW b \in BOOLEAN
        PROVE  [zone EXCEPT !.from = from] \in ZoneRows /\ [zone EXCEPT !.until = until] \in ZoneRows
                 /\ [zone EXCEPT !.active = b] \in ZoneRows
    BY Zenon, <1>0 DEF ZoneRows
  <2>3. \E row \in ZoneRows : CommitZone(row)
    BY Zenon, <1>3, <2>2 DEF UpdateZone, DeactivateZone
  <2> QED
    BY Zenon, <1>3, <2>1, <2>3, CommitKeeps DEF UpdateZone, DeactivateZone
<1>4. CASE EditRefused(o)
  <2>1. edit' \in [Operators -> Edits]
    BY <1>0, <1>4, RowTypes DEF EditRefused
  <2> QED
    BY Zenon, <1>4, <2>1, EditOnly DEF EditRefused
<1>5. CASE Invalidate(o)
  <2> USE <1>5, RowTypes DEF Invalidate, AirspaceInv
  <2>1. AirspaceTypeOK'
    BY Zenon DEF AirspaceTypeOK
  <2>2. \A i \in Instances : zoneCache'[i] = zoneCache[i] \/ zoneCache'[i] = Empty
    BY Zenon
  <2>3. ~(zoneSince < NoBound) /\ NoBound <= tick
    BY DEF AirspaceTypeOK, NoBound
  <2> QED
    BY Zenon, <2>1, <2>2, <2>3 DEF StampsArePast, Covers, ActiveRows
<1> QED
  BY <1>1, <1>2, <1>3, <1>4, <1>5

LEMMA CheckKeeps ==
  ASSUME AirspaceInv, NEW i \in Instances,
         CheckHit(i) \/ CheckMiss(i) \/ FetchActiveRows(i) \/ FetchFails(i) \/ CheckAnswers(i)
  PROVE  AirspaceInv'
<1> USE DEF AirspaceInv
<1>1. CASE CheckHit(i)
  <2>1. ~Overlooks(zoneCache[i].row, tick)
    BY <1>1, CoveringAnswerSees, AirspaceAssumption
    DEF CheckHit, Fresh, AirspaceTypeOK, AirspaceAssumption
  <2> QED
    BY Zenon, <1>1, <2>1 DEF CheckHit, AirspaceTypeOK, StampsArePast, Covers, ActiveRows
<1>2. CASE CheckMiss(i)
  <2> DEFINE c == [at |-> "fetching", now |-> tick, row |-> NoZone]
  <2>1. c \in [at : {"idle", "fetching", "fetched"}, now : 0..LastTick \cup {NoBound}, row : ZoneRows]
          /\ c.now <= tick /\ c.at = "fetching" /\ c.now # NoBound
    BY RowTypes DEF AirspaceTypeOK, NoBound
  <2>2. check' = [check EXCEPT ![i] = c]
    BY Zenon, <1>2 DEF CheckMiss
  <2> HIDE DEF c
  <2> QED
    BY Zenon, <1>2, <2>1, <2>2, CheckStep DEF CheckMiss
<1>3. CASE FetchActiveRows(i)
  <2> DEFINE c == [check[i] EXCEPT !.at = "fetched", !.row = IF zone.active THEN zone ELSE NoZone]
  <2>1. c \in [at : {"idle", "fetching", "fetched"}, now : 0..LastTick \cup {NoBound}, row : ZoneRows]
          /\ c.now = check[i].now /\ c.row = ActiveRows
    BY Zenon, RowTypes DEF AirspaceTypeOK, ActiveRows
  <2>2. check' = [check EXCEPT ![i] = c]
    BY <1>3 DEF FetchActiveRows, AirspaceTypeOK
  <2> HIDE DEF c
  <2> QED
    BY Zenon, <1>3, <2>1, <2>2, CheckStep DEF FetchActiveRows, StampsArePast
<1>4. CASE FetchFails(i)
  <2>1. NoBound <= tick
    BY DEF AirspaceTypeOK, NoBound
  <2> QED
    BY Zenon, <1>4, <2>1, RowTypes, CheckStep DEF FetchFails
<1>5. CASE CheckAnswers(i)
  <2> DEFINE c == [at |-> check[i].now, row |-> check[i].row]
  <2>1. /\ zoneCache' = [zoneCache EXCEPT ![i] = c] /\ check' = [check EXCEPT ![i] = NoCheck]
        /\ UNCHANGED <<tick, zone, zoneSince, edit, edits>> /\ check[i].at = "fetched"
    BY Zenon, <1>5 DEF CheckAnswers, FillCache
  <2>2. check[i].now \in 0..LastTick /\ Covers(check[i].now, check[i].row)
    BY Zenon, <2>1 DEF AirspaceTypeOK, StampsArePast
  <2>3. ~Overlooks(check[i].row, check[i].now)
    BY Zenon, <2>2, CoveringAnswerSees
  <2>4. c \in [at : 0..LastTick \cup {NoBound}, row : ZoneRows] /\ c.at = check[i].now
          /\ c.row = check[i].row
    BY DEF AirspaceTypeOK
  <2>5. missedZone' = FALSE
    BY Zenon, <1>5, <2>3 DEF CheckAnswers
  <2> HIDE DEF c
  <2>6. AirspaceTypeOK'
    BY Zenon, <2>1, <2>4, <2>5, RowTypes DEF AirspaceTypeOK
  <2>7. /\ zoneCache'[i] = c /\ check'[i] = NoCheck
        /\ \A j \in Instances : j # i => zoneCache'[j] = zoneCache[j] /\ check'[j] = check[j]
    BY <2>1 DEF AirspaceTypeOK
  <2>8. NoBound <= tick /\ ActiveRows' = ActiveRows
    BY <2>1 DEF AirspaceTypeOK, NoBound, ActiveRows
  <2>9. StampsArePast'
    BY <2>1, <2>4, <2>7, <2>8, RowTypes DEF StampsArePast
  <2> QED
    BY <2>1, <2>2, <2>4, <2>5, <2>6, <2>7, <2>8, <2>9, RowTypes DEF Covers
<1> QED
  BY Zenon, <1>1, <1>2, <1>3, <1>4, <1>5

LEMMA AirspaceInvStep == AirspaceInv /\ [AirspaceNext]_airspaceVars => AirspaceInv'
<1> SUFFICES ASSUME AirspaceInv, [AirspaceNext]_airspaceVars PROVE AirspaceInv'
  BY Zenon
<1>1. CASE UNCHANGED airspaceVars
  BY <1>1 DEF airspaceVars, AirspaceInv, AirspaceTypeOK, StampsArePast, Covers, ActiveRows
<1>2. CASE AirspaceTicks
  <2> USE <1>2, AirspaceAssumption DEF AirspaceTicks, AirspaceInv, AirspaceAssumption
  <2>1. AirspaceTypeOK'
    BY DEF AirspaceTypeOK
  <2>2. StampsArePast'
    BY DEF StampsArePast, AirspaceTypeOK, NoBound
  <2> QED
    BY Zenon, <2>1, <2>2 DEF Covers, ActiveRows
<1>3. CASE AirspaceNext /\ ~AirspaceTicks
  BY Zenon, <1>3, EditKeeps, CheckKeeps DEF AirspaceNext
<1> QED
  BY <1>1, <1>2, <1>3

----------------------------------------------------------------------------

\* For every TTL, zero included, and any number of instances, no check on any instance lets a
\* route through a zone in force that was written a TTL or more before it: neither a slow fill
\* nor a lost invalidation makes a stale list outlive its stamp.
THEOREM ZonesAreEnforced == AirspaceSpec => []EnforcedWithinTtl
<1>1. AirspaceInv => EnforcedWithinTtl
  BY DEF AirspaceInv, EnforcedWithinTtl
<1> QED
  BY <1>1, AirspaceInvInit, AirspaceInvStep, PTL DEF AirspaceSpec

----------------------------------------------------------------------------
(* BookingGate.                                                            *)

(* both seen from its near end, the k-th quarter point is (k * v - 4 * u) / 4 *)
(* from the centre.                                                         *)

LEMMA SquareIs ==
  ASSUME NEW n \in Int
  PROVE  n * n >= 0
<1>1. CASE n >= 0
  BY <1>1
<1>2. CASE n < 0
  <2> DEFINE m == -n
  <2>1. m \in Nat /\ n * n = m * m
    BY <1>2
  <2> HIDE DEF m
  <2>2. m \in Nat => m * m >= 0
    OBVIOUS
  <2> QED
    BY <2>1, <2>2
<1> QED
  BY <1>1, <1>2

\* The quarter points, by the length of the route and the projection of the centre.
LEMMA QuarterPoint ==
  ASSUME NEW ux \in Int, NEW uy \in Int, NEW vx \in Int, NEW vy \in Int, NEW k \in 0..4
  PROVE  (k * vx - 4 * ux) * (k * vx - 4 * ux) + (k * vy - 4 * uy) * (k * vy - 4 * uy)
           = k * k * (vx * vx + vy * vy) - 8 * k * (ux * vx + uy * vy) + 16 * (ux * ux + uy * uy)
OBVIOUS

LEMMA Lagrange ==
  ASSUME NEW ux \in Int, NEW uy \in Int, NEW vx \in Int, NEW vy \in Int
  PROVE  (ux * ux + uy * uy) * (vx * vx + vy * vy)
           = (ux * vx + uy * vy) * (ux * vx + uy * vy) + (ux * vy - uy * vx) * (ux * vy - uy * vx)
OBVIOUS

\* L the squared length, A the projection, X the cross product, U and B the squared distances of the
\* ends from the centre, R the squared radius.
LEMMA OutsideNear ==
  ASSUME NEW L \in Nat, NEW A \in Int, NEW U \in Int, NEW R \in Int, NEW k \in 0..4,
         L = 0 => A = 0, A <= 0, U > R
  PROVE  k * k * L - 8 * k * A + 16 * U > 16 * R
<1>1. k \in {0, 1, 2, 3, 4}
  OBVIOUS
<1> QED
  BY <1>1

LEMMA OutsideFar ==
  ASSUME NEW L \in Nat, NEW A \in Int, NEW U \in Int, NEW R \in Int, NEW k \in 0..4,
         A >= L, L - 2 * A + U > R
  PROVE  k * k * L - 8 * k * A + 16 * U > 16 * R
<1>1. k \in {0, 1, 2, 3, 4}
  OBVIOUS
<1> QED
  BY <1>1

LEMMA OutsideBetween ==
  ASSUME NEW L \in Nat, NEW A \in Int, NEW U \in Int, NEW R \in Int, NEW Y \in Int, NEW k \in 0..4,
         L > 0, U * L = A * A + Y, Y > R * L
  PROVE  k * k * L - 8 * k * A + 16 * U > 16 * R
<1> DEFINE D == k * k * L - 8 * k * A + 16 * U
           w == k * L - 4 * A
<1>1. D \in Int /\ w \in Int /\ R * L \in Int
  OBVIOUS
<1>2. D * L = w * w + 16 * Y
  <2>1. D * L = k * k * L * L - 8 * k * A * L + 16 * (U * L)
    OBVIOUS
  <2>2. w * w = k * k * L * L - 8 * k * A * L + 16 * (A * A)
    OBVIOUS
  <2> HIDE DEF D, w
  <2> QED
    BY <1>1, <2>1, <2>2
<1> HIDE DEF D, w
<1>3. w * w >= 0 /\ w * w \in Int
  BY <1>1, SquareIs
<1>4. D * L > 16 * (R * L)
  BY <1>1, <1>2, <1>3
<1>5. D > 16 * R
  <2> SUFFICES ASSUME D <= 16 * R PROVE FALSE
    BY <1>1
  <2> DEFINE g == 16 * R - D
  <2>1. g \in Nat /\ g * L = 16 * (R * L) - D * L
    BY <1>1
  <2> HIDE DEF g
  <2>2. g * L >= 0
    BY <2>1
  <2> QED
    BY <1>1, <1>4, <2>1, <2>2
<1> QED
  BY Zenon, <1>5 DEF D

\* checkServiceability's three tests of a zone leave no quarter point of the route in it.
LEMMA RouteIsClear ==
  ASSUME NEW a \in Int \X Int, NEW b \in Int \X Int, NEW c, c.x \in Int, c.y \in Int, c.radius \in Int,
         ~InCircle(a, c), ~InCircle(b, c), ~RouteNearCircle(a, b, c)
  PROVE  Clear(a, b, c)
<1> DEFINE ux == c.x - a[1]
           uy == c.y - a[2]
           vx == b[1] - a[1]
           vy == b[2] - a[2]
           R == c.radius * c.radius
           L == vx * vx + vy * vy
           A == ux * vx + uy * vy
           X == ux * vy - uy * vx
           U == ux * ux + uy * uy
<1>1. a[1] \in Int /\ a[2] \in Int /\ b[1] \in Int /\ b[2] \in Int
  BY Zenon
<1>2. ux \in Int /\ uy \in Int /\ vx \in Int /\ vy \in Int
  BY <1>1
<1>3. U > R
  <2>1. ~((a[1] - c.x) * (a[1] - c.x) + (a[2] - c.y) * (a[2] - c.y) <= c.radius * c.radius)
    BY Zenon DEF InCircle, Distance2, Square
  <2>2. (a[1] - c.x) * (a[1] - c.x) + (a[2] - c.y) * (a[2] - c.y) = U
    BY <1>1
  <2> QED
    BY <1>1, <2>1, <2>2
<1>4. L - 2 * A + U > R
  <2>1. ~((b[1] - c.x) * (b[1] - c.x) + (b[2] - c.y) * (b[2] - c.y) <= c.radius * c.radius)
    BY Zenon DEF InCircle, Distance2, Square
  <2>2. (b[1] - c.x) * (b[1] - c.x) + (b[2] - c.y) * (b[2] - c.y) = L - 2 * A + U
    BY <1>1
  <2> QED
    BY <1>1, <2>1, <2>2
<1>5. L = 0 \/ A <= 0 \/ A >= L \/ ~(X * X <= R * L)
  <2>1. Distance2(a, b) = L
    <3>1. Distance2(a, b) = (a[1] - b[1]) * (a[1] - b[1]) + (a[2] - b[2]) * (a[2] - b[2])
      BY DEF Distance2, Square
    <3> QED
      BY <1>1, <3>1
  <2>2. ~(L # 0 /\ A > 0 /\ A < L /\ Square(X) <= Square(c.radius) * L)
    BY Zenon, <2>1 DEF RouteNearCircle
  <2>3. L \in Int /\ A \in Int
    BY <1>2
  <2> HIDE DEF L, A, X, R
  <2>4. Square(X) = X * X /\ Square(c.radius) = R
    BY DEF Square, R
  <2> QED
    BY <2>2, <2>3, <2>4
<1>6. /\ L \in Nat /\ A \in Int /\ X \in Int /\ U \in Int /\ R \in Int
      /\ L = 0 => A = 0
  <2>1. vx * vx >= 0 /\ vy * vy >= 0 /\ vx * vx \in Int /\ vy * vy \in Int
    BY <1>2, SquareIs
  <2>2. vx # 0 => vx * vx > 0
    BY <1>2
  <2>3. vy # 0 => vy * vy > 0
    BY <1>2
  <2>4. L \in Nat /\ (L = 0 => vx = 0 /\ vy = 0)
    <3> HIDE DEF vx, vy
    <3> QED
      BY <2>1, <2>2, <2>3
  <2>5. vx = 0 /\ vy = 0 => A = 0
    BY SMTT(30), <1>2
  <2>6. A \in Int /\ X \in Int /\ U \in Int /\ R \in Int
    BY <1>2
  <2> QED
    BY Zenon, <2>4, <2>5, <2>6
<1>7. U * L = A * A + X * X
  <2> HIDE DEF ux, uy, vx, vy
  <2> QED
    BY <1>2, Lagrange
<1>8. ASSUME NEW k \in 0..4 PROVE k * k * L - 8 * k * A + 16 * U > 16 * R
  <2> HIDE DEF L, A, X, U, R
  <2>1. CASE A <= 0
    BY Zenon, <1>3, <1>6, <2>1, OutsideNear
  <2>2. CASE A >= L
    BY Zenon, <1>4, <1>6, <2>2, OutsideFar
  <2>3. CASE A > 0 /\ A < L
    <3>1. L > 0 /\ X * X \in Int /\ X * X > R * L
      BY <1>5, <1>6, <2>3
    <3> QED
      BY Zenon, <1>6, <1>7, <3>1, OutsideBetween
  <2> QED
    BY <1>6, <2>1, <2>2, <2>3
<1> SUFFICES ASSUME NEW p \in OnRoute(a, b)
             PROVE  Square(p[1] - 4 * c.x) + Square(p[2] - 4 * c.y) > Square(4 * c.radius)
  BY DEF Clear
<1>9. PICK k \in 0..4 : p = <<4 * a[1] + k * (b[1] - a[1]), 4 * a[2] + k * (b[2] - a[2])>>
  BY Zenon DEF OnRoute
<1>10. /\ p[1] - 4 * c.x = k * vx - 4 * ux
       /\ p[2] - 4 * c.y = k * vy - 4 * uy
  <2>1. p[1] = 4 * a[1] + k * vx /\ p[2] = 4 * a[2] + k * vy
    BY Zenon, <1>9
  <2>2. k * vx \in Int /\ k * vy \in Int
    BY <1>2
  <2>3. 4 * ux = 4 * c.x - 4 * a[1] /\ 4 * uy = 4 * c.y - 4 * a[2]
    BY <1>1
  <2> DEFINE m == k * vx
             n == k * vy
             x == p[1]
             y == p[2]
             ax == a[1]
             ay == a[2]
             cx == c.x
             cy == c.y
  <2>4. /\ m \in Int /\ n \in Int /\ ax \in Int /\ ay \in Int /\ cx \in Int /\ cy \in Int
        /\ x = 4 * ax + m /\ y = 4 * ay + n /\ 4 * ux = 4 * cx - 4 * ax /\ 4 * uy = 4 * cy - 4 * ay
    BY Zenon, <1>1, <2>1, <2>2, <2>3
  <2> HIDE DEF ux, uy, vx, vy, m, n, x, y, ax, ay, cx, cy
  <2>5. x - 4 * cx = m - 4 * ux /\ y - 4 * cy = n - 4 * uy
    BY <1>2, <2>4
  <2> QED
    BY Zenon, <2>5 DEF m, n, x, y, cx, cy
<1>11. Square(p[1] - 4 * c.x) + Square(p[2] - 4 * c.y) = k * k * L - 8 * k * A + 16 * U
  <2>1. Square(k * vx - 4 * ux) + Square(k * vy - 4 * uy)
          = (k * vx - 4 * ux) * (k * vx - 4 * ux) + (k * vy - 4 * uy) * (k * vy - 4 * uy)
    BY DEF Square
  <2> HIDE DEF ux, uy, vx, vy
  <2> QED
    BY <1>2, <1>10, <2>1, QuarterPoint
<1>12. Square(4 * c.radius) = 16 * R
  BY DEF Square
<1> QED
  BY Zenon, <1>8, <1>11, <1>12

----------------------------------------------------------------------------
(* The way of a booking.                                                   *)

GateSteps == {"none", "geocoding", "checking", "weather", "pricing", "accepted", "refused", "launched", "aborted"}
GatePoints == (Int \X Int) \cup {Nowhere}
Bookings == [at : GateSteps, address : [Sides -> Addresses], pin : [Sides -> Pins \cup {NoPin}],
             answered : SUBSET Sides, coords : [Sides -> GatePoints], stage : {"create", "launch"},
             attempt : Int, priced : Int]

\* A cached answer is what the provider would say.
CacheIsTrue ==
  /\ geoCache = [a \in Addresses |-> geoCache[a]]
  /\ \A a \in Addresses : \/ geoCache[a] = <<"none">> \/ geoCache[a] = <<"miss">>
                          \/ Location[a] # Nowhere /\ geoCache[a] = <<"found", Location[a]>>

Resolved == {"checking", "weather", "pricing", "accepted", "launched", "aborted"}
RouteCleared == HardCode(booking.coords["from"], booking.coords["to"]) = "none"

BookingInv ==
  /\ booking \in Bookings
  /\ \A s \in Sides : booking.coords[s] \in {Nowhere, Location[booking.address[s]]}
  /\ booking.at \in Resolved => \A s \in Sides : booking.coords[s] # Nowhere
  /\ booking.at \in {"weather", "launched"} => RouteCleared
  /\ booking.at \in {"accepted", "launched"} => booking.stage = "launch"
  /\ booking.stage = "launch" =>
       /\ booking.at \in {"accepted", "checking", "weather", "launched", "aborted"}
       /\ booking.priced = Distance2(booking.coords["from"], booking.coords["to"])

GateInv == CacheIsTrue /\ zones \subseteq Zones /\ BookingInv

\* A blocked route has one of the blockers; a route without a code has none of them.
LEMMA NoBlocker ==
  ASSUME NEW a, NEW b, HardCode(a, b) = "none"
  PROVE  /\ IsInAnyArea(a) /\ IsInAnyArea(b)
         /\ \A z \in zones : ~InCircle(a, z) /\ ~InCircle(b, z) /\ ~RouteNearCircle(a, b, z)
<1>1. ~(~IsInAnyArea(a) \/ ~IsInAnyArea(b))
  <2> SUFFICES ASSUME ~IsInAnyArea(a) \/ ~IsInAnyArea(b) PROVE FALSE
    OBVIOUS
  <2>1. HardCode(a, b) = "OUT_OF_AREA"
    BY Zenon DEF HardCode
  <2> QED
    BY Zenon, <2>1
<1>2. ~(\E z \in zones : InCircle(a, z) \/ InCircle(b, z) \/ RouteNearCircle(a, b, z))
  <2> SUFFICES ASSUME \E z \in zones : InCircle(a, z) \/ InCircle(b, z) \/ RouteNearCircle(a, b, z) PROVE FALSE
    OBVIOUS
  <2>1. HardCode(a, b) \in {"OUT_OF_AREA", "ROUTE_TOO_LONG", "NO_FLY_ZONE"}
    BY Zenon DEF HardCode
  <2> QED
    BY Zenon, <2>1
<1> QED
  BY Zenon, <1>1, <1>2

LEMMA BookingFields ==
  ASSUME NEW b \in Bookings
  PROVE  /\ b.at \in GateSteps /\ b.address \in [Sides -> Addresses] /\ b.pin \in [Sides -> Pins \cup {NoPin}]
         /\ b.answered \in SUBSET Sides /\ b.coords \in [Sides -> GatePoints] /\ b.stage \in {"create", "launch"}
         /\ b.attempt \in Int /\ b.priced \in Int
BY Zenon DEF Bookings

\* A booking that takes a step and keeps its addresses and its coordinates.
LEMMA BookingMoves ==
  ASSUME GateInv, UNCHANGED <<geoCache, zones>>, booking' \in Bookings,
         booking'.address = booking.address, booking'.coords = booking.coords,
         booking'.at \in Resolved => \A s \in Sides : booking.coords[s] # Nowhere,
         booking'.at \in {"weather", "launched"} => RouteCleared,
         booking'.at \in {"accepted", "launched"} => booking'.stage = "launch",
         booking'.stage = "launch" =>
           /\ booking'.at \in {"accepted", "checking", "weather", "launched", "aborted"}
           /\ booking'.priced = Distance2(booking.coords["from"], booking.coords["to"])
  PROVE  GateInv'
<1>1. CacheIsTrue' /\ zones' \subseteq Zones
  BY DEF GateInv, CacheIsTrue
<1>2. RouteCleared => RouteCleared'
  BY Zenon DEF RouteCleared, HardCode, IsInAnyArea, InCircle, RouteNearCircle, Distance2, Square
<1>3. \A s \in Sides : booking'.coords[s] \in {Nowhere, Location[booking'.address[s]]}
  BY Zenon DEF GateInv, BookingInv
<1>4. BookingInv'
  BY Zenon, <1>2, <1>3 DEF BookingInv
<1> QED
  BY Zenon, <1>1, <1>4 DEF GateInv

\* The step alone changes.
LEMMA StepTo ==
  ASSUME NEW b \in Bookings, NEW x \in GateSteps
  PROVE  LET c == [b EXCEPT !.at = x]
         IN  /\ c \in Bookings /\ c.at = x /\ c.address = b.address /\ c.coords = b.coords
             /\ c.stage = b.stage /\ c.priced = b.priced
BY DEF Bookings

LEMMA VerdictIs ==
  ASSUME NEW code, booking \in Bookings
  PROVE  LET c == Verdict(code)
         IN  /\ c \in Bookings /\ c.address = booking.address /\ c.coords = booking.coords
             /\ c.stage = booking.stage /\ c.priced = booking.priced
             /\ booking.stage = "create" => c.at \in {"pricing", "refused"}
             /\ booking.stage = "launch" => c.at \in {"launched", "accepted", "aborted"}
             /\ c.at = "launched" => code = "none"
<1>1. CASE booking.stage = "create"
  <2>1. PICK x \in {"pricing", "refused"} : Verdict(code) = [booking EXCEPT !.at = x]
    BY Zenon, <1>1 DEF Verdict
  <2>2. x \in GateSteps
    BY DEF GateSteps
  <2> QED
    BY <1>1, <2>1, <2>2, StepTo
<1>2. CASE booking.stage = "launch" /\ code = "none"
  <2>1. Verdict(code) = [booking EXCEPT !.at = "launched"]
    BY Zenon, <1>2 DEF Verdict
  <2>2. "launched" \in GateSteps
    BY DEF GateSteps
  <2> DEFINE c == Verdict(code)
  <2>3. /\ c \in Bookings /\ c.at = "launched" /\ c.address = booking.address /\ c.coords = booking.coords
        /\ c.stage = booking.stage /\ c.priced = booking.priced
    BY <2>1, <2>2, StepTo
  <2> HIDE DEF c
  <2>4. booking.stage = "launch" /\ booking.stage # "create" /\ code = "none"
    BY Zenon, <1>2
  <2>5. /\ booking.stage = "create" => c.at \in {"pricing", "refused"}
        /\ booking.stage = "launch" => c.at \in {"launched", "accepted", "aborted"}
    BY Zenon, <2>3, <2>4
  <2> QED
    BY <2>3, <2>4, <2>5, Zenon DEF c
<1>3. CASE booking.stage = "launch" /\ code # "none"
  <2>1. \/ Verdict(code) = [booking EXCEPT !.at = "accepted", !.attempt = @ + 1]
        \/ Verdict(code) = [booking EXCEPT !.at = "aborted"]
    BY <1>3 DEF Verdict
  <2>2. CASE Verdict(code) = [booking EXCEPT !.at = "aborted"]
    <3>1. "aborted" \in GateSteps
      BY DEF GateSteps
    <3> QED
      BY <1>3, <2>2, <3>1, StepTo
  <2>3. CASE Verdict(code) = [booking EXCEPT !.at = "accepted", !.attempt = @ + 1]
    <3> DEFINE c == [booking EXCEPT !.at = "accepted", !.attempt = @ + 1]
    <3>1. /\ c \in Bookings /\ c.at = "accepted" /\ c.address = booking.address /\ c.coords = booking.coords
          /\ c.stage = booking.stage /\ c.priced = booking.priced
      <4>1. booking.attempt + 1 \in Int /\ "accepted" \in GateSteps
        BY BookingFields DEF GateSteps
      <4> QED
        BY Zenon, <4>1 DEF Bookings
    <3> HIDE DEF c
    <3> QED
      BY Zenon, <1>3, <2>3, <3>1 DEF c
  <2> QED
    BY <2>1, <2>2, <2>3
<1>4. booking.stage \in {"create", "launch"}
  BY BookingFields
<1> QED
  BY Zenon, <1>1, <1>2, <1>3, <1>4

LEMMA UnbookedIs ==
  /\ Unbooked \in Bookings /\ Unbooked.at = "none" /\ Unbooked.stage = "create"
  /\ Unbooked.coords = [s \in Sides |-> Nowhere]
<1>1. (CHOOSE a \in Addresses : TRUE) \in Addresses
  BY Zenon, GateAssumption DEF GateAssumption
<1>2. [s \in Sides |-> CHOOSE a \in Addresses : TRUE] \in [Sides -> Addresses]
  BY Zenon, <1>1
<1>3. /\ [s \in Sides |-> NoPin] \in [Sides -> Pins \cup {NoPin}]
      /\ [s \in Sides |-> Nowhere] \in [Sides -> GatePoints]
  BY Zenon DEF GatePoints
<1>4. "none" \in GateSteps /\ {} \in SUBSET Sides /\ 0 \in Int
  BY DEF GateSteps
<1>5. Unbooked \in Bookings
  BY Zenon, <1>2, <1>3, <1>4 DEF Unbooked, Bookings
<1> QED
  BY Zenon, <1>5 DEF Unbooked

\* A booking that begins.
LEMMA BookingBegins ==
  ASSUME GateInv, UNCHANGED <<geoCache, zones>>, booking' \in Bookings, booking'.at \in {"none", "geocoding"},
         booking'.stage = "create", booking'.coords = [s \in Sides |-> Nowhere]
  PROVE  GateInv'
<1>1. CacheIsTrue' /\ zones' \subseteq Zones
  BY Zenon DEF GateInv, CacheIsTrue
<1>2. \A s \in Sides : booking'.coords[s] \in {Nowhere, Location[booking'.address[s]]}
  OBVIOUS
<1>3. BookingInv'
  BY Zenon, <1>2 DEF BookingInv, Resolved
<1> QED
  BY Zenon, <1>1, <1>3 DEF GateInv

LEMMA BeginKeeps ==
  ASSUME GateInv,
         \/ \E from, to \in Addresses, pins \in [Sides -> Pins \cup {NoPin}] : Book(from, to, pins)
         \/ BookAgain \/ Reorder
  PROVE  GateInv'
<1>1. geoCache' = geoCache /\ zones' = zones
  BY Zenon DEF Book, BookAgain, Reorder
<1>2. CASE BookAgain
  BY Zenon, <1>1, <1>2, UnbookedIs, BookingBegins DEF BookAgain
<1>3. CASE Reorder
  <2>1. booking' = [Unbooked EXCEPT !.at = "geocoding", !.address = booking.address]
    BY <1>3 DEF Reorder
  <2>2. booking.address \in [Sides -> Addresses]
    BY Zenon, BookingFields DEF GateInv, BookingInv
  <2>3. /\ booking' \in Bookings /\ booking'.at = "geocoding" /\ booking'.stage = Unbooked.stage
        /\ booking'.coords = Unbooked.coords
    BY <2>1, <2>2, UnbookedIs DEF Bookings, GateSteps
  <2> QED
    BY Zenon, <1>1, <2>3, UnbookedIs, BookingBegins
<1>4. ASSUME NEW from \in Addresses, NEW to \in Addresses, NEW pins \in [Sides -> Pins \cup {NoPin}],
             Book(from, to, pins)
      PROVE  GateInv'
  <2> DEFINE address == [s \in Sides |-> IF s = "from" THEN from ELSE to]
  <2>1. booking' = [Unbooked EXCEPT !.at = "geocoding", !.address = address, !.pin = pins]
    BY Zenon, <1>4 DEF Book
  <2>2. address \in [Sides -> Addresses]
    BY Zenon
  <2> HIDE DEF address
  <2>3. /\ booking' \in Bookings /\ booking'.at = "geocoding" /\ booking'.stage = Unbooked.stage
        /\ booking'.coords = Unbooked.coords
    BY <2>1, <2>2, UnbookedIs DEF Bookings, GateSteps
  <2> QED
    BY Zenon, <1>1, <2>3, UnbookedIs, BookingBegins
<1> QED
  BY <1>2, <1>3, <1>4

\* An answer of the geocoder, cached or fresh, is the place of the address or nothing.
LEMMA AnswerKeeps ==
  ASSUME GateInv, NEW s \in Sides, NEW p \in {Nowhere, Location[booking.address[s]]},
         booking.at = "geocoding", booking' = Answered(s, p), CacheIsTrue', zones' = zones
  PROVE  GateInv'
<1>1. booking \in Bookings
  BY Zenon DEF GateInv, BookingInv
<1>2. booking.coords \in [Sides -> GatePoints] /\ booking.address \in [Sides -> Addresses] /\ booking.answered \in SUBSET Sides
  BY Zenon, <1>1, BookingFields
<1>3. p \in GatePoints
  BY Zenon, <1>2, GateAssumption DEF GateAssumption, GatePoints
<1> DEFINE coords == [booking.coords EXCEPT ![s] = p]
<1>4. coords \in [Sides -> GatePoints] /\ \A z \in Sides : coords[z] = IF z = s THEN p ELSE booking.coords[z]
  BY Zenon, <1>2, <1>3
<1>5. booking' = [booking EXCEPT !.answered = booking.answered \cup {s}, !.coords = coords]
  BY Zenon, <1>1, <1>2 DEF Answered, Bookings
<1> HIDE DEF coords
<1>6. /\ booking' \in Bookings /\ booking'.at = booking.at /\ booking'.address = booking.address
      /\ booking'.coords = coords /\ booking'.stage = booking.stage
  <2>1. booking.answered \cup {s} \in SUBSET Sides
    BY Zenon, <1>2
  <2> QED
    BY <1>1, <1>4, <1>5, <2>1 DEF Bookings
<1>7. \A z \in Sides : booking'.coords[z] \in {Nowhere, Location[booking'.address[z]]}
  BY Zenon, <1>4, <1>6 DEF GateInv, BookingInv
<1>8. booking.stage # "launch"
  BY Zenon DEF GateInv, BookingInv
<1>9. BookingInv'
  BY Zenon, <1>6, <1>7, <1>8 DEF BookingInv, Resolved
<1> QED
  BY Zenon, <1>9 DEF GateInv

LEMMA GeocodeKeeps ==
  ASSUME GateInv, NEW s \in Sides, GeocodeHit(s) \/ GeocodeFetched(s) \/ GeocodeFailed(s)
  PROVE  GateInv'
<1> DEFINE a == booking.address[s]
<1>1. a \in Addresses /\ booking.at = "geocoding"
  BY Zenon, BookingFields DEF GateInv, BookingInv, GeocodeHit, GeocodeFetched, GeocodeFailed
<1>2. zones' = zones
  BY Zenon DEF GeocodeHit, GeocodeFetched, GeocodeFailed
<1>3. CacheIsTrue
  BY DEF GateInv
<1>4. CASE GeocodeHit(s)
  <2>1. CacheIsTrue'
    BY Zenon, <1>3, <1>4 DEF GeocodeHit, CacheIsTrue
  <2> DEFINE p == IF geoCache[a] = <<"miss">> THEN Nowhere ELSE geoCache[a][2]
  <2>2. booking' = Answered(s, p) /\ geoCache[a] # <<"none">>
    BY Zenon, <1>4 DEF GeocodeHit
  <2>3. p \in {Nowhere, Location[a]}
    BY <1>1, <1>3, <2>2 DEF CacheIsTrue
  <2> HIDE DEF p
  <2> QED
    BY Zenon, <1>1, <1>2, <2>1, <2>2, <2>3, AnswerKeeps
<1>5. CASE GeocodeFailed(s)
  <2>1. CacheIsTrue'
    BY Zenon, <1>3, <1>5 DEF GeocodeFailed, CacheIsTrue
  <2> QED
    BY Zenon, <1>1, <1>2, <1>5, <2>1, AnswerKeeps DEF GeocodeFailed
<1>6. CASE GeocodeFetched(s)
  <2> DEFINE entry == IF Location[a] = Nowhere THEN <<"miss">> ELSE <<"found", Location[a]>>
  <2>1. geoCache' = [geoCache EXCEPT ![a] = entry] /\ booking' = Answered(s, Location[a])
    BY Zenon, <1>6 DEF GeocodeFetched
  <2>2. entry = <<"miss">> \/ (Location[a] # Nowhere /\ entry = <<"found", Location[a]>>)
    BY Zenon
  <2> HIDE DEF entry
  <2>3. CacheIsTrue'
    <3>1. geoCache' = [b \in Addresses |-> IF b = a THEN entry ELSE geoCache[b]]
      BY <1>1, <1>3, <2>1 DEF CacheIsTrue
    <3> QED
      BY Zenon, <1>3, <2>2, <3>1 DEF CacheIsTrue
  <2> QED
    BY Zenon, <1>1, <1>2, <2>1, <2>3, AnswerKeeps
<1> QED
  BY <1>4, <1>5, <1>6

LEMMA CachesExpireKeeps ==
  ASSUME GateInv, CachesExpire PROVE GateInv'
<1>1. zones' = zones /\ booking' = booking
  BY DEF CachesExpire
<1>2. CacheIsTrue'
  <2>1. CASE geoCache' = geoCache
    BY <2>1 DEF GateInv, CacheIsTrue
  <2>2. ASSUME NEW a \in Addresses, geoCache' = [geoCache EXCEPT ![a] = <<"none">>] PROVE CacheIsTrue'
    <3>1. geoCache' = [b \in Addresses |-> IF b = a THEN <<"none">> ELSE geoCache[b]]
      BY <2>2 DEF GateInv, CacheIsTrue
    <3> QED
      BY <3>1 DEF GateInv, CacheIsTrue
  <2> QED
    BY <2>1, <2>2 DEF CachesExpire
<1>3. BookingInv'
  BY <1>1 DEF GateInv, BookingInv, RouteCleared, HardCode
<1> QED
  BY <1>1, <1>2, <1>3 DEF GateInv

LEMMA GateCheckKeeps ==
  ASSUME GateInv, ResolvesRoute \/ ChecksRoute \/ ZonesUnreadable \/ ChecksWeather \/ Price \/ Preflight
  PROVE  GateInv'
<1>1. geoCache' = geoCache /\ zones' = zones
  BY DEF ResolvesRoute, ChecksRoute, ZonesUnreadable, ChecksWeather, Price, Preflight
<1>2. booking \in Bookings
  BY DEF GateInv, BookingInv
<1>3. CASE ResolvesRoute
  <2>0. booking.at = "geocoding"
    BY <1>3 DEF ResolvesRoute
  <2>1. booking.stage # "launch"
    BY <2>0 DEF GateInv, BookingInv
  <2>2. CASE booking' = [booking EXCEPT !.at = "refused"]
    <3>1. "refused" \in GateSteps
      BY DEF GateSteps
    <3>2. /\ booking' \in Bookings /\ booking'.at = "refused" /\ booking'.address = booking.address
          /\ booking'.coords = booking.coords /\ booking'.stage = booking.stage
      BY <1>2, <2>2, <3>1, StepTo
    <3> QED
      BY <1>1, <2>1, <3>2, BookingMoves DEF Resolved
  <2>3. CASE /\ booking' = [booking EXCEPT !.at = "checking", !.coords = ResolveCoords]
             /\ \A s \in Sides : ResolveCoords[s] # Nowhere
    <3>1. booking.coords \in [Sides -> GatePoints] /\ ResolveCoords = booking.coords
      BY <1>2, BookingFields DEF ResolveCoords
    <3>2. /\ booking' \in Bookings /\ booking'.at = "checking" /\ booking'.address = booking.address
          /\ booking'.coords = booking.coords /\ booking'.stage = booking.stage
      BY <1>2, <2>3, <3>1 DEF Bookings, GateSteps
    <3> QED
      BY <1>1, <2>1, <2>3, <3>1, <3>2, BookingMoves DEF Resolved
  <2> QED
    BY <1>3, <2>2, <2>3 DEF ResolvesRoute
<1>4. ASSUME NEW code, booking.at \in {"checking", "weather"}, booking' = Verdict(code), code = "none" => RouteCleared
      PROVE  GateInv'
  <2>1. /\ booking' \in Bookings /\ booking'.address = booking.address /\ booking'.coords = booking.coords
        /\ booking'.stage = booking.stage /\ booking'.priced = booking.priced
        /\ booking.stage = "create" => booking'.at \in {"pricing", "refused"}
        /\ booking.stage = "launch" => booking'.at \in {"launched", "accepted", "aborted"}
        /\ booking'.at = "launched" => code = "none"
    BY <1>2, <1>4, VerdictIs
  <2>2. booking.stage \in {"create", "launch"}
    BY <1>2, BookingFields
  <2>3. \A s \in Sides : booking.coords[s] # Nowhere
    BY <1>4 DEF GateInv, BookingInv, Resolved
  <2>4. booking.stage = "launch" => booking.priced = Distance2(booking.coords["from"], booking.coords["to"])
    BY DEF GateInv, BookingInv
  <2>5. booking'.at \in {"weather", "launched"} => RouteCleared
    BY <1>4, <2>1, <2>2
  <2>6. booking'.at \in {"accepted", "launched"} => booking'.stage = "launch"
    BY <2>1, <2>2
  <2>7. booking'.stage = "launch" =>
           /\ booking'.at \in {"accepted", "checking", "weather", "launched", "aborted"}
           /\ booking'.priced = Distance2(booking.coords["from"], booking.coords["to"])
    BY <2>1, <2>4
  <2> QED
    BY <1>1, <2>1, <2>3, <2>5, <2>6, <2>7, BookingMoves
<1>5. CASE ChecksRoute
  <2> DEFINE code == HardCode(booking.coords["from"], booking.coords["to"])
  <2>1. booking.at = "checking" /\ booking' = IF code = "none" THEN [booking EXCEPT !.at = "weather"] ELSE Verdict(code)
    BY <1>5 DEF ChecksRoute
  <2>2. CASE code = "none"
    <3>1. "weather" \in GateSteps
      BY DEF GateSteps
    <3>2. /\ booking' \in Bookings /\ booking'.at = "weather" /\ booking'.address = booking.address
          /\ booking'.coords = booking.coords /\ booking'.stage = booking.stage /\ booking'.priced = booking.priced
      BY <1>2, <2>1, <2>2, <3>1, StepTo
    <3>3. RouteCleared
      BY <2>2 DEF RouteCleared
    <3>4. /\ \A s \in Sides : booking.coords[s] # Nowhere
          /\ booking.stage = "launch" => booking.priced = Distance2(booking.coords["from"], booking.coords["to"])
      BY <2>1 DEF GateInv, BookingInv, Resolved
    <3> HIDE DEF code
    <3> QED
      BY <1>1, <3>2, <3>3, <3>4, BookingMoves
  <2>3. CASE code # "none"
    <3>1. booking' = Verdict(code)
      BY <2>1, <2>3
    <3> HIDE DEF code
    <3> QED
      BY <1>4, <2>1, <2>3, <3>1
  <2> QED
    BY <2>2, <2>3
<1>6. CASE ZonesUnreadable
  <2>1. booking.at = "checking" /\ booking' = Verdict("NO_FLY_ZONE")
    BY <1>6 DEF ZonesUnreadable
  <2> QED
    BY <1>4, <2>1
<1>7. CASE ChecksWeather
  <2>1. booking.at = "weather"
    BY <1>7 DEF ChecksWeather
  <2>2. PICK code : booking' = Verdict(code)
    BY <1>7 DEF ChecksWeather
  <2>3. RouteCleared
    BY <2>1 DEF GateInv, BookingInv
  <2> QED
    BY <1>4, <2>1, <2>2, <2>3
<1>8. CASE Price
  <2> DEFINE length == Distance2(booking.coords["from"], booking.coords["to"])
  <2>1. booking.at = "pricing" /\ booking' = [booking EXCEPT !.at = "accepted", !.stage = "launch", !.priced = length]
    BY <1>8 DEF Price
  <2>2. \A s \in Sides : booking.coords[s] # Nowhere
    BY <2>1 DEF GateInv, BookingInv, Resolved
  <2>3. length \in Int
    <3>1. booking.coords["from"] \in Int \X Int /\ booking.coords["to"] \in Int \X Int
      BY <1>2, <2>2, BookingFields DEF GatePoints, Sides
    <3> QED
      BY <3>1 DEF Distance2, Square
  <2> HIDE DEF length
  <2>4. /\ booking' \in Bookings /\ booking'.at = "accepted" /\ booking'.address = booking.address
        /\ booking'.coords = booking.coords /\ booking'.stage = "launch" /\ booking'.priced = length
    BY <1>2, <2>1, <2>3 DEF Bookings, GateSteps
  <2>5. booking'.priced = Distance2(booking.coords["from"], booking.coords["to"])
    BY <2>4 DEF length
  <2> QED
    BY <1>1, <2>2, <2>4, <2>5, BookingMoves
<1>9. CASE Preflight
  <2>1. booking.at = "accepted" /\ booking' = [booking EXCEPT !.at = "checking"] /\ "checking" \in GateSteps
    BY <1>9 DEF Preflight, GateSteps
  <2>2. /\ booking' \in Bookings /\ booking'.at = "checking" /\ booking'.address = booking.address
        /\ booking'.coords = booking.coords /\ booking'.stage = booking.stage /\ booking'.priced = booking.priced
    BY <1>2, <2>1, StepTo
  <2>3. /\ \A s \in Sides : booking.coords[s] # Nowhere
        /\ booking.stage = "launch" => booking.priced = Distance2(booking.coords["from"], booking.coords["to"])
    BY <2>1 DEF GateInv, BookingInv, Resolved
  <2> QED
    BY <1>1, <2>2, <2>3, BookingMoves
<1> QED
  BY <1>3, <1>5, <1>6, <1>7, <1>8, <1>9

LEMMA ConditionsChangeKeeps ==
  ASSUME GateInv, ConditionsChange PROVE GateInv'
<1>1. booking.at = "accepted" /\ booking' = booking /\ geoCache' = geoCache
  BY DEF ConditionsChange
<1>2. zones' \subseteq Zones
  BY DEF ConditionsChange, GateInv
<1>3. CacheIsTrue'
  BY <1>1 DEF GateInv, CacheIsTrue
<1>4. BookingInv'
  BY <1>1 DEF GateInv, BookingInv
<1> QED
  BY <1>2, <1>3, <1>4 DEF GateInv

\* Whatever the caller pinned, the caches held and the providers failed to answer, and however the
\* zones change between the booking and its launch: what launches flies between the places its
\* addresses name, is priced by that distance, lies in the service area at both ends, and none of
\* its quarter points is in a zone in force at the last check (serviceability.service.ts
\* pointToSegmentKm, deliveries.service.ts resolveCoords).  The geometry is proved for every route
\* and every circle, the clamped projection included.
THEOREM LaunchIsClear == GateSpec => []LaunchedRouteIsClear
<1>1. GateInit => GateInv
  <2> SUFFICES ASSUME GateInit PROVE GateInv
    OBVIOUS
  <2>1. CacheIsTrue
    BY DEF GateInit, CacheIsTrue
  <2>2. booking \in Bookings /\ booking.at = "none" /\ booking.stage = "create" /\ booking.coords = [s \in Sides |-> Nowhere]
    BY UnbookedIs DEF GateInit
  <2>3. BookingInv
    BY <2>2 DEF BookingInv, Resolved
  <2> QED
    BY <2>1, <2>3 DEF GateInv, GateInit
<1>2. GateInv /\ [GateNext]_gateVars => GateInv'
  <2> SUFFICES ASSUME GateInv, [GateNext]_gateVars PROVE GateInv'
    OBVIOUS
  <2>1. CASE UNCHANGED gateVars
    BY <2>1 DEF gateVars, GateInv, CacheIsTrue, BookingInv, RouteCleared, HardCode
  <2>2. CASE GateNext
    BY <2>2, BeginKeeps, GeocodeKeeps, CachesExpireKeeps, GateCheckKeeps, ConditionsChangeKeeps DEF GateNext
  <2> QED
    BY <2>1, <2>2
<1>3. GateInv => LaunchedRouteIsClear
  <2> SUFFICES ASSUME GateInv, booking.at = "launched" PROVE LaunchedRouteIsClear
    BY DEF LaunchedRouteIsClear
  <2> DEFINE a == Location[booking.address["from"]]
             b == Location[booking.address["to"]]
  <2>1. /\ booking.coords["from"] = a /\ booking.coords["to"] = b /\ a # Nowhere /\ b # Nowhere
        /\ booking.priced = Distance2(booking.coords["from"], booking.coords["to"])
    BY DEF GateInv, BookingInv, Resolved, Sides
  <2>2. a \in Int \X Int /\ b \in Int \X Int
    <3>1. booking.address["from"] \in Addresses /\ booking.address["to"] \in Addresses
      BY BookingFields DEF GateInv, BookingInv, Sides
    <3> QED
      BY <2>1, <3>1, GateAssumption DEF GateAssumption
  <2> HIDE DEF a, b
  <2>3. HardCode(a, b) = "none"
    BY <2>1 DEF GateInv, BookingInv, RouteCleared
  <2>4. /\ IsInAnyArea(a) /\ IsInAnyArea(b)
        /\ \A z \in zones : ~InCircle(a, z) /\ ~InCircle(b, z) /\ ~RouteNearCircle(a, b, z)
    BY <2>3, NoBlocker
  <2>5. ASSUME NEW z \in zones PROVE Clear(a, b, z)
    <3>1. z.x \in Int /\ z.y \in Int /\ z.radius \in Int
      BY GateAssumption DEF GateAssumption, GateInv
    <3> QED
      BY <2>2, <2>4, <3>1, RouteIsClear
  <2> QED
    BY <2>1, <2>4, <2>5 DEF LaunchedRouteIsClear, a, b
<1> QED
  BY <1>1, <1>2, <1>3, PTL DEF GateSpec

----------------------------------------------------------------------------
(* FlightSafety, for any range, payload limit, burn and lag.               *)

\* The charge the way home from x takes with a load, and the charge of n steps away from
\* home and back.
Need(load, x) == BURN[load] * Distance(x, 0)
Slack(load, n) == 2 * BURN[load] * n

\* The steps of the attempts commands.issue may still refuse.
Retries(n) == (MaxRefused - n) * Patience

\* The steps the aircraft can still fly before it turns.
StepsLeft ==
  IF recall # None THEN MaxLag - recall
  ELSE MaxLag + Retries(refused) + (IF reported /\ cooldown = 0 THEN 1 ELSE cooldown)

Between(x, y) == (0 <= x /\ x <= y) \/ (y <= x /\ x <= 0)

FlightStatuses == RETURNABLE_STATUSES \cup {"none", "DRONE_ASSIGNED", "DELIVERED", "RETURNING"}

\* What holds of the aircraft and of its row at all times: neither has more charge than the
\* way it is from home leaves it.
FlightTypes ==
  /\ place \in Int /\ charge \in Int
  /\ drone = [place |-> drone.place, percent |-> drone.percent]
  /\ drone.place \in Int /\ drone.percent \in Int
  /\ mission \in [from : Int, to : Int, load : Payloads \cup {0}, status : FlightStatuses]
  /\ mission.load <= MAX_PAYLOAD /\ (mission.status # "none" => mission.load \in Payloads)
  /\ reported \in BOOLEAN /\ recall \in None..MaxLag
  /\ cooldown \in 0..AUTO_RETURN_COOLDOWN /\ refused \in 0..MaxRefused
  /\ charge <= 100 * PARTS - Need(0, place)
  /\ drone.percent * PARTS <= 100 * PARTS - Need(0, drone.place)
  /\ mission.status \notin RETURNABLE_STATUSES => recall = None

\* What the phase of the mission says of its charge.
OnTheGround == mission.status = "none" => place = 0 /\ charge = 100 * PARTS
OutboundEmpty ==
  mission.status = "DRONE_ASSIGNED" =>
    /\ cooldown = 0 /\ Between(place, mission.from)
    /\ charge = 100 * PARTS - Need(0, place)
    /\ 2 * Need(0, mission.from) <= 100 * PARTS
    /\ 100 * PARTS - Need(0, mission.from) - Need(mission.load, mission.from)
         >= Slack(mission.load, StepsToTurn)
Laden == mission.status \in RETURNABLE_STATUSES => charge >= Need(mission.load, place) + Slack(mission.load, StepsLeft)
Homebound ==
  /\ mission.status = "DELIVERED" => charge >= Need(0, place)
  /\ mission.status = "RETURNING" => charge >= Need(mission.load, place)

FlightInv == FlightTypes /\ OnTheGround /\ OutboundEmpty /\ Laden /\ Homebound

----------------------------------------------------------------------------
(* Arithmetic.                                                             *)

LEMMA FlightConstants ==
  /\ RANGE \in Nat /\ RANGE > 0 /\ MAX_PAYLOAD \in Nat /\ MAX_PAYLOAD > 0 /\ PARTS \in Nat /\ PARTS > 0
  /\ AUTO_RETURN_COOLDOWN \in Nat /\ MaxLag \in Nat /\ MaxRefused \in Nat
  /\ Places \subseteq Int /\ Payloads \subseteq Nat
  /\ \A l \in Payloads \cup {0} : l \in Nat /\ BURN[l] \in Nat /\ BURN[0] <= BURN[l]
  /\ BURN[0] \in Nat
BY FlightAssumption DEF FlightAssumption

LEMMA Times ==
  ASSUME NEW a \in Int, NEW b \in Int, NEW c \in Int
  PROVE  /\ a * b \in Int /\ a * b = b * a
         /\ a * (b + c) = a * b + a * c /\ a * (b - c) = a * b - a * c
         /\ a * (b * c) = (a * b) * c
OBVIOUS

LEMMA TimesMonotone ==
  ASSUME NEW a \in Nat, NEW b \in Int, NEW c \in Int, b <= c
  PROVE  a * b <= a * c
<1> DEFINE d == c - b
<1>1. d \in Nat /\ c = b + d
  OBVIOUS
<1>2. a * d >= 0
  BY <1>1
<1>3. a * c = a * b + a * d
  BY <1>1, Times
<1> HIDE DEF d
<1> QED
  BY <1>1, <1>2, <1>3, Times

\* Distances from home.
LEMMA Away ==
  ASSUME NEW x \in Int
  PROVE  Distance(x, 0) \in Nat /\ (x >= 0 => Distance(x, 0) = x) /\ (x <= 0 => Distance(x, 0) = 0 - x)
BY DEF Distance

LEMMA NeedIs ==
  ASSUME NEW l \in Payloads \cup {0}, NEW x \in Int, NEW y \in Int
  PROVE  /\ Need(l, x) \in Nat
         /\ Distance(y, 0) <= Distance(x, 0) + 1 => Need(l, y) <= Need(l, x) + BURN[l]
         /\ Distance(y, 0) = Distance(x, 0) + 1 => Need(l, y) = Need(l, x) + BURN[l]
         /\ Distance(y, 0) = Distance(x, 0) - 1 => Need(l, y) = Need(l, x) - BURN[l]
         /\ Distance(y, 0) <= Distance(x, 0) => Need(l, y) <= Need(l, x)
         /\ Need(0, x) <= Need(l, x)
         /\ Need(l, 0) = 0
<1> DEFINE b == BURN[l]  u == Distance(x, 0)  v == Distance(y, 0)
<1>1. b \in Nat /\ u \in Nat /\ v \in Nat /\ BURN[0] \in Nat /\ BURN[0] <= b
  BY Away, FlightConstants
<1>2. Need(l, x) = b * u /\ Need(l, y) = b * v /\ Need(0, x) = BURN[0] * u /\ Need(l, 0) = b * 0
  BY DEF Need, Distance
<1> HIDE DEF b, u, v
<1>3. b * u \in Nat /\ b * v \in Nat /\ b * 0 = 0 /\ b * (u + 1) = b * u + b /\ b * (u - 1) = b * u - b
  BY <1>1
<1>4. v <= u + 1 => b * v <= b * (u + 1)
  BY <1>1, TimesMonotone
<1>5. v <= u => b * v <= b * u
  BY <1>1, TimesMonotone
<1>6. BURN[0] * u <= b * u
  <2>1. u * BURN[0] <= u * b
    BY <1>1, TimesMonotone
  <2> QED
    BY <1>1, <2>1, Times
<1> QED
  BY <1>1, <1>2, <1>3, <1>4, <1>5, <1>6 DEF b, u, v

LEMMA SlackIs ==
  ASSUME NEW l \in Payloads \cup {0}, NEW n \in Int, NEW m \in Int
  PROVE  /\ Slack(l, n) \in Int /\ Slack(l, 0) = 0
         /\ n <= m => Slack(l, n) <= Slack(l, m)
         /\ m = n - 1 => Slack(l, m) = Slack(l, n) - 2 * BURN[l]
<1> DEFINE b == 2 * BURN[l]
<1>1. b \in Nat
  BY FlightConstants
<1>2. Slack(l, n) = b * n /\ Slack(l, m) = b * m /\ Slack(l, 0) = b * 0 /\ 2 * BURN[l] = b
  BY DEF Slack
<1> HIDE DEF b
<1>3. n <= m => b * n <= b * m
  BY <1>1, TimesMonotone
<1>4. b * (n - 1) = b * n - b /\ b * 0 = 0 /\ b * n \in Int
  BY <1>1
<1> QED
  BY <1>1, <1>2, <1>3, <1>4

LEMMA RetriesIs ==
  ASSUME NEW n \in 0..MaxRefused
  PROVE  /\ Patience \in Nat /\ Patience >= 1 /\ Patience >= AUTO_RETURN_COOLDOWN
         /\ (AUTO_RETURN_COOLDOWN > 0 => Patience = AUTO_RETURN_COOLDOWN)
         /\ Retries(n) \in Nat /\ StepsToTurn \in Nat
         /\ MaxLag + Retries(n) + 1 <= StepsToTurn
         /\ n < MaxRefused => Retries(n + 1) = Retries(n) - Patience
<1>1. /\ Patience \in Nat /\ Patience >= 1 /\ Patience >= AUTO_RETURN_COOLDOWN
      /\ (AUTO_RETURN_COOLDOWN > 0 => Patience = AUTO_RETURN_COOLDOWN)
  BY FlightConstants DEF Patience
<1> DEFINE w == Patience  r == MaxRefused - n
<1>2. r \in Nat /\ r <= MaxRefused /\ MaxRefused \in Nat /\ w \in Nat /\ MaxLag \in Nat
  BY <1>1, FlightConstants
<1>3. Retries(n) = r * w /\ Retries(n + 1) = (r - 1) * w /\ StepsToTurn = 1 + MaxRefused * w + MaxLag
  BY FlightConstants, <1>2 DEF Retries, StepsToTurn
<1> HIDE DEF w, r
<1>4. w * r <= w * MaxRefused /\ w * r = r * w /\ w * MaxRefused = MaxRefused * w
  BY <1>2, TimesMonotone, Times
<1>5. (r - 1) * w = r * w - w /\ r * w \in Nat /\ MaxRefused * w \in Nat
  BY <1>2
<1> QED
  BY <1>1, <1>2, <1>3, <1>4, <1>5 DEF w

LEMMA TimesCancel ==
  ASSUME NEW m \in Nat, m > 0, NEW a \in Int, NEW b \in Int, m * a <= m * b
  PROVE  a <= b
<1> SUFFICES ASSUME b + 1 <= a PROVE FALSE
  OBVIOUS
<1>1. m * (b + 1) <= m * a
  BY TimesMonotone
<1>2. m * (b + 1) = m * b + m /\ m * a \in Int /\ m * b \in Int
  OBVIOUS
<1> QED
  BY <1>1, <1>2

\* A distance n that the usable range of a charge covers k / 8000 times costs at most
\* 6000 / k of that charge.
LEMMA RangeCovers ==
  ASSUME NEW l \in Payloads, l <= MAX_PAYLOAD, NEW n \in Nat, NEW p \in Nat, NEW k \in Nat,
         n * (k * MAX_PAYLOAD) <= UsableRange(p, l)
  PROVE  k * (BURN[l] * n) <= 6000 * (p * PARTS)
<1> DEFINE m == MAX_PAYLOAD  b == BURN[l]  d == 20 * MAX_PAYLOAD - 7 * l  f == RANGE * d
<1>1. /\ m \in Nat /\ m > 0 /\ b \in Nat /\ PARTS \in Nat /\ RANGE \in Nat /\ RANGE > 0
      /\ l \in Nat /\ d \in Nat
  BY FlightConstants
<1>2. f \in Nat /\ b * f <= 2000 * (PARTS * m)
  <2>1. b * RANGE * d <= 100 * PARTS * 20 * m
    BY FlightAssumption DEF FlightAssumption
  <2> QED
    BY <1>1, <2>1, Times
<1>3. UsableRange(p, l) = 3 * (p * f)
  <2>1. LoadFraction(l) = l
    BY <1>1 DEF LoadFraction
  <2>2. UsableRange(p, l) = RANGE * p * d * 3
    BY <1>1, <2>1 DEF UsableRange
  <2> QED
    BY <1>1, <2>2, Times
<1> HIDE DEF m, b, d, f
<1>4. n * (k * m) <= 3 * (p * f)
  BY <1>3 DEF m
<1>5. b * (n * (k * m)) <= b * (3 * (p * f))
  BY <1>1, <1>2, <1>4, TimesMonotone, Times
<1>6. b * (3 * (p * f)) = (3 * p) * (b * f)
  BY <1>1, <1>2
<1>7. (3 * p) * (b * f) <= (3 * p) * (2000 * (PARTS * m))
  BY <1>1, <1>2, TimesMonotone, Times
<1>8. (3 * p) * (2000 * (PARTS * m)) = m * (6000 * (p * PARTS))
  BY <1>1
<1>9. b * (n * (k * m)) = m * (k * (b * n))
  BY <1>1
<1>10. m * (k * (b * n)) <= m * (6000 * (p * PARTS))
  <2> DEFINE s == b * (n * (k * m))  t == (3 * p) * (b * f)  u == (3 * p) * (2000 * (PARTS * m))
  <2>1. s \in Int /\ t \in Int /\ u \in Int
    BY <1>1, <1>2
  <2>2. s <= t /\ t <= u
    BY <1>5, <1>6, <1>7
  <2>3. s = m * (k * (b * n)) /\ u = m * (6000 * (p * PARTS))
    BY <1>8, <1>9
  <2> HIDE DEF s, t, u
  <2>4. s <= u
    BY <2>1, <2>2
  <2> QED
    BY <2>3, <2>4
<1>11. k * (b * n) \in Int /\ 6000 * (p * PARTS) \in Int
  BY <1>1
<1>12. k * (b * n) <= 6000 * (p * PARTS)
  BY <1>1, <1>10, <1>11, TimesCancel
<1> QED
  BY <1>12 DEF b

\* What the recall margin is worth in charge.
LEMMA MarginIs ==
  ASSUME RecallMargin, NEW l \in Payloads, l <= MAX_PAYLOAD
  PROVE  23 * Slack(l, StepsToTurn) <= 128 * PARTS
<1> DEFINE b == BURN[l]  n == StepsToTurn
<1>1. b \in Nat /\ n \in Nat /\ PARTS \in Nat /\ 23 * b * n <= 64 * PARTS
  <2>1. 0 \in 0..MaxRefused
    BY FlightConstants
  <2> QED
    BY <2>1, FlightConstants, RetriesIs DEF RecallMargin
<1>2. Slack(l, n) = 2 * b * n
  BY DEF Slack
<1> HIDE DEF b, n
<1>3. 2 * b * n = 2 * (b * n) /\ 23 * b * n = 23 * (b * n) /\ b * n \in Int
  BY <1>1
<1>4. 23 * Slack(l, n) <= 128 * PARTS
  BY <1>1, <1>2, <1>3
<1> QED
  BY <1>4 DEF n

\* A frame that asks for no recall leaves the margin (assessRecall: 1.15 times the way home
\* against three quarters of the range, above a critical 15 percent).
LEMMA SafeFrame ==
  ASSUME RecallMargin, NEW l \in Payloads, l <= MAX_PAYLOAD, NEW x \in Int, NEW c \in Int,
         ~AssessRecall(c \div PARTS, x, l)
  PROVE  c >= Need(l, x) + Slack(l, StepsToTurn)
<1> DEFINE p == c \div PARTS  n == Distance(x, 0)
<1>1. PARTS \in Nat /\ PARTS > 0 /\ MAX_PAYLOAD \in Nat /\ BURN[l] \in Nat /\ n \in Nat
  BY FlightConstants, Away
<1>2. p \in Int /\ p * PARTS <= c
  BY <1>1
<1>3. p > 15 /\ n * 115 * (Scale \div 100) <= UsableRange(p, l)
  <2>1. ~(p <= 15) /\ ~(n * 115 * (Scale \div 100) > UsableRange(p, l))
    BY DEF AssessRecall, CRITICAL_BATTERY_PERCENT
  <2>2. Scale \div 100 \in Int /\ UsableRange(p, l) \in Int
    BY <1>1, <1>2, FlightConstants DEF Scale, UsableRange, LoadFraction
  <2> HIDE DEF n, p
  <2> QED
    BY <1>1, <1>2, <2>1, <2>2
<1>4. Scale \div 100 = 80 * MAX_PAYLOAD
  BY <1>1 DEF Scale
<1> HIDE DEF p, n
<1>5. n * (9200 * MAX_PAYLOAD) <= UsableRange(p, l)
  <2>1. n * 115 * (80 * MAX_PAYLOAD) = n * (9200 * MAX_PAYLOAD)
    BY <1>1
  <2> QED
    BY <1>3, <1>4, <2>1
<1>6. 9200 * (BURN[l] * n) <= 6000 * (p * PARTS)
  BY <1>1, <1>2, <1>3, <1>5, RangeCovers
<1>7. Need(l, x) = BURN[l] * n
  BY DEF Need, n
<1>8. Need(l, x) \in Nat /\ Slack(l, StepsToTurn) \in Int
  <2>1. 0 \in 0..MaxRefused
    BY FlightConstants
  <2>2. StepsToTurn \in Nat
    BY <2>1, RetriesIs
  <2> QED
    BY <2>2, NeedIs, SlackIs
<1>9. p * PARTS >= 16 * PARTS /\ p * PARTS \in Int
  BY <1>1, <1>2, <1>3, TimesMonotone, Times
<1>10. 23 * Slack(l, StepsToTurn) <= 128 * PARTS
  BY MarginIs
<1> DEFINE s == Slack(l, StepsToTurn)  w == Need(l, x)  u == p * PARTS
<1>11. /\ s \in Int /\ w \in Int /\ u \in Int /\ 9200 * w <= 6000 * u /\ u >= 16 * PARTS
       /\ 23 * s <= 128 * PARTS /\ u <= c
  BY <1>2, <1>6, <1>7, <1>8, <1>9, <1>10
<1> HIDE DEF s, w, u
<1>12. c >= w + s
  BY <1>1, <1>11
<1> QED
  BY <1>12 DEF s, w

\* A mission that dispatch accepts, on a row as stale as its last flight home left it, leaves
\* an aircraft that starts with a full charge enough for the way to the pickup and, with the
\* package, back: the row's percent pays for the way it is from home.
LEMMA FeasibleReach ==
  ASSUME RecallMargin, NEW from \in Int, NEW to \in Int, NEW l \in Payloads,
         drone.place \in Int, drone.percent \in Int,
         drone.percent * PARTS <= 100 * PARTS - Need(0, drone.place), Feasible(from, to, l)
  PROVE  /\ 2 * Need(0, from) <= 100 * PARTS
         /\ 100 * PARTS - Need(0, from) - Need(l, from) >= Slack(l, StepsToTurn)
<1> DEFINE x == Distance(from, 0)  e == Distance(drone.place, from)  q == Distance(drone.place, 0)
           g == MissionDistance(from, to)  p == drone.percent
<1>1. /\ PARTS \in Nat /\ PARTS > 0 /\ MAX_PAYLOAD \in Nat /\ MAX_PAYLOAD > 0 /\ l \in Nat
      /\ BURN[l] \in Nat /\ BURN[0] \in Nat /\ BURN[0] <= BURN[l] /\ p \in Int
  BY FlightConstants
<1>2. /\ x \in Nat /\ e \in Nat /\ q \in Nat /\ g \in Nat /\ e + x <= g /\ x <= q + e
  BY DEF Distance, MissionDistance
<1>3. l <= MAX_PAYLOAD /\ p >= 25 /\ g * Scale <= UsableRange(p, l)
  BY <1>1 DEF Feasible, MIN_DISPATCH_BATTERY_PERCENT
<1>4. Need(0, from) = BURN[0] * x /\ Need(l, from) = BURN[l] * x /\ Need(0, drone.place) = BURN[0] * q
  BY DEF Need
<1>5. p * PARTS <= 100 * PARTS - BURN[0] * q
  BY <1>4
<1> HIDE DEF x, e, q, g, p
<1>6. g * (8000 * MAX_PAYLOAD) <= UsableRange(p, l)
  BY <1>3 DEF Scale
<1>7. 8000 * (BURN[l] * g) <= 6000 * (p * PARTS)
  BY <1>1, <1>2, <1>3, <1>6, RangeCovers
<1>8. BURN[l] * (e + x) <= BURN[l] * g /\ BURN[l] * (e + x) = BURN[l] * e + BURN[l] * x
  BY <1>1, <1>2, TimesMonotone, Times
<1>9. BURN[0] * x <= BURN[0] * (q + e) /\ BURN[0] * (q + e) = BURN[0] * q + BURN[0] * e
  BY <1>1, <1>2, TimesMonotone, Times
<1>10. BURN[0] * e <= BURN[l] * e /\ BURN[0] * x <= BURN[l] * x
  <2>1. e * BURN[0] <= e * BURN[l] /\ x * BURN[0] <= x * BURN[l]
    BY <1>1, <1>2, TimesMonotone
  <2> QED
    BY <1>1, <1>2, <2>1, Times
<1> DEFINE bx == BURN[l] * x  be == BURN[l] * e  ax == BURN[0] * x  ae == BURN[0] * e  aq == BURN[0] * q
           bg == BURN[l] * g  pp == p * PARTS
<1>11. /\ bx \in Int /\ be \in Nat /\ ax \in Nat /\ ae \in Nat /\ aq \in Nat /\ bg \in Int /\ pp \in Int
  BY <1>1, <1>2
<1>12. /\ be + bx <= bg /\ ax <= aq + ae /\ ae <= be /\ ax <= bx /\ pp <= 100 * PARTS - aq
       /\ 8000 * bg <= 6000 * pp
  BY <1>5, <1>7, <1>8, <1>9, <1>10
<1>13. Slack(l, StepsToTurn) \in Int /\ 23 * Slack(l, StepsToTurn) <= 128 * PARTS
  <2>1. 0 \in 0..MaxRefused
    BY FlightConstants
  <2>2. StepsToTurn \in Nat
    BY <2>1, RetriesIs
  <2> QED
    BY <1>3, <2>2, SlackIs, MarginIs
<1> HIDE DEF bx, be, ax, ae, aq, bg, pp
<1>14. 4 * bx + 3 * ax <= 300 * PARTS /\ ax <= bx
  BY <1>1, <1>11, <1>12
<1>15. 2 * ax <= 100 * PARTS /\ 100 * PARTS - ax - bx >= Slack(l, StepsToTurn)
  BY <1>1, <1>11, <1>13, <1>14
<1> QED
  BY <1>4, <1>15 DEF bx, ax

----------------------------------------------------------------------------
(* The steps.                                                              *)

LEMMA MissionFields ==
  ASSUME FlightTypes
  PROVE  /\ mission.from \in Int /\ mission.to \in Int /\ mission.load \in Payloads \cup {0}
         /\ mission.status \in FlightStatuses /\ mission.load \in Nat /\ mission.load <= MAX_PAYLOAD
         /\ (mission.status # "none" => mission.load \in Payloads)
BY FlightConstants DEF FlightTypes

\* A change of status keeps the mission's way and load.
LEMMA StatusOnly ==
  ASSUME FlightTypes, NEW s \in FlightStatuses, s # "none", mission.status # "none",
         mission' = [mission EXCEPT !.status = s]
  PROVE  /\ mission' \in [from : Int, to : Int, load : Payloads \cup {0}, status : FlightStatuses]
         /\ mission'.from = mission.from /\ mission'.to = mission.to /\ mission'.load = mission.load
         /\ mission'.status = s
BY DEF FlightTypes

LEMMA StepsLeftIs ==
  ASSUME FlightTypes
  PROVE  StepsLeft \in Nat /\ (recall = None => StepsLeft >= 0)
<1>1. /\ MaxLag \in Nat /\ recall \in None..MaxLag /\ cooldown \in Nat /\ Retries(refused) \in Nat
  BY FlightConstants, RetriesIs DEF FlightTypes
<1> QED
  BY <1>1 DEF StepsLeft, None

\* A step towards base costs as much charge as it saves.
LEMMA StepHome ==
  ASSUME NEW c \in Int, NEW n \in Int, NEW b \in Int, c >= n
  PROVE  c - b >= n - b
OBVIOUS

LEMMA Difference ==
  ASSUME NEW a \in Nat, NEW b \in Int, b <= a
  PROVE  a - b \in Nat
OBVIOUS

LEMMA StepsLeftNext ==
  ASSUME FlightTypes'
  PROVE  StepsLeft' \in Nat
<1>1. /\ MaxLag \in Nat /\ recall' \in None..MaxLag /\ cooldown' \in Nat /\ refused' \in 0..MaxRefused
  BY FlightConstants DEF FlightTypes
<1>2. Retries(refused') \in Nat
  BY Zenon, <1>1, RetriesIs
<1> DEFINE k == IF reported' /\ cooldown' = 0 THEN 1 ELSE cooldown'
<1>3. k \in Nat
  <2>1. 1 \in Nat
    OBVIOUS
  <2> QED
    BY Zenon, <1>1, <2>1
<1> HIDE DEF k
<1>4. CASE recall' = None
  <2>1. StepsLeft' = MaxLag + Retries(refused') + k
    BY Zenon, <1>4 DEF StepsLeft, Retries, k
  <2>2. MaxLag + Retries(refused') + k \in Nat
    BY <1>1, <1>2, <1>3
  <2> QED
    BY Zenon, <2>1, <2>2
<1>5. CASE recall' # None
  <2>1. StepsLeft' = MaxLag - recall'
    BY Zenon, <1>5 DEF StepsLeft
  <2>2. recall' \in Int /\ MaxLag \in Nat /\ recall' <= MaxLag
    BY <1>1 DEF None
  <2>3. MaxLag - recall' \in Nat
    BY Zenon, <2>2, Difference
  <2> QED
    BY Zenon, <2>1, <2>3
<1> QED
  BY Zenon, <1>4, <1>5

\* A step of one unit at most.
LEMMA SpendKeeps ==
  ASSUME FlightTypes, OutboundEmpty, Laden, Homebound, Spend, UNCHANGED <<drone, mission, refused>>,
         place' \in Int, Distance(place', 0) <= Distance(place, 0) + 1, mission.status # "none",
         reported,
         mission.status = "DRONE_ASSIGNED" =>
            Distance(place', 0) = Distance(place, 0) + 1 /\ Between(place', mission.from),
         mission.status \in {"DELIVERED", "RETURNING"} => Distance(place', 0) = Distance(place, 0) - 1
  PROVE  FlightInv'
<1> DEFINE l == mission.load  a == Aboard
<1>1. /\ l \in Payloads \cup {0} /\ a \in Payloads \cup {0} /\ 0 \in Payloads \cup {0}
      /\ mission.status \in FlightStatuses
  BY MissionFields DEF Aboard
<1>2. BURN[a] \in Nat /\ BURN[0] \in Nat /\ BURN[0] <= BURN[a]
  BY <1>1, FlightConstants
<1>3. /\ charge' = charge - BURN[a] /\ charge >= BURN[a] /\ reported' = FALSE /\ recall < MaxLag
      /\ recall' = IF recall = None THEN None ELSE recall + 1
      /\ cooldown' = IF cooldown = 0 THEN 0 ELSE cooldown - 1
  BY DEF Spend
<1>4. charge \in Int /\ place \in Int /\ recall \in None..MaxLag /\ cooldown \in 0..AUTO_RETURN_COOLDOWN
      /\ charge <= 100 * PARTS - Need(0, place) /\ PARTS \in Nat /\ MaxLag \in Nat /\ AUTO_RETURN_COOLDOWN \in Nat
  BY FlightConstants DEF FlightTypes
<1>5. Need(0, place') \in Nat /\ Need(0, place) \in Nat /\ Need(0, place') <= Need(0, place) + BURN[0]
  BY <1>1, <1>4, NeedIs
<1>6. FlightTypes'
  <2>1. charge' \in Int /\ charge' <= 100 * PARTS - Need(0, place')
    BY <1>2, <1>3, <1>4, <1>5
  <2>2. /\ recall' \in None..MaxLag /\ cooldown' \in 0..AUTO_RETURN_COOLDOWN
        /\ reported' \in BOOLEAN /\ (recall = None => recall' = None)
    <3>1. recall' = (IF recall = None THEN None ELSE recall + 1) /\ recall < MaxLag
      BY <1>3
    <3>2. cooldown' = IF cooldown = 0 THEN 0 ELSE cooldown - 1
      BY <1>3
    <3>3. recall' \in None..MaxLag /\ (recall = None => recall' = None)
      BY <1>4, <3>1 DEF None
    <3>4. cooldown' \in 0..AUTO_RETURN_COOLDOWN
      BY <1>4, <3>2
    <3>5. reported' \in BOOLEAN
      BY <1>3
    <3> QED
      BY <3>3, <3>4, <3>5
  <2>3. Need(0, place)' = Need(0, place') /\ Need(0, drone.place)' = Need(0, drone.place)
    BY DEF Need
  <2> QED
    BY <2>1, <2>2, <2>3 DEF FlightTypes
<1>7. OutboundEmpty'
  <2> SUFFICES ASSUME mission.status = "DRONE_ASSIGNED" PROVE OutboundEmpty'
    BY DEF OutboundEmpty
  <2>1. a = 0 /\ cooldown = 0 /\ charge = 100 * PARTS - Need(0, place)
    BY DEF Aboard, OutboundEmpty
  <2>2. Need(0, place') = Need(0, place) + BURN[0]
    BY <1>1, <1>4, NeedIs
  <2>3. charge' = 100 * PARTS - Need(0, place') /\ cooldown' = 0
    BY <1>2, <1>3, <1>4, <1>5, <2>1, <2>2
  <2>4. /\ Need(0, place)' = Need(0, place') /\ Need(0, mission.from)' = Need(0, mission.from)
        /\ Need(mission.load, mission.from)' = Need(mission.load, mission.from)
        /\ Slack(mission.load, StepsToTurn)' = Slack(mission.load, StepsToTurn)
        /\ Between(place, mission.from)' = Between(place', mission.from)
    BY DEF Need, Slack, Between
  <2> QED
    BY <2>3, <2>4 DEF OutboundEmpty
<1>8. Laden'
  <2> SUFFICES ASSUME mission.status \in RETURNABLE_STATUSES
               PROVE  charge' >= Need(l, place') + Slack(l, StepsLeft')
    BY DEF Laden, Need, Slack
  <2>1. a = l
    BY DEF Aboard, RETURNABLE_STATUSES
  <2>2. charge >= Need(l, place) + Slack(l, StepsLeft)
    BY DEF Laden
  <2>3. StepsLeft \in Nat /\ StepsLeft' \in Nat /\ StepsLeft' = StepsLeft - 1
    <3>1. StepsLeft \in Nat /\ Retries(refused) \in Nat
      BY StepsLeftIs, RetriesIs DEF FlightTypes
    <3>2. Retries(refused)' = Retries(refused)
      BY DEF Retries
    <3>3. StepsLeft' = StepsLeft - 1
      BY <1>3, <1>4, <3>1, <3>2 DEF StepsLeft, None
    <3>4. StepsLeft >= 1
      BY <1>3, <1>4, <3>1 DEF StepsLeft, None
    <3> QED
      BY <3>1, <3>3, <3>4
  <2>4. Need(l, place') <= Need(l, place) + BURN[l] /\ Need(l, place) \in Nat /\ Need(l, place') \in Nat
    BY <1>1, <1>4, NeedIs
  <2>5. Slack(l, StepsLeft') = Slack(l, StepsLeft) - 2 * BURN[l] /\ Slack(l, StepsLeft) \in Int
    BY <1>1, <2>3, SlackIs
  <2> HIDE DEF l, a
  <2> QED
    BY <1>2, <1>3, <1>4, <2>1, <2>2, <2>4, <2>5
<1>9. Homebound'
  <2>1. ASSUME mission.status = "DELIVERED" PROVE charge' >= Need(0, place')
    <3>1. a = 0 /\ charge >= Need(0, place)
      BY <2>1 DEF Aboard, Homebound
    <3>2. Need(0, place') = Need(0, place) - BURN[0]
      BY <1>1, <1>4, <2>1, NeedIs
    <3>3. charge' = charge - BURN[0] /\ Need(0, place) \in Int /\ BURN[0] \in Int /\ charge \in Int
      <4>1. charge' = charge - BURN[0]
        BY Zenon, <1>3, <3>1
      <4>2. Need(0, place) \in Int /\ BURN[0] \in Int
        BY <1>2, <1>5
      <4> QED
        BY Zenon, <1>4, <4>1, <4>2
    <3>4. charge - BURN[0] >= Need(0, place) - BURN[0]
      BY Zenon, <3>1, <3>3, StepHome
    <3> QED
      BY Zenon, <3>2, <3>3, <3>4
  <2>2. ASSUME mission.status = "RETURNING" PROVE charge' >= Need(l, place')
    <3>1. a = l /\ charge >= Need(l, place)
      BY <2>2 DEF Aboard, Homebound
    <3>2. Need(l, place') = Need(l, place) - BURN[l] /\ Need(l, place) \in Nat
      BY <1>1, <1>4, <2>2, NeedIs
    <3> HIDE DEF l, a
    <3>3. charge' = charge - BURN[l] /\ BURN[l] \in Nat
      BY Zenon, <1>2, <1>3, <3>1
    <3>4. Need(l, place) \in Int /\ BURN[l] \in Int
      BY <3>2, <3>3
    <3>5. charge - BURN[l] >= Need(l, place) - BURN[l]
      BY Zenon, <1>4, <3>1, <3>4, StepHome
    <3> QED
      BY Zenon, <3>2, <3>3, <3>5
  <2> QED
    BY <2>1, <2>2 DEF Homebound, Need
<1>10. OnTheGround'
  BY DEF OnTheGround
<1> QED
  BY <1>6, <1>7, <1>8, <1>9, <1>10 DEF FlightInv

LEMMA FlyKeeps ==
  ASSUME FlightInv, Fly
  PROVE  FlightInv'
<1>1. /\ reported /\ mission.status \in {"DRONE_ASSIGNED", "IN_TRANSIT", "DELIVERED", "RETURNING"}
      /\ place # Target /\ place' = (IF place < Target THEN place + 1 ELSE place - 1) /\ Spend
      /\ UNCHANGED <<drone, mission, holds, missions, refused>>
  BY DEF Fly
<1>2. place \in Int /\ mission.from \in Int /\ mission.to \in Int
  BY MissionFields DEF FlightInv, FlightTypes
<1>3. Target \in Int
  BY <1>1, <1>2 DEF Target
<1>4. place' \in Int /\ Distance(place', 0) <= Distance(place, 0) + 1
  BY <1>1, <1>2, <1>3 DEF Distance
<1>5. ASSUME mission.status = "DRONE_ASSIGNED"
      PROVE  Distance(place', 0) = Distance(place, 0) + 1 /\ Between(place', mission.from)
  <2>1. Target = mission.from /\ Between(place, mission.from)
    BY <1>5 DEF Target, FlightInv, OutboundEmpty
  <2> QED
    BY <1>1, <1>2, <2>1 DEF Distance, Between
<1>6. ASSUME mission.status \in {"DELIVERED", "RETURNING"} PROVE Distance(place', 0) = Distance(place, 0) - 1
  <2>1. Target = 0
    BY <1>6 DEF Target
  <2> QED
    BY <1>1, <1>2, <2>1 DEF Distance
<1> QED
  BY <1>1, <1>4, <1>5, <1>6, SpendKeeps DEF FlightInv

LEMMA HoldKeeps ==
  ASSUME FlightInv, Hold
  PROVE  FlightInv'
<1>1. /\ reported /\ mission.status \in RETURNABLE_STATUSES /\ Spend
      /\ UNCHANGED <<place, drone, mission, missions, refused>>
  BY DEF Hold
<1>2. place' \in Int /\ Distance(place', 0) <= Distance(place, 0) + 1
  BY <1>1, Away DEF FlightInv, FlightTypes
<1> QED
  BY <1>1, <1>2, SpendKeeps DEF FlightInv, RETURNABLE_STATUSES

LEMMA RecordKeeps ==
  ASSUME RecallMargin, FlightInv, Record
  PROVE  FlightInv'
<1> DEFINE l == mission.load  p == charge \div PARTS
           asks == /\ mission.status \in RETURNABLE_STATUSES /\ cooldown = 0
                   /\ AssessRecall(p, place, l)
<1>1. /\ ~reported /\ reported' = TRUE /\ drone' = UpdateDroneState
      /\ UNCHANGED <<place, charge, mission, holds, missions>>
      /\ \/ /\ asks /\ cooldown' = AUTO_RETURN_COOLDOWN
            /\ recall' = (IF recall = None THEN 0 ELSE recall) /\ refused' = refused
         \/ /\ asks /\ cooldown' = AUTO_RETURN_COOLDOWN
            /\ recall = None /\ refused < MaxRefused /\ refused' = refused + 1 /\ recall' = recall
         \/ ~asks /\ cooldown' = cooldown /\ recall' = recall /\ refused' = refused
  BY DEF Record
<1> HIDE DEF asks
<1>2. /\ charge \in Int /\ place \in Int /\ PARTS \in Nat /\ PARTS > 0 /\ recall \in None..MaxLag
      /\ cooldown \in 0..AUTO_RETURN_COOLDOWN /\ refused \in 0..MaxRefused
      /\ MaxLag \in Nat /\ MaxRefused \in Nat /\ AUTO_RETURN_COOLDOWN \in Nat
      /\ charge <= 100 * PARTS - Need(0, place)
  BY FlightConstants DEF FlightInv, FlightTypes
<1>3. l \in Payloads \cup {0} /\ l <= MAX_PAYLOAD /\ (mission.status # "none" => l \in Payloads)
  BY MissionFields DEF FlightInv
<1>4. FlightTypes'
  <2>1. /\ drone' = [place |-> drone'.place, percent |-> drone'.percent] /\ drone'.place \in Int /\ drone'.percent \in Int
        /\ drone'.percent * PARTS <= 100 * PARTS - Need(0, drone'.place)
    <3>1. CASE drone' = drone
      BY <3>1 DEF FlightInv, FlightTypes
    <3>2. CASE drone' = [place |-> place, percent |-> p]
      <4>1. p \in Int /\ p * PARTS <= charge /\ Need(0, place) \in Nat
        <5>1. p \in Int /\ p * PARTS <= charge /\ 0 \in Payloads \cup {0}
          BY <1>2
        <5>2. Need(0, place) \in Nat
          BY Zenon, <1>2, <5>1, NeedIs
        <5> QED
          BY Zenon, <5>1, <5>2
      <4>2. drone'.place = place /\ drone'.percent = p
        BY <3>2
      <4> HIDE DEF p
      <4>3. p * PARTS <= 100 * PARTS - Need(0, place)
        <5> DEFINE u == p * PARTS
        <5>1. u \in Int
          BY <1>2, <4>1
        <5> HIDE DEF u
        <5>2. u <= charge
          BY <4>1 DEF u
        <5>3. u <= 100 * PARTS - Need(0, place)
          BY <1>2, <4>1, <5>1, <5>2
        <5> QED
          BY <5>3 DEF u
      <4> QED
        BY <1>2, <3>2, <4>1, <4>2, <4>3
    <3> QED
      BY <1>1, <3>1, <3>2 DEF UpdateDroneState
  <2>2. /\ recall' \in None..MaxLag /\ cooldown' \in 0..AUTO_RETURN_COOLDOWN /\ refused' \in 0..MaxRefused
        /\ reported' \in BOOLEAN
    BY <1>1, <1>2 DEF None
  <2>3. mission.status \notin RETURNABLE_STATUSES => recall' = recall
    BY <1>1 DEF asks
  <2>4. Need(0, place)' = Need(0, place') /\ Need(0, drone.place)' = Need(0, drone'.place)
    BY DEF Need
  <2> QED
    BY <1>1, <2>1, <2>2, <2>3, <2>4 DEF FlightInv, FlightTypes
<1>5. OutboundEmpty'
  <2> SUFFICES ASSUME mission.status = "DRONE_ASSIGNED" PROVE OutboundEmpty'
    BY <1>1 DEF OutboundEmpty
  <2>1. cooldown' = cooldown
    BY <1>1 DEF asks, RETURNABLE_STATUSES
  <2>2. /\ Need(0, place)' = Need(0, place) /\ Need(0, mission.from)' = Need(0, mission.from)
        /\ Need(mission.load, mission.from)' = Need(mission.load, mission.from)
        /\ Slack(mission.load, StepsToTurn)' = Slack(mission.load, StepsToTurn)
        /\ Between(place, mission.from)' = Between(place, mission.from)
    BY <1>1 DEF Need, Slack, Between
  <2> QED
    BY <1>1, <2>1, <2>2 DEF FlightInv, OutboundEmpty
<1>6. Laden'
  <2> SUFFICES ASSUME mission.status \in RETURNABLE_STATUSES
               PROVE  charge >= Need(l, place) + Slack(l, StepsLeft')
    BY <1>1 DEF Laden, Need, Slack
  <2>1. charge >= Need(l, place) + Slack(l, StepsLeft)
    BY DEF FlightInv, Laden
  <2>2. /\ StepsLeft \in Nat /\ StepsLeft' \in Nat /\ Retries(refused) \in Nat /\ Retries(refused') \in Nat
        /\ Retries(refused)' = Retries(refused')
    <3>1. FlightTypes /\ refused' \in 0..MaxRefused
      BY <1>4 DEF FlightInv, FlightTypes
    <3>2. Retries(refused)' = Retries(refused')
      BY DEF Retries
    <3>3. StepsLeft' \in Nat
      BY Zenon, <1>4, StepsLeftNext
    <3> QED
      BY <3>1, <3>2, <3>3, StepsLeftIs, RetriesIs, <1>2
  <2> DEFINE n == StepsLeft  m == StepsLeft'
  <2>3. n \in Nat /\ m \in Nat /\ Need(l, place) \in Nat
    BY <1>2, <1>3, <2>2, NeedIs
  <2>4. CASE m <= n
    <3> HIDE DEF n, m, l
    <3>1. Slack(l, m) <= Slack(l, n) /\ Slack(l, n) \in Int /\ Slack(l, m) \in Int
      BY <1>3, <2>3, <2>4, SlackIs
    <3>2. charge >= Need(l, place) + Slack(l, n)
      BY <2>1 DEF n
    <3>3. charge >= Need(l, place) + Slack(l, m)
      BY <1>2, <2>3, <3>1, <3>2
    <3> QED
      BY <3>3 DEF m
  <2>5. CASE ~asks /\ cooldown = 0 /\ recall = None
    <3>1. ~AssessRecall(p, place, l) /\ l \in Payloads
      BY <1>3, <2>5 DEF asks, RETURNABLE_STATUSES
    <3>2. charge >= Need(l, place) + Slack(l, StepsToTurn)
      BY <1>2, <1>3, <3>1, SafeFrame
    <3>3. m <= StepsToTurn /\ StepsToTurn \in Nat
      BY <1>1, <1>2, <2>2, <2>5, RetriesIs DEF StepsLeft
    <3> HIDE DEF n, m, l
    <3>4. Slack(l, m) <= Slack(l, StepsToTurn) /\ Slack(l, StepsToTurn) \in Int /\ Slack(l, m) \in Int
      BY <1>3, <2>3, <3>3, SlackIs
    <3>5. charge >= Need(l, place) + Slack(l, m)
      BY <1>2, <2>3, <3>2, <3>4
    <3> QED
      BY <3>5 DEF m
  <2>6. ASSUME ~(~asks /\ cooldown = 0 /\ recall = None) PROVE StepsLeft' <= StepsLeft
    <3>1. CASE recall # None
      BY <1>1, <1>2, <3>1 DEF StepsLeft
    <3>2. CASE recall = None /\ recall' # None
      BY <1>1, <1>2, <2>2, <3>2 DEF StepsLeft, None, asks
    <3>3. CASE recall = None /\ recall' = None /\ refused' = refused + 1
      <4>1. refused < MaxRefused /\ cooldown' = AUTO_RETURN_COOLDOWN /\ cooldown = 0
        BY <1>1, <1>2, <3>3 DEF asks
      <4>2. Retries(refused') = Retries(refused) - Patience
        BY <1>2, <3>3, <4>1, RetriesIs
      <4>3. Patience \in Nat /\ Patience >= 1 /\ Patience >= AUTO_RETURN_COOLDOWN
        BY <1>2, RetriesIs
      <4> QED
        BY <1>1, <1>2, <2>2, <3>3, <4>1, <4>2, <4>3 DEF StepsLeft
    <3>4. CASE recall = None /\ recall' = None /\ refused' = refused
      <4>1. cooldown > 0 /\ cooldown' = cooldown
        BY <1>1, <1>2, <2>6, <3>4 DEF None, asks
      <4> QED
        BY <1>1, <1>2, <2>2, <3>4, <4>1 DEF StepsLeft
    <3> QED
      BY <1>1, <3>1, <3>2, <3>3, <3>4
  <2> QED
    BY <2>4, <2>5, <2>6
<1>7. OnTheGround' /\ Homebound'
  BY <1>1 DEF FlightInv, OnTheGround, Homebound, Need
<1> QED
  BY <1>4, <1>5, <1>6, <1>7 DEF FlightInv

\* What is on its way home, or was handed off, needs no recall any more.
LEMMA TurnKeeps ==
  ASSUME FlightInv, NEW s \in {"DELIVERED", "RETURNING"}, mission.status \in RETURNABLE_STATUSES,
         mission' = [mission EXCEPT !.status = s], recall' = None,
         UNCHANGED <<place, charge, drone, reported, cooldown, refused>>
  PROVE  FlightInv'
<1> DEFINE l == mission.load
<1>1. /\ mission' \in [from : Int, to : Int, load : Payloads \cup {0}, status : FlightStatuses]
      /\ mission'.from = mission.from /\ mission'.load = l /\ mission'.status = s
  BY StatusOnly DEF FlightInv, FlightStatuses, RETURNABLE_STATUSES
<1>2. l \in Payloads \cup {0} /\ l \in Payloads /\ l <= MAX_PAYLOAD
  BY MissionFields DEF FlightInv, RETURNABLE_STATUSES
<1>3. charge \in Int /\ place \in Int /\ StepsLeft \in Nat
  BY StepsLeftIs DEF FlightInv, FlightTypes
<1>4. charge >= Need(l, place) + Slack(l, StepsLeft)
  BY DEF FlightInv, Laden
<1> DEFINE n == StepsLeft
<1>5. charge >= Need(l, place) /\ charge >= Need(0, place)
  <2>1. n \in Nat /\ charge >= Need(l, place) + Slack(l, n)
    BY <1>3, <1>4
  <2> HIDE DEF n, l
  <2>2. Slack(l, 0) <= Slack(l, n) /\ Slack(l, 0) = 0 /\ Slack(l, n) \in Int
    BY <1>2, <2>1, SlackIs
  <2>3. Need(l, place) \in Nat /\ Need(0, place) \in Nat /\ Need(0, place) <= Need(l, place)
    BY <1>2, <1>3, NeedIs
  <2> QED
    BY <1>3, <2>1, <2>2, <2>3
<1>6. FlightTypes'
  <2>1. Need(0, place)' = Need(0, place) /\ Need(0, drone.place)' = Need(0, drone.place)
    BY DEF Need
  <2>2. None \in None..MaxLag
    BY FlightConstants DEF None
  <2> QED
    BY <1>1, <1>2, <2>1, <2>2 DEF FlightInv, FlightTypes
<1>7. OnTheGround' /\ OutboundEmpty' /\ Laden'
  BY <1>1 DEF OnTheGround, OutboundEmpty, Laden, RETURNABLE_STATUSES
<1>8. Homebound'
  BY <1>1, <1>5 DEF Homebound, Need
<1> QED
  BY <1>6, <1>7, <1>8 DEF FlightInv

\* Steps of the phases before.
LEMMA PhaseKeeps ==
  ASSUME FlightInv, NEW s \in RETURNABLE_STATUSES, Becomes(s), reported,
         \/ mission.status \in RETURNABLE_STATUSES
         \/ mission.status = "DRONE_ASSIGNED" /\ place = mission.from
  PROVE  FlightInv'
<1> DEFINE l == mission.load
<1>1. /\ mission' = [mission EXCEPT !.status = s] /\ recall' = recall
      /\ UNCHANGED <<place, charge, drone, reported, cooldown, refused>>
  BY DEF Becomes, RETURNABLE_STATUSES
<1>2. /\ mission' \in [from : Int, to : Int, load : Payloads \cup {0}, status : FlightStatuses]
      /\ mission'.from = mission.from /\ mission'.load = l /\ mission'.status = s
  BY <1>1, StatusOnly DEF FlightInv, FlightStatuses, RETURNABLE_STATUSES
<1>3. l \in Payloads \cup {0} /\ l \in Payloads /\ l <= MAX_PAYLOAD
  BY MissionFields DEF FlightInv, RETURNABLE_STATUSES
<1>4. charge >= Need(l, place) + Slack(l, StepsLeft)
  <2>1. CASE mission.status \in RETURNABLE_STATUSES
    BY <2>1 DEF FlightInv, Laden
  <2>2. CASE mission.status = "DRONE_ASSIGNED" /\ place = mission.from
    <3>1. /\ cooldown = 0 /\ charge = 100 * PARTS - Need(0, place)
          /\ 100 * PARTS - Need(0, place) - Need(l, place) >= Slack(l, StepsToTurn)
      BY <2>2 DEF FlightInv, OutboundEmpty
    <3>2. /\ recall = None /\ refused \in 0..MaxRefused /\ place \in Int /\ charge \in Int
          /\ MaxLag \in Nat /\ PARTS \in Nat
      BY <2>2, FlightConstants DEF FlightInv, FlightTypes, RETURNABLE_STATUSES
    <3> DEFINE n == StepsLeft
    <3>3. n \in Nat /\ StepsToTurn \in Nat /\ n <= StepsToTurn
      BY <3>1, <3>2, RetriesIs DEF StepsLeft
    <3> HIDE DEF n, l
    <3>4. Slack(l, n) <= Slack(l, StepsToTurn) /\ Slack(l, n) \in Int /\ Slack(l, StepsToTurn) \in Int
      BY <1>3, <3>3, SlackIs
    <3>5. Need(l, place) \in Nat /\ Need(0, place) \in Nat
      BY <1>3, <3>2, NeedIs
    <3>6. charge >= Need(l, place) + Slack(l, n)
      BY <3>1, <3>2, <3>4, <3>5
    <3> QED
      BY <3>6 DEF n
  <2> QED
    BY <2>1, <2>2
<1>5. FlightTypes'
  <2>1. Need(0, place)' = Need(0, place) /\ Need(0, drone.place)' = Need(0, drone.place)
    BY <1>1 DEF Need
  <2> QED
    BY <1>1, <1>2, <1>3, <2>1 DEF FlightInv, FlightTypes
<1>6. Laden'
  <2>1. StepsLeft' = StepsLeft
    BY <1>1 DEF StepsLeft, Retries
  <2> QED
    BY <1>1, <1>2, <1>4, <2>1 DEF Laden, Need, Slack
<1>7. OnTheGround' /\ OutboundEmpty' /\ Homebound'
  BY <1>2 DEF OnTheGround, OutboundEmpty, Homebound, RETURNABLE_STATUSES
<1> QED
  BY <1>5, <1>6, <1>7 DEF FlightInv

LEMMA DispatchKeeps ==
  ASSUME RecallMargin, FlightInv, NEW from \in Places, NEW to \in Places, NEW l \in Payloads, Dispatch(from, to, l)
  PROVE  FlightInv'
<1>1. /\ mission.status = "none" /\ Feasible(from, to, l) /\ cooldown' = 0
      /\ mission' = [from |-> from, to |-> to, load |-> l, status |-> "DRONE_ASSIGNED"]
      /\ UNCHANGED <<place, charge, drone, reported, recall, refused>>
  BY DEF Dispatch
<1>2. /\ mission'.from = from /\ mission'.load = l /\ mission'.status = "DRONE_ASSIGNED"
      /\ mission' \in [from : Int, to : Int, load : Payloads \cup {0}, status : FlightStatuses]
  BY <1>1, FlightConstants DEF FlightStatuses
<1>3. place = 0 /\ charge = 100 * PARTS /\ recall = None
  BY <1>1 DEF FlightInv, FlightTypes, OnTheGround, RETURNABLE_STATUSES
<1>4. l <= MAX_PAYLOAD /\ from \in Int /\ to \in Int /\ AUTO_RETURN_COOLDOWN \in Nat /\ PARTS \in Nat
  BY <1>1, FlightConstants DEF Feasible
<1>5. /\ 2 * Need(0, from) <= 100 * PARTS
      /\ 100 * PARTS - Need(0, from) - Need(l, from) >= Slack(l, StepsToTurn)
  BY <1>1, <1>4, FeasibleReach DEF FlightInv, FlightTypes
<1>6. FlightTypes'
  <2>1. Need(0, place)' = Need(0, place) /\ Need(0, drone.place)' = Need(0, drone.place)
    BY <1>1 DEF Need
  <2>2. cooldown' \in 0..AUTO_RETURN_COOLDOWN
    BY <1>1, <1>4
  <2>3. /\ place' \in Int /\ charge' \in Int /\ charge' <= 100 * PARTS - Need(0, place)'
        /\ drone'.percent * PARTS <= 100 * PARTS - Need(0, drone.place)'
        /\ drone' = [place |-> drone'.place, percent |-> drone'.percent]
        /\ drone'.place \in Int /\ drone'.percent \in Int
        /\ reported' \in BOOLEAN /\ recall' \in None..MaxLag /\ refused' \in 0..MaxRefused
    BY <1>1, <2>1 DEF FlightInv, FlightTypes
  <2> QED
    BY <1>1, <1>2, <1>3, <1>4, <2>2, <2>3 DEF FlightTypes
<1>7. OutboundEmpty'
  <2>1. Need(0, 0) = 0 /\ Between(0, from)
    BY <1>4, NeedIs DEF Between
  <2>2. charge' = 100 * PARTS - Need(0, 0)
    BY <1>1, <1>3, <1>4, <2>1
  <2>3. /\ Need(0, place)' = Need(0, 0) /\ Need(0, mission.from)' = Need(0, from)
        /\ Need(mission.load, mission.from)' = Need(l, from)
        /\ Slack(mission.load, StepsToTurn)' = Slack(l, StepsToTurn)
        /\ Between(place, mission.from)' = Between(0, from)
    BY <1>1, <1>2, <1>3 DEF Need, Slack, Between
  <2> QED
    BY <1>1, <1>5, <2>1, <2>2, <2>3 DEF OutboundEmpty
<1>8. OnTheGround' /\ Laden' /\ Homebound'
  BY <1>2 DEF OnTheGround, Laden, Homebound, RETURNABLE_STATUSES
<1> QED
  BY <1>6, <1>7, <1>8 DEF FlightInv

LEMMA LandsKeeps ==
  ASSUME FlightInv, Lands
  PROVE  FlightInv'
<1>1. /\ mission' = Parked /\ charge' = 100 * PARTS /\ place = 0
      /\ mission.status \in {"DELIVERED", "RETURNING"}
      /\ UNCHANGED <<place, drone, reported, recall, cooldown, refused>>
  BY DEF Lands
<1>2. /\ mission'.load = 0 /\ mission'.status = "none" /\ recall = None
      /\ mission' \in [from : Int, to : Int, load : Payloads \cup {0}, status : FlightStatuses]
  BY <1>1 DEF Parked, FlightStatuses, FlightInv, FlightTypes, RETURNABLE_STATUSES
<1>3. charge' \in Int /\ charge' <= 100 * PARTS - Need(0, 0)
  <2> DEFINE h == 100 * PARTS
  <2>1. h \in Int /\ 0 \in Int /\ 0 \in Payloads \cup {0}
    BY FlightConstants
  <2>2. Need(0, 0) = 0 /\ charge' = h
    BY Zenon, <1>1, <2>1, NeedIs
  <2> HIDE DEF h
  <2>3. charge' \in Int /\ charge' <= h - Need(0, 0)
    BY <2>1, <2>2
  <2> QED
    BY Zenon, <2>3 DEF h
<1>4. FlightTypes'
  <2>1. Need(0, place)' = Need(0, 0) /\ Need(0, drone.place)' = Need(0, drone.place)
    BY <1>1 DEF Need
  <2>2. 0 <= MAX_PAYLOAD
    BY FlightConstants
  <2> QED
    BY <1>1, <1>2, <1>3, <2>1, <2>2 DEF FlightInv, FlightTypes
<1>5. OnTheGround' /\ OutboundEmpty' /\ Laden' /\ Homebound'
  BY <1>1, <1>2 DEF OnTheGround, OutboundEmpty, Laden, Homebound, RETURNABLE_STATUSES
<1> QED
  BY <1>4, <1>5 DEF FlightInv

LEMMA FlightNextKeeps ==
  ASSUME RecallMargin, FlightInv, [FlightNext]_flightVars
  PROVE  FlightInv'
<1>1. CASE UNCHANGED flightVars
  <2>1. UNCHANGED <<place, charge, drone, mission, reported, recall, cooldown, refused>>
    BY Zenon, <1>1 DEF flightVars
  <2>2. FlightTypes' /\ OnTheGround'
    BY <2>1 DEF FlightInv, FlightTypes, OnTheGround, Need
  <2>3. OutboundEmpty' /\ Homebound'
    BY <2>1 DEF FlightInv, OutboundEmpty, Homebound, Need, Slack, Between
  <2>4. Laden'
    BY <2>1 DEF FlightInv, Laden, Need, Slack, StepsLeft, Retries
  <2> QED
    BY Zenon, <2>2, <2>3, <2>4 DEF FlightInv
<1>2. ASSUME NEW from \in Places, NEW to \in Places, NEW l \in Payloads, Dispatch(from, to, l) PROVE FlightInv'
  BY <1>2, DispatchKeeps
<1>3. CASE ReturnToBase
  BY <1>3, TurnKeeps DEF ReturnToBase
<1>4. CASE ReachesPickup \/ Departs \/ Arrives
  BY <1>4, PhaseKeeps DEF ReachesPickup, Departs, Arrives, RETURNABLE_STATUSES
<1>5. CASE HandedOff
  BY <1>5, TurnKeeps DEF HandedOff, Becomes, RETURNABLE_STATUSES
<1> QED
  BY <1>1, <1>2, <1>3, <1>4, <1>5, RecordKeeps, FlyKeeps, HoldKeeps, LandsKeeps DEF FlightNext

\* If the recall margin covers the steps between the last quiet frame and the turn, then for
\* every range, payload, burn within the range, place, cooldown and number of refused recalls,
\* an airborne aircraft always has the charge to carry what it has aboard back to base, also on
\* missions that assessFeasibility accepted on a stale row.
THEOREM AircraftGetsHome ==
  ASSUME RecallMargin
  PROVE  FlightSpec => []GetsHome
<1>1. FlightInit => FlightInv
  <2> SUFFICES ASSUME FlightInit PROVE FlightInv
    OBVIOUS
  <2>1. /\ place = 0 /\ charge = 100 * PARTS /\ drone = [place |-> 0, percent |-> 100] /\ mission = Parked
        /\ reported = TRUE /\ recall = None /\ cooldown = 0 /\ refused = 0
    BY DEF FlightInit
  <2>2. Need(0, 0) = 0 /\ 100 * PARTS \in Int /\ drone.place = 0 /\ drone.percent = 100
    <3>1. drone.place = 0 /\ drone.percent = 100
      BY Zenon, <2>1
    <3>2. PARTS \in Int /\ 0 \in Int /\ 0 \in Payloads \cup {0}
      BY FlightConstants
    <3>3. 100 * PARTS \in Int
      BY <3>2
    <3>4. Need(0, 0) = 0
      BY Zenon, <3>2, NeedIs
    <3> QED
      BY Zenon, <3>1, <3>3, <3>4
  <2>3. /\ mission.load = 0 /\ mission.status = "none"
        /\ mission \in [from : Int, to : Int, load : Payloads \cup {0}, status : FlightStatuses]
    BY <2>1 DEF Parked, FlightStatuses
  <2>4. /\ recall \in None..MaxLag /\ cooldown \in 0..AUTO_RETURN_COOLDOWN /\ refused \in 0..MaxRefused
        /\ mission.load <= MAX_PAYLOAD
    BY <2>1, <2>3, FlightConstants DEF None
  <2>5. /\ charge <= 100 * PARTS - Need(0, place)
        /\ drone.percent * PARTS <= 100 * PARTS - Need(0, drone.place)
    BY <2>1, <2>2, FlightConstants
  <2>6. FlightTypes
    <3>1. place \in Int /\ charge \in Int /\ drone.place \in Int /\ drone.percent \in Int
      BY <2>1, <2>2
    <3>2. drone = [place |-> drone.place, percent |-> drone.percent]
      BY Zenon, <2>1, <2>2
    <3>3. reported \in BOOLEAN
      BY <2>1
    <3> QED
      BY Zenon, <2>1, <2>3, <2>4, <2>5, <3>1, <3>2, <3>3 DEF FlightTypes
  <2> QED
    BY <2>1, <2>3, <2>6 DEF FlightInv, OnTheGround, OutboundEmpty, Laden, Homebound, RETURNABLE_STATUSES
<1>2. FlightInv => GetsHome
  <2> SUFFICES ASSUME FlightInv, mission.status # "none" PROVE charge >= Need(Aboard, place)
    BY DEF GetsHome, Need
  <2>1. /\ mission.status \in FlightStatuses /\ mission.load \in Payloads \cup {0} /\ mission.from \in Int
        /\ place \in Int /\ charge \in Int /\ StepsLeft \in Nat /\ PARTS \in Nat
    BY MissionFields, StepsLeftIs, FlightConstants DEF FlightInv, FlightTypes
  <2>2. CASE mission.status = "DRONE_ASSIGNED"
    <3>1. Distance(place, 0) <= Distance(mission.from, 0)
      BY <2>1, <2>2 DEF FlightInv, OutboundEmpty, Between, Distance
    <3>2. Need(0, place) <= Need(0, mission.from) /\ Need(0, place) \in Nat /\ Need(0, mission.from) \in Nat
      BY <2>1, <3>1, NeedIs
    <3>3. charge = 100 * PARTS - Need(0, place) /\ 2 * Need(0, mission.from) <= 100 * PARTS
      BY <2>2 DEF FlightInv, OutboundEmpty
    <3>4. charge >= Need(0, place)
      BY <2>1, <3>2, <3>3
    <3> QED
      BY <2>2, <3>4 DEF Aboard
  <2>3. CASE mission.status \in RETURNABLE_STATUSES
    <3> DEFINE l == mission.load  n == StepsLeft
    <3>1. Aboard = l
      BY <2>3 DEF Aboard, RETURNABLE_STATUSES
    <3>2. charge >= Need(l, place) + Slack(l, n) /\ n \in Nat /\ l \in Payloads \cup {0}
      BY <2>1, <2>3 DEF FlightInv, Laden
    <3> HIDE DEF l, n
    <3>3. Slack(l, n) \in Int /\ Slack(l, n) >= 0
      <4>1. n \in Int /\ 0 \in Int /\ 0 <= n
        BY <3>2
      <4>2. Slack(l, 0) <= Slack(l, n) /\ Slack(l, 0) = 0 /\ Slack(l, n) \in Int
        BY Zenon, <3>2, <4>1, SlackIs
      <4> QED
        BY <4>2
    <3>4. Need(l, place) \in Nat
      BY Zenon, <2>1, <3>2, NeedIs
    <3>5. charge >= Need(l, place)
      BY <2>1, <3>2, <3>3, <3>4
    <3> QED
      BY Zenon, <3>1, <3>5
  <2>4. CASE mission.status \in {"DELIVERED", "RETURNING"}
    BY <2>4 DEF FlightInv, Homebound, Aboard
  <2> QED
    BY <2>1, <2>2, <2>3, <2>4 DEF FlightStatuses
<1> QED
  BY <1>1, <1>2, FlightNextKeeps, PTL DEF FlightSpec
=============================================================================
