------------------------------ MODULE Airspace ------------------------------
(***************************************************************************)
(* Restricted airspace: the operator's edits of a zone                     *)
(* (src/admin/admin.service.ts), the per-instance cache of the zone rows   *)
(* (src/serviceability/airspace.service.ts) and the serviceability check   *)
(* that every quote, order and pre-flight makes                            *)
(* (src/serviceability/serviceability.service.ts).                         *)
(*                                                                         *)
(* One zone lies on the route of every request.  An edit reads the row,    *)
(* validates the merged window, commits and only then drops the cache of   *)
(* its own instance; a check takes its `now` first, may wait for the       *)
(* database, and filters the rows by that `now`.  Edits and checks         *)
(* interleave at every await; the query can fail.                          *)
(***************************************************************************)
EXTENDS Integers

CONSTANTS
  Instances,              \* API instances whose checks are followed
  Operators,              \* console calls in flight, one per operator
  AIRSPACE_CACHE_TTL,     \* in ticks; 0 disables the cache
  Opens, Closes,          \* the bounds operators write, besides none
  MaxEdits,               \* bound: committed edits
  LastTick                \* bound: the clock

NoBound == -1
Elsewhere == "elsewhere"    \* an instance whose cache is not followed
Consoles == Instances \cup {Elsewhere}

ASSUME AirspaceAssumption ==
  /\ AIRSPACE_CACHE_TTL \in Nat /\ MaxEdits \in Nat /\ LastTick \in Nat
  /\ Opens \cup Closes \subseteq Nat

VARIABLES
  tick,
  zone,       \* the row: [exists, active, from, until]
  zoneSince,  \* ghost: when it was last written
  edit,       \* per operator: its console call
  edits,
  zoneCache,  \* per instance: [at, row], at = NoBound when empty
  check,      \* per instance: a serviceability check in flight
  missedZone  \* ghost: a check let a route through a zone it should have seen

airspaceVars == <<tick, zone, zoneSince, edit, edits, zoneCache, check, missedZone>>

ZoneRows == [exists : BOOLEAN, active : BOOLEAN, from : Opens \cup {NoBound},
             until : Closes \cup {NoBound}]
NoZone == [exists |-> FALSE, active |-> FALSE, from |-> NoBound, until |-> NoBound]
Empty == [at |-> NoBound, row |-> NoZone]
NoEdit == [at |-> "idle", on |-> Elsewhere, saw |-> NoZone]
NoCheck == [at |-> "idle", now |-> NoBound, row |-> NoZone]

AirspaceTypeOK ==
  /\ tick \in 0..LastTick /\ zoneSince \in 0..LastTick /\ edits \in 0..MaxEdits
  /\ zone \in ZoneRows
  /\ edit \in [Operators -> [at : {"idle", "read", "committed"}, on : Consoles,
                             saw : ZoneRows]]
  /\ zoneCache \in [Instances -> [at : 0..LastTick \cup {NoBound}, row : ZoneRows]]
  /\ check \in [Instances -> [at : {"idle", "fetching", "fetched"},
                              now : 0..LastTick \cup {NoBound}, row : ZoneRows]]
  /\ missedZone \in BOOLEAN

AirspaceInit ==
  /\ tick = 0 /\ zone = NoZone /\ zoneSince = 0 /\ edits = 0
  /\ edit = [o \in Operators |-> NoEdit]
  /\ zoneCache = [i \in Instances |-> Empty]
  /\ check = [i \in Instances |-> NoCheck]
  /\ missedZone = FALSE

----------------------------------------------------------------------------
(* Zone edits *)

\* isZoneInForce: both bounds inclusive.
IsZoneInForce(z, now) ==
  /\ z.active
  /\ z.from = NoBound \/ z.from <= now
  /\ z.until = NoBound \/ z.until >= now

\* assertZoneBounds on the merged window; an expired one is refused only when
\* the edit wrote a bound.
AssertZoneBounds(from, until, windowWritten) ==
  /\ ~(from # NoBound /\ until # NoBound /\ from >= until)
  /\ ~(windowWritten /\ until # NoBound /\ until < tick)

CommitZone(row) == zone' = row /\ zoneSince' = tick /\ edits' = edits + 1

\* createAirspaceZone: nothing to read, one transaction.
CreateZone(o, i) ==
  /\ edit[o].at = "idle" /\ ~zone.exists /\ edits < MaxEdits
  /\ \E from \in Opens \cup {NoBound}, until \in Closes \cup {NoBound} :
       /\ AssertZoneBounds(from, until, TRUE)
       /\ CommitZone([exists |-> TRUE, active |-> TRUE, from |-> from, until |-> until])
  /\ edit' = [edit EXCEPT ![o].at = "committed", ![o].on = i]
  /\ UNCHANGED <<tick, zoneCache, check, missedZone>>

\* updateAirspaceZone and deactivateAirspaceZone read the row first
\* (findZoneOr404).
ReadZone(o, i) ==
  /\ edit[o].at = "idle" /\ zone.exists /\ edits < MaxEdits
  /\ edit' = [edit EXCEPT ![o].at = "read", ![o].on = i, ![o].saw = zone]
  /\ UNCHANGED <<tick, zone, zoneSince, edits, zoneCache, check, missedZone>>

\* The patched columns only are written; the unpatched ones were validated as
\* they stood when the edit read them.
UpdateZone(o) ==
  /\ edit[o].at = "read" /\ edits < MaxEdits
  /\ LET saw == edit[o].saw IN
     \/ \E from \in Opens \cup {NoBound} :
          /\ AssertZoneBounds(from, saw.until, TRUE)
          /\ CommitZone([zone EXCEPT !.from = from])
     \/ \E until \in Closes \cup {NoBound} :
          /\ AssertZoneBounds(saw.from, until, TRUE)
          /\ CommitZone([zone EXCEPT !.until = until])
     \/ /\ AssertZoneBounds(saw.from, saw.until, FALSE)
        /\ CommitZone([zone EXCEPT !.active = TRUE])
  /\ edit' = [edit EXCEPT ![o].at = "committed", ![o].saw = NoZone]
  /\ UNCHANGED <<tick, zoneCache, check, missedZone>>

DeactivateZone(o) ==
  /\ edit[o].at = "read" /\ edits < MaxEdits
  /\ CommitZone([zone EXCEPT !.active = FALSE])
  /\ edit' = [edit EXCEPT ![o].at = "committed", ![o].saw = NoZone]
  /\ UNCHANGED <<tick, zoneCache, check, missedZone>>

\* The edit is refused (400), or its transaction fails.
EditRefused(o) ==
  /\ edit[o].at = "read"
  /\ edit' = [edit EXCEPT ![o] = NoEdit]
  /\ UNCHANGED <<tick, zone, zoneSince, edits, zoneCache, check, missedZone>>

\* dropZoneCacheAfterCommit: this instance only, after the commit.
Invalidate(o) ==
  /\ edit[o].at = "committed"
  /\ zoneCache' = [i \in Instances |-> IF i = edit[o].on THEN Empty ELSE zoneCache[i]]
  /\ edit' = [edit EXCEPT ![o] = NoEdit]
  /\ UNCHANGED <<tick, zone, zoneSince, edits, check, missedZone>>

----------------------------------------------------------------------------
(* The serviceability check *)

\* A cached list is served while now - at < TTL.
Fresh(i) ==
  /\ zoneCache[i].at # NoBound
  /\ tick >= zoneCache[i].at
  /\ tick - zoneCache[i].at < AIRSPACE_CACHE_TTL

\* What a check that answered from `row` has overlooked: a zone in force at its
\* `now`, in a row written at least a TTL before.
Overlooks(row, now) ==
  /\ IsZoneInForce(zone, now) /\ zoneSince + AIRSPACE_CACHE_TTL <= now
  /\ zoneSince < now
  /\ ~IsZoneInForce(row, now)

\* inForceZones on a hit: no await, so the answer is immediate.
CheckHit(i) ==
  /\ check[i].at = "idle" /\ Fresh(i)
  /\ missedZone' = (missedZone \/ Overlooks(zoneCache[i].row, tick))
  /\ UNCHANGED <<tick, zone, zoneSince, edit, edits, zoneCache, check>>

CheckMiss(i) ==
  /\ check[i].at = "idle" /\ ~Fresh(i)
  /\ check' = [check EXCEPT ![i] = [at |-> "fetching", now |-> tick, row |-> NoZone]]
  /\ UNCHANGED <<tick, zone, zoneSince, edit, edits, zoneCache, missedZone>>

\* fetchActiveRows: the database answers with the active rows of that moment.
FetchActiveRows(i) ==
  /\ check[i].at = "fetching"
  /\ check' = [check EXCEPT ![i].at = "fetched", ![i].row = IF zone.active THEN zone ELSE NoZone]
  /\ UNCHANGED <<tick, zone, zoneSince, edit, edits, zoneCache, missedZone>>

\* The query throws: the route is blocked and the cache stays as it was.
FetchFails(i) ==
  /\ check[i].at = "fetching"
  /\ check' = [check EXCEPT ![i] = NoCheck]
  /\ UNCHANGED <<tick, zone, zoneSince, edit, edits, zoneCache, missedZone>>

\* A fill stamped with the time it ends rather than the `now` it began with.
FillCache_StampsEnd(i) == zoneCache' = [zoneCache EXCEPT ![i] = [at |-> tick, row |-> check[i].row]]

\* The rows are cached, not the answer, and stamped with the caller's `now`.
FillCache(i) == zoneCache' = [zoneCache EXCEPT ![i] = [at |-> check[i].now, row |-> check[i].row]]

CheckAnswers(i) ==
  /\ check[i].at = "fetched"
  /\ FillCache(i)
  /\ missedZone' = (missedZone \/ Overlooks(check[i].row, check[i].now))
  /\ check' = [check EXCEPT ![i] = NoCheck]
  /\ UNCHANGED <<tick, zone, zoneSince, edit, edits>>

AirspaceTicks ==
  /\ tick < LastTick /\ tick' = tick + 1
  /\ UNCHANGED <<zone, zoneSince, edit, edits, zoneCache, check, missedZone>>

AirspaceNext ==
  \/ AirspaceTicks
  \/ \E o \in Operators :
       \/ \E i \in Consoles : CreateZone(o, i) \/ ReadZone(o, i)
       \/ UpdateZone(o) \/ DeactivateZone(o) \/ EditRefused(o) \/ Invalidate(o)
  \/ \E i \in Instances :
       CheckHit(i) \/ CheckMiss(i) \/ FetchActiveRows(i) \/ FetchFails(i) \/ CheckAnswers(i)

AirspaceSpec == AirspaceInit /\ [][AirspaceNext]_airspaceVars

----------------------------------------------------------------------------
(* Properties *)

\* On every instance a restriction is enforced at the latest a TTL after it was
\* written, and from the very tick its window opens, however slow fills, edits
\* and invalidations overtake one another (airspace.constants.ts:72-99).
EnforcedWithinTtl == ~missedZone
=============================================================================
