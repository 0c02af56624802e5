---------------------------- MODULE FlightSafety ----------------------------
(***************************************************************************)
(* Whether an aircraft gets home: the dispatch decision                    *)
(* (src/dispatch/flight-feasibility.ts), the flight recorder               *)
(* (src/deliveries/telemetry/flight-recorder.service.ts) and the recall    *)
(* decision (src/deliveries/telemetry/energy.ts), around one aircraft that *)
(* flies mission after mission.                                            *)
(*                                                                         *)
(* Places are points of a line with the home base at 0, so that distances  *)
(* satisfy the triangle inequality as great circles do.  The aircraft is   *)
(* external: each step it flies one unit or holds in place and spends      *)
(* BURN[load] of its charge, an amount the unreduced range allows for; it  *)
(* reports a frame after each step; on the ground at home its battery is   *)
(* swapped.  The `drones` row the platform decides by (place, percent) is  *)
(* written only by frames of the delivery that holds the aircraft.         *)
(***************************************************************************)
EXTENDS Integers

CONSTANTS
  RANGE,                    \* rangeKm, in units of distance
  MAX_PAYLOAD,              \* maxPayloadKg
  Payloads,                 \* package weights
  Places,                   \* pickup and dropoff points
  PARTS,                    \* units of charge in a percent
  BURN,                     \* units of charge per step, by weight aboard
  AUTO_RETURN_COOLDOWN,     \* in steps
  MaxLag,                   \* bound: steps before an issued recall is flown
  MaxHolds,                 \* bound: steps spent holding, per mission
  MaxMissions,              \* bound
  MaxRefused                \* bound: recalls commands.issue refuses

\* What the range means: a full charge carries any load that distance, derated
\* by 1 - 0.35 * load / max.
ASSUME FlightAssumption ==
  /\ {RANGE, MAX_PAYLOAD, PARTS} \subseteq Nat \ {0} /\ Places \subseteq Int /\ Payloads \subseteq Nat
  /\ {AUTO_RETURN_COOLDOWN, MaxLag, MaxHolds, MaxMissions, MaxRefused} \subseteq Nat
  /\ BURN \in [Payloads \cup {0} -> Nat]
  /\ \A load \in Payloads \cup {0} :
       /\ BURN[0] <= BURN[load]
       /\ load <= MAX_PAYLOAD => BURN[load] * RANGE * (20 * MAX_PAYLOAD - 7 * load) <= 100 * PARTS * 20 * MAX_PAYLOAD

MIN_DISPATCH_BATTERY_PERCENT == 25
CRITICAL_BATTERY_PERCENT == 15

\* delivery-exceptions.ts: with the package aboard.
RETURNABLE_STATUSES == {"PICKUP_IN_PROGRESS", "IN_TRANSIT", "AWAITING_HANDOFF"}

Distance(a, b) == IF a < b THEN b - a ELSE a - b

VARIABLES
  place, charge,    \* the aircraft itself
  drone,            \* its row: place and batteryPercent
  mission,          \* the delivery that flies: from, to, load, status
  reported,         \* the aircraft's last step has been reported
  recall,           \* steps since the open RETURN_TO_BASE was issued, or None
  cooldown,         \* steps until lastAutoReturn lets another attempt through
  holds, missions, refused

flightVars == <<place, charge, drone, mission, reported, recall, cooldown, holds, missions, refused>>

None == -1
Parked == [from |-> 0, to |-> 0, load |-> 0, status |-> "none"]

FlightTypeOK ==
  /\ place \in Int /\ charge \in 0..100 * PARTS
  /\ drone.place \in Int /\ drone.percent \in 0..100
  /\ mission.status \in RETURNABLE_STATUSES \cup {"none", "DRONE_ASSIGNED", "DELIVERED", "RETURNING"}
  /\ reported \in BOOLEAN /\ recall \in None..MaxLag /\ cooldown \in 0..AUTO_RETURN_COOLDOWN

FlightInit ==
  /\ place = 0 /\ charge = 100 * PARTS
  /\ drone = [place |-> 0, percent |-> 100]
  /\ mission = Parked /\ reported = TRUE /\ recall = None /\ cooldown = 0
  /\ holds = 0 /\ missions = 0 /\ refused = 0

----------------------------------------------------------------------------
(* The arithmetic *)

\* missionDistanceKm: positioning, delivery and recovery legs.
MissionDistance(from, to) == Distance(drone.place, from) + Distance(from, to) + Distance(to, 0)

\* usableRangeKm, in 1/(8000 * MAX_PAYLOAD) of a unit: the range by the charge,
\* by the derate 1 - 0.35 * load / max, by 1 - 0.25.
Scale == 8000 * MAX_PAYLOAD
LoadFraction(load) == IF load < MAX_PAYLOAD THEN load ELSE MAX_PAYLOAD
UsableRange_NoDerate(percent, load) == RANGE * percent * 20 * MAX_PAYLOAD * 3
UsableRange(percent, load) ==
  IF RANGE <= 0 \/ MAX_PAYLOAD <= 0 THEN 0
  ELSE RANGE * percent * (20 * MAX_PAYLOAD - 7 * LoadFraction(load)) * 3

\* assessFeasibility: CAPACITY, BATTERY, RANGE.
Feasible(from, to, load) ==
  /\ MAX_PAYLOAD >= load
  /\ drone.percent >= MIN_DISPATCH_BATTERY_PERCENT
  /\ MissionDistance(from, to) * Scale <= UsableRange(drone.percent, load)

\* assessRecall: the critical charge, or 1.15 times the way home against what
\* the charge allows.
AssessRecall(percent, at, load) ==
  \/ percent <= CRITICAL_BATTERY_PERCENT
  \/ Distance(at, 0) * 115 * (Scale \div 100) > UsableRange(percent, load)

----------------------------------------------------------------------------
(* Platform *)

Dispatch(from, to, load) ==
  /\ mission.status = "none" /\ missions < MaxMissions
  /\ Feasible(from, to, load)
  /\ mission' = [from |-> from, to |-> to, load |-> load, status |-> "DRONE_ASSIGNED"]
  /\ missions' = missions + 1 /\ holds' = 0 /\ cooldown' = 0
  /\ UNCHANGED <<place, charge, drone, reported, recall, refused>>

\* updateDroneState, scoped to the delivery that holds the aircraft: after
\* DELIVERED the claim is released and the row stays as it is.
UpdateDroneState ==
  IF mission.status = "DELIVERED" THEN drone
  ELSE [place |-> place, percent |-> charge \div PARTS]

\* record for one frame: append (not modelled: nothing reads it), the drone
\* row, maybeRecall.  The attempt is stamped before commands.issue is called,
\* which refuses while another command is open.
Record ==
  /\ ~reported
  /\ reported' = TRUE
  /\ drone' = UpdateDroneState
  /\ IF /\ mission.status \in RETURNABLE_STATUSES /\ cooldown = 0
        /\ AssessRecall(charge \div PARTS, place, mission.load)
     THEN /\ cooldown' = AUTO_RETURN_COOLDOWN
          /\ \/ recall' = (IF recall = None THEN 0 ELSE recall) /\ UNCHANGED refused
             \/ recall = None /\ refused < MaxRefused /\ refused' = refused + 1 /\ UNCHANGED recall
     ELSE UNCHANGED <<cooldown, recall, refused>>
  /\ UNCHANGED <<place, charge, mission, holds, missions>>

\* The aircraft polls, acks and turns: beginReturnToBase.
ReturnToBase ==
  /\ recall # None /\ mission.status \in RETURNABLE_STATUSES
  /\ mission' = [mission EXCEPT !.status = "RETURNING"]
  /\ recall' = None
  /\ UNCHANGED <<place, charge, drone, reported, cooldown, holds, missions, refused>>

----------------------------------------------------------------------------
(* The aircraft (external) *)

Aboard == IF mission.status \in {"DRONE_ASSIGNED", "DELIVERED"} THEN 0 ELSE mission.load
Target == CASE mission.status = "DRONE_ASSIGNED" -> mission.from
            [] mission.status = "IN_TRANSIT" -> mission.to
            [] OTHER -> 0

Spend ==
  /\ charge >= BURN[Aboard]
  /\ charge' = charge - BURN[Aboard]
  /\ reported' = FALSE
  /\ recall < MaxLag
  /\ recall' = IF recall = None THEN None ELSE recall + 1
  /\ cooldown' = IF cooldown = 0 THEN 0 ELSE cooldown - 1

Fly ==
  /\ reported /\ mission.status \in {"DRONE_ASSIGNED", "IN_TRANSIT", "DELIVERED", "RETURNING"}
  /\ place # Target
  /\ place' = IF place < Target THEN place + 1 ELSE place - 1
  /\ Spend
  /\ UNCHANGED <<drone, mission, holds, missions, refused>>

\* Wind, a go-around, a recipient who is late.
Hold ==
  /\ reported /\ mission.status \in RETURNABLE_STATUSES /\ holds < MaxHolds
  /\ holds' = holds + 1
  /\ Spend
  /\ UNCHANGED <<place, drone, mission, missions, refused>>

Becomes(status) ==
  /\ mission' = [mission EXCEPT !.status = status]
  /\ recall' = IF status = "DELIVERED" THEN None ELSE recall
  /\ UNCHANGED <<place, charge, drone, reported, cooldown, holds, missions, refused>>

ReachesPickup == reported /\ mission.status = "DRONE_ASSIGNED" /\ place = mission.from /\ Becomes("PICKUP_IN_PROGRESS")
Departs == reported /\ mission.status = "PICKUP_IN_PROGRESS" /\ Becomes("IN_TRANSIT")
Arrives == reported /\ mission.status = "IN_TRANSIT" /\ place = mission.to /\ Becomes("AWAITING_HANDOFF")
HandedOff == reported /\ mission.status = "AWAITING_HANDOFF" /\ Becomes("DELIVERED")

Lands ==
  /\ reported /\ mission.status \in {"DELIVERED", "RETURNING"} /\ place = 0
  /\ mission' = Parked /\ charge' = 100 * PARTS
  /\ UNCHANGED <<place, drone, reported, recall, cooldown, holds, missions, refused>>

FlightNext ==
  \/ \E from, to \in Places, load \in Payloads : Dispatch(from, to, load)
  \/ Record \/ ReturnToBase
  \/ Fly \/ Hold \/ ReachesPickup \/ Departs \/ Arrives \/ HandedOff \/ Lands

FlightSpec == FlightInit /\ [][FlightNext]_flightVars

----------------------------------------------------------------------------
(* Properties *)

\* The steps an aircraft flies between the last frame that asked for no recall and
\* its turn: one to the next frame, a cooldown for each refused attempt, the lag.
Patience == IF AUTO_RETURN_COOLDOWN = 0 THEN 1 ELSE AUTO_RETURN_COOLDOWN
StepsToTurn == 1 + MaxRefused * Patience + MaxLag

\* The recall margin covers those steps, flown away from home: what assessRecall
\* leaves, 8/23 of the charge, of a charge of at least 16 percent.
RecallMargin == \A load \in Payloads : load <= MAX_PAYLOAD => 23 * BURN[load] * StepsToTurn <= 64 * PARTS

\* Wherever an airborne aircraft is, its charge still carries what it has
\* aboard back to base: a mission accepted on a row that its flight home has
\* made stale does not run out, and a recall comes early enough for the way
\* back from the farthest point it can still reach before it turns, one
\* refused attempt and its cooldown included.
GetsHome == mission.status # "none" => charge >= BURN[Aboard] * Distance(place, 0)
=============================================================================
