------------------------------ MODULE Statuses ------------------------------
(***************************************************************************)
(* The vocabulary every part of the delivery core shares: the values a     *)
(* delivery row may hold, the sets of statuses the conditional updates are *)
(* guarded by, the happy-path order, and the fault/no-fault switch.        *)
(* Nothing here changes state.                                             *)
(***************************************************************************)
EXTENDS Naturals

\* The forward order of a healthy delivery.
STATUS_ORDER == <<"PENDING", "CONFIRMED", "DRONE_ASSIGNED", "PICKUP_IN_PROGRESS",
                  "IN_TRANSIT", "AWAITING_HANDOFF", "DELIVERED">>

\* In flight: a drone is dispatched, so the delivery is failed, not canceled.
FAILABLE_STATUSES == {"DRONE_ASSIGNED", "PICKUP_IN_PROGRESS", "IN_TRANSIT",
                      "AWAITING_HANDOFF", "RETURNING"}

\* Settled outcomes.
TERMINAL_STATUSES == {"DELIVERED", "CANCELED", "DELIVERY_FAILED", "RETURNED_TO_BASE"}

\* The drone holds the parcel and can fly it home.
RETURNABLE_STATUSES == {"PICKUP_IN_PROGRESS", "IN_TRANSIT", "AWAITING_HANDOFF"}

\* The owner may still cancel.
CANCELABLE_STATUSES == {"SCHEDULED", "PENDING", "CONFIRMED"}

\* What the stuck-delivery watchdog may fail: never a drone waiting at the door.
WATCHDOG_STUCK_STATUSES == {"DRONE_ASSIGNED", "PICKUP_IN_PROGRESS", "IN_TRANSIT",
                            "RETURNING"}

DeliveryStatus == CANCELABLE_STATUSES \cup FAILABLE_STATUSES \cup TERMINAL_STATUSES

\* Statuses strictly before target in STATUS_ORDER; none when target is not in it.
StatusesBefore(target) ==
    {STATUS_ORDER[i] : i \in {i \in 1..7 : \E k \in 1..7 : /\ STATUS_ORDER[k] = target
                                                          /\ i < k}}

\* Targets of the simulation's stages and of the telemetry happy phases.
STAGES == {"CONFIRMED", "DRONE_ASSIGNED", "PICKUP_IN_PROGRESS", "IN_TRANSIT",
           "AWAITING_HANDOFF"}

\* The enum abstracted to what the code tells apart: DRONE_FAULT stands for WEATHER_ABORT,
\* UNSAFE_DROP_ZONE, MECHANICAL, ADMIN_ABORT and OTHER.
FailureReason == {"RECIPIENT_UNAVAILABLE", "DRONE_FAULT"}

\* Everything but a no-show is the service's fault, and is refunded.
IsDroneFaultReason(reason) == reason # "RECIPIENT_UNAVAILABLE"

DroneStatus == {"AVAILABLE", "IN_FLIGHT", "CHARGING", "MAINTENANCE", "GROUNDED"}
=============================================================================
