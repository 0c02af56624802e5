---------------------------- MODULE DeliveryFleet ----------------------------
(***************************************************************************)
(* Deliveries, the aircraft that fly them, and the handlers that move both.*)
(*                                                                         *)
(* The database is the shared state: one row per delivery, one row per     *)
(* drone.  A handler (an HTTP request, a queue job, a watchdog tick, a     *)
(* telemetry frame) is a frame that runs one database round trip per step, *)
(* so any two handlers interleave between their round trips.  A            *)
(* conditional updateMany is one step: its WHERE is the guard, and a count *)
(* of zero is the other branch.                                            *)
(***************************************************************************)
EXTENDS Statuses

CONSTANTS
    Deliveries,           \* delivery ids that may be minted
    Drones,               \* registered aircraft
    Procs,                \* handler executions that may be in progress at once
    None,                 \* SQL NULL
    LiveDispatch,         \* the values LIVE_DISPATCH has in the running processes
    MAX_HANDOFF_ATTEMPTS, \* wrong codes before the handoff locks
    OperatorStatuses,     \* drone statuses an operator writes
    Faults                \* what the environment does wrong, see FaultKinds

(***************************************************************************)
(* crash      a process dies between two round trips                       *)
(* write      a database write rejects, having committed or not            *)
(* insert     the delivery's own transaction commits and then rejects      *)
(* redeliver  the queue runs one kickoff job twice at once                 *)
(***************************************************************************)
FaultKinds == {"crash", "write", "insert", "redeliver"}

ASSUME FleetAssumption ==
    /\ None \notin Deliveries /\ None \notin Drones
    /\ LiveDispatch \subseteq BOOLEAN
    /\ MAX_HANDOFF_ATTEMPTS \in Nat \ {0}
    /\ OperatorStatuses \subseteq DroneStatus
    /\ Faults \subseteq FaultKinds

VARIABLES
    status,      \* Delivery.status; "FREE" before the id is minted, "MINTED" before the row
    source,      \* Delivery.trackingSource
    assigned,    \* Delivery.assignedDroneId
    reason,      \* Delivery.failureReason
    attempts,    \* Delivery.handoffAttempts
    active,      \* Drone.activeDeliveryId: the claim
    dstatus,     \* Drone.status
    airworthy,   \* Drone.airworthy
    queued,      \* kinds of simulation job enqueued for a delivery
    refunded,    \* the refund trio was called for the delivery
    midair,      \* ghost: deliveries whose mission ended in flight
    frame        \* the handlers in progress

row == <<status, source, assigned, reason, attempts>>
fleet == <<active, dstatus, airworthy>>
vars == <<status, source, assigned, reason, attempts, active, dstatus, airworthy,
          queued, refunded, midair, frame>>

----------------------------------------------------------------------------
(* Handlers.                                                               *)

Ops == {"none", "create", "schedule", "kickoff", "cancel", "forceCancel", "fail",
        "watchdog", "handoff", "return"}

Points == {"idle", "dispatch", "claim", "insert", "enqueue", "startSim", "kickCas",
           "recheck", "force", "fail", "guess", "guessed", "confirm", "release", "cleanup"}

\* What cleanupAfterTermination still has to do once the aircraft is released.
Cleanups == {"none", "stop", "refund"}

Frame == [op : Ops, at : Points, on : Deliveries \cup {None},
          craft : Drones \cup {None}, cand : SUBSET Drones,
          why : FailureReason \cup {None},
          ground : BOOLEAN, cleanup : Cleanups]

IdleFrame == [op |-> "none", at |-> "idle", on |-> None, craft |-> None, cand |-> {},
              why |-> None, ground |-> FALSE, cleanup |-> "none"]

Rows == {d \in Deliveries : status[d] \in DeliveryStatus}

Goto(p, f) == frame' = [frame EXCEPT ![p] = f]
Finish(p) == Goto(p, IdleFrame)
At(p, point) == frame[p].at = point
Begin(p, op, at, d) ==
    /\ At(p, "idle")
    /\ Goto(p, [IdleFrame EXCEPT !.op = op, !.at = at, !.on = d])
Step(p, at) == Goto(p, [frame[p] EXCEPT !.at = at])

\* Hand the aircraft back, then run the given rest of the cleanup.
ThenRelease(p, ground, cleanup) ==
    Goto(p, [frame[p] EXCEPT !.at = "release", !.ground = ground, !.cleanup = cleanup])

Init ==
    /\ status = [d \in Deliveries |-> "FREE"]
    /\ source = [d \in Deliveries |-> "SIMULATED"]
    /\ assigned = [d \in Deliveries |-> None]
    /\ reason = [d \in Deliveries |-> None]
    /\ attempts = [d \in Deliveries |-> 0]
    /\ active = [x \in Drones |-> None]
    /\ dstatus = [x \in Drones |-> "AVAILABLE"]
    /\ airworthy = [x \in Drones |-> TRUE]
    /\ queued = [d \in Deliveries |-> {}]
    /\ refunded = [d \in Deliveries |-> FALSE]
    /\ midair = {}
    /\ frame = [p \in Procs |-> IdleFrame]

----------------------------------------------------------------------------
(* DispatchService: select, claim, release.                                *)

Claimable(x) == airworthy[x] /\ dstatus[x] = "AVAILABLE" /\ active[x] = None
Held(d) == {x \in Drones : active[x] = d}

\* dispatch() returned aircraft x to its caller.
Dispatched(p, x) ==
    Goto(p, [frame[p] EXCEPT !.at = IF frame[p].op = "kickoff" THEN "kickCas" ELSE "insert",
                             !.craft = x, !.cand = {}])

\* failExceptional(d, DRONE_FAULT, [SCHEDULED]): give the launch up.
GiveUp(p) == Goto(p, [frame[p] EXCEPT !.at = "fail", !.why = "DRONE_FAULT", !.cand = {}])

\* A saturated fleet is waited for (deferKickoff) while the budget lasts; a payload
\* nothing can lift, or a spent budget, gives the launch up.
HandleDispatchRefusal(p) == Finish(p) \/ GiveUp(p)

\* dispatch() threw: create() lets it escape, handleKickoff catches it.
DispatchThrows(p) ==
    IF frame[p].op = "kickoff" THEN HandleDispatchRefusal(p) ELSE Finish(p)

\* The re-entrant read, then the candidate read.  Which of the claimable aircraft
\* pass payload, battery, maintenance and range is left open.
SelectAircraft(p) ==
    /\ At(p, "dispatch")
    /\ LET held == Held(frame[p].on) IN
       IF held # {}
       THEN \E x \in held : Dispatched(p, x)
       ELSE \E feasible \in SUBSET {x \in Drones : Claimable(x)} :
               Goto(p, [frame[p] EXCEPT !.at = "claim", !.cand = feasible])
    /\ UNCHANGED <<row, fleet, queued, refunded, midair>>

\* The claim UPDATE matched; UNIQUE(activeDeliveryId) let it through.
ClaimAircraft(p) ==
    /\ At(p, "claim")
    /\ \E x \in frame[p].cand :
         /\ Claimable(x)
         /\ Held(frame[p].on) = {}
         /\ active' = [active EXCEPT ![x] = frame[p].on]
         /\ dstatus' = [dstatus EXCEPT ![x] = "IN_FLIGHT"]
         /\ \/ Dispatched(p, x)
            \/ "write" \in Faults /\ DispatchThrows(p)
    /\ UNCHANGED <<row, airworthy, queued, refunded, midair>>

\* Lost the candidate to another booking or to an operator: try the next one.
ClaimLost(p) ==
    /\ At(p, "claim")
    /\ \E x \in frame[p].cand :
         /\ ~Claimable(x)
         /\ Goto(p, [frame[p] EXCEPT !.cand = @ \ {x}])
    /\ UNCHANGED <<row, fleet, queued, refunded, midair>>

\* No candidate is left, or the claim violates UNIQUE(activeDeliveryId), or the
\* write rejects: dispatch() throws.
ClaimThrows(p) ==
    /\ At(p, "claim")
    /\ \/ frame[p].cand = {}
       \/ (\E x \in frame[p].cand : Claimable(x)) /\ Held(frame[p].on) # {}
       \/ "write" \in Faults
    /\ DispatchThrows(p)
    /\ UNCHANGED <<row, fleet, queued, refunded, midair>>

\* release(deliveryId, outcome): scoped to this delivery's claim, best-effort.
Release(p) ==
    /\ At(p, "release")
    /\ LET d == frame[p].on IN
       \/ /\ active' = [x \in Drones |-> IF active[x] = d THEN None ELSE active[x]]
          /\ dstatus' = [x \in Drones |-> IF active[x] # d THEN dstatus[x]
                                          ELSE IF frame[p].ground THEN "MAINTENANCE"
                                          ELSE "AVAILABLE"]
          /\ airworthy' = [x \in Drones |-> airworthy[x] /\ ~(active[x] = d /\ frame[p].ground)]
       \/ "write" \in Faults /\ UNCHANGED fleet
    /\ IF frame[p].cleanup = "none" THEN Finish(p) ELSE Step(p, "cleanup")
    /\ UNCHANGED <<row, queued, refunded, midair>>

\* The rest of cleanupAfterTermination: stopSimulation removes what it can (running jobs
\* and deferred kickoffs survive it), then the promo slot, the wallet leg and the card leg
\* of the charge are given back if the outcome warrants it.  A leg that rejects is logged
\* and forgotten.
Cleanup(p) ==
    /\ At(p, "cleanup")
    /\ LET d == frame[p].on IN
       /\ \E left \in SUBSET queued[d] : queued' = [queued EXCEPT ![d] = left]
       /\ \/ refunded' = [refunded EXCEPT ![d] = @ \/ frame[p].cleanup = "refund"]
          \/ "write" \in Faults /\ UNCHANGED refunded
    /\ Finish(p)
    /\ UNCHANGED <<row, fleet, midair>>

----------------------------------------------------------------------------
(* create().                                                               *)

\* The id is minted; everything before the dispatch that can reject has not.
CreateBegin(p, d) ==
    /\ status[d] = "FREE"
    /\ status' = [status EXCEPT ![d] = "MINTED"]
    /\ \/ \E live \in LiveDispatch :
            Begin(p, "create", IF live THEN "dispatch" ELSE "insert", d)
       \/ Begin(p, "schedule", "insert", d)
    /\ UNCHANGED <<source, assigned, reason, attempts, fleet, queued, refunded, midair>>

\* A create that throws gives the aircraft back.
ReleaseClaimedAircraft(p) ==
    IF frame[p].craft = None THEN Finish(p) ELSE ThenRelease(p, FALSE, "none")

\* The delivery row commits.  A LIVE delivery enqueues nothing.
InsertDelivery(p) ==
    /\ At(p, "insert")
    /\ LET d == frame[p].on
           live == frame[p].craft # None IN
       /\ status' = [status EXCEPT ![d] = IF frame[p].op = "schedule" THEN "SCHEDULED"
                                                                     ELSE "PENDING"]
       /\ source' = [source EXCEPT ![d] = IF live THEN "LIVE" ELSE "SIMULATED"]
       /\ assigned' = [assigned EXCEPT ![d] = frame[p].craft]
       /\ \/ IF live THEN Finish(p) ELSE Step(p, "enqueue")
          \/ "insert" \in Faults /\ ReleaseClaimedAircraft(p)
    /\ UNCHANGED <<reason, attempts, fleet, queued, refunded, midair>>

\* A reservation or the delivery transaction rolls back, or tracking ids keep colliding.
InsertThrows(p) ==
    /\ At(p, "insert")
    /\ ReleaseClaimedAircraft(p)
    /\ UNCHANGED <<row, fleet, queued, refunded, midair>>

\* scheduleKickoff or startSimulation, best-effort: the enqueue may fail.
Enqueue(p) ==
    /\ At(p, "enqueue")
    /\ \/ queued' = [queued EXCEPT ![frame[p].on] =
                        @ \cup {IF frame[p].op = "schedule" THEN "kickoff" ELSE "stages"}]
       \/ UNCHANGED queued
    /\ Finish(p)
    /\ UNCHANGED <<row, fleet, refunded, midair>>

----------------------------------------------------------------------------
(* SimulationProcessor: the kickoff of a scheduled delivery, and the stages. *)

\* The leading status read and the pre-flight check: launch, or give up.  A hold
\* (deferKickoff) changes no row.  The queue runs one kickoff of a delivery at a time
\* unless it redelivers a job whose first run is still going.
KickoffBegin(p, d) ==
    /\ status[d] = "SCHEDULED" /\ "kickoff" \in queued[d]
    /\ "redeliver" \in Faults \/ \A q \in Procs : frame[q].op = "kickoff" => frame[q].on # d
    /\ At(p, "idle")
    /\ \E at \in {"fail"} \cup {IF live THEN "dispatch" ELSE "startSim" : live \in LiveDispatch} :
         Goto(p, [IdleFrame EXCEPT !.op = "kickoff", !.at = at, !.on = d, !.why = "DRONE_FAULT"])
    /\ UNCHANGED <<row, fleet, queued, refunded, midair>>

\* startSimulation before the transition; a rejected enqueue fails the job, which is
\* retried, and may have landed.
KickoffStartSimulation(p) ==
    /\ At(p, "startSim")
    /\ LET landed == [queued EXCEPT ![frame[p].on] = @ \cup {"stages"}] IN
       \/ queued' = landed /\ Step(p, "kickCas")
       \/ queued' \in {queued, landed} /\ Finish(p)
    /\ UNCHANGED <<row, fleet, refunded, midair>>

\* SCHEDULED -> PENDING, the aircraft bound in the same write.
BindKickoff(p) ==
    LET d == frame[p].on IN
    /\ status[d] = "SCHEDULED"
    /\ status' = [status EXCEPT ![d] = "PENDING"]
    /\ IF frame[p].craft = None
       THEN UNCHANGED <<source, assigned>>
       ELSE /\ source' = [source EXCEPT ![d] = "LIVE"]
            /\ assigned' = [assigned EXCEPT ![d] = frame[p].craft]

KickoffCas(p) ==
    /\ At(p, "kickCas")
    /\ BindKickoff(p) /\ Finish(p)
    /\ UNCHANGED <<reason, attempts, fleet, queued, refunded, midair>>

KickoffLost_KeepsClaim(p) ==
    /\ At(p, "kickCas")
    /\ status[frame[p].on] # "SCHEDULED"
    /\ Finish(p)
    /\ UNCHANGED <<row, fleet, queued, refunded, midair>>

\* count = 0: canceled, failed, or kicked off by another run.
KickoffLost(p) ==
    /\ At(p, "kickCas")
    /\ status[frame[p].on] # "SCHEDULED"
    /\ ReleaseClaimedAircraft(p)
    /\ UNCHANGED <<row, fleet, queued, refunded, midair>>

\* The transition write rejects, committed or not; only a held aircraft is rechecked.
KickoffCasThrows(p) ==
    /\ At(p, "kickCas") /\ "write" \in Faults
    /\ BindKickoff(p) \/ UNCHANGED <<status, source, assigned>>
    /\ IF frame[p].craft = None THEN Finish(p) ELSE Step(p, "recheck")
    /\ UNCHANGED <<reason, attempts, fleet, queued, refunded, midair>>

KickoffRecheck_Blind(p) ==
    /\ At(p, "recheck")
    /\ ThenRelease(p, FALSE, "none")
    /\ UNCHANGED <<row, fleet, queued, refunded, midair>>

\* Release only on proof that the transition did not happen.
KickoffRecheck(p) ==
    /\ At(p, "recheck")
    /\ \/ status[frame[p].on] = "SCHEDULED" /\ ThenRelease(p, FALSE, "none")
       \/ Finish(p)
    /\ UNCHANGED <<row, fleet, queued, refunded, midair>>

\* The forward-only compare-and-set of a stage job or of a telemetry phase.
Advance(d, target) ==
    /\ status[d] \in StatusesBefore(target)
    /\ status' = [status EXCEPT ![d] = target]
    /\ UNCHANGED <<source, assigned, reason, attempts, fleet, queued, refunded, midair, frame>>

HandleStage(d, target) == "stages" \in queued[d] /\ Advance(d, target)
IngestPhase(d, target) == source[d] = "LIVE" /\ Advance(d, target)

----------------------------------------------------------------------------
(* The terminal transitions of DeliveriesService.                          *)

\* A drone in flight when its mission ends is remembered.
Settle(d, to) ==
    /\ status' = [status EXCEPT ![d] = to]
    /\ midair' = IF status[d] \in FAILABLE_STATUSES /\ to # "DELIVERED" THEN midair \cup {d}
                                                                      ELSE midair

Cancel_KeepsAircraft(p, d) ==
    /\ status[d] \in CANCELABLE_STATUSES
    /\ At(p, "idle")
    /\ Settle(d, "CANCELED")
    /\ Goto(p, [IdleFrame EXCEPT !.op = "cancel", !.at = "cleanup", !.on = d,
                                 !.cleanup = "refund"])
    /\ UNCHANGED <<source, assigned, reason, attempts, fleet, queued, refunded>>

Cancel(p, d) ==
    /\ status[d] \in CANCELABLE_STATUSES
    /\ At(p, "idle")
    /\ Settle(d, "CANCELED")
    /\ Goto(p, [IdleFrame EXCEPT !.op = "cancel", !.at = "release", !.on = d,
                                 !.cleanup = "refund"])
    /\ UNCHANGED <<source, assigned, reason, attempts, fleet, queued, refunded>>

\* adminForceCancel's first update: the pre-launch statuses.
ForceCancelGrounded(p, d) ==
    /\ d \in Rows /\ At(p, "idle")
    /\ IF status[d] \notin TERMINAL_STATUSES \cup FAILABLE_STATUSES
       THEN /\ Settle(d, "CANCELED")
            /\ Goto(p, [IdleFrame EXCEPT !.op = "forceCancel", !.at = "release", !.on = d,
                                         !.cleanup = "refund"])
       ELSE /\ Begin(p, "forceCancel", "force", d)
            /\ UNCHANGED <<status, midair>>
    /\ UNCHANGED <<source, assigned, reason, attempts, fleet, queued, refunded>>

ForceCancelAirborne_ReturnsToFleet(p) ==
    /\ At(p, "force")
    /\ LET d == frame[p].on IN
       IF status[d] \in FAILABLE_STATUSES
       THEN Settle(d, "CANCELED") /\ ThenRelease(p, FALSE, "refund")
       ELSE Finish(p) /\ UNCHANGED <<status, midair>>
    /\ UNCHANGED <<source, assigned, reason, attempts, fleet, queued, refunded>>

\* Its second update, the in-flight statuses; a miss is a 409.
ForceCancelAirborne(p) ==
    /\ At(p, "force")
    /\ LET d == frame[p].on IN
       IF status[d] \in FAILABLE_STATUSES
       THEN Settle(d, "CANCELED") /\ ThenRelease(p, TRUE, "refund")
       ELSE Finish(p) /\ UNCHANGED <<status, midair>>
    /\ UNCHANGED <<source, assigned, reason, attempts, fleet, queued, refunded>>

AllowedStatuses_Default(op) == IF op = "kickoff" THEN {"SCHEDULED"} ELSE FAILABLE_STATUSES

\* The statuses each caller of failExceptional may fail from.
AllowedStatuses(op) ==
    CASE op = "kickoff"  -> {"SCHEDULED"}
      [] op = "watchdog" -> WATCHDOG_STUCK_STATUSES
      [] OTHER           -> FAILABLE_STATUSES

FailFrom_NeverRefunds(p, f) ==
    /\ status[f.on] \in AllowedStatuses(f.op)
    /\ Settle(f.on, "DELIVERY_FAILED")
    /\ reason' = [reason EXCEPT ![f.on] = f.why]
    /\ Goto(p, [f EXCEPT !.at = "release", !.ground = TRUE, !.cleanup = "stop"])
    /\ UNCHANGED <<source, assigned, attempts, fleet, queued, refunded>>

\* The conditional update, then what cleanupAfterTermination is told to do: an aircraft
\* that is implicated, or still flying, is grounded.
FailFrom(p, f) ==
    /\ status[f.on] \in AllowedStatuses(f.op)
    /\ Settle(f.on, "DELIVERY_FAILED")
    /\ reason' = [reason EXCEPT ![f.on] = f.why]
    /\ Goto(p, [f EXCEPT !.at = "release",
                         !.ground = IsDroneFaultReason(f.why) \/ status[f.on] \in FAILABLE_STATUSES,
                         !.cleanup = IF IsDroneFaultReason(f.why) THEN "refund" ELSE "stop"])
    /\ UNCHANGED <<source, assigned, attempts, fleet, queued, refunded>>

\* failExceptional reached from a handler that read the row earlier.
FailExceptional(p) ==
    /\ At(p, "fail")
    /\ \/ FailFrom(p, frame[p])
       \/ /\ status[frame[p].on] \notin AllowedStatuses(frame[p].op)
          /\ Finish(p)
          /\ UNCHANGED <<row, fleet, queued, refunded, midair>>

\* failExceptional with the default set: adminFail, a telemetry FAILED phase, an ABORT ack.
FailNow(p, d) ==
    /\ At(p, "idle")
    /\ \E why \in FailureReason :
         FailFrom(p, [IdleFrame EXCEPT !.op = "fail", !.on = d, !.why = why])

\* A telemetry RETURNING phase; the ack of a RETURN_TO_BASE makes the same call.  The delivery is over for the
\* customer; the aircraft flies home and keeps its claim.
BeginReturnToBase(p, d) ==
    /\ source[d] = "LIVE" /\ status[d] \in RETURNABLE_STATUSES
    /\ At(p, "idle")
    /\ \E why \in FailureReason :
         /\ reason' = [reason EXCEPT ![d] = why]
         /\ Goto(p, [IdleFrame EXCEPT !.op = "return", !.at = "cleanup", !.on = d, !.why = why,
                         !.cleanup = IF IsDroneFaultReason(why) THEN "refund" ELSE "stop"])
    /\ status' = [status EXCEPT ![d] = "RETURNING"]
    /\ UNCHANGED <<source, assigned, attempts, fleet, queued, refunded, midair>>

\* A telemetry RETURNED phase: the aircraft has landed and is looked at before it flies.
CompleteReturnToBase(p, d) ==
    /\ source[d] = "LIVE" /\ status[d] = "RETURNING"
    /\ At(p, "idle")
    /\ Settle(d, "RETURNED_TO_BASE")
    /\ Goto(p, [IdleFrame EXCEPT !.op = "return", !.at = "release", !.on = d, !.ground = TRUE])
    /\ UNCHANGED <<source, assigned, reason, attempts, fleet, queued, refunded>>

\* An exception phase of a drone's telemetry, routed to its transition.
IngestException(p, d) ==
    /\ source[d] = "LIVE"
    /\ FailNow(p, d) \/ BeginReturnToBase(p, d) \/ CompleteReturnToBase(p, d)

\* The watchdog's candidate read: a silent LIVE delivery, and its reason so far.
WatchdogScan(p, d) ==
    /\ status[d] \in WATCHDOG_STUCK_STATUSES /\ source[d] = "LIVE"
    /\ At(p, "idle")
    /\ Goto(p, [IdleFrame EXCEPT !.op = "watchdog", !.at = "fail", !.on = d,
                    !.why = IF reason[d] = None THEN "DRONE_FAULT" ELSE reason[d]])
    /\ UNCHANGED <<row, fleet, queued, refunded, midair>>

----------------------------------------------------------------------------
(* confirmHandoff.                                                         *)

\* The row is read; a locked handoff is failed, else the code is right or wrong.
ConfirmHandoff(p, d) ==
    /\ status[d] = "AWAITING_HANDOFF"
    /\ At(p, "idle")
    /\ \E at \in IF attempts[d] >= MAX_HANDOFF_ATTEMPTS THEN {"fail"} ELSE {"confirm", "guess"} :
         Goto(p, [IdleFrame EXCEPT !.op = "handoff", !.at = at, !.on = d,
                                   !.why = "RECIPIENT_UNAVAILABLE"])
    /\ UNCHANGED <<row, fleet, queued, refunded, midair>>

\* The conditional increment; a count of zero means the cap is reached.
CountWrongCode(p) ==
    /\ At(p, "guess")
    /\ LET d == frame[p].on IN
       IF attempts[d] < MAX_HANDOFF_ATTEMPTS
       THEN attempts' = [attempts EXCEPT ![d] = @ + 1] /\ Step(p, "guessed")
       ELSE UNCHANGED attempts /\ Step(p, "fail")
    /\ UNCHANGED <<status, source, assigned, reason, fleet, queued, refunded, midair>>

RereadAttempts_OffByOne(p) ==
    /\ At(p, "guessed")
    /\ IF attempts[frame[p].on] > MAX_HANDOFF_ATTEMPTS THEN Step(p, "fail") ELSE Finish(p)
    /\ UNCHANGED <<row, fleet, queued, refunded, midair>>

\* The lock is decided from the persisted counter.
RereadAttempts(p) ==
    /\ At(p, "guessed")
    /\ IF attempts[frame[p].on] >= MAX_HANDOFF_ATTEMPTS THEN Step(p, "fail") ELSE Finish(p)
    /\ UNCHANGED <<row, fleet, queued, refunded, midair>>

FinishHandoff_Blind(p) ==
    /\ At(p, "confirm")
    /\ Settle(frame[p].on, "DELIVERED") /\ ThenRelease(p, FALSE, "none")
    /\ UNCHANGED <<source, assigned, reason, attempts, fleet, queued, refunded>>

\* The right code: the single-winner transition, then the release.
FinishHandoff(p) ==
    /\ At(p, "confirm")
    /\ LET d == frame[p].on IN
       IF status[d] = "AWAITING_HANDOFF"
       THEN Settle(d, "DELIVERED") /\ ThenRelease(p, FALSE, "none")
       ELSE Finish(p) /\ UNCHANGED <<status, midair>>
    /\ UNCHANGED <<source, assigned, reason, attempts, fleet, queued, refunded>>

----------------------------------------------------------------------------
(* The operator, and the process dying.                                    *)

\* updateDrone: any of status and airworthy; activeDeliveryId is not in the DTO.
UpdateDrone(x) ==
    /\ \E st \in OperatorStatuses \cup {dstatus[x]}, aw \in BOOLEAN :
         /\ dstatus' = [dstatus EXCEPT ![x] = st]
         /\ airworthy' = [airworthy EXCEPT ![x] = aw]
    /\ UNCHANGED <<row, active, queued, refunded, midair, frame>>

Crash(p) ==
    /\ "crash" \in Faults
    /\ ~At(p, "idle")
    /\ Finish(p)
    /\ UNCHANGED <<row, fleet, queued, refunded, midair>>

----------------------------------------------------------------------------

\* A handler that is in progress takes its next step.
Continue(p) ==
    \/ SelectAircraft(p) \/ ClaimAircraft(p) \/ ClaimLost(p) \/ ClaimThrows(p)
    \/ Release(p) \/ Cleanup(p)
    \/ InsertDelivery(p) \/ InsertThrows(p) \/ Enqueue(p)
    \/ KickoffStartSimulation(p) \/ KickoffCas(p) \/ KickoffLost(p)
    \/ KickoffCasThrows(p) \/ KickoffRecheck(p)
    \/ ForceCancelAirborne(p) \/ FailExceptional(p)
    \/ CountWrongCode(p) \/ RereadAttempts(p) \/ FinishHandoff(p)

\* A request, a job, a tick or a frame of telemetry arrives.
Arrive(p, d) ==
    \/ CreateBegin(p, d) \/ KickoffBegin(p, d) \/ Cancel(p, d) \/ ForceCancelGrounded(p, d)
    \/ IngestException(p, d) \/ FailNow(p, d)
    \/ WatchdogScan(p, d) \/ ConfirmHandoff(p, d)

Next ==
    \/ \E p \in Procs : Continue(p)
    \/ \E p \in Procs, d \in Deliveries : Arrive(p, d)
    \/ \E d \in Deliveries, target \in STAGES : HandleStage(d, target) \/ IngestPhase(d, target)
    \/ \E x \in Drones : UpdateDrone(x)
    \/ \E p \in Procs : Crash(p)

Spec == Init /\ [][Next]_vars

\* A process that is running keeps running.
FairSpec == Spec /\ \A p \in Procs : WF_vars(Continue(p))

\* Operators, too, keep doing everything the admin API offers on the aircraft and on
\* its delivery.
OperatedSpec ==
    /\ FairSpec
    /\ \A x \in Drones : WF_vars(UpdateDrone(x))
    /\ \A p \in Procs, d \in Deliveries : WF_vars(ForceCancelGrounded(p, d))
                                        /\ WF_vars(FailNow(p, d))

----------------------------------------------------------------------------
(* Properties.                                                             *)

FramesOK ==
    /\ frame \in [Procs -> Frame]
    /\ \A p \in Procs : ~At(p, "idle") => frame[p].on # None

\* Every variable keeps its type; a handler in progress works on a delivery.
TypeOK ==
    /\ status \in [Deliveries -> DeliveryStatus \cup {"FREE", "MINTED"}]
    /\ source \in [Deliveries -> {"SIMULATED", "LIVE"}]
    /\ assigned \in [Deliveries -> Drones \cup {None}]
    /\ reason \in [Deliveries -> FailureReason \cup {None}]
    /\ attempts \in [Deliveries -> 0..MAX_HANDOFF_ATTEMPTS]
    /\ active \in [Drones -> Deliveries \cup {None}]
    /\ dstatus \in [Drones -> DroneStatus]
    /\ airworthy \in [Drones -> BOOLEAN]
    /\ queued \in [Deliveries -> SUBSET {"kickoff", "stages"}]
    /\ refunded \in [Deliveries -> BOOLEAN]
    /\ midair \subseteq Deliveries
    /\ FramesOK

\* A delivery a real aircraft is flying or about to fly.
Flying(d) == source[d] = "LIVE" /\ status[d] \in DeliveryStatus \ TERMINAL_STATUSES
Busy(d) == \E p \in Procs : frame[p].on = d

\* The claim outlives everything but the mission: from the write that binds an aircraft to
\* a LIVE delivery until the delivery settles, the drone row names that delivery, whatever
\* cancels, retries, crashes and failed writes happen around it.  dispatch.service.ts
\* selects only unclaimed rows, so this is what keeps a flying drone from being sold twice.
ClaimHeld == \A d \in Deliveries : Flying(d) => assigned[d] # None /\ active[assigned[d]] = d

\* Why ClaimHeld holds: what each handler may rely on between two of its round trips.
CreateOps == {"create", "schedule"}

FrameInv(p) ==
    LET f == frame[p]
        d == f.on IN
    /\ f.at = "idle" => f.op = "none"
    /\ f.at # "idle" => d \in Deliveries /\ status[d] # "FREE"
    /\ f.at \in {"dispatch", "claim"} => f.op \in {"create", "kickoff"}
    /\ f.at = "insert" => f.op \in CreateOps
    /\ f.at \in {"startSim", "kickCas", "recheck"} => f.op = "kickoff"
    /\ f.at = "startSim" => f.craft = None
    /\ f.op = "schedule" => f.craft = None /\ f.at \notin {"dispatch", "claim"}
    /\ f.op \in CreateOps /\ f.at \in {"dispatch", "claim", "insert"} => status[d] = "MINTED"
    /\ f.op = "kickoff" => status[d] # "MINTED"
    /\ f.op = "kickoff" /\ f.at \in {"dispatch", "claim", "startSim", "kickCas"} =>
          status[d] \in {"SCHEDULED"} \cup TERMINAL_STATUSES
    /\ f.at = "release" => \/ status[d] \in TERMINAL_STATUSES
                           \/ f.op \in CreateOps /\ status[d] = "MINTED"
                           \/ f.op = "kickoff" /\ status[d] = "SCHEDULED"
    /\ f.craft # None /\ (f.at = "insert" \/ (f.at = "kickCas" /\ status[d] = "SCHEDULED")) =>
          active[f.craft] = d

\* One create and one kickoff of a delivery at a time.
OneRunEach ==
    \A p, q \in Procs : p # q /\ frame[p].on = frame[q].on =>
        /\ ~(frame[p].op \in CreateOps /\ frame[q].op \in CreateOps)
        /\ ~(frame[p].op = "kickoff" /\ frame[q].op = "kickoff")

\* The claim discipline: a handler that is about to bind an aircraft still holds it, and one
\* that is about to release does so for a delivery that is settled, was never inserted, or
\* is proved not to have launched.  Together with ClaimHeld this is inductive.
ClaimDiscipline ==
    /\ \A p \in Procs : FrameInv(p)
    /\ OneRunEach
    /\ \A d \in Deliveries : source[d] = "LIVE" => status[d] \notin {"FREE", "MINTED", "SCHEDULED"}

\* One aircraft never flies two deliveries (schema.prisma: "the database itself refuses to
\* let one aircraft hold two deliveries").
NoDoubleBooking ==
    \A d, e \in Deliveries : Flying(d) /\ Flying(e) /\ d # e => assigned[d] # assigned[e]

\* No aircraft is leaked: once the handlers working on a delivery that is not flying are
\* done, no drone is still claimed for it.  This covers a create that throws, a kickoff
\* overtaken by a cancel, and every terminal path of deliveries.service.ts.
NoLeakedClaim ==
    \A d \in Deliveries : ~Flying(d) /\ ~Busy(d) => Held(d) = {}

\* An aircraft whose mission ended in the air leaves its claim grounded, so nobody can
\* dispatch it before a person has looked (release with GROUND_FOR_INSPECTION), whichever
\* of the racing terminal paths won.
GroundedAfterMidair ==
    [][\A x \in Drones : active[x] \in midair /\ active'[x] # active[x] => ~airworthy'[x]]_vars

\* A service fault is paid for: a canceled delivery, and one that failed or turned back
\* through no fault of the recipient, has its refund once its handlers are done.
FaultIsRefunded ==
    \A d \in Deliveries :
        /\ ~Busy(d)
        /\ \/ status[d] = "CANCELED"
           \/ /\ status[d] \in {"DELIVERY_FAILED", "RETURNING", "RETURNED_TO_BASE"}
              /\ reason[d] # "RECIPIENT_UNAVAILABLE"
        => refunded[d]

\* The watchdog never fails a delivery waiting at the door, even one it picked while it was
\* still in transit.
WatchdogSparesHandoff ==
    [][\A d \in Deliveries, p \in Procs :
          status[d] = "AWAITING_HANDOFF" /\ frame[p].op = "watchdog" /\ frame[p].on = d
          /\ frame'[p] # frame[p] => status'[d] = "AWAITING_HANDOFF"]_vars

\* admin.service.ts says of an operator's edit to an aircraft that flies: "`airworthy` and
\* `status` are dispatch preconditions, so clearing them stops the NEXT claim".  So no
\* handler puts a drone back in service that an operator took out.
GroundingSticks ==
    [][\A x \in Drones : dstatus[x] \in {"MAINTENANCE", "GROUNDED"} /\ dstatus'[x] = "AVAILABLE"
          => UNCHANGED frame]_vars

\* What a status is to the customer.
OutcomeOf(s) ==
    CASE s \in {"FREE", "MINTED"}     -> "none"
      [] s = "DELIVERED"              -> "delivered"
      [] s = "CANCELED"               -> "canceled"
      [] s = "DELIVERY_FAILED"        -> "failed"
      [] s = "RETURNED_TO_BASE"       -> "returned"
      [] s = "RETURNING"              -> "homebound"
      [] OTHER                        -> "open"

\* The core keeps the customer's promise.
Outcome == INSTANCE DeliveryOutcome WITH
    outcome <- [d \in Deliveries |-> OutcomeOf(status[d])],
    repaid <- refunded

\* Every behaviour of the delivery core is one DeliveryOutcome allows: settled once, never
\* re-opened, never paid back while open or delivered.
KeepsPromise == Outcome!Spec

\* A settled delivery gives its aircraft back.
AircraftComesBack ==
    \A d \in Deliveries : (status[d] \in TERMINAL_STATUSES) ~> (Held(d) = {})

\* dispatch.service.ts says of a release that failed: "A leaked claim is recoverable by an
\* operator".
LeakIsRecoverable == AircraftComesBack

\* A locked handoff is settled without anyone asking again.
LockedHandoffSettles ==
    \A d \in Deliveries :
        (status[d] = "AWAITING_HANDOFF" /\ attempts[d] >= MAX_HANDOFF_ATTEMPTS)
            ~> (status[d] # "AWAITING_HANDOFF")

=============================================================================
