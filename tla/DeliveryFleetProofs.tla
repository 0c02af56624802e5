------------------------- MODULE DeliveryFleetProofs -------------------------
(***************************************************************************)
(* Proofs about DeliveryFleet for every set of deliveries, aircraft and    *)
(* handlers.                                                               *)
(***************************************************************************)
EXTENDS DeliveryFleet, TLAPS

----------------------------------------------------------------------------
(* Frames: what the frame helpers build is a frame.                        *)

LEMMA IdleFrameType == IdleFrame \in Frame /\ IdleFrame.at = "idle"
BY DEF IdleFrame, Frame, Ops, Points, Cleanups

LEMMA IdleFrameOp == IdleFrame.at = "idle" /\ IdleFrame.op = "none"
BY DEF IdleFrame

\* Replacing one handler's frame by a well-typed one keeps the frames well typed.
LEMMA GotoType ==
    ASSUME TypeOK, NEW p \in Procs, NEW f \in Frame, f.at # "idle" => f.on # None, Goto(p, f)
    PROVE  FramesOK'
BY DEF TypeOK, FramesOK, Goto, At

LEMMA FinishType ==
    ASSUME TypeOK, NEW p \in Procs, Finish(p)
    PROVE  FramesOK'
BY GotoType, IdleFrameType DEF Finish

\* A handler in progress works on a delivery.
LEMMA OnType ==
    ASSUME TypeOK, NEW p \in Procs, ~At(p, "idle")
    PROVE  frame[p] \in Frame /\ frame[p].on \in Deliveries /\ frame[p].on # None
BY FleetAssumption DEF TypeOK, FramesOK, Frame, FleetAssumption

LEMMA StepType ==
    ASSUME TypeOK, NEW p \in Procs, ~At(p, "idle"), NEW at \in Points, Step(p, at)
    PROVE  FramesOK'
<1>1. [frame[p] EXCEPT !.at = at] \in Frame /\ [frame[p] EXCEPT !.at = at].on # None
  BY OnType DEF Frame
<1> QED
  BY Zenon, <1>1, GotoType DEF Step

LEMMA DispatchThrowsType ==
    ASSUME TypeOK, NEW p \in Procs, ~At(p, "idle"), DispatchThrows(p)
    PROVE  FramesOK'
<1> DEFINE f == [frame[p] EXCEPT !.at = "fail", !.why = "DRONE_FAULT", !.cand = {}]
<1>1. f \in Frame /\ f.on # None
  BY ZenonT(30), OnType DEF Frame, Points, FailureReason
<1> QED
  BY Zenon, <1>1, GotoType, FinishType DEF DispatchThrows, HandleDispatchRefusal, GiveUp

LEMMA DispatchedType ==
    ASSUME TypeOK, NEW p \in Procs, ~At(p, "idle"), NEW x \in Drones, Dispatched(p, x)
    PROVE  FramesOK'
<1> DEFINE at == IF frame[p].op = "kickoff" THEN "kickCas" ELSE "insert"
           f == [frame[p] EXCEPT !.at = at, !.craft = x, !.cand = {}]
<1>1. at \in Points
  BY DEF Points
<1> HIDE DEF at
<1>2. f \in Frame /\ f.on # None
  BY Zenon, <1>1, OnType DEF Frame
<1> QED
  BY Zenon, <1>2, GotoType DEF Dispatched, at

LEMMA ThenReleaseType ==
    ASSUME TypeOK, NEW p \in Procs, ~At(p, "idle"), NEW g \in BOOLEAN, NEW c \in Cleanups,
           ThenRelease(p, g, c)
    PROVE  FramesOK'
<1> DEFINE f == [frame[p] EXCEPT !.at = "release", !.ground = g, !.cleanup = c]
<1>1. f \in Frame /\ f.on # None
  BY ZenonT(30), OnType DEF Frame, Points
<1> QED
  BY Zenon, <1>1, GotoType DEF ThenRelease

LEMMA ReleaseClaimedAircraftType ==
    ASSUME TypeOK, NEW p \in Procs, ~At(p, "idle"), ReleaseClaimedAircraft(p)
    PROVE  FramesOK'
BY Zenon, FinishType, ThenReleaseType DEF ReleaseClaimedAircraft, Cleanups

----------------------------------------------------------------------------
(* Types.                                                                  *)

LEMMA StatusTypes ==
    /\ {"CANCELED", "DELIVERED", "DELIVERY_FAILED", "RETURNED_TO_BASE", "RETURNING",
        "SCHEDULED", "PENDING"} \subseteq DeliveryStatus
    /\ STAGES \subseteq DeliveryStatus
BY DEF DeliveryStatus, STAGES, CANCELABLE_STATUSES, FAILABLE_STATUSES, TERMINAL_STATUSES

LEMMA SettleType ==
    ASSUME TypeOK, NEW d \in Deliveries, NEW to \in DeliveryStatus, Settle(d, to)
    PROVE  /\ status' \in [Deliveries -> DeliveryStatus \cup {"FREE", "MINTED"}]
           /\ midair' \subseteq Deliveries
BY DEF TypeOK, Settle

LEMMA BindKickoffType ==
    ASSUME TypeOK, NEW p \in Procs, ~At(p, "idle"), BindKickoff(p)
    PROVE  /\ status' \in [Deliveries -> DeliveryStatus \cup {"FREE", "MINTED"}]
           /\ source' \in [Deliveries -> {"SIMULATED", "LIVE"}]
           /\ assigned' \in [Deliveries -> Drones \cup {None}]
<1>1. frame[p].craft \in Drones \cup {None}
  BY OnType DEF Frame
<1> QED
  BY ZenonT(30), <1>1, StatusTypes DEF BindKickoff, TypeOK

LEMMA FailFromType ==
    ASSUME TypeOK, NEW p \in Procs, NEW f \in Frame, f.on \in Deliveries, FailFrom(p, f)
    PROVE  TypeOK'
<1> DEFINE ground == IsDroneFaultReason(f.why) \/ status[f.on] \in FAILABLE_STATUSES
           cleanup == IF IsDroneFaultReason(f.why) THEN "refund" ELSE "stop"
           g == [f EXCEPT !.at = "release", !.ground = ground, !.cleanup = cleanup]
<1>1. ground \in BOOLEAN /\ cleanup \in Cleanups
  BY DEF Cleanups, IsDroneFaultReason
<1> HIDE DEF ground, cleanup
<1>2. g \in Frame /\ g.on # None
  BY Zenon, <1>1, FleetAssumption DEF Frame, Points, FleetAssumption
<1>3. FramesOK'
  BY Zenon, <1>2, GotoType DEF FailFrom, ground, cleanup
<1>4. f.why \in FailureReason \cup {None}
  BY DEF Frame
<1> QED
  BY <1>3, <1>4, SettleType, StatusTypes DEF FailFrom, TypeOK, fleet

\* A handler's next step keeps every type.
LEMMA ContinueType ==
    ASSUME TypeOK, NEW p \in Procs, Continue(p)
    PROVE  TypeOK'
<1>1. CASE SelectAircraft(p)
  <2>1. ~At(p, "idle")
    BY Zenon, <1>1 DEF SelectAircraft, At
  <2>2. ASSUME NEW feasible \in SUBSET {x \in Drones : Claimable(x)},
               Goto(p, [frame[p] EXCEPT !.at = "claim", !.cand = feasible])
        PROVE  FramesOK'
    <3> DEFINE f == [frame[p] EXCEPT !.at = "claim", !.cand = feasible]
    <3>1. feasible \in SUBSET Drones
      OBVIOUS
    <3>2. f \in Frame /\ f.on # None
      BY ZenonT(30), <2>1, <3>1, OnType DEF Frame, Points
    <3> QED
      BY Zenon, <2>2, <3>2, GotoType
  <2>3. FramesOK'
    BY Zenon, <1>1, <2>1, <2>2, DispatchedType DEF SelectAircraft, Held
  <2> QED
    BY Zenon, <1>1, <2>3 DEF SelectAircraft, TypeOK, row, fleet
<1>2. CASE ClaimAircraft(p)
  <2>1. ~At(p, "idle") /\ frame[p].on \in Deliveries
    BY <1>2, OnType DEF ClaimAircraft, At
  <2>2. frame[p].cand \subseteq Drones
    BY <2>1, OnType DEF Frame
  <2>3. FramesOK'
    BY <1>2, <2>1, <2>2, DispatchedType, DispatchThrowsType DEF ClaimAircraft
  <2>4. dstatus' \in [Drones -> DroneStatus] /\ active' \in [Drones -> Deliveries \cup {None}]
    BY Zenon, <1>2, <2>1 DEF ClaimAircraft, TypeOK, DroneStatus
  <2> QED
    BY <1>2, <2>3, <2>4 DEF ClaimAircraft, TypeOK, row
<1>3. CASE ClaimLost(p)
  <2>1. ~At(p, "idle")
    BY <1>3 DEF ClaimLost, At
  <2>2. ASSUME NEW x, Goto(p, [frame[p] EXCEPT !.cand = @ \ {x}])
        PROVE  FramesOK'
    <3> DEFINE f == [frame[p] EXCEPT !.cand = @ \ {x}]
    <3>1. f \in Frame /\ f.on # None
      BY <2>1, OnType DEF Frame
    <3> QED
      BY Zenon, <2>2, <3>1, GotoType
  <2>3. FramesOK'
    BY <1>3, <2>2 DEF ClaimLost
  <2> QED
    BY <1>3, <2>3 DEF ClaimLost, TypeOK, row, fleet
<1>4. CASE ClaimThrows(p)
  <2>1. FramesOK'
    BY <1>4, DispatchThrowsType DEF ClaimThrows, At
  <2> QED
    BY <1>4, <2>1 DEF ClaimThrows, TypeOK, row, fleet
<1>5. CASE Release(p)
  <2>1. ~At(p, "idle")
    BY <1>5 DEF Release, At
  <2>2. FramesOK'
    BY <1>5, <2>1, FinishType, StepType DEF Release, Points
  <2>3. /\ active' \in [Drones -> Deliveries \cup {None}]
        /\ dstatus' \in [Drones -> DroneStatus]
    BY <1>5 DEF Release, TypeOK, fleet, DroneStatus
  <2>4. airworthy' \in [Drones -> BOOLEAN]
    <3> DEFINE kept(x) == airworthy[x] /\ ~(active[x] = frame[p].on /\ frame[p].ground)
    <3>1. \A x \in Drones : kept(x) \in BOOLEAN
      OBVIOUS
    <3>2. [x \in Drones |-> kept(x)] \in [Drones -> BOOLEAN]
      BY <3>1, Zenon
    <3>3. airworthy' = [x \in Drones |-> kept(x)] \/ airworthy' = airworthy
      BY <1>5 DEF Release, fleet
    <3> QED
      BY <3>2, <3>3, Zenon DEF TypeOK
  <2> QED
    BY <1>5, <2>2, <2>3, <2>4 DEF Release, TypeOK, row
<1>6. CASE Cleanup(p)
  <2>1. ~At(p, "idle")
    BY <1>6 DEF Cleanup, At
  <2>2. FramesOK'
    BY <1>6, FinishType DEF Cleanup
  <2>3. queued' \in [Deliveries -> SUBSET {"kickoff", "stages"}]
    BY <1>6, <2>1, OnType DEF Cleanup, TypeOK
  <2>4. (refunded[frame[p].on] \/ frame[p].cleanup = "refund") \in BOOLEAN
    OBVIOUS
  <2>5. refunded' \in [Deliveries -> BOOLEAN]
    BY <1>6, <2>4, Zenon DEF Cleanup, TypeOK
  <2> QED
    BY <1>6, <2>2, <2>3, <2>5 DEF Cleanup, TypeOK, row, fleet
<1>7. CASE InsertDelivery(p)
  <2>1. ~At(p, "idle") /\ frame[p].craft \in Drones \cup {None}
    BY <1>7, OnType DEF InsertDelivery, At, Frame
  <2>2. FramesOK'
    BY <1>7, <2>1, FinishType, StepType, ReleaseClaimedAircraftType DEF InsertDelivery, Points
  <2>3. /\ status' \in [Deliveries -> DeliveryStatus \cup {"FREE", "MINTED"}]
        /\ source' \in [Deliveries -> {"SIMULATED", "LIVE"}]
        /\ assigned' \in [Deliveries -> Drones \cup {None}]
    BY Zenon, <1>7, <2>1, StatusTypes DEF InsertDelivery, TypeOK
  <2> QED
    BY <1>7, <2>2, <2>3 DEF InsertDelivery, TypeOK, fleet
<1>8. CASE InsertThrows(p)
  <2>1. FramesOK'
    BY <1>8, ReleaseClaimedAircraftType DEF InsertThrows, At
  <2> QED
    BY <1>8, <2>1 DEF InsertThrows, TypeOK, row, fleet
<1>9. CASE Enqueue(p)
  <2>1. FramesOK'
    BY <1>9, FinishType DEF Enqueue
  <2>2. queued' \in [Deliveries -> SUBSET {"kickoff", "stages"}]
    BY <1>9 DEF Enqueue, TypeOK
  <2> QED
    BY <1>9, <2>1, <2>2 DEF Enqueue, TypeOK, row, fleet
<1>10. CASE KickoffStartSimulation(p)
  <2>1. FramesOK'
    BY <1>10, FinishType, StepType DEF KickoffStartSimulation, At, Points
  <2>2. queued' \in [Deliveries -> SUBSET {"kickoff", "stages"}]
    BY <1>10 DEF KickoffStartSimulation, TypeOK
  <2> QED
    BY <1>10, <2>1, <2>2 DEF KickoffStartSimulation, TypeOK, row, fleet
<1>11. CASE KickoffCas(p)
  <2>1. FramesOK'
    BY <1>11, FinishType DEF KickoffCas
  <2> QED
    BY <1>11, <2>1, BindKickoffType DEF KickoffCas, At, TypeOK, fleet
<1>12. CASE KickoffLost(p)
  <2>1. FramesOK'
    BY <1>12, ReleaseClaimedAircraftType DEF KickoffLost, At
  <2> QED
    BY <1>12, <2>1 DEF KickoffLost, TypeOK, row, fleet
<1>13. CASE KickoffCasThrows(p)
  <2>1. FramesOK'
    BY <1>13, FinishType, StepType DEF KickoffCasThrows, At, Points
  <2> QED
    BY <1>13, <2>1, BindKickoffType DEF KickoffCasThrows, At, TypeOK, fleet
<1>14. CASE KickoffRecheck(p)
  <2>1. FramesOK'
    BY Zenon, <1>14, FinishType, ThenReleaseType DEF KickoffRecheck, At, Cleanups
  <2> QED
    BY <1>14, <2>1 DEF KickoffRecheck, TypeOK, row, fleet
<1>15. CASE ForceCancelAirborne(p)
  <2>1. ~At(p, "idle")
    BY <1>15 DEF ForceCancelAirborne, At
  <2>2. FramesOK'
    BY Zenon, <1>15, <2>1, FinishType, ThenReleaseType DEF ForceCancelAirborne, Cleanups
  <2> QED
    BY Zenon, <1>15, <2>1, <2>2, OnType, SettleType, StatusTypes DEF ForceCancelAirborne, TypeOK, fleet
<1>16. CASE FailExceptional(p)
  <2>1. ~At(p, "idle")
    BY <1>16 DEF FailExceptional, At
  <2>2. CASE FailFrom(p, frame[p])
    BY <2>1, <2>2, OnType, FailFromType
  <2>3. CASE Finish(p) /\ UNCHANGED <<row, fleet, queued, refunded, midair>>
    BY <2>3, FinishType DEF TypeOK, row, fleet
  <2> QED
    BY <1>16, <2>2, <2>3 DEF FailExceptional
<1>17. CASE CountWrongCode(p)
  <2>1. FramesOK'
    BY <1>17, StepType DEF CountWrongCode, At, Points
  <2>2. attempts' \in [Deliveries -> 0..MAX_HANDOFF_ATTEMPTS]
    BY <1>17, OnType, FleetAssumption DEF CountWrongCode, At, TypeOK, FleetAssumption
  <2> QED
    BY <1>17, <2>1, <2>2 DEF CountWrongCode, TypeOK, fleet
<1>18. CASE RereadAttempts(p)
  <2>1. FramesOK'
    BY <1>18, FinishType, StepType DEF RereadAttempts, At, Points
  <2> QED
    BY <1>18, <2>1 DEF RereadAttempts, TypeOK, row, fleet
<1>19. CASE FinishHandoff(p)
  <2>1. ~At(p, "idle")
    BY <1>19 DEF FinishHandoff, At
  <2>2. FramesOK'
    BY Zenon, <1>19, <2>1, FinishType, ThenReleaseType DEF FinishHandoff, Cleanups
  <2> QED
    BY Zenon, <1>19, <2>1, <2>2, OnType, SettleType, StatusTypes DEF FinishHandoff, TypeOK, fleet
<1> QED
  BY <1>1, <1>2, <1>3, <1>4, <1>5, <1>6, <1>7, <1>8, <1>9, <1>10, <1>11, <1>12, <1>13, <1>14,
     <1>15, <1>16, <1>17, <1>18, <1>19 DEF Continue

\* A handler that starts keeps every type.
LEMMA ArriveType ==
    ASSUME TypeOK, NEW p \in Procs, NEW d \in Deliveries, Arrive(p, d)
    PROVE  TypeOK'
<1>0. d # None
  BY FleetAssumption DEF FleetAssumption
<1>1. CASE CreateBegin(p, d)
  <2>1. ASSUME NEW op \in Ops, NEW at \in Points, Begin(p, op, at, d)
        PROVE  FramesOK'
    <3> DEFINE f == [IdleFrame EXCEPT !.op = op, !.at = at, !.on = d]
    <3>1. f \in Frame /\ f.on # None
      BY Zenon, <1>0, IdleFrameType DEF Frame
    <3> QED
      BY Zenon, <2>1, <3>1, GotoType DEF Begin
  <2>2. FramesOK'
    BY <1>1, <2>1 DEF CreateBegin, Ops, Points
  <2> QED
    BY <1>1, <2>2 DEF CreateBegin, TypeOK, fleet
<1>2. CASE KickoffBegin(p, d)
  <2>1. ASSUME NEW at \in Points,
               Goto(p, [IdleFrame EXCEPT !.op = "kickoff", !.at = at, !.on = d, !.why = "DRONE_FAULT"])
        PROVE  FramesOK'
    <3> DEFINE f == [IdleFrame EXCEPT !.op = "kickoff", !.at = at, !.on = d, !.why = "DRONE_FAULT"]
    <3>1. f \in Frame /\ f.on # None
      BY Zenon, <1>0, IdleFrameType DEF Frame, Ops, FailureReason
    <3> QED
      BY Zenon, <2>1, <3>1, GotoType
  <2>2. FramesOK'
    BY Zenon, <1>2, <2>1 DEF KickoffBegin, Points
  <2> QED
    BY <1>2, <2>2 DEF KickoffBegin, TypeOK, row, fleet
<1>3. CASE Cancel(p, d)
  <2> DEFINE f == [IdleFrame EXCEPT !.op = "cancel", !.at = "release", !.on = d, !.cleanup = "refund"]
  <2>1. f \in Frame /\ f.on # None
    BY Zenon, <1>0, IdleFrameType DEF Frame, Ops, Points, Cleanups
  <2>2. FramesOK'
    BY Zenon, <1>3, <2>1, GotoType DEF Cancel
  <2> QED
    BY <1>3, <2>2, SettleType, StatusTypes DEF Cancel, TypeOK, fleet
<1>4. CASE ForceCancelGrounded(p, d)
  <2> DEFINE f == [IdleFrame EXCEPT !.op = "forceCancel", !.at = "release", !.on = d,
                                    !.cleanup = "refund"]
             g == [IdleFrame EXCEPT !.op = "forceCancel", !.at = "force", !.on = d]
  <2>1. f \in Frame /\ f.on # None
    BY ZenonT(30), <1>0, IdleFrameType DEF Frame, Ops, Points, Cleanups
  <2>2. g \in Frame /\ g.on # None
    BY Zenon, <1>0, IdleFrameType DEF Frame, Ops, Points
  <2>3. FramesOK'
    BY Zenon, <1>4, <2>1, <2>2, GotoType DEF ForceCancelGrounded, Begin
  <2> QED
    BY <1>4, <2>3, SettleType, StatusTypes DEF ForceCancelGrounded, TypeOK, fleet
<1>5. CASE FailNow(p, d)
  <2>1. PICK why \in FailureReason :
               FailFrom(p, [IdleFrame EXCEPT !.op = "fail", !.on = d, !.why = why])
    BY Zenon, <1>5 DEF FailNow
  <2> DEFINE f == [IdleFrame EXCEPT !.op = "fail", !.on = d, !.why = why]
  <2>2. f \in Frame /\ f.on = d
    BY Zenon, IdleFrameType DEF Frame, Ops
  <2> QED
    BY Zenon, <2>1, <2>2, FailFromType
<1>6. CASE BeginReturnToBase(p, d)
  <2>1. PICK why \in FailureReason :
             /\ reason' = [reason EXCEPT ![d] = why]
             /\ Goto(p, [IdleFrame EXCEPT !.op = "return", !.at = "cleanup", !.on = d, !.why = why,
                             !.cleanup = IF IsDroneFaultReason(why) THEN "refund" ELSE "stop"])
    BY Zenon, <1>6 DEF BeginReturnToBase
  <2> DEFINE c == IF IsDroneFaultReason(why) THEN "refund" ELSE "stop"
             f == [IdleFrame EXCEPT !.op = "return", !.at = "cleanup", !.on = d, !.why = why,
                                    !.cleanup = c]
  <2>2. c \in Cleanups
    BY DEF Cleanups
  <2> HIDE DEF c
  <2>3. f \in Frame /\ f.on # None
    BY Zenon, <1>0, <2>2, IdleFrameType DEF Frame, Ops, Points
  <2>4. FramesOK'
    BY Zenon, <2>1, <2>3, GotoType DEF c
  <2> QED
    BY <1>6, <2>1, <2>4, StatusTypes DEF BeginReturnToBase, TypeOK, fleet
<1>7. CASE CompleteReturnToBase(p, d)
  <2> DEFINE f == [IdleFrame EXCEPT !.op = "return", !.at = "release", !.on = d, !.ground = TRUE]
  <2>1. f \in Frame /\ f.on # None
    BY Zenon, <1>0, IdleFrameType DEF Frame, Ops, Points
  <2>2. FramesOK'
    BY Zenon, <1>7, <2>1, GotoType DEF CompleteReturnToBase
  <2> QED
    BY <1>7, <2>2, SettleType, StatusTypes DEF CompleteReturnToBase, TypeOK, fleet
<1>8. CASE WatchdogScan(p, d)
  <2> DEFINE why == IF reason[d] = None THEN "DRONE_FAULT" ELSE reason[d]
             f == [IdleFrame EXCEPT !.op = "watchdog", !.at = "fail", !.on = d, !.why = why]
  <2>1. why \in FailureReason \cup {None}
    BY DEF TypeOK, FailureReason
  <2> HIDE DEF why
  <2>2. f \in Frame /\ f.on # None
    BY Zenon, <1>0, <2>1, IdleFrameType DEF Frame, Ops, Points
  <2>3. FramesOK'
    BY Zenon, <1>8, <2>2, GotoType DEF WatchdogScan, why
  <2> QED
    BY <1>8, <2>3 DEF WatchdogScan, TypeOK, row, fleet
<1>9. CASE ConfirmHandoff(p, d)
  <2>1. ASSUME NEW at \in Points,
               Goto(p, [IdleFrame EXCEPT !.op = "handoff", !.at = at, !.on = d,
                                         !.why = "RECIPIENT_UNAVAILABLE"])
        PROVE  FramesOK'
    <3> DEFINE f == [IdleFrame EXCEPT !.op = "handoff", !.at = at, !.on = d,
                                      !.why = "RECIPIENT_UNAVAILABLE"]
    <3>1. f \in Frame /\ f.on # None
      BY Zenon, <1>0, IdleFrameType DEF Frame, Ops, FailureReason
    <3> QED
      BY Zenon, <2>1, <3>1, GotoType
  <2>2. FramesOK'
    BY Zenon, <1>9, <2>1 DEF ConfirmHandoff, Points
  <2> QED
    BY <1>9, <2>2 DEF ConfirmHandoff, TypeOK, row, fleet
<1> QED
  BY <1>1, <1>2, <1>3, <1>4, <1>5, <1>6, <1>7, <1>8, <1>9 DEF Arrive, IngestException

LEMMA NextType == TypeOK /\ [Next]_vars => TypeOK'
<1> SUFFICES ASSUME TypeOK, [Next]_vars PROVE TypeOK'
  OBVIOUS
<1>1. ASSUME NEW d \in Deliveries, NEW target \in STAGES, Advance(d, target)
      PROVE  TypeOK'
  BY <1>1, StatusTypes DEF Advance, TypeOK, FramesOK, At, fleet
<1>2. ASSUME NEW x \in Drones, UpdateDrone(x)
      PROVE  TypeOK'
  BY <1>2, FleetAssumption DEF UpdateDrone, TypeOK, FramesOK, At, row, FleetAssumption
<1>3. ASSUME NEW p \in Procs, Crash(p)
      PROVE  TypeOK'
  BY <1>3, FinishType DEF Crash, TypeOK, row, fleet
<1>4. CASE UNCHANGED vars
  BY <1>4 DEF TypeOK, FramesOK, At, vars
<1> QED
  BY <1>1, <1>2, <1>3, <1>4, ContinueType, ArriveType DEF Next, HandleStage, IngestPhase

\* Every variable keeps its type in every reachable state, and a handler in progress always
\* works on a delivery, however many deliveries, aircraft and handlers there are and
\* whatever faults the environment is allowed.
THEOREM TypeCorrect == Spec => []TypeOK
<1>1. Init => TypeOK
  <2> SUFFICES ASSUME Init PROVE TypeOK
    OBVIOUS
  <2>1. FramesOK
    BY IdleFrameType DEF Init, FramesOK, At
  <2> QED
    BY <2>1, FleetAssumption DEF Init, TypeOK, DroneStatus, FleetAssumption
<1> QED
  BY <1>1, NextType, PTL DEF Spec

----------------------------------------------------------------------------
(* The claim.  Most steps are shallow: they touch no claim and no binding, *)
(* move a delivery only forward or to its end, and start no second create  *)
(* or kickoff.  A shallow step preserves the discipline of every other     *)
(* handler; the five steps that are not shallow are treated one by one.    *)

ClaimInv == TypeOK /\ ClaimDiscipline /\ ClaimHeld

OthersStay(p) == \A q \in Procs : q # p => frame'[q] = frame[q]

KeepsRun(p) ==
    frame'[p].op \in {"create", "schedule", "kickoff"} =>
        frame'[p].op = frame[p].op /\ frame'[p].on = frame[p].on

\* A row leaves SCHEDULED for its end only, and never comes back to it.
Moved(e) ==
    /\ status[e] \in DeliveryStatus \ TERMINAL_STATUSES
    /\ status'[e] \in DeliveryStatus \ {"SCHEDULED"}
    /\ status[e] = "SCHEDULED" => status'[e] \in TERMINAL_STATUSES

Shallow(p) ==
    /\ OthersStay(p)
    /\ KeepsRun(p)
    /\ \A e \in Deliveries : status'[e] = status[e] \/ Moved(e)
    /\ UNCHANGED <<source, assigned, active>>

LEMMA RunsKept ==
    ASSUME OneRunEach, NEW p \in Procs, OthersStay(p), KeepsRun(p)
    PROVE  OneRunEach'
BY DEF OneRunEach, OthersStay, KeepsRun, CreateOps

LEMMA ShallowKeepsOthers ==
    ASSUME ClaimInv, NEW p \in Procs, Shallow(p), NEW q \in Procs, q # p
    PROVE  FrameInv(q)'
<1>1. FrameInv(q) /\ frame'[q] = frame[q]
  BY ZenonT(30) DEF ClaimInv, ClaimDiscipline, Shallow, OthersStay
<1>2. CASE frame[q].at = "idle"
  BY ZenonT(30), <1>1, <1>2 DEF FrameInv, CreateOps
<1>3. CASE frame[q].at # "idle"
  <2>1. frame[q].on \in Deliveries
    BY <1>1, <1>3 DEF FrameInv
  <2>2. status'[frame[q].on] = status[frame[q].on] \/ Moved(frame[q].on)
    BY ZenonT(30), <2>1 DEF Shallow
  <2>3. active' = active
    BY ZenonT(30) DEF Shallow
  <2> QED
    BY ZenonT(30), <1>1, <2>1, <2>2, <2>3
    DEF FrameInv, CreateOps, Moved, DeliveryStatus, TERMINAL_STATUSES, CANCELABLE_STATUSES,
        FAILABLE_STATUSES
<1> QED
  BY <1>2, <1>3

LEMMA ShallowKeepsClaims ==
    ASSUME ClaimInv, NEW p \in Procs, Shallow(p), FrameInv(p)'
    PROVE  (ClaimDiscipline /\ ClaimHeld)'
<1>1. \A q \in Procs : FrameInv(q)'
  BY ShallowKeepsOthers
<1>2. OneRunEach'
  BY RunsKept DEF ClaimInv, ClaimDiscipline, Shallow
<1>3. ASSUME NEW d \in Deliveries, source'[d] = "LIVE"
      PROVE  status'[d] \notin {"FREE", "MINTED", "SCHEDULED"}
  BY <1>3 DEF ClaimInv, ClaimDiscipline, Shallow, Moved, DeliveryStatus, CANCELABLE_STATUSES,
              FAILABLE_STATUSES, TERMINAL_STATUSES
<1>4. ASSUME NEW d \in Deliveries, Flying(d)'
      PROVE  assigned'[d] # None /\ active'[assigned'[d]] = d
  <2>1. Flying(d)
    BY <1>4 DEF Flying, Shallow, Moved
  <2> QED
    BY <2>1 DEF ClaimInv, ClaimHeld, Shallow
<1> QED
  BY <1>1, <1>2, <1>3, <1>4 DEF ClaimDiscipline, ClaimHeld

LEMMA GotoIs ==
    ASSUME TypeOK, NEW p \in Procs, NEW f, Goto(p, f)
    PROVE  frame'[p] = f /\ OthersStay(p)
BY ZenonT(30) DEF TypeOK, FramesOK, Goto, OthersStay

\* A handler that ends owes nothing.
LEMMA FinishKeeps ==
    ASSUME TypeOK, NEW p \in Procs, Finish(p)
    PROVE  FrameInv(p)' /\ OthersStay(p) /\ KeepsRun(p)
<1>1. frame'[p] = IdleFrame /\ OthersStay(p)
  BY ZenonT(30), GotoIs DEF Finish
<1> QED
  BY <1>1 DEF FrameInv, KeepsRun, IdleFrame, CreateOps

\* A handler that goes on with its delivery to a round trip that relies on no claim.
LEMMA QuietKeeps ==
    ASSUME NEW p \in Procs, FrameInv(p), frame[p].at # "idle", status' = status,
           frame'[p].op = frame[p].op, frame'[p].on = frame[p].on,
           frame'[p].craft = frame[p].craft, frame'[p].at \in {"fail", "guessed", "cleanup"}
    PROVE  FrameInv(p)'
<1>1. /\ frame[p].on \in Deliveries /\ status[frame[p].on] # "FREE"
      /\ frame[p].op = "schedule" => frame[p].craft = None
      /\ frame[p].op = "kickoff" => status[frame[p].on] # "MINTED"
  BY DEF FrameInv
<1> QED
  BY ZenonT(30), <1>1 DEF FrameInv, CreateOps

\* The statuses before a stage are those of a healthy delivery under way.
LEMMA BeforeStage ==
    ASSUME NEW target, NEW s \in StatusesBefore(target)
    PROVE  s \in {"PENDING", "CONFIRMED", "DRONE_ASSIGNED", "PICKUP_IN_PROGRESS", "IN_TRANSIT",
                  "AWAITING_HANDOFF"}
<1>1. PICK i \in 1..7 : s = STATUS_ORDER[i] /\ \E k \in 1..7 : i < k
  BY DEF StatusesBefore
<1>2. i \in {1, 2, 3, 4, 5, 6}
  BY <1>1
<1> QED
  BY <1>1, <1>2 DEF STATUS_ORDER

\* Settling a row that is under way is a move.
LEMMA SettleMoves ==
    ASSUME TypeOK, NEW d \in Deliveries, NEW to \in TERMINAL_STATUSES, Settle(d, to),
           status[d] \in DeliveryStatus \ TERMINAL_STATUSES
    PROVE  /\ \A e \in Deliveries : status'[e] = status[e] \/ Moved(e)
           /\ status'[d] = to
BY DEF TypeOK, Settle, Moved, DeliveryStatus, TERMINAL_STATUSES

\* A step that leaves the rows and the fleet alone is shallow if its frame is.
LEMMA StillShallow ==
    ASSUME NEW p \in Procs, OthersStay(p), KeepsRun(p), UNCHANGED <<row, fleet>>
    PROVE  Shallow(p)
BY DEF Shallow, row, fleet

\* A handler that has settled its delivery may release.
LEMMA FailFromKeeps ==
    ASSUME ClaimInv, NEW p \in Procs, NEW f \in Frame, f.on \in Deliveries, FailFrom(p, f),
           \/ f = frame[p] /\ f.at = "fail"
           \/ f.op = "fail" /\ f.craft = None
    PROVE  Shallow(p) /\ FrameInv(p)'
<1>1. TypeOK
  BY DEF ClaimInv
<1> DEFINE ground == IsDroneFaultReason(f.why) \/ status[f.on] \in FAILABLE_STATUSES
           cleanup == IF IsDroneFaultReason(f.why) THEN "refund" ELSE "stop"
           g == [f EXCEPT !.at = "release", !.ground = ground, !.cleanup = cleanup]
<1>2. frame'[p] = g /\ OthersStay(p)
  BY <1>1, GotoIs DEF FailFrom
<1>3. g.op = f.op /\ g.at = "release" /\ g.on = f.on /\ g.craft = f.craft
  BY DEF Frame
<1> HIDE DEF g
<1>4. status[f.on] \in DeliveryStatus \ TERMINAL_STATUSES
  BY DEF FailFrom, AllowedStatuses, DeliveryStatus, TERMINAL_STATUSES, FAILABLE_STATUSES,
         CANCELABLE_STATUSES, WATCHDOG_STUCK_STATUSES
<1>5. "DELIVERY_FAILED" \in TERMINAL_STATUSES
  BY DEF TERMINAL_STATUSES
<1>6. /\ \A e \in Deliveries : status'[e] = status[e] \/ Moved(e)
      /\ status'[f.on] = "DELIVERY_FAILED"
  BY <1>1, <1>4, <1>5, SettleMoves DEF FailFrom
<1>7. KeepsRun(p)
  BY <1>2, <1>3 DEF KeepsRun
<1>8. Shallow(p)
  BY ZenonT(30), <1>2, <1>6, <1>7 DEF Shallow, FailFrom, fleet
<1>9. f.op = "schedule" => f.craft = None
  BY ZenonT(30) DEF ClaimInv, ClaimDiscipline, FrameInv
<1>10. FrameInv(p)'
  BY ZenonT(30), <1>2, <1>3, <1>5, <1>6, <1>9 DEF FrameInv, CreateOps
<1> QED
  BY <1>8, <1>10

\* Every step of a handler in progress keeps the claim discipline, as long as the delivery's
\* own transaction does not reject after it committed.
LEMMA ContinueKeepsClaims ==
    ASSUME "insert" \notin Faults, ClaimInv, NEW p \in Procs, Continue(p)
    PROVE  (ClaimDiscipline /\ ClaimHeld)'
<1>0. /\ TypeOK
      /\ FrameInv(p)
      /\ \A q \in Procs : FrameInv(q)
      /\ OneRunEach
  BY DEF ClaimInv, ClaimDiscipline
<1>t. TypeOK /\ FrameInv(p)
  BY <1>0
<1> DEFINE d == frame[p].on
           Kept == Shallow(p) /\ FrameInv(p)'
<1>a. ASSUME Kept PROVE (ClaimDiscipline /\ ClaimHeld)'
  BY <1>a, ShallowKeepsClaims
<1>b. ASSUME NEW at, Step(p, at), ~At(p, "idle")
      PROVE  /\ frame'[p].op = frame[p].op /\ frame'[p].on = d /\ frame'[p].at = at
             /\ frame'[p].craft = frame[p].craft
             /\ OthersStay(p) /\ KeepsRun(p)
  <2>1. frame[p] \in Frame
    BY <1>0, <1>b, OnType
  <2>2. frame'[p] = [frame[p] EXCEPT !.at = at] /\ OthersStay(p)
    BY <1>0, <1>b, GotoIs DEF Step
  <2> QED
    BY <2>1, <2>2 DEF Frame, KeepsRun
<1>c. ASSUME NEW g, NEW c, ThenRelease(p, g, c), ~At(p, "idle")
      PROVE  /\ frame'[p].op = frame[p].op /\ frame'[p].on = d /\ frame'[p].at = "release"
             /\ frame'[p].craft = frame[p].craft
             /\ OthersStay(p) /\ KeepsRun(p)
  <2>1. frame[p] \in Frame
    BY <1>0, <1>c, OnType
  <2>2. frame'[p] = [frame[p] EXCEPT !.at = "release", !.ground = g, !.cleanup = c] /\ OthersStay(p)
    BY <1>0, <1>c, GotoIs DEF ThenRelease
  <2> QED
    BY <2>1, <2>2 DEF Frame, KeepsRun
<1>d. ASSUME NEW x, Dispatched(p, x), ~At(p, "idle")
      PROVE  /\ frame'[p].op = frame[p].op /\ frame'[p].on = d
             /\ frame'[p].at = IF frame[p].op = "kickoff" THEN "kickCas" ELSE "insert"
             /\ frame'[p].craft = x
             /\ OthersStay(p) /\ KeepsRun(p)
  <2>1. frame[p] \in Frame
    BY <1>0, <1>d, OnType
  <2> DEFINE at == IF frame[p].op = "kickoff" THEN "kickCas" ELSE "insert"
  <2>2. frame'[p] = [frame[p] EXCEPT !.at = at, !.craft = x, !.cand = {}] /\ OthersStay(p)
    BY <1>0, <1>d, GotoIs DEF Dispatched
  <2> HIDE DEF at
  <2>3. frame'[p].op = frame[p].op /\ frame'[p].on = d /\ frame'[p].at = at /\ frame'[p].craft = x
    BY ZenonT(30), <2>1, <2>2 DEF Frame
  <2> QED
    BY <2>2, <2>3 DEF KeepsRun, at
<1>e. ASSUME DispatchThrows(p), At(p, "claim")
      PROVE  /\ OthersStay(p) /\ KeepsRun(p)
             /\ \/ Finish(p)
                \/ /\ frame'[p].op = frame[p].op /\ frame'[p].on = d /\ frame'[p].at = "fail"
                   /\ frame'[p].craft = frame[p].craft /\ frame[p].op = "kickoff"
  <2>1. CASE Finish(p)
    BY <1>0, <2>1, FinishKeeps
  <2>2. CASE frame[p].op = "kickoff" /\ GiveUp(p)
    <3>1. frame[p] \in Frame
      BY <1>0, <1>e, OnType DEF At
    <3>2. frame'[p] = [frame[p] EXCEPT !.at = "fail", !.why = "DRONE_FAULT", !.cand = {}] /\ OthersStay(p)
      BY <1>0, <2>2, GotoIs DEF GiveUp
    <3> QED
      BY <2>2, <3>1, <3>2 DEF Frame, KeepsRun
  <2> QED
    BY ZenonT(30), <1>e, <2>1, <2>2 DEF DispatchThrows, HandleDispatchRefusal
<1>f. ASSUME Finish(p), UNCHANGED <<row, fleet>>
      PROVE  (ClaimDiscipline /\ ClaimHeld)'
  BY <1>0, <1>a, <1>f, FinishKeeps, StillShallow
<1>g. ASSUME ReleaseClaimedAircraft(p), UNCHANGED <<row, fleet>>, ~At(p, "idle"),
             \/ status[d] \in TERMINAL_STATUSES
             \/ frame[p].op \in CreateOps /\ status[d] = "MINTED"
      PROVE  (ClaimDiscipline /\ ClaimHeld)'
  <2>1. CASE Finish(p)
    BY <1>f, <1>g, <2>1
  <2>2. CASE ThenRelease(p, FALSE, "none")
    <3>1. FrameInv(p)'
      BY Zenon, <1>t, <1>c, <1>g, <2>2 DEF FrameInv, CreateOps, At, row, TERMINAL_STATUSES
    <3> QED
      BY Zenon, <1>a, <1>c, <1>g, <2>2, <3>1, StillShallow
  <2> QED
    BY Zenon, <1>g, <2>1, <2>2 DEF ReleaseClaimedAircraft
<1>1. CASE SelectAircraft(p)
  <2>1. ~At(p, "idle") /\ UNCHANGED <<row, fleet>>
    BY ZenonT(30), <1>1 DEF SelectAircraft, At
  <2>2. ASSUME NEW x \in Drones, active[x] = d, Dispatched(p, x)
        PROVE  Kept
    <3>1. FrameInv(p)'
      BY Zenon, <1>t, <1>1, <1>d, <2>1, <2>2 DEF FrameInv, CreateOps, SelectAircraft, At, row, fleet
    <3> QED
      BY <1>d, <2>1, <2>2, <3>1, StillShallow
  <2>3. ASSUME NEW feasible, Goto(p, [frame[p] EXCEPT !.at = "claim", !.cand = feasible])
        PROVE  Kept
    <3>1. frame[p] \in Frame
      BY <1>0, <2>1, OnType
    <3>2. frame'[p] = [frame[p] EXCEPT !.at = "claim", !.cand = feasible] /\ OthersStay(p)
      BY <1>0, <2>3, GotoIs
    <3>3. frame'[p].op = frame[p].op /\ frame'[p].on = d /\ frame'[p].at = "claim"
          /\ frame'[p].craft = frame[p].craft
      BY <3>1, <3>2 DEF Frame
    <3>4. FrameInv(p)'
      BY Zenon, <1>t, <1>1, <2>1, <3>3 DEF FrameInv, CreateOps, SelectAircraft, At, row, fleet
    <3> QED
      BY Zenon, <2>1, <3>2, <3>3, <3>4, StillShallow DEF KeepsRun
  <2> QED
    BY Zenon, <1>1, <1>a, <2>2, <2>3 DEF SelectAircraft, Held
<1>3. CASE ClaimLost(p)
  <2>1. ~At(p, "idle") /\ UNCHANGED <<row, fleet>>
    BY <1>3 DEF ClaimLost, At
  <2>2. PICK x : Goto(p, [frame[p] EXCEPT !.cand = @ \ {x}])
    BY SMTT(30), <1>3 DEF ClaimLost
  <2>3. frame[p] \in Frame
    BY <1>0, <2>1, OnType
  <2>4. frame'[p] = [frame[p] EXCEPT !.cand = @ \ {x}] /\ OthersStay(p)
    BY <1>0, <2>2, GotoIs
  <2>5. frame'[p].op = frame[p].op /\ frame'[p].on = d /\ frame'[p].at = frame[p].at
        /\ frame'[p].craft = frame[p].craft
    BY <2>3, <2>4 DEF Frame
  <2>6. FrameInv(p)'
    BY ZenonT(30), <1>t, <2>1, <2>5 DEF FrameInv, CreateOps, row, fleet
  <2> QED
    BY Zenon, <1>a, <2>1, <2>4, <2>5, <2>6, StillShallow DEF KeepsRun
<1>4. CASE ClaimThrows(p)
  <2>1. At(p, "claim") /\ UNCHANGED <<row, fleet>> /\ DispatchThrows(p)
    BY <1>4 DEF ClaimThrows
  <2>2. FrameInv(p)'
    BY ZenonT(30), <1>t, <1>e, <2>1, FinishKeeps DEF FrameInv, CreateOps, At, row, fleet
  <2> QED
    BY <1>a, <1>e, <2>1, <2>2, StillShallow
<1>6. CASE Cleanup(p)
  BY SMTT(30), <1>6, <1>f DEF Cleanup
<1>8. CASE InsertThrows(p)
  <2>1. frame[p].op \in CreateOps /\ status[d] = "MINTED"
    BY ZenonT(30), <1>t, <1>8 DEF InsertThrows, At, FrameInv
  <2> QED
    BY ZenonT(30), <1>8, <1>g, <2>1 DEF InsertThrows, At
<1>9. CASE Enqueue(p)
  BY <1>9, <1>f DEF Enqueue
<1>10. CASE KickoffStartSimulation(p)
  <2>1. UNCHANGED <<row, fleet>> /\ At(p, "startSim")
    BY <1>10 DEF KickoffStartSimulation
  <2>2. CASE Finish(p)
    BY <1>f, <2>1, <2>2
  <2>3. CASE Step(p, "kickCas")
    <3>1. /\ frame'[p].op = "kickoff" /\ frame'[p].on = d /\ frame'[p].at = "kickCas"
          /\ frame'[p].craft = None /\ status' = status
      BY ZenonT(30), <1>t, <1>b, <2>1, <2>3 DEF FrameInv, At, row
    <3>a. /\ d \in Deliveries /\ status[d] \notin {"FREE", "MINTED"}
          /\ status[d] \in {"SCHEDULED"} \cup TERMINAL_STATUSES
      BY ZenonT(30), <1>t, <2>1 DEF FrameInv, At
    <3>2. FrameInv(p)'
      BY ZenonT(30), <3>1, <3>a DEF FrameInv, CreateOps
    <3> QED
      BY ZenonT(30), <1>a, <1>b, <2>1, <2>3, <3>2, StillShallow DEF At
  <2> QED
    BY <1>10, <2>2, <2>3 DEF KickoffStartSimulation
<1>12. CASE KickoffLost(p)
  <2>1. status[d] \in TERMINAL_STATUSES
    BY SMTT(90), <1>t, <1>12 DEF KickoffLost, At, FrameInv
  <2> QED
    BY ZenonT(30), <1>12, <1>g, <2>1 DEF KickoffLost, At
<1>14. CASE KickoffRecheck(p)
  <2>1. UNCHANGED <<row, fleet>> /\ At(p, "recheck")
    BY <1>14 DEF KickoffRecheck
  <2>2. CASE Finish(p)
    BY <1>f, <2>1, <2>2
  <2>3. CASE status[d] = "SCHEDULED" /\ ThenRelease(p, FALSE, "none")
    <3>1. FrameInv(p)'
      BY Zenon, <1>t, <1>c, <2>1, <2>3 DEF FrameInv, CreateOps, At, row, fleet
    <3> QED
      BY Zenon, <1>a, <1>c, <2>1, <2>3, <3>1, StillShallow DEF At
  <2> QED
    BY ZenonT(30), <1>14, <2>2, <2>3 DEF KickoffRecheck
<1>15. CASE ForceCancelAirborne(p)
  <2>1. At(p, "force") /\ d \in Deliveries
    BY <1>0, <1>15, OnType DEF ForceCancelAirborne, At
  <2>2. CASE status[d] \in FAILABLE_STATUSES /\ Settle(d, "CANCELED") /\ ThenRelease(p, TRUE, "refund")
    <3>1. "CANCELED" \in TERMINAL_STATUSES /\ FAILABLE_STATUSES \subseteq DeliveryStatus \ TERMINAL_STATUSES
      BY ZenonT(30) DEF TERMINAL_STATUSES, FAILABLE_STATUSES, DeliveryStatus
    <3>2. /\ \A e \in Deliveries : status'[e] = status[e] \/ Moved(e)
          /\ status'[d] = "CANCELED"
      BY <1>0, <2>1, <2>2, <3>1, SettleMoves
    <3>3. Shallow(p)
      BY Zenon, <1>15, <1>c, <2>1, <2>2, <3>2 DEF Shallow, ForceCancelAirborne, fleet, At
    <3>4. FrameInv(p)'
      BY ZenonT(30), <1>t, <1>c, <2>1, <2>2, <3>1, <3>2 DEF FrameInv, CreateOps, At
    <3> QED
      BY <1>a, <3>3, <3>4
  <2>3. CASE Finish(p) /\ UNCHANGED <<status, midair>>
    BY ZenonT(30), <1>15, <1>f, <2>3 DEF ForceCancelAirborne, row
  <2> QED
    BY Zenon, <1>15, <2>2, <2>3 DEF ForceCancelAirborne
<1>16. CASE FailExceptional(p)
  <2>1. At(p, "fail")
    BY SMTT(30), <1>16 DEF FailExceptional
  <2>2. CASE FailFrom(p, frame[p])
    BY <1>0, <1>a, <2>1, <2>2, OnType, FailFromKeeps DEF At
  <2>3. CASE Finish(p) /\ UNCHANGED <<row, fleet>>
    BY <1>f, <2>3
  <2> QED
    BY ZenonT(30), <1>16, <2>2, <2>3 DEF FailExceptional
<1>17. CASE CountWrongCode(p)
  <2>1. At(p, "guess") /\ UNCHANGED <<status, source, assigned, active>>
    BY <1>17 DEF CountWrongCode, fleet
  <2>2. PICK at \in {"guessed", "fail"} : Step(p, at)
    BY <1>17 DEF CountWrongCode
  <2>3. FrameInv(p)'
    BY Zenon, <1>t, <1>b, <2>1, <2>2 DEF FrameInv, CreateOps, At
  <2>4. Shallow(p)
    BY ZenonT(30), <1>b, <2>1, <2>2 DEF Shallow, At
  <2> QED
    BY <1>a, <2>3, <2>4
<1>18. CASE RereadAttempts(p)
  <2>1. At(p, "guessed") /\ UNCHANGED <<row, fleet>>
    BY Zenon, <1>18 DEF RereadAttempts
  <2>2. CASE Finish(p)
    BY SMTT(30), <1>f, <2>1, <2>2
  <2>3. CASE Step(p, "fail")
    <3>1. FrameInv(p)'
      BY <1>0, <1>b, <2>1, <2>3, QuietKeeps DEF At, row
    <3> QED
      BY ZenonT(30), <1>a, <1>b, <2>1, <2>3, <3>1, StillShallow DEF At
  <2> QED
    BY <1>18, <2>2, <2>3 DEF RereadAttempts
<1>19. CASE FinishHandoff(p)
  <2>1. At(p, "confirm") /\ d \in Deliveries
    BY ZenonT(30), <1>0, <1>19, OnType DEF FinishHandoff, At
  <2>2. CASE status[d] = "AWAITING_HANDOFF" /\ Settle(d, "DELIVERED") /\ ThenRelease(p, FALSE, "none")
    <3>1. "DELIVERED" \in TERMINAL_STATUSES /\ status[d] \in DeliveryStatus \ TERMINAL_STATUSES
      BY ZenonT(30), <2>2 DEF TERMINAL_STATUSES, FAILABLE_STATUSES, DeliveryStatus
    <3>2. /\ \A e \in Deliveries : status'[e] = status[e] \/ Moved(e)
          /\ status'[d] = "DELIVERED"
      BY <1>0, <2>1, <2>2, <3>1, SettleMoves
    <3>3. Shallow(p)
      BY Zenon, <1>19, <1>c, <2>1, <2>2, <3>2 DEF Shallow, FinishHandoff, fleet, At
    <3>4. FrameInv(p)'
      BY ZenonT(30), <1>t, <1>c, <2>1, <2>2, <3>1, <3>2 DEF FrameInv, CreateOps, At
    <3> QED
      BY <1>a, <3>3, <3>4
  <2>3. CASE Finish(p) /\ UNCHANGED <<status, midair>>
    BY ZenonT(30), <1>19, <1>f, <2>3 DEF FinishHandoff, row
  <2> QED
    BY ZenonT(30), <1>19, <2>2, <2>3 DEF FinishHandoff
<1>2. CASE ClaimAircraft(p)
  <2>1. At(p, "claim") /\ d \in Deliveries /\ d # None
    BY Zenon, <1>0, <1>2, OnType DEF ClaimAircraft, At
  <2>2. PICK x \in Drones : /\ active[x] = None
                            /\ active' = [active EXCEPT ![x] = d]
                            /\ Dispatched(p, x) \/ DispatchThrows(p)
    <3>1. frame[p].cand \subseteq Drones
      BY SMTT(30), <1>0, <2>1, OnType DEF Frame, At
    <3> QED
      BY Zenon, <1>2, <3>1 DEF ClaimAircraft, Claimable
  <2>3. UNCHANGED <<status, source, assigned>>
    BY ZenonT(30), <1>2 DEF ClaimAircraft, row
  <2>4. OthersStay(p) /\ KeepsRun(p)
    BY <1>d, <1>e, <2>1, <2>2 DEF At
  <2>5. \A y \in Drones : active[y] # None => active'[y] = active[y]
    BY <1>0, <2>2 DEF TypeOK
  <2>6. active'[x] = d
    BY <1>0, <2>2 DEF TypeOK
  <2>7. FrameInv(p)'
    <3>1. CASE Dispatched(p, x)
      BY Zenon, <1>t, <1>d, <2>1, <2>3, <2>6, <3>1 DEF FrameInv, CreateOps, At
    <3>2. CASE DispatchThrows(p)
      BY Zenon, <1>t, <1>e, <2>1, <2>3, <3>2, FinishKeeps DEF FrameInv, CreateOps, At
    <3> QED
      BY <2>2, <3>1, <3>2
  <2>8. ASSUME NEW q \in Procs, q # p
        PROVE  FrameInv(q)'
    <3>1. FrameInv(q) /\ frame'[q] = frame[q]
      BY Zenon, <1>0, <2>4, <2>8 DEF OthersStay
    <3>2. frame[q].craft # None => frame[q].craft \in Drones
      BY <1>0 DEF TypeOK, FramesOK, Frame
    <3>3. frame[q].at # "idle" => frame[q].on # None
      BY <1>0 DEF TypeOK, FramesOK, At
    <3> QED
      BY ZenonT(30), <2>3, <2>5, <3>1, <3>2, <3>3 DEF FrameInv, CreateOps
  <2>9. ClaimHeld'
    <3>1. ASSUME NEW e \in Deliveries, Flying(e)
          PROVE  assigned[e] # None /\ active'[assigned[e]] = e
      <4>1. assigned[e] \in Drones /\ active[assigned[e]] = e /\ assigned[e] # None /\ e # None
        BY ZenonT(30), <1>0, <3>1, FleetAssumption DEF ClaimInv, ClaimHeld, TypeOK, FleetAssumption
      <4> QED
        BY ZenonT(30), <2>5, <4>1
    <3> QED
      BY <2>3, <3>1 DEF ClaimHeld, Flying
  <2> QED
    BY <1>0, <2>3, <2>4, <2>7, <2>8, <2>9, RunsKept DEF ClaimInv, ClaimDiscipline
<1>5. CASE Release(p)
  <2>1. At(p, "release") /\ d \in Deliveries /\ d # None /\ UNCHANGED <<status, source, assigned>>
    BY ZenonT(30), <1>0, <1>5, OnType DEF Release, At, row
  <2>2. \A y \in Drones : active[y] # d => active'[y] = active[y]
    BY ZenonT(30), <1>5 DEF Release, fleet, TypeOK
  <2>3. FrameInv(p)' /\ OthersStay(p) /\ KeepsRun(p)
    <3>1. CASE Finish(p)
      BY ZenonT(30), <1>0, <3>1, FinishKeeps
    <3>2. CASE Step(p, "cleanup")
      BY <1>0, <1>b, <2>1, <3>2, QuietKeeps DEF At
    <3> QED
      BY <1>5, <3>1, <3>2 DEF Release
  <2>4. ASSUME NEW q \in Procs, q # p
        PROVE  FrameInv(q)'
    <3>1. FrameInv(q) /\ frame'[q] = frame[q]
      BY ZenonT(30), <1>0, <2>3, <2>4 DEF OthersStay
    <3>2. frame[q].craft # None => frame[q].craft \in Drones
      BY <1>0 DEF TypeOK, FramesOK, Frame
    <3>3. ASSUME frame[q].on = d
          PROVE  /\ frame[q].at # "insert"
                 /\ ~(frame[q].at = "kickCas" /\ status[d] = "SCHEDULED")
      BY ZenonT(30), <1>0, <2>1, <2>4, <3>1, <3>3 DEF FrameInv, OneRunEach, CreateOps, At, TERMINAL_STATUSES
    <3>4. frame[q].on # d => active'[frame[q].craft] = active[frame[q].craft]
                             \/ active[frame[q].craft] # frame[q].on \/ frame[q].craft = None
      BY <2>2, <3>2
    <3> QED
      BY Zenon, <2>1, <3>1, <3>3, <3>4 DEF FrameInv, CreateOps
  <2>5. ~Flying(d)
    BY ZenonT(30), <1>t, <2>1 DEF ClaimInv, ClaimDiscipline, FrameInv, At, Flying, TERMINAL_STATUSES,
                      DeliveryStatus, FAILABLE_STATUSES, CANCELABLE_STATUSES
  <2>6. ClaimHeld'
    <3>1. ASSUME NEW e \in Deliveries, Flying(e)
          PROVE  assigned[e] # None /\ active'[assigned[e]] = e
      <4>1. assigned[e] \in Drones /\ active[assigned[e]] = e /\ assigned[e] # None /\ e # d
        BY ZenonT(30), <1>0, <2>5, <3>1 DEF ClaimInv, ClaimHeld, TypeOK
      <4> QED
        BY ZenonT(30), <2>2, <4>1
    <3> QED
      BY SMTT(30), <2>1, <3>1 DEF ClaimHeld, Flying
  <2> QED
    BY ZenonT(30), <1>0, <2>1, <2>3, <2>4, <2>6, RunsKept DEF ClaimInv, ClaimDiscipline
<1>7. CASE InsertDelivery(p)
  <2>1. At(p, "insert") /\ d \in Deliveries /\ d # None /\ active' = active
    BY <1>0, <1>7, OnType DEF InsertDelivery, At, fleet
  <2>2. frame[p].op \in CreateOps /\ status[d] = "MINTED"
    BY Zenon, <1>t, <2>1 DEF FrameInv, At
  <2>3. /\ status'[d] = IF frame[p].op = "schedule" THEN "SCHEDULED" ELSE "PENDING"
        /\ source'[d] = IF frame[p].craft # None THEN "LIVE" ELSE "SIMULATED"
        /\ assigned'[d] = frame[p].craft
        /\ \A e \in Deliveries : e # d => /\ status'[e] = status[e] /\ source'[e] = source[e]
                                          /\ assigned'[e] = assigned[e]
    BY ZenonT(30), <1>0, <1>7, <2>1 DEF InsertDelivery, TypeOK
  <2>4. FrameInv(p)' /\ OthersStay(p) /\ KeepsRun(p)
    <3>1. CASE Finish(p)
      BY <1>0, <3>1, FinishKeeps
    <3>2. CASE Step(p, "enqueue")
      <4>1. /\ frame'[p].op = frame[p].op /\ frame'[p].on = d /\ frame'[p].at = "enqueue"
            /\ frame'[p].craft = frame[p].craft
            /\ OthersStay(p) /\ KeepsRun(p)
        BY ZenonT(30), <1>b, <2>1, <3>2 DEF At
      <4>2. status'[d] # "FREE"
        BY <2>3
      <4>3. FrameInv(p)'
        BY Zenon, <1>t, <2>1, <2>2, <4>1, <4>2 DEF FrameInv, CreateOps
      <4> QED
        BY ZenonT(30), <4>1, <4>3
    <3> QED
      BY <1>7, <3>1, <3>2 DEF InsertDelivery
  <2>5. ASSUME NEW q \in Procs, q # p
        PROVE  FrameInv(q)'
    <3>1. FrameInv(q) /\ frame'[q] = frame[q]
      BY <1>0, <2>4, <2>5 DEF OthersStay
    <3>2. CASE frame[q].on = d
      <4>1. frame[q].op \notin CreateOps /\ frame[q].op # "kickoff"
        BY Zenon, <1>0, <2>2, <2>5, <3>1, <3>2 DEF OneRunEach, FrameInv
      <4>2. frame[q].at # "release"
        BY ZenonT(30), <2>2, <3>1, <3>2, <4>1 DEF FrameInv, TERMINAL_STATUSES
      <4> QED
        BY ZenonT(30), <2>1, <2>3, <3>1, <3>2, <4>1, <4>2 DEF FrameInv, CreateOps
    <3>3. CASE frame[q].on # d
      <4>1. frame[q].at = "idle" \/ status'[frame[q].on] = status[frame[q].on]
        BY ZenonT(30), <2>3, <3>1, <3>3 DEF FrameInv
      <4> QED
        BY <2>1, <3>1, <4>1 DEF FrameInv, CreateOps
    <3> QED
      BY <3>2, <3>3
  <2>6. frame[p].craft # None => active[frame[p].craft] = d /\ frame[p].op # "schedule"
    BY ZenonT(30), <1>t, <2>1 DEF FrameInv, At
  <2>7. ClaimHeld'
    <3>1. ASSUME NEW e \in Deliveries, Flying(e)'
          PROVE  assigned'[e] # None /\ active'[assigned'[e]] = e
      <4>1. CASE e = d
        BY Zenon, <2>1, <2>3, <2>6, <3>1, <4>1 DEF Flying
      <4>2. CASE e # d
        <5>1. Flying(e)
          BY Zenon, <2>3, <3>1, <4>2 DEF Flying
        <5> QED
          BY ZenonT(30), <2>1, <2>3, <4>2, <5>1 DEF ClaimInv, ClaimHeld
      <4> QED
        BY <4>1, <4>2
    <3> QED
      BY SMTT(30), <3>1 DEF ClaimHeld
  <2>8. \A e \in Deliveries : source'[e] = "LIVE" => status'[e] \notin {"FREE", "MINTED", "SCHEDULED"}
    BY ZenonT(30), <2>3, <2>6 DEF ClaimInv, ClaimDiscipline
  <2> QED
    BY ZenonT(30), <1>0, <2>4, <2>5, <2>7, <2>8, RunsKept DEF ClaimDiscipline
<1>h. ASSUME At(p, "kickCas"), BindKickoff(p), active' = active, OthersStay(p), KeepsRun(p), FrameInv(p)'
      PROVE  (ClaimDiscipline /\ ClaimHeld)'
  <2>1. d \in Deliveries /\ frame[p].op = "kickoff" /\ status[d] = "SCHEDULED"
    BY Zenon, <1>t, <1>h, OnType DEF At, FrameInv, BindKickoff
  <2>2. /\ status'[d] = "PENDING"
        /\ \A e \in Deliveries : e # d => /\ status'[e] = status[e] /\ source'[e] = source[e]
                                          /\ assigned'[e] = assigned[e]
        /\ frame[p].craft = None => source'[d] = source[d]
        /\ frame[p].craft # None => assigned'[d] = frame[p].craft
    BY ZenonT(30), <1>0, <1>h, <2>1 DEF BindKickoff, TypeOK
  <2>3. ASSUME NEW q \in Procs, q # p
        PROVE  FrameInv(q)'
    <3>1. FrameInv(q) /\ frame'[q] = frame[q]
      BY Zenon, <1>0, <1>h, <2>3 DEF OthersStay
    <3>2. CASE frame[q].on = d
      <4>1. frame[q].op # "kickoff"
        BY ZenonT(30), <1>0, <2>1, <2>3, <3>2 DEF OneRunEach
      <4>2. frame[q].at # "release" /\ ~(frame[q].op \in CreateOps /\ frame[q].at \in {"dispatch", "claim", "insert"})
        BY <2>1, <3>1, <3>2, <4>1 DEF FrameInv, TERMINAL_STATUSES
      <4> QED
        BY ZenonT(30), <1>h, <2>1, <2>2, <3>1, <3>2, <4>1, <4>2 DEF FrameInv, CreateOps
    <3>3. CASE frame[q].on # d
      <4>1. frame[q].at = "idle" \/ status'[frame[q].on] = status[frame[q].on]
        BY Zenon, <2>2, <3>1, <3>3 DEF FrameInv
      <4> QED
        BY ZenonT(30), <1>h, <3>1, <4>1 DEF FrameInv, CreateOps
    <3> QED
      BY <3>2, <3>3
  <2>4. source[d] # "LIVE"
    BY <2>1 DEF ClaimInv, ClaimDiscipline
  <2>5. frame[p].craft # None => active[frame[p].craft] = d
    BY Zenon, <1>t, <1>h, <2>1 DEF FrameInv, At
  <2>6. ClaimHeld'
    <3>1. ASSUME NEW e \in Deliveries, Flying(e)'
          PROVE  assigned'[e] # None /\ active'[assigned'[e]] = e
      <4>1. CASE e = d
        BY ZenonT(30), <1>h, <2>2, <2>4, <2>5, <3>1, <4>1 DEF Flying
      <4>2. CASE e # d
        <5>1. Flying(e)
          BY ZenonT(30), <2>2, <3>1, <4>2 DEF Flying
        <5> QED
          BY ZenonT(30), <1>h, <2>2, <4>2, <5>1 DEF ClaimInv, ClaimHeld
      <4> QED
        BY <4>1, <4>2
    <3> QED
      BY SMTT(60), ZenonT(30), <3>1 DEF ClaimHeld
  <2>7. \A e \in Deliveries : source'[e] = "LIVE" => status'[e] \notin {"FREE", "MINTED", "SCHEDULED"}
    BY <2>2 DEF ClaimInv, ClaimDiscipline
  <2> QED
    BY <1>0, <1>h, <2>3, <2>6, <2>7, RunsKept DEF ClaimDiscipline
<1>11. CASE KickoffCas(p)
  BY <1>0, <1>11, <1>h, FinishKeeps DEF KickoffCas, fleet
<1>13. CASE KickoffCasThrows(p)
  <2>1. At(p, "kickCas") /\ UNCHANGED fleet /\ active' = active
    BY <1>13 DEF KickoffCasThrows, fleet
  <2>2. Finish(p) \/ Step(p, "recheck")
    BY <1>13 DEF KickoffCasThrows
  <2>3. status'[d] # "MINTED" /\ status'[d] # "FREE" /\ d \in Deliveries
    BY Zenon, <1>t, <1>13, <2>1, OnType DEF KickoffCasThrows, BindKickoff, FrameInv, At, TypeOK
  <2>4. FrameInv(p)' /\ OthersStay(p) /\ KeepsRun(p)
    <3>1. CASE Finish(p)
      BY <1>0, <3>1, FinishKeeps
    <3>2. CASE Step(p, "recheck")
      <4>1. /\ frame'[p].op = frame[p].op /\ frame'[p].on = d /\ frame'[p].at = "recheck"
            /\ frame'[p].craft = frame[p].craft
            /\ OthersStay(p) /\ KeepsRun(p)
        BY ZenonT(30), <1>b, <2>1, <3>2 DEF At
      <4>2. frame[p].op = "kickoff"
        BY <1>t, <2>1 DEF FrameInv, At
      <4>3. FrameInv(p)'
        BY Zenon, <2>3, <4>1, <4>2 DEF FrameInv, CreateOps
      <4> QED
        BY ZenonT(30), <4>1, <4>3
    <3> QED
      BY <2>2, <3>1, <3>2
  <2>5. CASE BindKickoff(p)
    BY <1>h, <2>1, <2>4, <2>5
  <2>6. CASE UNCHANGED <<status, source, assigned>>
    <3>1. Shallow(p)
      BY ZenonT(30), <2>1, <2>4, <2>6 DEF Shallow
    <3> QED
      BY <1>a, <2>4, <3>1
  <2> QED
    BY <1>13, <2>5, <2>6 DEF KickoffCasThrows
<1> QED
  BY ZenonT(30), <1>1, <1>2, <1>3, <1>4, <1>5, <1>6, <1>7, <1>8, <1>9, <1>10, <1>11, <1>12, <1>13, <1>14,
     <1>15, <1>16, <1>17, <1>18, <1>19 DEF Continue

\* A new frame other than a create's or a kickoff's, on a row, relies on nothing.
LEMMA FreshKeeps ==
    ASSUME TypeOK, NEW p \in Procs, NEW d \in Deliveries, status'[d] # "FREE",
           frame'[p].on = d, frame'[p].craft = None,
           frame'[p].op \notin {"create", "schedule", "kickoff"},
           frame'[p].at \in {"cleanup", "force", "fail", "guess", "confirm"}
           \/ (frame'[p].at = "release" /\ status'[d] \in TERMINAL_STATUSES)
    PROVE  FrameInv(p)' /\ KeepsRun(p)
BY DEF FrameInv, KeepsRun, CreateOps

\* Every handler that starts keeps the claim discipline, as long as the queue does not run
\* one kickoff twice at once.
LEMMA ArriveKeepsClaims ==
    ASSUME "redeliver" \notin Faults, ClaimInv, NEW p \in Procs, NEW d \in Deliveries, Arrive(p, d)
    PROVE  (ClaimDiscipline /\ ClaimHeld)'
<1>0. /\ TypeOK
      /\ \A q \in Procs : FrameInv(q)
      /\ OneRunEach
      /\ IdleFrame \in Frame
      /\ IdleFrame.craft = None /\ IdleFrame.op = "none" /\ IdleFrame.at = "idle"
  BY Zenon, IdleFrameType DEF ClaimInv, ClaimDiscipline, IdleFrame
<1>a. ASSUME Shallow(p), FrameInv(p)' PROVE (ClaimDiscipline /\ ClaimHeld)'
  BY <1>a, ShallowKeepsClaims
<1>s. /\ CANCELABLE_STATUSES \subseteq DeliveryStatus \ TERMINAL_STATUSES
      /\ FAILABLE_STATUSES \subseteq DeliveryStatus \ TERMINAL_STATUSES
      /\ RETURNABLE_STATUSES \subseteq DeliveryStatus \ TERMINAL_STATUSES
      /\ WATCHDOG_STUCK_STATUSES \subseteq DeliveryStatus \ TERMINAL_STATUSES
      /\ {"CANCELED", "RETURNED_TO_BASE"} \subseteq TERMINAL_STATUSES
      /\ "RETURNING" \in DeliveryStatus \ TERMINAL_STATUSES
      /\ "AWAITING_HANDOFF" \in DeliveryStatus
      /\ "FREE" \notin DeliveryStatus
  BY ZenonT(30) DEF DeliveryStatus, TERMINAL_STATUSES, FAILABLE_STATUSES, CANCELABLE_STATUSES,
         RETURNABLE_STATUSES, WATCHDOG_STUCK_STATUSES
<1>1. CASE CreateBegin(p, d)
  <2>1. PICK op \in CreateOps, at \in {"dispatch", "insert"} :
             Begin(p, op, at, d) /\ (op = "schedule" => at = "insert")
    BY <1>1 DEF CreateBegin, CreateOps
  <2>2. frame'[p] = [IdleFrame EXCEPT !.op = op, !.at = at, !.on = d] /\ OthersStay(p)
    BY <1>0, <2>1, GotoIs DEF Begin
  <2>3. frame'[p].op = op /\ frame'[p].at = at /\ frame'[p].on = d /\ frame'[p].craft = None
    BY <1>0, <2>2 DEF Frame
  <2>4. /\ status[d] = "FREE" /\ status'[d] = "MINTED"
        /\ \A e \in Deliveries : e # d => status'[e] = status[e]
        /\ UNCHANGED <<source, assigned, active>>
    BY ZenonT(30), <1>0, <1>1 DEF CreateBegin, TypeOK, fleet
  <2>5. FrameInv(p)'
    BY <2>1, <2>3, <2>4 DEF FrameInv, CreateOps
  <2>6. ASSUME NEW q \in Procs, q # p
        PROVE  FrameInv(q)' /\ (frame[q].at = "idle" \/ frame[q].on # d)
    <3>1. FrameInv(q) /\ frame'[q] = frame[q]
      BY <1>0, <2>2, <2>6 DEF OthersStay
    <3>2. frame[q].at = "idle" \/ frame[q].on # d
      BY ZenonT(30), <2>4, <3>1 DEF FrameInv
    <3>3. frame[q].at = "idle" \/ status'[frame[q].on] = status[frame[q].on]
      BY ZenonT(30), <2>4, <3>1, <3>2 DEF FrameInv
    <3> QED
      BY ZenonT(30), <2>4, <3>1, <3>2, <3>3 DEF FrameInv, CreateOps
  <2>7. OneRunEach'
    <3>1. \A q \in Procs : q # p => frame'[q] = frame[q]
                                    /\ (frame[q].op = "none" \/ frame[q].on # d)
      BY ZenonT(30), <1>0, <2>2, <2>6 DEF OthersStay, FrameInv
    <3> QED
      BY SMTT(90), <1>0, <2>3, <3>1 DEF OneRunEach, CreateOps
  <2>8. ClaimHeld'
    BY SMTT(30), <2>4, <1>s DEF ClaimInv, ClaimHeld, Flying, DeliveryStatus, TERMINAL_STATUSES,
                      FAILABLE_STATUSES, CANCELABLE_STATUSES
  <2>9. \A e \in Deliveries : source'[e] = "LIVE" => status'[e] \notin {"FREE", "MINTED", "SCHEDULED"}
    BY ZenonT(30), <2>4 DEF ClaimInv, ClaimDiscipline
  <2> QED
    BY <2>5, <2>6, <2>7, <2>8, <2>9 DEF ClaimDiscipline
<1>2. CASE KickoffBegin(p, d)
  <2>1. /\ status[d] = "SCHEDULED" /\ UNCHANGED <<row, fleet>>
        /\ \A q \in Procs : frame[q].op = "kickoff" => frame[q].on # d
    BY <1>2 DEF KickoffBegin
  <2>2. PICK at \in {"fail", "dispatch", "startSim"} :
             Goto(p, [IdleFrame EXCEPT !.op = "kickoff", !.at = at, !.on = d, !.why = "DRONE_FAULT"])
    BY Zenon, <1>2 DEF KickoffBegin
  <2>3. /\ frame'[p] = [IdleFrame EXCEPT !.op = "kickoff", !.at = at, !.on = d, !.why = "DRONE_FAULT"]
        /\ OthersStay(p)
    BY <1>0, <2>2, GotoIs
  <2>4. frame'[p].op = "kickoff" /\ frame'[p].at = at /\ frame'[p].on = d /\ frame'[p].craft = None
    BY ZenonT(30), <1>0, <2>3 DEF Frame
  <2>5. FrameInv(p)'
    BY SMTT(90), <2>1, <2>4 DEF FrameInv, CreateOps, row
  <2>6. ASSUME NEW q \in Procs, q # p
        PROVE  FrameInv(q)'
    <3>1. FrameInv(q) /\ frame'[q] = frame[q]
      BY <1>0, <2>3, <2>6 DEF OthersStay
    <3> QED
      BY ZenonT(30), <2>1, <3>1 DEF FrameInv, CreateOps, row, fleet
  <2>7. OneRunEach'
    <3>1. \A q \in Procs : q # p => frame'[q] = frame[q]
      BY <2>3 DEF OthersStay
    <3> QED
      BY <1>0, <2>1, <2>4, <3>1 DEF OneRunEach, CreateOps
  <2> QED
    BY <2>1, <2>5, <2>6, <2>7 DEF ClaimInv, ClaimDiscipline, ClaimHeld, Flying, row, fleet
<1>3. CASE Cancel(p, d)
  <2> DEFINE f == [IdleFrame EXCEPT !.op = "cancel", !.at = "release", !.on = d, !.cleanup = "refund"]
  <2>1. frame'[p] = f /\ OthersStay(p)
    BY <1>0, <1>3, GotoIs DEF Cancel
  <2>2. f.op = "cancel" /\ f.at = "release" /\ f.on = d /\ f.craft = None
    BY <1>0 DEF Frame
  <2> HIDE DEF f
  <2>3. (\A e \in Deliveries : status'[e] = status[e] \/ Moved(e)) /\ status'[d] = "CANCELED"
    BY ZenonT(30), <1>0, <1>3, <1>s, SettleMoves DEF Cancel
  <2>4. FrameInv(p)' /\ KeepsRun(p)
    BY <1>0, <1>s, <2>1, <2>2, <2>3, FreshKeeps
  <2> QED
    BY <1>3, <1>a, <2>1, <2>3, <2>4 DEF Cancel, Shallow, fleet
<1>4. CASE ForceCancelGrounded(p, d)
  <2>1. status[d] \in DeliveryStatus
    BY <1>4 DEF ForceCancelGrounded, Rows
  <2> DEFINE f == [IdleFrame EXCEPT !.op = "forceCancel", !.at = "release", !.on = d,
                                    !.cleanup = "refund"]
             g == [IdleFrame EXCEPT !.op = "forceCancel", !.at = "force", !.on = d]
  <2>2. f.op = "forceCancel" /\ f.at = "release" /\ f.on = d /\ f.craft = None
    BY <1>0 DEF Frame
  <2>3. g.op = "forceCancel" /\ g.at = "force" /\ g.on = d /\ g.craft = None
    BY <1>0 DEF Frame
  <2>4. \/ /\ status[d] \notin TERMINAL_STATUSES \cup FAILABLE_STATUSES
           /\ Settle(d, "CANCELED") /\ Goto(p, f)
        \/ Goto(p, g) /\ UNCHANGED status
    BY <1>4 DEF ForceCancelGrounded, Begin
  <2> HIDE DEF f, g
  <2>5. CASE status[d] \notin TERMINAL_STATUSES \cup FAILABLE_STATUSES
             /\ Settle(d, "CANCELED") /\ Goto(p, f)
    <3>1. (\A e \in Deliveries : status'[e] = status[e] \/ Moved(e)) /\ status'[d] = "CANCELED"
      BY <1>0, <1>s, <2>1, <2>5, SettleMoves
    <3>2. frame'[p] = f /\ OthersStay(p)
      BY ZenonT(30), <1>0, <2>5, GotoIs
    <3>3. FrameInv(p)' /\ KeepsRun(p)
      BY <1>0, <1>s, <2>2, <3>1, <3>2, FreshKeeps
    <3> QED
      BY ZenonT(30), <1>4, <1>a, <3>1, <3>2, <3>3 DEF ForceCancelGrounded, Shallow, fleet
  <2>6. CASE Goto(p, g) /\ UNCHANGED status
    <3>1. frame'[p] = g /\ OthersStay(p)
      BY ZenonT(30), <1>0, <2>6, GotoIs
    <3>2. FrameInv(p)' /\ KeepsRun(p)
      BY <1>0, <1>s, <2>1, <2>3, <2>6, <3>1, FreshKeeps
    <3> QED
      BY <1>4, <1>a, <2>6, <3>1, <3>2 DEF ForceCancelGrounded, Shallow, fleet
  <2> QED
    BY <2>4, <2>5, <2>6
<1>5. CASE FailNow(p, d)
  <2>1. PICK why \in FailureReason :
               FailFrom(p, [IdleFrame EXCEPT !.op = "fail", !.on = d, !.why = why])
    BY Zenon, <1>5 DEF FailNow
  <2> DEFINE f == [IdleFrame EXCEPT !.op = "fail", !.on = d, !.why = why]
  <2>2. f \in Frame /\ f.on = d /\ f.op = "fail" /\ f.craft = None
    BY Zenon, <1>0 DEF Frame, Ops
  <2> QED
    BY Zenon, <1>a, <2>1, <2>2, FailFromKeeps
<1>6. CASE BeginReturnToBase(p, d)
  <2>1. PICK why \in FailureReason, c \in Cleanups :
             Goto(p, [IdleFrame EXCEPT !.op = "return", !.at = "cleanup", !.on = d, !.why = why,
                                       !.cleanup = c])
    BY Zenon, <1>6 DEF BeginReturnToBase, Cleanups
  <2> DEFINE f == [IdleFrame EXCEPT !.op = "return", !.at = "cleanup", !.on = d, !.why = why,
                                    !.cleanup = c]
  <2>2. f.op = "return" /\ f.at = "cleanup" /\ f.on = d /\ f.craft = None
    BY <1>0 DEF Frame
  <2>3. frame'[p] = f /\ OthersStay(p)
    BY <1>0, <2>1, GotoIs
  <2> HIDE DEF f
  <2>4. (\A e \in Deliveries : status'[e] = status[e] \/ Moved(e)) /\ status'[d] = "RETURNING"
    BY ZenonT(30), <1>0, <1>6, <1>s DEF BeginReturnToBase, TypeOK, Moved, RETURNABLE_STATUSES
  <2>5. FrameInv(p)' /\ KeepsRun(p)
    BY <1>0, <2>2, <2>3, <2>4, FreshKeeps
  <2> QED
    BY <1>6, <1>a, <2>3, <2>4, <2>5 DEF BeginReturnToBase, Shallow, fleet
<1>7. CASE CompleteReturnToBase(p, d)
  <2> DEFINE f == [IdleFrame EXCEPT !.op = "return", !.at = "release", !.on = d, !.ground = TRUE]
  <2>1. frame'[p] = f /\ OthersStay(p)
    BY <1>0, <1>7, GotoIs DEF CompleteReturnToBase
  <2>2. f.op = "return" /\ f.at = "release" /\ f.on = d /\ f.craft = None
    BY <1>0 DEF Frame
  <2> HIDE DEF f
  <2>3. (\A e \in Deliveries : status'[e] = status[e] \/ Moved(e)) /\ status'[d] = "RETURNED_TO_BASE"
    BY ZenonT(30), <1>0, <1>7, <1>s, SettleMoves DEF CompleteReturnToBase
  <2>4. FrameInv(p)' /\ KeepsRun(p)
    BY <1>0, <1>s, <2>1, <2>2, <2>3, FreshKeeps
  <2> QED
    BY <1>7, <1>a, <2>1, <2>3, <2>4 DEF CompleteReturnToBase, Shallow, fleet
<1>8. CASE WatchdogScan(p, d)
  <2>1. PICK why : Goto(p, [IdleFrame EXCEPT !.op = "watchdog", !.at = "fail", !.on = d, !.why = why])
    BY Zenon, <1>8 DEF WatchdogScan
  <2> DEFINE f == [IdleFrame EXCEPT !.op = "watchdog", !.at = "fail", !.on = d, !.why = why]
  <2>2. f.op = "watchdog" /\ f.at = "fail" /\ f.on = d /\ f.craft = None
    BY <1>0 DEF Frame
  <2>3. frame'[p] = f /\ OthersStay(p)
    BY <1>0, <2>1, GotoIs
  <2> HIDE DEF f
  <2>4. UNCHANGED <<row, fleet>> /\ status'[d] # "FREE"
    BY ZenonT(30), <1>8, <1>s DEF WatchdogScan, row
  <2>5. FrameInv(p)' /\ KeepsRun(p)
    BY <1>0, <2>2, <2>3, <2>4, FreshKeeps
  <2> QED
    BY <1>a, <2>3, <2>4, <2>5, StillShallow
<1>9. CASE ConfirmHandoff(p, d)
  <2>1. PICK at \in {"fail", "confirm", "guess"} :
             Goto(p, [IdleFrame EXCEPT !.op = "handoff", !.at = at, !.on = d,
                                       !.why = "RECIPIENT_UNAVAILABLE"])
    BY Zenon, <1>9 DEF ConfirmHandoff
  <2> DEFINE f == [IdleFrame EXCEPT !.op = "handoff", !.at = at, !.on = d,
                                    !.why = "RECIPIENT_UNAVAILABLE"]
  <2>2. f.op = "handoff" /\ f.at = at /\ f.on = d /\ f.craft = None
    BY <1>0 DEF Frame
  <2>3. frame'[p] = f /\ OthersStay(p)
    BY <1>0, <2>1, GotoIs
  <2> HIDE DEF f
  <2>4. UNCHANGED <<row, fleet>> /\ status'[d] # "FREE"
    BY <1>9 DEF ConfirmHandoff, row
  <2>5. FrameInv(p)' /\ KeepsRun(p)
    BY <1>0, <2>1, <2>2, <2>3, <2>4, FreshKeeps
  <2> QED
    BY <1>a, <2>3, <2>4, <2>5, StillShallow
<1> QED
  BY <1>1, <1>2, <1>3, <1>4, <1>5, <1>6, <1>7, <1>8, <1>9 DEF Arrive, IngestException

LEMMA NextKeepsClaims ==
    ASSUME "insert" \notin Faults, "redeliver" \notin Faults
    PROVE  ClaimInv /\ [Next]_vars => ClaimInv'
<1> SUFFICES ASSUME ClaimInv, [Next]_vars PROVE ClaimInv'
  OBVIOUS
<1>0. TypeOK /\ TypeOK'
  BY NextType DEF ClaimInv
<1>1. ASSUME NEW d \in Deliveries, NEW target \in STAGES, Advance(d, target)
      PROVE  (ClaimDiscipline /\ ClaimHeld)'
  <2>1. target \in DeliveryStatus \ ({"SCHEDULED"} \cup TERMINAL_STATUSES)
    BY DEF STAGES, DeliveryStatus, FAILABLE_STATUSES, CANCELABLE_STATUSES, TERMINAL_STATUSES
  <2>2. status[d] \in DeliveryStatus \ TERMINAL_STATUSES /\ status[d] # "SCHEDULED"
    BY ZenonT(30), <1>1, BeforeStage DEF Advance, DeliveryStatus, FAILABLE_STATUSES, CANCELABLE_STATUSES,
                             TERMINAL_STATUSES
  <2>3. \A e \in Deliveries : status'[e] = status[e] \/ Moved(e)
    BY <1>0, <1>1, <2>1, <2>2 DEF Advance, TypeOK, Moved
  <2>4. frame' = frame /\ UNCHANGED <<source, assigned, active>>
    BY <1>1 DEF Advance, fleet
  <2>5. CASE Procs = {}
    BY ZenonT(30), <2>3, <2>4, <2>5 DEF ClaimInv, ClaimDiscipline, OneRunEach, ClaimHeld, Flying, Moved,
                            DeliveryStatus, FAILABLE_STATUSES, CANCELABLE_STATUSES, TERMINAL_STATUSES
  <2>6. ASSUME NEW p \in Procs
        PROVE  Shallow(p) /\ FrameInv(p)'
    <3>1. Shallow(p)
      BY <2>3, <2>4 DEF Shallow, OthersStay, KeepsRun
    <3>2. FrameInv(p)
      BY ZenonT(30) DEF ClaimInv, ClaimDiscipline
    <3>3. frame[p].at = "idle" \/ status'[frame[p].on] = status[frame[p].on] \/ Moved(frame[p].on)
      BY <2>3, <3>2 DEF FrameInv
    <3>4. FrameInv(p)'
      BY Zenon, <2>4, <3>2, <3>3
      DEF FrameInv, CreateOps, Moved, DeliveryStatus, TERMINAL_STATUSES, CANCELABLE_STATUSES,
          FAILABLE_STATUSES
    <3> QED
      BY <3>1, <3>4
  <2>7. CASE Procs # {}
    <3>1. PICK p \in Procs : TRUE
      BY <2>7
    <3> QED
      BY <2>6, <3>1, ShallowKeepsClaims
  <2> QED
    BY <2>5, <2>7
<1>2. ASSUME NEW x \in Drones, UpdateDrone(x)
      PROVE  (ClaimDiscipline /\ ClaimHeld)'
  BY ZenonT(30), <1>2 DEF UpdateDrone, ClaimInv, ClaimDiscipline, FrameInv, OneRunEach, ClaimHeld, Flying, row,
              CreateOps
<1>3. ASSUME NEW p \in Procs, Crash(p)
      PROVE  (ClaimDiscipline /\ ClaimHeld)'
  BY <1>0, <1>3, FinishKeeps, StillShallow, ShallowKeepsClaims DEF Crash
<1>4. CASE UNCHANGED vars
  <2>1. UNCHANGED <<status, source, assigned, active, frame>>
    BY <1>4 DEF vars
  <2>2. \A p \in Procs : FrameInv(p)'
    BY ZenonT(30), <2>1 DEF ClaimInv, ClaimDiscipline, FrameInv, CreateOps
  <2>3. OneRunEach' /\ ClaimHeld'
    BY Zenon, <2>1 DEF ClaimInv, ClaimDiscipline, OneRunEach, ClaimHeld, Flying, CreateOps
  <2> QED
    BY Zenon, <1>0, <2>1, <2>2, <2>3 DEF ClaimInv, ClaimDiscipline
<1>5. (ClaimDiscipline /\ ClaimHeld)' \/ UNCHANGED vars
  BY SMTT(30), <1>1, <1>2, <1>3, ContinueKeepsClaims, ArriveKeepsClaims DEF Next, HandleStage, IngestPhase
<1> QED
  BY <1>0, <1>4, <1>5 DEF ClaimInv

LEMMA InitClaims == Init => ClaimInv
<1> SUFFICES ASSUME Init PROVE ClaimInv
  OBVIOUS
<1>1. TypeOK
  <2>1. FramesOK
    BY IdleFrameType DEF Init, FramesOK, At
  <2> QED
    BY <2>1, FleetAssumption DEF Init, TypeOK, DroneStatus, FleetAssumption
<1>2. \A p \in Procs : frame[p].at = "idle" /\ frame[p].op = "none"
  <2>1. \A p \in Procs : frame[p] = IdleFrame
    BY ZenonT(30) DEF Init
  <2> QED
    BY ZenonT(30), <2>1, IdleFrameOp
<1>3. ASSUME NEW p \in Procs
      PROVE  FrameInv(p)
  <2>1. frame[p].at = "idle" /\ frame[p].op = "none"
    BY ZenonT(30), <1>2
  <2> QED
    BY <2>1 DEF FrameInv, CreateOps
<1>4. OneRunEach
  BY ZenonT(30), <1>2 DEF OneRunEach, CreateOps
<1>5. \A d \in Deliveries : source[d] = "SIMULATED"
  BY DEF Init
<1> QED
  BY <1>1, <1>3, <1>4, <1>5 DEF ClaimInv, ClaimDiscipline, ClaimHeld, Flying

\* The claim outlives everything but the mission: while a LIVE delivery is under way, the
\* aircraft bound to it carries its claim, for any number of deliveries, aircraft and
\* handlers, through crashes at any step and database writes that reject with or without
\* having committed.  The two faults it excludes are the two the code does not survive: a
\* delivery transaction that rejects after its commit, and a kickoff job run twice at once.
THEOREM ClaimIsHeld ==
    ASSUME "insert" \notin Faults, "redeliver" \notin Faults
    PROVE  Spec => []ClaimHeld
<1>1. ClaimInv => ClaimHeld
  BY DEF ClaimInv
<1> QED
  BY <1>1, InitClaims, NextKeepsClaims, PTL DEF Spec

\* The discipline every handler follows between its round trips, the invariant behind
\* ClaimIsHeld.
THEOREM ClaimsAreDisciplined ==
    ASSUME "insert" \notin Faults, "redeliver" \notin Faults
    PROVE  Spec => []ClaimDiscipline
<1>1. ClaimInv => ClaimDiscipline
  BY DEF ClaimInv
<1> QED
  BY <1>1, InitClaims, NextKeepsClaims, PTL DEF Spec

\* One aircraft never flies two deliveries, under the same two exclusions.
THEOREM NeverDoubleBooked ==
    ASSUME "insert" \notin Faults, "redeliver" \notin Faults
    PROVE  Spec => []NoDoubleBooking
<1>1. ClaimHeld => NoDoubleBooking
  BY SMTT(30) DEF ClaimHeld, NoDoubleBooking
<1> QED
  BY <1>1, ClaimIsHeld, PTL

=============================================================================
