------------------------------- MODULE MCLive -------------------------------
(***************************************************************************)
(* The components that must make progress, checked in one run: a behaviour *)
(* is a fair behaviour of one of them, chosen initially, while the others  *)
(* rest in a state in which none of their fair actions is enabled, so that *)
(* resting is fair.                                                        *)
(***************************************************************************)
EXTENDS DeliveryFleet, DroneCommands, ReferralOutbox, LiveFanout, TrackingStore

VARIABLE part

On(p) == part = p

\* Nothing is in the air.
TrackingAtRest ==
  /\ craft = [d \in Tracked |-> "reaped"]
  /\ trackRow = [d \in Tracked |-> [pos |-> "none", age |-> 0]]
  /\ hotPos = [d \in Tracked |-> "none"]
  /\ dirty = {} /\ framed = {} /\ drain = Idle /\ redisUp = TRUE
  /\ sinceDrain = 0 /\ trackFaults = 0

MCInit ==
  /\ part \in {"fleet", "commands", "outbox", "fanout", "tracking"}
  /\ Init /\ CommandsInit /\ OutboxInit /\ FanoutInit
  /\ IF On("tracking") THEN TrackingInit ELSE TrackingAtRest

MCNext ==
  \/ On("fleet") /\ Next /\ UNCHANGED <<part, commandVars, outboxVars, fanoutVars, trackingVars>>
  \/ On("commands") /\ CommandsNext /\ UNCHANGED <<part, vars, outboxVars, fanoutVars, trackingVars>>
  \/ On("outbox") /\ OutboxNext /\ UNCHANGED <<part, vars, commandVars, fanoutVars, trackingVars>>
  \/ On("fanout") /\ FanoutNext /\ UNCHANGED <<part, vars, commandVars, outboxVars, trackingVars>>
  \/ On("tracking") /\ TrackingNext /\ UNCHANGED <<part, vars, commandVars, outboxVars, fanoutVars>>

MCSpec ==
  /\ MCInit /\ [][MCNext]_<<part, vars, commandVars, outboxVars, fanoutVars, trackingVars>>
  /\ \A p \in Procs : WF_vars(Continue(p))
  /\ CommandsFairness /\ OutboxFairness /\ FanoutFairness /\ TrackingFairness
=============================================================================
