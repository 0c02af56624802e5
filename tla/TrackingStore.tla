--------------------------- MODULE TrackingStore ---------------------------
(***************************************************************************)
(* The tracking hot store (src/deliveries/tracking/tracking-hot-store.ts), *)
(* its checkpoint drain, and the stuck-delivery watchdog that judges a     *)
(* drone by the age of the row the drain refreshes.                        *)
(*                                                                         *)
(* Every position frame of a LIVE drone goes to a Redis hash and marks the *)
(* delivery dirty; a worker pops a batch of dirty deliveries every         *)
(* CHECKPOINT_INTERVAL and upserts their rows, which is what advances      *)
(* updatedAt.  The watchdog fails (and refunds) a delivery whose row is    *)
(* older than WATCHDOG_SILENCE.  Faults: Redis outages, a write whose      *)
(* reply is lost, a failed upsert, a worker that dies holding its batch.   *)
(*                                                                         *)
(* A position is abstracted to its freshness: "latest" is the last frame   *)
(* the drone sent, "old" any earlier one.  Time is in ticks; a drone in    *)
(* the air sends at least one frame per tick.                              *)
(***************************************************************************)
EXTENDS Naturals, FiniteSetsExt

CONSTANTS
  Tracked,               \* LIVE deliveries in flight
  CHECKPOINT_BATCH,      \* most deliveries one drain takes
  CHECKPOINT_INTERVAL,   \* ticks between two drains
  WATCHDOG_SILENCE,      \* age, in ticks, at which a row counts as silent
  MaxFaults              \* bound: faults of Redis, Postgres and the worker

CHECKPOINT_SAFETY_FACTOR == 4

\* assertCheckpointSafe refuses to boot otherwise.
ASSUME CheckpointSafe ==
  /\ {CHECKPOINT_BATCH, CHECKPOINT_INTERVAL, WATCHDOG_SILENCE} \subseteq Nat \ {0}
  /\ MaxFaults \in Nat
  /\ CHECKPOINT_INTERVAL * CHECKPOINT_SAFETY_FACTOR < WATCHDOG_SILENCE

VARIABLES
  craft,       \* per delivery: "flying", "lost" (comms gone), "reaped"
  trackRow,    \* per delivery: [pos, age] of the Postgres row
  hotPos,      \* per delivery: the Redis hash
  dirty,       \* HOT_DIRTY_SET
  redisUp,
  drain,       \* the worker's batch: [ids, read]
  sinceDrain,  \* ticks since the last checkpoint job
  framed,      \* deliveries that sent a frame in this tick
  trackFaults

trackingVars == <<craft, trackRow, hotPos, dirty, redisUp, drain, sinceDrain,
                  framed, trackFaults>>

Freshness == {"none", "old", "latest"}
Aged(p) == IF p = "latest" THEN "old" ELSE p
NothingRead == [of |-> {}, pos |-> "none"]
Idle == [ids |-> {}, read |-> NothingRead]
MayFault == trackFaults < MaxFaults
Fault == MayFault /\ trackFaults' = trackFaults + 1

TrackingTypeOK ==
  /\ craft \in [Tracked -> {"flying", "lost", "reaped"}]
  /\ trackRow \in [Tracked -> [pos : Freshness, age : 0..WATCHDOG_SILENCE]]
  /\ hotPos \in [Tracked -> Freshness]
  /\ dirty \subseteq Tracked
  /\ redisUp \in BOOLEAN
  /\ drain.ids \subseteq Tracked
  /\ drain.read.of \subseteq drain.ids
  /\ drain.read.pos \in Freshness
  /\ sinceDrain \in 0..CHECKPOINT_INTERVAL
  /\ framed \subseteq Tracked
  /\ trackFaults \in 0..MaxFaults

\* The delivery has just been claimed: no frame yet, and the row's age counts
\* from the delivery's own start (WATCHDOG_MIN_AGE).
TrackingInit ==
  /\ craft = [d \in Tracked |-> "flying"]
  /\ trackRow = [d \in Tracked |-> [pos |-> "none", age |-> 0]]
  /\ hotPos = [d \in Tracked |-> "none"]
  /\ dirty = {}
  /\ redisUp = TRUE
  /\ drain = Idle
  /\ sinceDrain = 0
  /\ framed = {}
  /\ trackFaults = 0

----------------------------------------------------------------------------
(* Frames *)

\* A frame makes every position recorded before it an old one.
DemotesRead(d) ==
  drain' = IF d \in drain.read.of THEN [drain EXCEPT !.read.pos = Aged(@)] ELSE drain

\* HSET, EXPIRE and SADD in one MULTI.
HotWrite(d) == hotPos' = [hotPos EXCEPT ![d] = "latest"] /\ dirty' = dirty \cup {d}

\* The write-through upsert, which stamps updatedAt.
RowWrite(d, p) == trackRow' = [trackRow EXCEPT ![d] = [pos |-> p, age |-> 0]]

\* writePosition's catch with the write forgotten.
Fallback_Swallowed(d) == trackRow' = [trackRow EXCEPT ![d].pos = Aged(@)]

\* writePosition's catch: write through to Postgres.
Fallback(d) == RowWrite(d, "latest")

\* updateTracking with the hot store on: the MULTI lands, or throws and falls
\* back; or it lands, its reply is lost and the fallback runs as well.
WritePosition(d) ==
  /\ craft[d] = "flying" /\ d \notin framed
  /\ framed' = framed \cup {d}
  /\ DemotesRead(d)
  /\ \/ /\ redisUp
        /\ HotWrite(d)
        /\ trackRow' = [trackRow EXCEPT ![d].pos = Aged(@)]
        /\ UNCHANGED trackFaults
     \/ /\ ~redisUp
        /\ hotPos' = [hotPos EXCEPT ![d] = Aged(@)]
        /\ Fallback(d)
        /\ UNCHANGED <<dirty, trackFaults>>
     \/ redisUp /\ Fault /\ HotWrite(d) /\ Fallback(d)
  /\ UNCHANGED <<craft, redisUp, sinceDrain>>

\* readPosition: nothing when the key is gone or Redis is unreachable.
ReadPosition(d) == IF redisUp THEN hotPos[d] ELSE "none"

\* getTracking: the hot position overlays the row (synthesizeRow when there is
\* no row yet).
GetTracking(d) == IF ReadPosition(d) # "none" THEN ReadPosition(d) ELSE trackRow[d].pos

----------------------------------------------------------------------------
(* The checkpoint job *)

\* One job per interval; the pop takes at most CHECKPOINT_BATCH, whichever
\* Redis picks.  With Redis down the pop throws and the job is over.
DrainPop ==
  /\ drain = Idle /\ sinceDrain = CHECKPOINT_INTERVAL
  /\ sinceDrain' = 0
  /\ \/ /\ redisUp
        /\ \E ids \in SUBSET dirty :
             /\ Cardinality(ids) = Min({Cardinality(dirty), CHECKPOINT_BATCH})
             /\ drain' = [ids |-> ids, read |-> NothingRead]
             /\ dirty' = dirty \ ids
     \/ ~redisUp /\ UNCHANGED <<drain, dirty>>
  /\ UNCHANGED <<craft, trackRow, hotPos, redisUp, framed, trackFaults>>

\* HGETALL of the next popped delivery; an expired key is skipped.
DrainRead ==
  /\ drain.ids # {} /\ drain.read = NothingRead /\ redisUp
  /\ \E d \in drain.ids :
       drain' = IF hotPos[d] = "none"
                THEN [drain EXCEPT !.ids = @ \ {d}]
                ELSE [drain EXCEPT !.read = [of |-> {d}, pos |-> hotPos[d]]]
  /\ UNCHANGED <<craft, trackRow, hotPos, dirty, redisUp, sinceDrain, framed, trackFaults>>

\* A drain that marks again what it has just flushed.
DrainUpsert_Remarks ==
  /\ \E d \in drain.read.of :
       /\ RowWrite(d, drain.read.pos)
       /\ drain' = [ids |-> drain.ids \ {d}, read |-> NothingRead]
       /\ dirty' = dirty \cup {d}
  /\ UNCHANGED <<craft, hotPos, redisUp, sinceDrain, framed, trackFaults>>

\* The upsert of what was read.
DrainUpsert ==
  /\ \E d \in drain.read.of :
       /\ RowWrite(d, drain.read.pos)
       /\ drain' = [ids |-> drain.ids \ {d}, read |-> NothingRead]
  /\ UNCHANGED <<craft, hotPos, dirty, redisUp, sinceDrain, framed, trackFaults>>

\* A failed read (Redis down) or a failed upsert: mark dirty again, best effort.
Remark(d) == dirty' = IF redisUp THEN dirty \cup {d} ELSE dirty

DrainFails ==
  /\ \/ /\ drain.read.of = {} /\ ~redisUp /\ UNCHANGED trackFaults
        /\ \E d \in drain.ids : Remark(d) /\ drain' = [drain EXCEPT !.ids = @ \ {d}]
     \/ /\ Fault
        /\ \E d \in drain.read.of :
             Remark(d) /\ drain' = [ids |-> drain.ids \ {d}, read |-> NothingRead]
  /\ UNCHANGED <<craft, trackRow, hotPos, redisUp, sinceDrain, framed>>

\* The worker dies with a batch in hand: the popped marks are gone.
DrainDies ==
  /\ drain # Idle /\ Fault
  /\ drain' = Idle
  /\ UNCHANGED <<craft, trackRow, hotPos, dirty, redisUp, sinceDrain, framed>>

----------------------------------------------------------------------------
(* The watchdog, the drone and the clock *)

\* scanAndReap: LIVE, in motion and silent.
Silent(d) == trackRow[d].age >= WATCHDOG_SILENCE

ReapSilent(d) ==
  /\ craft[d] # "reaped" /\ Silent(d)
  /\ craft' = [craft EXCEPT ![d] = "reaped"]
  /\ UNCHANGED <<trackRow, hotPos, dirty, redisUp, drain, sinceDrain, framed, trackFaults>>

LosesComms(d) ==
  /\ craft[d] = "flying"
  /\ craft' = [craft EXCEPT ![d] = "lost"]
  /\ UNCHANGED <<trackRow, hotPos, dirty, redisUp, drain, sinceDrain, framed, trackFaults>>

\* HOT_POS_TTL_S outlasts the silence window.
HotExpires(d) ==
  /\ craft[d] = "reaped" /\ hotPos[d] # "none" /\ redisUp
  /\ hotPos' = [hotPos EXCEPT ![d] = "none"]
  /\ UNCHANGED <<craft, trackRow, dirty, redisUp, drain, sinceDrain, framed, trackFaults>>

RedisFails ==
  /\ redisUp /\ Fault /\ redisUp' = FALSE
  /\ UNCHANGED <<craft, trackRow, hotPos, dirty, drain, sinceDrain, framed>>

RedisReturns ==
  /\ ~redisUp /\ redisUp' = TRUE
  /\ UNCHANGED <<craft, trackRow, hotPos, dirty, drain, sinceDrain, framed, trackFaults>>

\* A tick passes once every drone in the air has sent its frame and a job that
\* was due has run to its end.
Tick ==
  /\ {d \in Tracked : craft[d] = "flying"} \subseteq framed
  /\ drain = Idle /\ sinceDrain < CHECKPOINT_INTERVAL
  /\ \E d \in Tracked : craft[d] # "reaped"
  /\ trackRow' = [d \in Tracked |->
                   [trackRow[d] EXCEPT !.age = Min({@ + 1, WATCHDOG_SILENCE})]]
  /\ sinceDrain' = sinceDrain + 1
  /\ framed' = {}
  /\ UNCHANGED <<craft, hotPos, dirty, redisUp, drain, trackFaults>>

TrackingNext ==
  \/ \E d \in Tracked : WritePosition(d) \/ ReapSilent(d) \/ LosesComms(d) \/ HotExpires(d)
  \/ DrainPop \/ DrainRead \/ DrainUpsert \/ DrainFails \/ DrainDies
  \/ RedisFails \/ RedisReturns \/ Tick

\* Drones that fly transmit, the repeatable jobs run, time passes.
TrackingFairness ==
  /\ \A d \in Tracked : WF_trackingVars(WritePosition(d)) /\ WF_trackingVars(ReapSilent(d))
  /\ WF_trackingVars(DrainPop) /\ WF_trackingVars(DrainRead \/ DrainUpsert \/ DrainFails)
  /\ WF_trackingVars(Tick)

TrackingSpec == TrackingInit /\ [][TrackingNext]_trackingVars

----------------------------------------------------------------------------
(* Properties *)

\* The watchdog never fails a delivery whose drone is still transmitting:
\* through outages, lost replies, failed upserts and dead workers the row of a
\* drone in the air is refreshed before WATCHDOG_SILENCE
\* (tracking-hot-store.constants.ts:21-27).
TransmittingIsNeverSilent == \A d \in Tracked : craft[d] = "flying" => ~Silent(d)

\* A drone that lost its comms is reaped in the end: no drain, re-mark or retry
\* keeps refreshing the row of a drone that sends nothing
\* (delivery-watchdog.ts scanAndReap).
LostIsReaped == \A d \in Tracked : (craft[d] = "lost") ~> (craft[d] = "reaped")
=============================================================================
