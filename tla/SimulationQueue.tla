--------------------------- MODULE SimulationQueue ---------------------------
(***************************************************************************)
(* The durable jobs that drive one scheduled, simulated delivery: the      *)
(* kickoff at its window, the holds the pre-flight check and the fleet     *)
(* put it through, and the stages it launches.                             *)
(*                                                                         *)
(* A job is picked by a worker, runs one round trip per step, and ends or  *)
(* throws.  A throw, and a worker that dies, look the same to the queue:   *)
(* the job runs again from its start, and the round trip it was in has     *)
(* taken effect or has not.  A job that is waiting may run: after the      *)
(* worker tier was down, everything is due at once.  The regime says what  *)
(* the delays are worth, and whether anything throws.                      *)
(***************************************************************************)
EXTENDS Statuses

CONSTANTS
    Stages,                 \* the stages that are modelled
    ATTEMPTS,               \* JOB_OPTS.attempts
    PREFLIGHT_MAX_ATTEMPTS, \* holds before a launch is given up
    Regimes,                \* the regimes a behaviour may run under
    MaxThrows               \* throws and worker deaths in one behaviour

ASSUME QueueAssumption ==
    /\ Stages \subseteq STAGES /\ "AWAITING_HANDOFF" \in Stages
    /\ ATTEMPTS \in Nat \ {0}
    /\ PREFLIGHT_MAX_ATTEMPTS \in Nat
    /\ Regimes \subseteq {"late", "punctual", "calm"}
    /\ MaxThrows \in Nat

VARIABLES
    regime,    \* "late": a waiting job may run at any time; "punctual": no stage (10 s and
               \* later) falls due within a kickoff's retries; "calm": nor does anything throw
    status,    \* Delivery.status
    job,       \* what the queue knows of each job id
    tries,     \* attemptsMade of each job
    pc,        \* where the running kickoffs are
    stopping,  \* a terminal handler has not reached stopSimulation yet
    throws,    \* throws so far
    launches   \* ghost: SCHEDULED -> PENDING transitions

queueVars == <<regime, status, job, tries, pc, stopping, throws, launches>>

\* Kickoff n is the n-th deferral (jobId -kickoff-r<n>, payload preflightAttempt = n);
\* kickoff 0 is the one create() scheduled.
Kickoffs == 0..PREFLIGHT_MAX_ATTEMPTS
KickoffJob(n) == <<"kickoff", n>>
StageJob(s) == <<"stage", s>>
StageJobs == {StageJob(s) : s \in Stages}
Jobs == {KickoffJob(n) : n \in Kickoffs} \cup StageJobs
JobStates == {"absent", "waiting", "done", "failed"}
Pcs == {"none", "start", "cas", "defer", "abort"}

QueueInit ==
    /\ regime \in Regimes
    /\ status = "SCHEDULED"
    /\ job = [j \in Jobs |-> IF j = KickoffJob(0) THEN "waiting" ELSE "absent"]
    /\ tries = [j \in Jobs |-> 0]
    /\ pc = [n \in Kickoffs |-> "none"]
    /\ stopping = FALSE
    /\ throws = 0
    /\ launches = 0

\* queue.add of ids: an id the queue still knows, finished or not, is not added again.
Added(ids) == [j \in Jobs |-> IF j \in ids /\ job[j] = "absent" THEN "waiting" ELSE job[j]]

Complete(j, jobs) == job' = [jobs EXCEPT ![j] = "done"] /\ UNCHANGED <<tries, throws>>

\* The attempt failed: again after a backoff, or never.
Throw(j, jobs) ==
    /\ throws < MaxThrows /\ regime # "calm"
    /\ throws' = throws + 1
    /\ tries' = [tries EXCEPT ![j] = @ + 1]
    /\ job' = [jobs EXCEPT ![j] = IF tries[j] + 1 < ATTEMPTS THEN "waiting" ELSE "failed"]

Goto(n, at) == pc' = [pc EXCEPT ![n] = at]

----------------------------------------------------------------------------
(* handleKickoff.                                                          *)

\* holdExhausted of the attempt number in the payload.
HoldExhausted(n) == n >= PREFLIGHT_MAX_ATTEMPTS

\* The leading read, the pre-flight check and the dispatch: skip, launch, hold what will
\* pass, or abort.
KickoffPick(n) ==
    /\ job[KickoffJob(n)] = "waiting" /\ pc[n] = "none"
    /\ \/ /\ status # "SCHEDULED"
          /\ Complete(KickoffJob(n), job) /\ UNCHANGED pc
       \/ /\ status = "SCHEDULED"
          /\ \/ Goto(n, "start")
             \/ ~HoldExhausted(n) /\ Goto(n, "defer")
             \/ Goto(n, "abort")
          /\ UNCHANGED <<job, tries, throws>>
       \/ Throw(KickoffJob(n), job) /\ UNCHANGED pc
    /\ UNCHANGED <<status, stopping, launches>>

\* startSimulation, before the transition.
KickoffStart(n) ==
    /\ pc[n] = "start"
    /\ \/ /\ job' = Added(StageJobs) /\ Goto(n, "cas")
          /\ UNCHANGED <<tries, throws>>
       \/ \E jobs \in {job, Added(StageJobs)} : Throw(KickoffJob(n), jobs) /\ Goto(n, "none")
    /\ UNCHANGED <<status, stopping, launches>>

Launch_Blind == status' = "PENDING" /\ launches' = launches + 1

\* The compare-and-set of the transition.
Launch == status = "SCHEDULED" /\ status' = "PENDING" /\ launches' = launches + 1

\* SCHEDULED -> PENDING, or the race is lost.
KickoffCas(n) ==
    /\ pc[n] = "cas" /\ Goto(n, "none")
    /\ \/ Launch /\ Complete(KickoffJob(n), job)
       \/ status # "SCHEDULED" /\ Complete(KickoffJob(n), job) /\ UNCHANGED <<status, launches>>
       \/ Throw(KickoffJob(n), job) /\ (Launch \/ UNCHANGED <<status, launches>>)
    /\ UNCHANGED stopping

DeferKickoff_SameId(n) ==
    /\ pc[n] = "defer" /\ Goto(n, "none")
    /\ Complete(KickoffJob(n), Added({KickoffJob(n)}))
    /\ UNCHANGED <<status, stopping, launches>>

\* deferKickoff: the next kickoff has an id, and a budget, of its own.
DeferKickoff(n) ==
    /\ pc[n] = "defer" /\ Goto(n, "none")
    /\ LET next == Added({KickoffJob(n + 1)}) IN
       \/ Complete(KickoffJob(n), next)
       \/ \E jobs \in {job, next} : Throw(KickoffJob(n), jobs)
    /\ UNCHANGED <<status, stopping, launches>>

\* failExceptional(d, reason, [SCHEDULED]).
Abort(n) ==
    /\ pc[n] = "abort" /\ Goto(n, "none")
    /\ LET give == status = "SCHEDULED" /\ status' = "DELIVERY_FAILED" /\ stopping' = TRUE
           keep == UNCHANGED <<status, stopping>> IN
       \/ give /\ Complete(KickoffJob(n), job)
       \/ status # "SCHEDULED" /\ keep /\ Complete(KickoffJob(n), job)
       \/ keep /\ Throw(KickoffJob(n), job)
    /\ UNCHANGED launches

----------------------------------------------------------------------------
(* The stages, and what ends them.                                         *)

\* The job of a stage may run; when the workers are punctual, not before the kickoff that
\* queued it is through.
StageDue(s) ==
    /\ job[StageJob(s)] = "waiting"
    /\ \/ regime = "late"
       \/ \A n \in Kickoffs :
            /\ pc[n] = "none"
            /\ (job[KickoffJob(n)] = "waiting" => tries[KickoffJob(n)] = 0)

HandleStage_SkipsPending(s) ==
    /\ StageDue(s)
    /\ Complete(StageJob(s), job)
    /\ IF status \in StatusesBefore(s) \ {"PENDING"} THEN status' = s ELSE UNCHANGED status
    /\ UNCHANGED <<pc, stopping, launches>>

\* handleStage: the forward-only compare-and-set; a stage that does not apply is done too.
HandleStage(s) ==
    /\ StageDue(s)
    /\ LET advance == status \in StatusesBefore(s) /\ status' = s IN
       \/ advance /\ Complete(StageJob(s), job)
       \/ status \notin StatusesBefore(s) /\ UNCHANGED status /\ Complete(StageJob(s), job)
       \/ (advance \/ UNCHANGED status) /\ Throw(StageJob(s), job)
    /\ UNCHANGED <<pc, stopping, launches>>

\* cancel(), a failure or a forced cancel in flight, or the handoff, which stops nothing.
Terminate ==
    /\ \/ status \in CANCELABLE_STATUSES /\ status' = "CANCELED"
       \/ status \in FAILABLE_STATUSES /\ status' \in {"DELIVERY_FAILED", "CANCELED"}
       \/ status = "AWAITING_HANDOFF" /\ status' = "DELIVERED"
    /\ stopping' = (status' # "DELIVERED")
    /\ UNCHANGED <<job, tries, pc, throws, launches>>

\* stopSimulation removes the first kickoff and the stages; a running job is locked.
StopSimulation ==
    /\ stopping
    /\ stopping' = FALSE
    /\ LET removed == StageJobs \cup (IF pc[0] = "none" THEN {KickoffJob(0)} ELSE {}) IN
       /\ job' = [j \in Jobs |-> IF j \in removed THEN "absent" ELSE job[j]]
       /\ tries' = [j \in Jobs |-> IF j \in removed THEN 0 ELSE tries[j]]
    /\ UNCHANGED <<status, pc, throws, launches>>

\* A finished job outlives its retention (removeOnComplete, removeOnFail).
Evict(j) ==
    /\ job[j] \in {"done", "failed"}
    /\ job' = [job EXCEPT ![j] = "absent"]
    /\ tries' = [tries EXCEPT ![j] = 0]
    /\ UNCHANGED <<status, pc, stopping, throws, launches>>

Kickoff(n) == KickoffPick(n) \/ KickoffStart(n) \/ KickoffCas(n) \/ DeferKickoff(n) \/ Abort(n)

QueueNext ==
    /\ \/ \E n \in Kickoffs : Kickoff(n)
       \/ \E s \in Stages : HandleStage(s)
       \/ Terminate
       \/ StopSimulation
       \/ \E j \in Jobs : Evict(j)
    /\ UNCHANGED regime

QueueSpec == QueueInit /\ [][QueueNext]_queueVars

\* Workers keep picking up what is due; requests and evictions need not come.
QueueFairness ==
    /\ \A n \in Kickoffs : WF_queueVars(Kickoff(n) /\ UNCHANGED regime)
    /\ \A s \in Stages : WF_queueVars(HandleStage(s) /\ UNCHANGED regime)
    /\ WF_queueVars(StopSimulation /\ UNCHANGED regime)

FairQueueSpec == QueueSpec /\ QueueFairness

----------------------------------------------------------------------------
(* Properties.                                                             *)

\* Every variable keeps its type; no job is tried more often than its options allow.
QueueTypeOK ==
    /\ regime \in Regimes
    /\ status \in DeliveryStatus
    /\ job \in [Jobs -> JobStates]
    /\ tries \in [Jobs -> 0..ATTEMPTS]
    /\ pc \in [Kickoffs -> Pcs]
    /\ stopping \in BOOLEAN
    /\ throws \in 0..MaxThrows
    /\ launches \in Nat
    /\ \A j \in Jobs : job[j] = "waiting" => tries[j] < ATTEMPTS

\* However many kickoffs of a delivery are retried, deferred and left behind by a hold that
\* landed twice, the delivery is launched once, and only if nothing ended it before.
LaunchedOnce ==
    /\ launches <= 1
    /\ launches = 0 => status \in {"SCHEDULED", "CANCELED", "DELIVERY_FAILED"}

\* A scheduled delivery does not wait for ever: through every hold of handleKickoff and every
\* retry it launches, is given up or is canceled, unless a kickoff spends all its attempts.
LaunchSettles ==
    <>(status # "SCHEDULED" \/ \E n \in Kickoffs : job[KickoffJob(n)] = "failed")

\* A launched delivery is flown: unless its jobs run late, it comes from PENDING to the door,
\* or is ended (simulation.service.ts of its jobs: "retries are safe").
LifecycleRuns ==
    (regime # "late" /\ status = "PENDING") ~> status \in {"AWAITING_HANDOFF"} \cup TERMINAL_STATUSES
=============================================================================
