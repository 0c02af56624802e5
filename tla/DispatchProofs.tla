--------------------------- MODULE DispatchProofs ---------------------------
(***************************************************************************)
(* Proofs about the work that is handed out to be done once: the jobs of   *)
(* the simulation queue, the commands to the drones and the rewards of the *)
(* referral outbox.                                                        *)
(***************************************************************************)
EXTENDS SimulationQueue, DroneCommands, ReferralOutbox, FiniteSetTheorems, WellFoundedInduction, TLAPS

----------------------------------------------------------------------------
(* SimulationQueue.                                                        *)

\* A launch leaves SCHEDULED for good, a kickoff that runs is locked in the queue, and an id
\* the queue has forgotten starts with no attempts.
QueueInv ==
    /\ QueueTypeOK
    /\ LaunchedOnce
    /\ launches = 1 => status # "SCHEDULED"
    /\ \A n \in Kickoffs : pc[n] # "none" => job[KickoffJob(n)] = "waiting"
    /\ \A j \in Jobs : job[j] = "absent" => tries[j] = 0

\* What the queue may come to hold in one step.
Grown(jobs) ==
    /\ jobs \in [Jobs -> JobStates]
    /\ \A j \in Jobs : jobs[j] = job[j] \/ (job[j] = "absent" /\ jobs[j] = "waiting")

LEMMA AddedGrows ==
    ASSUME QueueInv, NEW ids
    PROVE  Grown(job) /\ Grown(Added(ids))
BY DEF QueueInv, QueueTypeOK, Grown, Added, JobStates

\* The conjuncts of QueueInv that are about the queue's own data.
QueueData ==
    /\ job \in [Jobs -> JobStates]
    /\ tries \in [Jobs -> 0..ATTEMPTS]
    /\ throws \in 0..MaxThrows
    /\ \A j \in Jobs : job[j] = "waiting" => tries[j] < ATTEMPTS
    /\ \A j \in Jobs : job[j] = "absent" => tries[j] = 0

\* A job of the queue ends, or fails an attempt; the others are kept, or new.
Ends(j) ==
    /\ QueueData'
    /\ \A k \in Jobs : k # j /\ job[k] = "waiting" => job'[k] = "waiting"

LEMMA CompleteEnds ==
    ASSUME QueueInv, NEW j \in Jobs, NEW jobs, Grown(jobs), Complete(j, jobs)
    PROVE  Ends(j)
<1>1. /\ job' \in [Jobs -> JobStates] /\ job'[j] = "done"
      /\ \A k \in Jobs : k # j => job'[k] = jobs[k]
  BY DEF Complete, Grown, JobStates
<1>2. UNCHANGED <<tries, throws>>
  BY DEF Complete
<1> QED
  BY <1>1, <1>2, QueueAssumption DEF Ends, QueueData, QueueInv, QueueTypeOK, Grown, QueueAssumption

LEMMA ThrowEnds ==
    ASSUME QueueInv, NEW j \in Jobs, job[j] = "waiting", NEW jobs, Grown(jobs), Throw(j, jobs)
    PROVE  Ends(j)
<1>1. tries[j] \in 0..ATTEMPTS /\ tries[j] < ATTEMPTS /\ ATTEMPTS \in Nat
  BY QueueAssumption DEF QueueInv, QueueTypeOK, QueueAssumption
<1>2. /\ job' \in [Jobs -> JobStates]
      /\ job'[j] = IF tries[j] + 1 < ATTEMPTS THEN "waiting" ELSE "failed"
      /\ \A k \in Jobs : k # j => job'[k] = jobs[k]
  BY DEF Throw, Grown, JobStates
<1>3. /\ tries' \in [Jobs -> 0..ATTEMPTS]
      /\ tries'[j] = tries[j] + 1
      /\ \A k \in Jobs : k # j => tries'[k] = tries[k]
  BY <1>1 DEF Throw, QueueInv, QueueTypeOK
<1>4. throws' \in 0..MaxThrows
  BY QueueAssumption DEF Throw, QueueInv, QueueTypeOK, QueueAssumption
<1>5. \A k \in Jobs : k # j => jobs[k] = job[k] \/ (job[k] = "absent" /\ jobs[k] = "waiting")
  BY DEF Grown
<1>6. \A k \in Jobs : /\ job[k] = "waiting" => tries[k] < ATTEMPTS
                      /\ job[k] = "absent" => tries[k] = 0
  BY DEF QueueInv, QueueTypeOK
<1>7. 0 < ATTEMPTS
  BY QueueAssumption DEF QueueAssumption
<1>8. \A k \in Jobs : job'[k] = "waiting" => tries'[k] < ATTEMPTS
  BY <1>1, <1>2, <1>3, <1>5, <1>6, <1>7
<1>9. \A k \in Jobs : job'[k] = "absent" => tries'[k] = 0
  BY <1>2, <1>3, <1>5, <1>6
<1>10. \A k \in Jobs : k # j /\ job[k] = "waiting" => job'[k] = "waiting"
  BY <1>2, <1>5
<1> QED
  BY <1>2, <1>3, <1>4, <1>8, <1>9, <1>10 DEF Ends, QueueData

\* What a step does to the delivery's row.
RowStep ==
    \/ UNCHANGED <<status, launches>>
    \/ Launch
    \/ /\ status # "SCHEDULED" /\ status' \in DeliveryStatus \ {"SCHEDULED"} /\ UNCHANGED launches
       /\ launches = 0 => status' \in {"CANCELED", "DELIVERY_FAILED"}
    \/ /\ status = "SCHEDULED" /\ status' \in {"CANCELED", "DELIVERY_FAILED"} /\ UNCHANGED launches

LEMMA RowStepKeeps ==
    ASSUME QueueInv, RowStep
    PROVE  /\ status' \in DeliveryStatus /\ launches' \in Nat
           /\ LaunchedOnce' /\ (launches' = 1 => status' # "SCHEDULED")
<1>1. status \in DeliveryStatus /\ launches \in {0, 1}
  BY DEF QueueInv, QueueTypeOK, LaunchedOnce
<1>2. CASE UNCHANGED <<status, launches>>
  BY <1>1, <1>2 DEF QueueInv, LaunchedOnce
<1>3. CASE Launch
  BY <1>1, <1>3 DEF QueueInv, LaunchedOnce, Launch, DeliveryStatus, CANCELABLE_STATUSES
<1>4. CASE ~UNCHANGED <<status, launches>> /\ ~Launch
  BY <1>1, <1>4 DEF RowStep, QueueInv, LaunchedOnce, DeliveryStatus, TERMINAL_STATUSES, FAILABLE_STATUSES,
                    CANCELABLE_STATUSES
<1> QED
  BY <1>2, <1>3, <1>4

\* A step of the job j, from whose kickoff, if it is one, it may leave the locked round trips.
LEMMA JobStep ==
    ASSUME QueueInv, NEW j \in Jobs, Ends(j), RowStep, regime' = regime, stopping' \in BOOLEAN,
           pc' \in [Kickoffs -> Pcs],
           \A n \in Kickoffs : pc'[n] # "none" => pc[n] # "none" /\ KickoffJob(n) # j
    PROVE  QueueInv'
<1>1. QueueData'
  BY DEF Ends
<1>2. /\ status' \in DeliveryStatus /\ launches' \in Nat
      /\ LaunchedOnce' /\ (launches' = 1 => status' # "SCHEDULED")
  BY RowStepKeeps
<1>3. ASSUME NEW n \in Kickoffs, pc'[n] # "none" PROVE job'[KickoffJob(n)] = "waiting"
  <2>1. KickoffJob(n) \in Jobs
    BY DEF Jobs
  <2> QED
    BY <1>3, <2>1 DEF Ends, QueueInv
<1> QED
  BY <1>1, <1>2, <1>3 DEF QueueInv, QueueTypeOK, QueueData

\* A kickoff goes from one round trip to the next, with what it added.
LEMMA KickoffGoes ==
    ASSUME QueueInv, NEW n \in Kickoffs, NEW at \in Pcs, Goto(n, at), Grown(job'),
           job[KickoffJob(n)] = "waiting", UNCHANGED <<regime, status, tries, stopping, throws, launches>>
    PROVE  QueueInv'
<1>1. pc' \in [Kickoffs -> Pcs] /\ pc'[n] = at /\ \A m \in Kickoffs : m # n => pc'[m] = pc[m]
  BY DEF Goto, QueueInv, QueueTypeOK
<1>2. \A m \in Kickoffs : KickoffJob(m) \in Jobs
  BY DEF Jobs
<1>3. \A m \in Kickoffs : pc'[m] # "none" => job'[KickoffJob(m)] = "waiting"
  BY <1>1, <1>2 DEF QueueInv, Grown
<1>4. \A j \in Jobs : /\ job'[j] = "waiting" => tries'[j] < ATTEMPTS
                      /\ job'[j] = "absent" => tries'[j] = 0
  BY QueueAssumption DEF QueueInv, QueueTypeOK, Grown, QueueAssumption
<1>5. LaunchedOnce'
  BY DEF QueueInv, LaunchedOnce
<1> QED
  BY <1>1, <1>3, <1>4, <1>5 DEF QueueInv, QueueTypeOK, Grown

LEMMA KickoffKeeps ==
    ASSUME QueueInv, NEW n \in Kickoffs, Kickoff(n), regime' = regime
    PROVE  QueueInv'
<1> DEFINE j == KickoffJob(n)
<1>0. j \in Jobs /\ \A m \in Kickoffs : KickoffJob(m) = j => m = n
  BY DEF Jobs, KickoffJob
<1>g. \A ids : Grown(job) /\ Grown(Added(ids))
  BY AddedGrows
<1>p. ASSUME Goto(n, "none")
      PROVE  /\ pc' \in [Kickoffs -> Pcs]
             /\ \A m \in Kickoffs : pc'[m] # "none" => pc[m] # "none" /\ KickoffJob(m) # j
  BY <1>0, <1>p DEF Goto, QueueInv, QueueTypeOK, Pcs
<1>s. stopping \in BOOLEAN
  BY DEF QueueInv, QueueTypeOK
<1>w. pc[n] # "none" => job[j] = "waiting"
  BY DEF QueueInv
<1>e. ASSUME Goto(n, "none"), Ends(j), RowStep, stopping' \in BOOLEAN PROVE QueueInv'
  BY <1>0, <1>e, <1>p, JobStep
<1>1. CASE KickoffPick(n)
  <2>1. /\ job[j] = "waiting" /\ pc[n] = "none" /\ UNCHANGED <<status, stopping, launches>>
    BY <1>1 DEF KickoffPick
  <2>2. ASSUME UNCHANGED pc, Ends(j) PROVE QueueInv'
    <3>1. /\ pc' \in [Kickoffs -> Pcs]
          /\ \A m \in Kickoffs : pc'[m] # "none" => pc[m] # "none" /\ KickoffJob(m) # j
      BY <1>0, <2>1, <2>2 DEF QueueInv, QueueTypeOK
    <3> QED
      BY <1>0, <1>s, <2>1, <2>2, <3>1, JobStep DEF RowStep
  <2>3. CASE Complete(j, job) /\ UNCHANGED pc
    BY <1>0, <1>g, <2>2, <2>3, CompleteEnds
  <2>4. CASE Throw(j, job) /\ UNCHANGED pc
    BY <1>0, <1>g, <2>1, <2>2, <2>4, ThrowEnds
  <2>5. ASSUME NEW at \in {"start", "defer", "abort"}, Goto(n, at), UNCHANGED <<job, tries, throws>>
        PROVE  QueueInv'
    <3>1. at \in Pcs /\ Grown(job')
      BY <1>g, <2>5 DEF Pcs
    <3> QED
      BY <2>1, <2>5, <3>1, KickoffGoes
  <2> QED
    BY <1>1, <2>3, <2>4, <2>5 DEF KickoffPick
<1>2. CASE KickoffStart(n)
  <2>1. /\ job[j] = "waiting" /\ UNCHANGED <<status, stopping, launches>>
    BY <1>2, <1>w DEF KickoffStart
  <2>2. CASE job' = Added(StageJobs) /\ Goto(n, "cas") /\ UNCHANGED <<tries, throws>>
    <3>1. "cas" \in Pcs /\ Grown(job')
      BY <1>g, <2>2 DEF Pcs
    <3> QED
      BY <2>1, <2>2, <3>1, KickoffGoes
  <2>3. ASSUME NEW jobs \in {job, Added(StageJobs)}, Throw(j, jobs), Goto(n, "none") PROVE QueueInv'
    <3>1. Ends(j)
      BY <1>0, <1>g, <2>1, <2>3, ThrowEnds
    <3> QED
      BY <1>e, <1>s, <2>1, <2>3, <3>1 DEF RowStep
  <2> QED
    BY <1>2, <2>2, <2>3 DEF KickoffStart
<1>3. CASE KickoffCas(n)
  <2>1. job[j] = "waiting" /\ Goto(n, "none") /\ stopping' \in BOOLEAN
    BY <1>3, <1>w, <1>s DEF KickoffCas
  <2>2. RowStep
    BY <1>3 DEF KickoffCas, RowStep
  <2>3. Ends(j)
    <3>1. Complete(j, job) \/ Throw(j, job)
      BY <1>3 DEF KickoffCas
    <3> QED
      BY <1>0, <1>g, <2>1, <3>1, CompleteEnds, ThrowEnds
  <2> QED
    BY <1>e, <2>1, <2>2, <2>3
<1>4. CASE DeferKickoff(n)
  <2>1. /\ job[j] = "waiting" /\ Goto(n, "none") /\ stopping' \in BOOLEAN
        /\ UNCHANGED <<status, launches>>
    BY <1>4, <1>w, <1>s DEF DeferKickoff
  <2>2. PICK jobs \in {job, Added({KickoffJob(n + 1)})} : Complete(j, jobs) \/ Throw(j, jobs)
    BY <1>4 DEF DeferKickoff
  <2>3. Ends(j)
    BY <1>0, <1>g, <2>1, <2>2, CompleteEnds, ThrowEnds
  <2> QED
    BY <1>e, <2>1, <2>3 DEF RowStep
<1>5. CASE Abort(n)
  <2>1. job[j] = "waiting" /\ Goto(n, "none") /\ stopping' \in BOOLEAN
    BY Zenon, <1>5, <1>w, <1>s DEF Abort
  <2>2. RowStep
    BY <1>5 DEF Abort, RowStep
  <2>3. Ends(j)
    <3>1. Complete(j, job) \/ Throw(j, job)
      BY <1>5 DEF Abort
    <3> QED
      BY <1>0, <1>g, <2>1, <3>1, CompleteEnds, ThrowEnds
  <2> QED
    BY <1>e, <2>1, <2>2, <2>3
<1> QED
  BY <1>1, <1>2, <1>3, <1>4, <1>5 DEF Kickoff

LEMMA StageKeeps ==
    ASSUME QueueInv, NEW s \in Stages, HandleStage(s), regime' = regime
    PROVE  QueueInv'
<1> DEFINE j == StageJob(s)
<1>1. j \in Jobs /\ \A m \in Kickoffs : KickoffJob(m) # j
  BY DEF Jobs, StageJobs, StageJob, KickoffJob
<1>2. job[j] = "waiting" /\ UNCHANGED <<pc, stopping, launches>>
  BY DEF HandleStage, StageDue
<1>3. Ends(j)
  <2>1. Complete(j, job) \/ Throw(j, job)
    BY DEF HandleStage
  <2>2. Grown(job)
    BY AddedGrows
  <2> QED
    BY <1>1, <1>2, <2>1, <2>2, CompleteEnds, ThrowEnds
<1>4. RowStep
  <2>1. CASE UNCHANGED status
    BY <1>2, <2>1 DEF RowStep
  <2>2. CASE status \in StatusesBefore(s) /\ status' = s
    <3>1. PICK i \in 1..7 : status = STATUS_ORDER[i] /\ \E k \in 1..7 : i < k
      BY <2>2 DEF StatusesBefore
    <3>2. i \in {1, 2, 3, 4, 5, 6}
      BY <3>1
    <3>3. status \in {"PENDING", "CONFIRMED", "DRONE_ASSIGNED", "PICKUP_IN_PROGRESS", "IN_TRANSIT",
                      "AWAITING_HANDOFF"}
      BY <3>1, <3>2 DEF STATUS_ORDER
    <3>4. s \in DeliveryStatus \ {"SCHEDULED"}
      BY QueueAssumption DEF QueueAssumption, STAGES, DeliveryStatus, FAILABLE_STATUSES, CANCELABLE_STATUSES
    <3>5. launches # 0
      BY <3>3 DEF QueueInv, LaunchedOnce
    <3> QED
      BY <1>2, <2>2, <3>3, <3>4, <3>5 DEF RowStep
  <2> QED
    BY <2>1, <2>2 DEF HandleStage
<1>5. /\ pc' \in [Kickoffs -> Pcs] /\ stopping' \in BOOLEAN
      /\ \A n \in Kickoffs : pc'[n] # "none" => pc[n] # "none" /\ KickoffJob(n) # j
  BY <1>1, <1>2 DEF QueueInv, QueueTypeOK
<1> QED
  BY <1>1, <1>3, <1>4, <1>5, JobStep

LEMMA TerminateKeeps ==
    ASSUME QueueInv, Terminate, regime' = regime
    PROVE  QueueInv'
<1>1. UNCHANGED <<job, tries, pc, throws, launches>> /\ stopping' \in BOOLEAN
  BY Zenon DEF Terminate
<1>2. RowStep
  BY DEF Terminate, RowStep, QueueInv, LaunchedOnce, DeliveryStatus, CANCELABLE_STATUSES, FAILABLE_STATUSES,
         TERMINAL_STATUSES
<1>3. /\ status' \in DeliveryStatus /\ launches' \in Nat
      /\ LaunchedOnce' /\ (launches' = 1 => status' # "SCHEDULED")
  BY Zenon, <1>2, RowStepKeeps
<1> QED
  BY <1>1, <1>3 DEF QueueInv, QueueTypeOK

\* Removing jobs forgets their attempts; a running kickoff is not removed.
LEMMA RemoveKeeps ==
    ASSUME QueueInv, UNCHANGED <<regime, status, pc, throws, launches>>, stopping' \in BOOLEAN,
           NEW removed, \A n \in Kickoffs : pc[n] # "none" => KickoffJob(n) \notin removed,
           job' = [j \in Jobs |-> IF j \in removed THEN "absent" ELSE job[j]],
           tries' = [j \in Jobs |-> IF j \in removed THEN 0 ELSE tries[j]]
    PROVE  QueueInv'
<1>1. \A n \in Kickoffs : KickoffJob(n) \in Jobs
  BY DEF Jobs
<1>2. job' \in [Jobs -> JobStates] /\ tries' \in [Jobs -> 0..ATTEMPTS]
  BY QueueAssumption DEF QueueInv, QueueTypeOK, JobStates, QueueAssumption
<1>3. \A j \in Jobs : /\ job'[j] = "waiting" => tries'[j] < ATTEMPTS
                      /\ job'[j] = "absent" => tries'[j] = 0
  BY DEF QueueInv, QueueTypeOK
<1>4. \A n \in Kickoffs : pc'[n] # "none" => job'[KickoffJob(n)] = "waiting"
  BY <1>1 DEF QueueInv
<1>5. LaunchedOnce'
  BY DEF QueueInv, LaunchedOnce
<1> QED
  BY <1>2, <1>3, <1>4, <1>5 DEF QueueInv, QueueTypeOK

LEMMA QueueNextKeeps == QueueInv /\ [QueueNext]_queueVars => QueueInv'
<1> SUFFICES ASSUME QueueInv, [QueueNext]_queueVars PROVE QueueInv'
  OBVIOUS
<1>1. CASE StopSimulation /\ UNCHANGED regime
  <2> DEFINE removed == StageJobs \cup (IF pc[0] = "none" THEN {KickoffJob(0)} ELSE {})
  <2>1. \A n \in Kickoffs : pc[n] # "none" => KickoffJob(n) \notin removed
    BY Zenon DEF KickoffJob, StageJobs, StageJob
  <2>2. /\ job' = [j \in Jobs |-> IF j \in removed THEN "absent" ELSE job[j]]
        /\ tries' = [j \in Jobs |-> IF j \in removed THEN 0 ELSE tries[j]]
        /\ UNCHANGED <<regime, status, pc, throws, launches>> /\ stopping' \in BOOLEAN
    BY Zenon, <1>1 DEF StopSimulation
  <2> HIDE DEF removed
  <2> QED
    BY <2>1, <2>2, RemoveKeeps
<1>2. ASSUME NEW j \in Jobs, Evict(j), UNCHANGED regime PROVE QueueInv'
  <2>1. \A n \in Kickoffs : pc[n] # "none" => KickoffJob(n) \notin {j}
    BY <1>2 DEF Evict, QueueInv
  <2>2. /\ job' = [k \in Jobs |-> IF k \in {j} THEN "absent" ELSE job[k]]
        /\ tries' = [k \in Jobs |-> IF k \in {j} THEN 0 ELSE tries[k]]
    BY <1>2 DEF Evict, QueueInv, QueueTypeOK
  <2>3. UNCHANGED <<regime, status, pc, throws, launches>> /\ stopping' \in BOOLEAN
    BY <1>2 DEF Evict, QueueInv, QueueTypeOK
  <2> QED
    BY Zenon, <2>1, <2>2, <2>3, RemoveKeeps
<1>3. CASE UNCHANGED queueVars
  BY Zenon, <1>3 DEF queueVars, QueueInv, QueueTypeOK, LaunchedOnce
<1> QED
  BY <1>1, <1>2, <1>3, KickoffKeeps, StageKeeps, TerminateKeeps DEF QueueNext

LEMMA QueueInitHolds == QueueInit => QueueInv
<1> SUFFICES ASSUME QueueInit PROVE QueueInv
  OBVIOUS
<1>1. job \in [Jobs -> JobStates] /\ tries \in [Jobs -> 0..ATTEMPTS] /\ \A j \in Jobs : tries[j] = 0
  BY QueueAssumption DEF QueueInit, JobStates, QueueAssumption
<1>2. pc \in [Kickoffs -> Pcs] /\ \A n \in Kickoffs : pc[n] = "none"
  BY DEF QueueInit, Pcs
<1>3. throws \in 0..MaxThrows /\ 0 < ATTEMPTS /\ launches = 0 /\ status = "SCHEDULED"
  BY QueueAssumption DEF QueueInit, QueueAssumption
<1>4. status \in DeliveryStatus
  BY <1>3 DEF DeliveryStatus, CANCELABLE_STATUSES
<1>5. regime \in Regimes /\ stopping \in BOOLEAN
  BY Zenon DEF QueueInit
<1> QED
  BY <1>1, <1>2, <1>3, <1>4, <1>5 DEF QueueInv, QueueTypeOK, LaunchedOnce

\* However many kickoffs of a delivery are retried, deferred, evicted and left behind by a
\* hold that landed twice, for any attempt limits and any number of throws and worker
\* deaths, the delivery is launched once, and only if nothing ended it before.
THEOREM NeverLaunchedTwice == QueueSpec => []LaunchedOnce
<1>1. QueueInv => LaunchedOnce
  BY DEF QueueInv
<1> QED
  BY <1>1, QueueInitHolds, QueueNextKeeps, PTL DEF QueueSpec

\* No job is ever tried more often than its options allow, and a job that may run has an
\* attempt left: through evictions, removals and ids that are added again.
THEOREM AttemptsAreBounded == QueueSpec => []QueueTypeOK
<1>1. QueueInv => QueueTypeOK
  BY DEF QueueInv
<1> QED
  BY <1>1, QueueInitHolds, QueueNextKeeps, PTL DEF QueueSpec

----------------------------------------------------------------------------
(* DroneCommands, for any drones, commands and pollers.                    *)

Answered(c) == command[c].status \in {"ACKED", "REJECTED"}

\* Where a delivery is once a command of the type has taken it: no transition of that type
\* can take it again from there.
Taken(type) ==
    IF type = "RETURN_TO_BASE" THEN {"RETURNING", "RETURNED_TO_BASE", "DELIVERY_FAILED", "CANCELED"}
                               ELSE {"DELIVERY_FAILED"}

\* Rows are inserted in order.
RowsInOrder == \E k \in 0..CommandBound : Inserted = 1..k

\* A row is driven only between its answer and the record of it, and one transition of its
\* type puts the delivery out of the reach of the next.
DriveInv ==
    /\ \A c \in CommandRows :
         /\ moves[c] <= 1
         /\ moves[c] = 1 => Answered(c) /\ flight \in Taken(command[c].type)
         /\ command[c].applied => moves[c] = 1
    /\ \A a \in Acks :
         /\ acking[a].at # "idle" => acking[a].row \in CommandRows
         /\ acking[a].at \in {"drive", "mark", "supersede"} => Answered(acking[a].row)
         /\ acking[a].at = "mark" => moves[acking[a].row] = 1
    /\ reconciling.at # "idle" => reconciling.row \in CommandRows /\ Answered(reconciling.row)
    /\ reconciling.at = "record" /\ reconciling.applied => moves[reconciling.row] = 1
    /\ polling.at # "idle" => polling.row \in CommandRows

CommandsInv == CommandsTypeOK /\ RowsInOrder /\ DriveInv

----------------------------------------------------------------------------

LEMMA MinIsMember ==
    ASSUME NEW S \in SUBSET Nat, S # {}
    PROVE  Min(S) \in S
<1>1. PICK x \in S : \A y \in S : ~(<<y, x>> \in OpToRel(<, Nat))
  BY NatLessThanWellFounded, WFMin
<1>2. ASSUME NEW y \in S PROVE ~(y < x)
  <2> DEFINE p == <<y, x>>
  <2>1. p \in Nat \X Nat /\ p[1] = y /\ p[2] = x
    OBVIOUS
  <2>2. p \notin OpToRel(<, Nat)
    BY <1>1, <1>2
  <2> HIDE DEF p
  <2> QED
    BY Zenon, <2>1, <2>2 DEF OpToRel
<1>3. \A y \in S : x <= y
  BY <1>2
<1> QED
  BY <1>3 DEF Min

\* The happy path never starts from an exceptional status.
LEMMA HappyPathIsForward ==
    ASSUME NEW t
    PROVE  StatusesBefore(t) \subseteq (CANCELABLE_STATUSES \cup FAILABLE_STATUSES) \ {"RETURNING"}
<1> SUFFICES ASSUME NEW i \in 1..7, i < 7
    PROVE  STATUS_ORDER[i] \in (CANCELABLE_STATUSES \cup FAILABLE_STATUSES) \ {"RETURNING"}
  BY DEF StatusesBefore
<1> QED
  BY DEF STATUS_ORDER, CANCELABLE_STATUSES, FAILABLE_STATUSES

\* No move of the delivery by anyone brings it back into a type's reach.
LEMMA TakenIsForGood ==
    ASSUME CommandsTypeOK, NEW type \in CommandType, flight \in Taken(type), FlightMoves
    PROVE  flight' \in Taken(type)
BY HappyPathIsForward DEF FlightMoves, Taken, RETURNABLE_STATUSES, FAILABLE_STATUSES,
   CANCELABLE_STATUSES, CommandType

\* The row an insert takes is unused.
LEMMA NextRowIsAbsent ==
    ASSUME RowsInOrder, CommandsTypeOK, NEW c \in CommandRows, c = Cardinality(Inserted) + 1
    PROVE  command[c].status = "absent" /\ Inserted = 1..(c - 1)
<1>1. PICK k \in 0..CommandBound : Inserted = 1..k
  BY DEF RowsInOrder
<1>2. Cardinality(Inserted) = k
  BY <1>1, CommandsAssumption, FS_Interval DEF CommandsAssumption
<1> QED
  <2>1. c = k + 1 /\ c \notin Inserted
    BY <1>1, <1>2
  <2> QED
    BY <1>1, <2>1 DEF Inserted

\* A step that keeps which rows exist keeps their order.
LEMMA SameRows ==
    ASSUME RowsInOrder,
           \A c \in CommandRows : (command'[c].status = "absent") = (command[c].status = "absent")
    PROVE  RowsInOrder'
<1>1. Inserted' = Inserted
  BY DEF Inserted
<1> QED
  BY <1>1 DEF RowsInOrder

----------------------------------------------------------------------------
(* One lemma per group of actions.                                         *)

LEMMA FlightMovesKeeps ==
    ASSUME CommandsInv, FlightMoves
    PROVE  CommandsInv'
<1> USE DEF CommandsInv
<1>1. CommandsTypeOK'
  BY CommandsAssumption DEF FlightMoves, CommandsTypeOK, CommandsAssumption
<1>2. RowsInOrder'
  BY Zenon, SameRows DEF FlightMoves
<1>3. DriveInv'
  <2>1. \A c \in CommandRows : moves[c] = 1 => flight' \in Taken(command[c].type)
    BY TakenIsForGood DEF DriveInv, CommandsTypeOK
  <2> QED
    BY Zenon, <2>1 DEF FlightMoves, DriveInv, Answered
<1> QED
  BY <1>1, <1>2, <1>3

LEMMA IssueKeeps ==
    ASSUME CommandsInv, (\E type \in CommandType : IssueCheck(type)) \/ IssueCount \/ IssueInsert
    PROVE  CommandsInv'
<1> USE DEF CommandsInv
<1>1. ASSUME UNCHANGED <<flight, command, polling, acking, reconciling, moves>>,
             issuing' \in [at : {"idle", "count", "insert"}, type : CommandType]
      PROVE  CommandsInv'
  <2>1. CommandsTypeOK'
    BY <1>1 DEF CommandsTypeOK
  <2>2. RowsInOrder'
    BY Zenon, <1>1, SameRows
  <2>3. DriveInv'
    BY Zenon, <1>1 DEF DriveInv, Answered
  <2> QED
    BY <2>1, <2>2, <2>3
<1>2. CASE \E type \in CommandType : IssueCheck(type)
  BY <1>1, <1>2 DEF IssueCheck
<1>3. CASE IssueCount
  <2>1. issuing' \in [at : {"idle", "count", "insert"}, type : CommandType]
    BY <1>3 DEF IssueCount, NoIssue, CommandsTypeOK, CommandType
  <2> QED
    BY <1>1, <1>3, <2>1 DEF IssueCount
<1>4. CASE IssueInsert /\ UNCHANGED command
  BY <1>1, <1>4 DEF IssueInsert, NoIssue, CommandType
<1>5. ASSUME IssueInsert, NEW c \in CommandRows, c = Cardinality(Inserted) + 1,
             command' = [command EXCEPT ![c] = [NoCommand EXCEPT !.status = "PENDING",
                                                                !.type = issuing.type]]
      PROVE  CommandsInv'
  <2>1. command[c].status = "absent" /\ Inserted = 1..(c - 1)
    BY <1>5, NextRowIsAbsent
  <2>2. CommandsTypeOK'
    BY Zenon, <1>5 DEF IssueInsert, CommandsTypeOK, NoCommand, NoIssue, CommandStatus, CommandType
  <2>3. Inserted' = Inserted \cup {c}
    BY <1>5 DEF Inserted, CommandsTypeOK, NoCommand
  <2>4. RowsInOrder'
    BY <2>1, <2>3, CommandsAssumption DEF RowsInOrder, CommandRows, CommandsAssumption
  <2>5. ~Answered(c) /\ moves[c] # 1
    BY <2>1 DEF Answered, DriveInv
  <2>6. \A b \in CommandRows : b # c => command'[b] = command[b]
    BY <1>5 DEF CommandsTypeOK
  <2>7. command'[c].applied = FALSE
    BY <1>5 DEF NoCommand, CommandsTypeOK
  <2>8. UNCHANGED <<flight, polling, acking, reconciling, moves>>
    BY Zenon, <1>5 DEF IssueInsert
  <2>9. DriveInv'
    BY <2>5, <2>6, <2>7, <2>8 DEF DriveInv, Answered
  <2> QED
    BY <2>2, <2>4, <2>9
<1> QED
  BY <1>2, <1>3, <1>4, <1>5 DEF IssueInsert

LEMMA NoReconcileType ==
    NoReconcile \in [at : {"idle", "drive", "record"}, row : CommandRows \cup {0},
                     applied : BOOLEAN]
BY Zenon DEF NoReconcile

\* A write that keeps a row's type, its being answered and its applied flag.
LEMMA RowWriteKeeps ==
    ASSUME CommandsInv, command' \in [CommandRows -> [status : CommandStatus, type : CommandType,
                                                      aged : BOOLEAN, applied : BOOLEAN]],
           \A c \in CommandRows :
               /\ command'[c].type = command[c].type
               /\ command'[c].applied => command[c].applied \/ moves[c] = 1
               /\ (command'[c].status = "absent") = (command[c].status = "absent")
               /\ Answered(c) => Answered(c)',
           UNCHANGED <<flight, issuing, moves>>,
           UNCHANGED acking \/ \E a \in Acks : AckEnds(a),
           UNCHANGED reconciling \/ reconciling' = NoReconcile,
           polling' \in [at : {"idle", "claim", "reread", "reply"}, row : CommandRows \cup {0}],
           polling'.at # "idle" => polling'.row \in CommandRows
    PROVE  CommandsInv'
<1> USE DEF CommandsInv
<1>1. acking' \in [Acks -> [at : {"idle", "claim", "drive", "mark", "supersede"},
                            row : CommandRows \cup {0}]]
  BY DEF CommandsTypeOK, AckEnds, NoAck
<1>2. reconciling' \in [at : {"idle", "drive", "record"}, row : CommandRows \cup {0},
                        applied : BOOLEAN]
  BY Zenon, NoReconcileType DEF CommandsTypeOK
<1>3. CommandsTypeOK'
  BY Zenon, <1>1, <1>2 DEF CommandsTypeOK
<1>4. RowsInOrder'
  BY Zenon, SameRows
<1>5. \A a \in Acks : acking'[a] = acking[a] \/ acking'[a].at = "idle"
  BY DEF CommandsTypeOK, AckEnds, NoAck
<1>6. reconciling' = reconciling \/ reconciling'.at = "idle"
  BY DEF NoReconcile
<1>7. DriveInv'
  <2>1. \A c \in CommandRows :
         /\ moves'[c] <= 1
         /\ moves'[c] = 1 => Answered(c)' /\ flight' \in Taken(command'[c].type)
         /\ command'[c].applied => moves'[c] = 1
    BY Zenon DEF DriveInv
  <2>2. \A a \in Acks :
         /\ acking'[a].at # "idle" => acking'[a].row \in CommandRows
         /\ acking'[a].at \in {"drive", "mark", "supersede"} => Answered(acking[a].row)'
         /\ acking'[a].at = "mark" => moves'[acking'[a].row] = 1
    BY <1>5 DEF DriveInv
  <2> QED
    BY <1>5, <1>6, <2>1, <2>2 DEF DriveInv, Answered
<1> QED
  BY Zenon, <1>3, <1>4, <1>7

LEMMA StatusUpdateType ==
    ASSUME NEW row \in [status : CommandStatus, type : CommandType, aged : BOOLEAN, applied : BOOLEAN],
           NEW s \in CommandStatus
    PROVE  [row EXCEPT !.status = s, !.aged = FALSE]
             \in [status : CommandStatus, type : CommandType, aged : BOOLEAN, applied : BOOLEAN]
BY Zenon

LEMMA AppliedUpdateType ==
    ASSUME NEW row \in [status : CommandStatus, type : CommandType, aged : BOOLEAN, applied : BOOLEAN]
    PROVE  [row EXCEPT !.applied = TRUE, !.aged = FALSE]
             \in [status : CommandStatus, type : CommandType, aged : BOOLEAN, applied : BOOLEAN]
BY Zenon

\* What a status write, or the mark of an applied transition, does to the rows.
LEMMA StatusWrite ==
    ASSUME CommandsInv, NEW c \in CommandRows, NEW s \in CommandStatus \ {"absent"},
           command[c].status # "absent", Answered(c) => s \in {"ACKED", "REJECTED"},
           SetStatus(c, s)
    PROVE  /\ command' \in [CommandRows -> [status : CommandStatus, type : CommandType,
                                            aged : BOOLEAN, applied : BOOLEAN]]
           /\ \A b \in CommandRows :
               /\ command'[b].type = command[b].type
               /\ command'[b].applied => command[b].applied \/ moves[b] = 1
               /\ (command'[b].status = "absent") = (command[b].status = "absent")
               /\ Answered(b) => Answered(b)'
           /\ command'[c].status = s
<1> USE DEF CommandsInv, CommandsTypeOK, SetStatus
<1>1. command' \in [CommandRows -> [status : CommandStatus, type : CommandType,
                                    aged : BOOLEAN, applied : BOOLEAN]]
  <2>1. [command[c] EXCEPT !.status = s, !.aged = FALSE]
            \in [status : CommandStatus, type : CommandType, aged : BOOLEAN, applied : BOOLEAN]
    BY Zenon, StatusUpdateType
  <2>2. command' = [command EXCEPT ![c] = [command[c] EXCEPT !.status = s, !.aged = FALSE]]
    OBVIOUS
  <2> QED
    BY Zenon, <2>1, <2>2
<1>2. \A b \in CommandRows : b # c => command'[b] = command[b]
  OBVIOUS
<1>3. command'[c].type = command[c].type /\ command'[c].applied = command[c].applied
        /\ command'[c].status = s
  OBVIOUS
<1> QED
  BY <1>1, <1>2, <1>3 DEF Answered

LEMMA AppliedWrite ==
    ASSUME CommandsInv, NEW c \in CommandRows, moves[c] = 1, MarkApplied(c)
    PROVE  /\ command' \in [CommandRows -> [status : CommandStatus, type : CommandType,
                                            aged : BOOLEAN, applied : BOOLEAN]]
           /\ \A b \in CommandRows :
               /\ command'[b].type = command[b].type
               /\ command'[b].applied => command[b].applied \/ moves[b] = 1
               /\ (command'[b].status = "absent") = (command[b].status = "absent")
               /\ Answered(b) => Answered(b)'
<1> USE DEF CommandsInv, CommandsTypeOK, MarkApplied
<1>1. command' \in [CommandRows -> [status : CommandStatus, type : CommandType,
                                    aged : BOOLEAN, applied : BOOLEAN]]
  <2>1. [command[c] EXCEPT !.applied = TRUE, !.aged = FALSE]
            \in [status : CommandStatus, type : CommandType, aged : BOOLEAN, applied : BOOLEAN]
    BY Zenon, AppliedUpdateType
  <2>2. command' = [command EXCEPT ![c] = [command[c] EXCEPT !.applied = TRUE, !.aged = FALSE]]
    BY Zenon
  <2> QED
    BY Zenon, <2>1, <2>2
<1>2. \A b \in CommandRows : b # c => command'[b] = command[b]
  OBVIOUS
<1>3. command'[c].type = command[c].type /\ command'[c].status = command[c].status
  OBVIOUS
<1> QED
  BY <1>1, <1>2, <1>3 DEF Answered

LEMMA PollKeeps ==
    ASSUME CommandsInv, PollRead \/ PollClaim \/ PollReread \/ PollEnds \/ SiblingPoll
    PROVE  CommandsInv'
<1> USE DEF CommandsInv
<1>1. NoPoll \in [at : {"idle", "claim", "reread", "reply"}, row : CommandRows \cup {0}]
        /\ NoPoll.at = "idle"
  BY DEF NoPoll
<1>2. CASE PollRead
  <2> DEFINE due == {c \in CommandRows : Open(c) /\ ~command[c].aged}
  <2>1. Min(due) \in due
    <3>1. due \in SUBSET Nat
      BY DEF CommandRows
    <3>2. due # {}
      BY Zenon, <1>2 DEF PollRead
    <3> QED
      BY Zenon, <3>1, <3>2, MinIsMember
  <2>2. Min(due) \in CommandRows
    BY <2>1
  <2>3. polling' = [at |-> "reply", row |-> Min(due)] \/ polling' = [at |-> "claim", row |-> Min(due)]
    BY Zenon, <1>2 DEF PollRead, HandOut
  <2> HIDE DEF due
  <2>4. polling' \in [at : {"idle", "claim", "reread", "reply"}, row : CommandRows \cup {0}]
          /\ polling'.row \in CommandRows
    BY <2>2, <2>3
  <2>5. UNCHANGED <<flight, command, issuing, acking, reconciling, moves>>
    BY <1>2 DEF PollRead
  <2> QED
    BY <2>4, <2>5, RowWriteKeeps DEF CommandsTypeOK, Answered
<1>3. CASE PollClaim
  <2>1. polling.row \in CommandRows
    BY <1>3 DEF PollClaim, DriveInv
  <2>2. polling' \in [at : {"idle", "claim", "reread", "reply"}, row : CommandRows \cup {0}]
          /\ polling'.row \in CommandRows
    BY <1>3, <2>1 DEF PollClaim, HandOut, CommandsTypeOK
  <2>3. CASE UNCHANGED command
    BY Zenon, <1>3, <2>2, <2>3, RowWriteKeeps DEF PollClaim, CommandsTypeOK, Answered
  <2>4. CASE command[polling.row].status = "PENDING" /\ SetStatus(polling.row, "FETCHED")
    BY Zenon, <1>3, <2>1, <2>2, <2>4, StatusWrite, RowWriteKeeps DEF PollClaim, Answered, CommandStatus
  <2> QED
    BY <1>3, <2>3, <2>4 DEF PollClaim
<1>4. CASE PollReread
  <2>1. polling.row \in CommandRows
    BY Zenon, <1>4 DEF PollReread, DriveInv
  <2>2. polling' \in [at : {"idle", "claim", "reread", "reply"}, row : CommandRows \cup {0}]
          /\ (polling'.at # "idle" => polling'.row \in CommandRows)
    BY <1>1, <1>4, <2>1 DEF PollReread, HandOut
  <2> QED
    BY Zenon, <1>4, <2>2, RowWriteKeeps DEF PollReread, CommandsTypeOK, Answered
<1>5. CASE PollEnds
  BY Zenon, <1>1, <1>5, RowWriteKeeps DEF PollEnds, CommandsTypeOK, Answered
<1>6. CASE SiblingPoll
  <2>1. polling.row \in CommandRows
    BY Zenon, <1>6 DEF SiblingPoll, DriveInv
  <2>2. command[polling.row].status = "PENDING" /\ SetStatus(polling.row, "FETCHED")
    BY <1>6 DEF SiblingPoll
  <2> QED
    BY <1>6, <2>1, <2>2, StatusWrite, RowWriteKeeps
    DEF SiblingPoll, CommandsTypeOK, Answered, CommandStatus
<1> QED
  BY <1>2, <1>3, <1>4, <1>5, <1>6

\* One answer's frame changes; the rest is as it was.
LEMMA AckFrameKeeps ==
    ASSUME CommandsInv, NEW a \in Acks,
           UNCHANGED <<flight, command, issuing, polling, reconciling, moves>>,
           NEW f \in [at : {"idle", "claim"}, row : CommandRows \cup {0}],
           f.at # "idle" => f.row \in CommandRows,
           acking' = [acking EXCEPT ![a] = f]
    PROVE  CommandsInv'
<1> USE DEF CommandsInv
<1>1. CommandsTypeOK'
  BY Zenon DEF CommandsTypeOK
<1>2. RowsInOrder'
  BY Zenon, SameRows
<1>3. DriveInv'
  BY DEF DriveInv, Answered, CommandsTypeOK
<1> QED
  BY Zenon, <1>1, <1>2, <1>3

\* The compare-and-set of a transition: the row had not taken the delivery, and now it has.
LEMMA DriveEffect ==
    ASSUME CommandsInv, NEW c \in CommandRows, Answered(c), DriveDelivery(c), UNCHANGED command
    PROVE  /\ flight' \in DeliveryStatus /\ moves' \in [CommandRows -> Nat]
           /\ \A b \in CommandRows : /\ moves'[b] <= 1 /\ (moves[b] = 1 => moves'[b] = 1)
                                     /\ moves'[b] = 1 => Answered(b) /\ flight' \in Taken(command[b].type)
           /\ CanDrive(c) => moves'[c] = 1
<1> USE DEF CommandsInv
<1>1. CASE ~CanDrive(c)
  BY <1>1 DEF DriveDelivery, DriveInv, CommandsTypeOK
<1>2. CASE CanDrive(c)
  <2>1. command[c].type \in CommandType
    BY Zenon DEF CommandsTypeOK
  <2>2. flight \notin Taken(command[c].type)
    BY <1>2, <2>1 DEF CanDrive, COMMAND_TYPE_TO_LEGAL_STATUSES, Taken, RETURNABLE_STATUSES,
       FAILABLE_STATUSES, CommandType
  <2>3. moves[c] = 0
    <3>1. moves[c] \in Nat
      BY Zenon DEF CommandsTypeOK
    <3>2. moves[c] <= 1 /\ moves[c] # 1
      BY Zenon, <2>2 DEF DriveInv
    <3> QED
      BY <3>1, <3>2
  <2>4. moves' = [moves EXCEPT ![c] = 1]
    BY <1>2, <2>3 DEF DriveDelivery, CommandsTypeOK
  <2>5. flight' = IF command[c].type = "RETURN_TO_BASE" THEN "RETURNING" ELSE "DELIVERY_FAILED"
    BY <1>2 DEF DriveDelivery
  <2>6. flight' \in DeliveryStatus
    BY Zenon, <2>5 DEF DeliveryStatus, FAILABLE_STATUSES, TERMINAL_STATUSES
  <2>7. flight \in FAILABLE_STATUSES
    BY <1>2, <2>1 DEF CanDrive, COMMAND_TYPE_TO_LEGAL_STATUSES, RETURNABLE_STATUSES,
       FAILABLE_STATUSES, CommandType
  <2>8. \A b \in CommandRows : moves[b] = 1 => flight' \in Taken(command[b].type)
    <3> SUFFICES ASSUME NEW b \in CommandRows, moves[b] = 1
                 PROVE  flight' \in Taken(command[b].type)
      BY Zenon
    <3>1. flight \in Taken(command[b].type)
      BY Zenon DEF DriveInv
    <3>2. flight = "RETURNING" /\ command[b].type = "RETURN_TO_BASE"
      BY <2>7, <3>1 DEF Taken, FAILABLE_STATUSES
    <3> QED
      BY Zenon, <2>5, <3>2 DEF Taken
  <2>9. flight' \in Taken(command[c].type)
    BY Zenon, <2>5 DEF Taken
  <2> QED
    BY <2>4, <2>6, <2>8, <2>9 DEF DriveInv, CommandsTypeOK
<1> QED
  BY Zenon, <1>1, <1>2

LEMMA AckKeeps ==
    ASSUME CommandsInv, NEW a \in Acks, AckStep(a) \/ AckDies(a) \/ \E c \in CommandRows : AckRead(a, c)
    PROVE  CommandsInv'
<1> USE DEF CommandsInv
<1> DEFINE r == acking[a].row
<1>0. NoAck \in [at : {"idle", "claim"}, row : CommandRows \cup {0}] /\ NoAck.at = "idle"
  BY Zenon DEF NoAck
<1>1. acking[a].at # "idle" => r \in CommandRows
  BY Zenon DEF DriveInv
<1>2. ASSUME NEW c \in CommandRows, AckRead(a, c)
      PROVE  CommandsInv'
  <2>1. CASE command[c].aged
    BY Zenon, <1>2, <2>1, StatusWrite, RowWriteKeeps
    DEF AckRead, Open, COMMAND_OPEN_STATUSES, Answered, CommandStatus, CommandsTypeOK, DriveInv
  <2>2. CASE ~command[c].aged
    <3> DEFINE f == [at |-> "claim", row |-> c]
    <3>1. f \in [at : {"idle", "claim"}, row : CommandRows \cup {0}] /\ f.row \in CommandRows
      BY Zenon
    <3>2. acking' = [acking EXCEPT ![a] = f]
             /\ UNCHANGED <<flight, command, issuing, polling, reconciling, moves>>
      BY Zenon, <1>2, <2>2 DEF AckRead
    <3> HIDE DEF f
    <3> QED
      BY Zenon, <3>1, <3>2, AckFrameKeeps
  <2> QED
    BY <2>1, <2>2
<1>3. CASE AckDies(a)
  BY Zenon, <1>0, <1>3, AckFrameKeeps DEF AckDies, AckEnds
<1>4. CASE AckClaim(a)
  <2>1. r \in CommandRows
    BY <1>1, <1>4 DEF AckClaim
  <2>2. CASE command[r].status # "FETCHED" /\ AckEnds(a) /\ UNCHANGED command
    BY Zenon, <1>0, <1>4, <2>2, AckFrameKeeps DEF AckClaim, AckEnds
  <2>3. CASE command[r].status = "FETCHED" /\ SetStatus(r, "REJECTED") /\ AckEnds(a)
    BY Zenon, <1>4, <2>1, <2>3, StatusWrite, RowWriteKeeps
    DEF AckClaim, Answered, CommandStatus, CommandsTypeOK, DriveInv
  <2>4. CASE command[r].status = "FETCHED" /\ SetStatus(r, "ACKED") /\ AckGoto(a, "drive")
    <3>1. UNCHANGED <<flight, issuing, polling, reconciling, moves>>
      BY Zenon, <1>4 DEF AckClaim
    <3>2. /\ command' \in [CommandRows -> [status : CommandStatus, type : CommandType,
                                           aged : BOOLEAN, applied : BOOLEAN]]
          /\ \A b \in CommandRows :
              /\ command'[b].type = command[b].type
              /\ command'[b].applied => command[b].applied \/ moves[b] = 1
              /\ (command'[b].status = "absent") = (command[b].status = "absent")
              /\ Answered(b) => Answered(b)'
          /\ command'[r].status = "ACKED"
      BY Zenon, <2>1, <2>4, StatusWrite DEF CommandStatus
    <3>3. acking' \in [Acks -> [at : {"idle", "claim", "drive", "mark", "supersede"},
                                row : CommandRows \cup {0}]]
      BY Zenon, <2>4 DEF AckGoto, CommandsTypeOK
    <3>4. CommandsTypeOK'
      BY <3>1, <3>2, <3>3 DEF CommandsTypeOK
    <3>5. RowsInOrder'
      BY Zenon, <3>2, SameRows
    <3>6. /\ acking'[a].at = "drive" /\ acking'[a].row = r
          /\ \A b \in Acks : b # a => acking'[b] = acking[b]
      BY <2>4 DEF AckGoto, CommandsTypeOK
    <3>7. DriveInv'
      <4>1. \A c \in CommandRows :
              /\ moves'[c] <= 1
              /\ moves'[c] = 1 => Answered(c)' /\ flight' \in Taken(command'[c].type)
              /\ command'[c].applied => moves'[c] = 1
        BY Zenon, <3>1, <3>2 DEF DriveInv
      <4>2. \A b \in Acks :
              /\ acking'[b].at # "idle" => acking'[b].row \in CommandRows
              /\ acking'[b].at \in {"drive", "mark", "supersede"} => Answered(acking[b].row)'
              /\ acking'[b].at = "mark" => moves'[acking'[b].row] = 1
        <5> TAKE b \in Acks
        <5>1. CASE b = a
          BY Zenon, <2>1, <3>2, <3>6, <5>1 DEF Answered
        <5>2. CASE b # a
          <6>1. /\ acking[b].at # "idle" => acking[b].row \in CommandRows
                /\ acking[b].at \in {"drive", "mark", "supersede"} => Answered(acking[b].row)
                /\ acking[b].at = "mark" => moves[acking[b].row] = 1
            BY DEF DriveInv
          <6> QED
            BY Zenon, <3>1, <3>2, <3>6, <5>2, <6>1 DEF Answered
        <5> QED
          BY Zenon, <5>1, <5>2
      <4> QED
        BY Zenon, <3>1, <3>2, <4>1, <4>2 DEF DriveInv, Answered
    <3> QED
      BY <3>4, <3>5, <3>7
  <2> QED
    BY <1>4, <2>2, <2>3, <2>4 DEF AckClaim
<1>5. CASE AckDrive(a)
  <2>1. r \in CommandRows /\ Answered(r) /\ UNCHANGED <<command, issuing, polling, reconciling>>
    BY Zenon, <1>1, <1>5 DEF AckDrive, DriveInv
  <2>2. /\ flight' \in DeliveryStatus /\ moves' \in [CommandRows -> Nat]
        /\ \A b \in CommandRows : /\ moves'[b] <= 1 /\ (moves[b] = 1 => moves'[b] = 1)
                                  /\ moves'[b] = 1 => Answered(b) /\ flight' \in Taken(command[b].type)
        /\ CanDrive(r) => moves'[r] = 1
    BY Zenon, <1>5, <2>1, DriveEffect DEF AckDrive
  <2>3. PICK at \in {"mark", "supersede"} : AckGoto(a, at) /\ (at = "mark" => CanDrive(r))
    BY Zenon, <1>5 DEF AckDrive
  <2>4. /\ acking'[a].at = at /\ acking'[a].row = r
        /\ \A b \in Acks : b # a => acking'[b] = acking[b]
    BY <2>3 DEF AckGoto, CommandsTypeOK
  <2>5. acking' \in [Acks -> [at : {"idle", "claim", "drive", "mark", "supersede"},
                              row : CommandRows \cup {0}]]
    BY Zenon, <2>3 DEF AckGoto, CommandsTypeOK
  <2>6. CommandsTypeOK'
    BY Zenon, <2>1, <2>2, <2>5 DEF CommandsTypeOK
  <2>7. RowsInOrder'
    BY <2>1, SameRows
  <2>8. DriveInv'
    <3>1. \A b \in Acks :
            /\ acking'[b].at # "idle" => acking'[b].row \in CommandRows
            /\ acking'[b].at \in {"drive", "mark", "supersede"} => Answered(acking[b].row)'
            /\ acking'[b].at = "mark" => moves'[acking'[b].row] = 1
      <4> TAKE b \in Acks
      <4>1. CASE b = a
        BY Zenon, <2>1, <2>2, <2>3, <2>4, <4>1 DEF Answered
      <4>2. CASE b # a
        BY Zenon, <2>1, <2>2, <2>4, <4>2 DEF DriveInv, Answered
      <4> QED
        BY Zenon, <4>1, <4>2
    <3> QED
      BY Zenon, <2>1, <2>2, <3>1 DEF DriveInv, Answered
  <2> QED
    BY <2>6, <2>7, <2>8
<1>6. CASE AckRecord(a)
  <2>1. r \in CommandRows /\ Answered(r) /\ command[r].status # "absent"
    BY Zenon, <1>1, <1>6 DEF AckRecord, DriveInv, Answered
  <2>2. CASE acking[a].at = "mark" /\ MarkApplied(r)
    BY Zenon, <1>6, <2>1, <2>2, AppliedWrite, RowWriteKeeps DEF AckRecord, DriveInv, CommandsTypeOK
  <2>3. CASE SetStatus(r, "REJECTED")
    BY Zenon, <1>6, <2>1, <2>3, StatusWrite, RowWriteKeeps
    DEF AckRecord, CommandStatus, DriveInv, CommandsTypeOK
  <2> QED
    BY Zenon, <1>6, <2>2, <2>3 DEF AckRecord
<1> QED
  BY <1>2, <1>3, <1>4, <1>5, <1>6 DEF AckStep

LEMMA AgedUpdateType ==
    ASSUME NEW row \in [status : CommandStatus, type : CommandType, aged : BOOLEAN, applied : BOOLEAN]
    PROVE  /\ [row EXCEPT !.aged = TRUE]
                \in [status : CommandStatus, type : CommandType, aged : BOOLEAN, applied : BOOLEAN]
           /\ [row EXCEPT !.status = "EXPIRED"]
                \in [status : CommandStatus, type : CommandType, aged : BOOLEAN, applied : BOOLEAN]
<1>1. "EXPIRED" \in CommandStatus
  BY Zenon DEF CommandStatus
<1> QED
  BY Zenon, <1>1

LEMMA WatchdogKeeps ==
    ASSUME CommandsInv, \/ ExpireStaleCommands \/ ReconcileDrive \/ ReconcileRecord
                        \/ \E c \in CommandRows : ReconcileRead(c) \/ CommandAges(c)
    PROVE  CommandsInv'
<1> USE DEF CommandsInv
<1> DEFINE r == reconciling.row
<1>1. CASE ExpireStaleCommands
  <2>1. command' = [c \in CommandRows |-> IF Open(c) /\ command[c].aged
                                         THEN [command[c] EXCEPT !.status = "EXPIRED"]
                                         ELSE command[c]]
    BY <1>1 DEF ExpireStaleCommands
  <2>2. command' \in [CommandRows -> [status : CommandStatus, type : CommandType,
                                      aged : BOOLEAN, applied : BOOLEAN]]
    <3>1. command \in [CommandRows -> [status : CommandStatus, type : CommandType,
                                       aged : BOOLEAN, applied : BOOLEAN]]
      BY Zenon DEF CommandsTypeOK
    <3> QED
      BY Zenon, <2>1, <3>1, AgedUpdateType
  <2>3. \A c \in CommandRows :
          /\ command'[c].type = command[c].type
          /\ command'[c].applied => command[c].applied \/ moves[c] = 1
          /\ (command'[c].status = "absent") = (command[c].status = "absent")
          /\ Answered(c) => Answered(c)'
    BY <2>1 DEF Answered, Open, COMMAND_OPEN_STATUSES, CommandsTypeOK
  <2> QED
    BY <1>1, <2>2, <2>3, RowWriteKeeps DEF ExpireStaleCommands, CommandsTypeOK, DriveInv
<1>2. ASSUME NEW c \in CommandRows, CommandAges(c)
      PROVE  CommandsInv'
  <2>1. command' = [command EXCEPT ![c] = [command[c] EXCEPT !.aged = TRUE]]
    BY <1>2 DEF CommandAges, CommandsTypeOK
  <2>2. command' \in [CommandRows -> [status : CommandStatus, type : CommandType,
                                      aged : BOOLEAN, applied : BOOLEAN]]
    <3>1. command \in [CommandRows -> [status : CommandStatus, type : CommandType,
                                       aged : BOOLEAN, applied : BOOLEAN]]
      BY Zenon DEF CommandsTypeOK
    <3> QED
      BY Zenon, <2>1, <3>1, AgedUpdateType
  <2>3. \A b \in CommandRows :
          /\ command'[b].type = command[b].type
          /\ command'[b].applied => command[b].applied \/ moves[b] = 1
          /\ (command'[b].status = "absent") = (command[b].status = "absent")
          /\ Answered(b) => Answered(b)'
    BY <2>1 DEF Answered, CommandsTypeOK
  <2> QED
    BY <1>2, <2>2, <2>3, RowWriteKeeps DEF CommandAges, CommandsTypeOK, DriveInv
<1>3. ASSUME NEW c \in CommandRows, ReconcileRead(c)
      PROVE  CommandsInv'
  <2>1. reconciling' = [at |-> "drive", row |-> c, applied |-> FALSE]
          /\ UNCHANGED <<flight, command, issuing, polling, acking, moves>>
    BY Zenon, <1>3 DEF ReconcileRead
  <2>2. reconciling' \in [at : {"idle", "drive", "record"}, row : CommandRows \cup {0},
                          applied : BOOLEAN]
    BY Zenon, <2>1
  <2>3. CommandsTypeOK'
    BY <2>1, <2>2 DEF CommandsTypeOK
  <2>4. RowsInOrder'
    BY Zenon, <2>1, SameRows
  <2>5. DriveInv'
    <3>1. Answered(c)
      BY Zenon, <1>3 DEF Answered, ReconcileRead, Stranded
    <3>2. reconciling'.at = "drive" /\ reconciling'.row = c
      BY Zenon, <2>1
    <3> QED
      BY Zenon, <2>1, <3>1, <3>2 DEF DriveInv, Answered
  <2> QED
    BY <2>3, <2>4, <2>5
<1>4. CASE ReconcileDrive
  <2>1. r \in CommandRows /\ Answered(r) /\ UNCHANGED <<command, issuing, polling, acking>>
    BY <1>4 DEF ReconcileDrive, DriveInv
  <2>2. /\ flight' \in DeliveryStatus /\ moves' \in [CommandRows -> Nat]
        /\ \A b \in CommandRows : /\ moves'[b] <= 1 /\ (moves[b] = 1 => moves'[b] = 1)
                                  /\ moves'[b] = 1 => Answered(b) /\ flight' \in Taken(command[b].type)
        /\ CanDrive(r) => moves'[r] = 1
    BY <1>4, <2>1, DriveEffect DEF ReconcileDrive
  <2>3. reconciling' = [reconciling EXCEPT !.at = "record", !.applied = CanDrive(r)]
    BY <1>4 DEF ReconcileDrive
  <2>4. reconciling'.at = "record" /\ reconciling'.row = r /\ reconciling'.applied = CanDrive(r)
    BY <2>3 DEF CommandsTypeOK
  <2>5. reconciling' \in [at : {"idle", "drive", "record"}, row : CommandRows \cup {0},
                          applied : BOOLEAN]
    <3>1. CanDrive(r) \in BOOLEAN
      BY DEF CanDrive
    <3>2. "record" \in {"idle", "drive", "record"}
      BY Zenon
    <3> QED
      BY Zenon, <2>3, <3>1, <3>2 DEF CommandsTypeOK
  <2>6. CommandsTypeOK'
    BY Zenon, <2>1, <2>2, <2>5 DEF CommandsTypeOK
  <2>7. RowsInOrder'
    BY <2>1, SameRows
  <2>8. DriveInv'
    <3>1. \A b \in Acks :
            /\ acking'[b].at # "idle" => acking'[b].row \in CommandRows
            /\ acking'[b].at \in {"drive", "mark", "supersede"} => Answered(acking[b].row)'
            /\ acking'[b].at = "mark" => moves'[acking'[b].row] = 1
      BY Zenon, <2>1, <2>2 DEF DriveInv, Answered
    <3> QED
      BY Zenon, <2>1, <2>2, <2>4, <3>1 DEF DriveInv, Answered
  <2> QED
    BY <2>6, <2>7, <2>8
<1>5. CASE ReconcileRecord
  <2>1. r \in CommandRows /\ Answered(r) /\ command[r].status # "absent"
    BY <1>5 DEF ReconcileRecord, DriveInv, Answered
  <2>2. CASE reconciling.applied /\ MarkApplied(r)
    BY Zenon, <1>5, <2>1, <2>2, AppliedWrite, RowWriteKeeps DEF ReconcileRecord, DriveInv, CommandsTypeOK
  <2>3. CASE SetStatus(r, "REJECTED")
    BY Zenon, <1>5, <2>1, <2>3, StatusWrite, RowWriteKeeps
    DEF ReconcileRecord, CommandStatus, DriveInv, CommandsTypeOK
  <2> QED
    BY Zenon, <1>5, <2>2, <2>3 DEF ReconcileRecord
<1> QED
  BY Zenon, <1>1, <1>2, <1>3, <1>4, <1>5

LEMMA CommandsInvInit == CommandsInit => CommandsInv
<1> SUFFICES ASSUME CommandsInit PROVE CommandsInv
  OBVIOUS
<1> USE DEF CommandsInit
<1>1. NoCommand \in [status : CommandStatus, type : CommandType, aged : BOOLEAN, applied : BOOLEAN]
        /\ NoCommand.status = "absent" /\ NoCommand.applied = FALSE
  BY DEF NoCommand, CommandStatus, CommandType
<1>2. command \in [CommandRows -> [status : CommandStatus, type : CommandType,
                                   aged : BOOLEAN, applied : BOOLEAN]]
  BY Zenon, <1>1
<1>3. CommandsTypeOK
  BY Zenon, <1>2, NoReconcileType
  DEF CommandsTypeOK, NoIssue, NoPoll, NoAck, CommandType, DeliveryStatus, FAILABLE_STATUSES
<1>4. RowsInOrder
  <2>1. Inserted = 1..0
    BY <1>1 DEF Inserted
  <2> QED
    BY <2>1, CommandsAssumption DEF RowsInOrder, CommandsAssumption
<1>5. DriveInv
  BY <1>1 DEF DriveInv, NoPoll, NoAck, NoReconcile
<1> QED
  BY Zenon, <1>3, <1>4, <1>5 DEF CommandsInv

LEMMA CommandsInvStep == CommandsInv /\ [CommandsNext]_commandVars => CommandsInv'
<1> SUFFICES ASSUME CommandsInv, [CommandsNext]_commandVars PROVE CommandsInv'
  OBVIOUS
<1>1. CASE UNCHANGED commandVars
  <2>1. CommandsTypeOK'
    BY Zenon, <1>1 DEF commandVars, CommandsInv, CommandsTypeOK
  <2>2. RowsInOrder'
    BY <1>1 DEF commandVars, CommandsInv, RowsInOrder, Inserted
  <2>3. DriveInv'
    BY Zenon, <1>1 DEF commandVars, CommandsInv, DriveInv, Answered
  <2> QED
    BY Zenon, <2>1, <2>2, <2>3 DEF CommandsInv
<1>2. CASE CommandsNext
  BY Zenon, <1>2, FlightMovesKeeps, IssueKeeps, PollKeeps, AckKeeps, WatchdogKeeps DEF CommandsNext
<1> QED
  BY <1>1, <1>2

----------------------------------------------------------------------------

\* Any number of polls, answers and reconciler passes, in any interleaving, take the delivery at
\* most once per command, and only on an accepted one.
THEOREM CommandTakesDeliveryOnce == CommandsSpec => []CommandActsOnce
<1>1. CommandsInv => CommandActsOnce
  BY Zenon DEF CommandsInv, DriveInv, CommandActsOnce, Answered
<1> QED
  BY <1>1, CommandsInvInit, CommandsInvStep, PTL DEF CommandsSpec

\* fetchPending answers with a row that is FETCHED when it answers, whichever of the sweep, the
\* answers and a sibling poll moved the row since it was read.
THEOREM PollHandsOutOpen == CommandsSpec => HandsOutOpenOnly
<1>1. CommandsInv /\ [CommandsNext]_commandVars
        => [polling'.at = "reply" /\ polling.at # "reply"
              => command'[polling'.row].status = "FETCHED"]_commandVars
  <2> SUFFICES ASSUME CommandsInv, CommandsNext, polling'.at = "reply", polling.at # "reply"
               PROVE  command'[polling'.row].status = "FETCHED"
    BY Zenon DEF commandVars
  <2>1. PollRead \/ PollClaim \/ PollReread
    BY Zenon DEF CommandsNext, FlightMoves, IssueCheck, IssueCount, IssueInsert, PollEnds, SiblingPoll,
       AckStep, AckClaim, AckDrive, AckRecord, AckDies, AckRead, ExpireStaleCommands,
       ReconcileRead, ReconcileDrive, ReconcileRecord, CommandAges
  <2>2. CASE PollRead
    BY <2>2 DEF PollRead, HandOut
  <2>3. CASE PollClaim
    <3>1. polling.row \in CommandRows
      BY <2>3 DEF PollClaim, CommandsInv, DriveInv
    <3>2. SetStatus(polling.row, "FETCHED") /\ polling'.row = polling.row
      BY <2>3 DEF PollClaim, HandOut, CommandsInv, CommandsTypeOK
    <3> QED
      BY <3>1, <3>2 DEF SetStatus, CommandsInv, CommandsTypeOK
  <2>4. CASE PollReread
    BY <2>4 DEF PollReread, HandOut, NoPoll
  <2> QED
    BY Zenon, <2>1, <2>2, <2>3, <2>4
<1> QED
  BY <1>1, CommandsInvInit, CommandsInvStep, PTL DEF CommandsSpec, HandsOutOpenOnly

----------------------------------------------------------------------------
(* ReferralOutbox, for any orders, workers and attempt limits.             *)

\* An event exists only for a linked referral, and is claimed only while it may be.
EventsAreOwed ==
    /\ \A o \in Orders :
         /\ event[o].status # "absent" \/ order[o] = "reward" => referral # "none"
         /\ order[o] # "done" => event[o] = NoEvent
         /\ event[o].status = "PENDING" => event[o].attempts < OUTBOX_MAX_RECOVERY_ATTEMPTS
    /\ \A w \in Workers : worker[w].at = "apply" => /\ worker[w].on \in Orders /\ referral # "none"
                                                   /\ order[worker[w].on] = "done"

OutboxInv == OutboxTypeOK /\ EventsAreOwed /\ RewardPaidOnce

EventRow == [status : EventStatus, attempts : 0..OUTBOX_MAX_RECOVERY_ATTEMPTS, lapsed : BOOLEAN]

----------------------------------------------------------------------------

\* The guarded grant pays each party at most once and leaves a linked referral rewarded.
LEMMA GrantEffect ==
    ASSUME OutboxInv, GrantReferralReward
    PROVE  /\ referral' \in {"none", "PENDING", "REWARDED"}
           /\ credited' \in [Parties -> Nat]
           /\ \A p \in Parties : credited'[p] = IF referral' = "REWARDED" THEN 1 ELSE 0
           /\ referral # "none" => referral' = "REWARDED"
           /\ referral = "none" => referral' = "none"
BY DEF OutboxInv, OutboxTypeOK, RewardPaidOnce, GrantReferralReward

\* A step that leaves the referral and its credits alone, and rewrites one event row.
LEMMA EventStep ==
    ASSUME OutboxInv, UNCHANGED <<referral, credited>>,
           NEW o \in Orders, NEW row \in EventRow,
           event' = [event EXCEPT ![o] = row],
           row.status # "absent", referral # "none",
           row.status = "PROCESSED" => referral = "REWARDED",
           row.status = "PENDING" => row.attempts < OUTBOX_MAX_RECOVERY_ATTEMPTS,
           order' \in [Orders -> {"idle", "reward", "done"}],
           order'[o] = "done", \A q \in Orders : q # o => order'[q] = order[q],
           worker' \in [Workers -> [at : {"idle", "apply"}, on : Orders \cup {"none"}]],
           \A w \in Workers : worker'[w] = worker[w] \/ worker'[w].at = "idle" \/ worker'[w].on = o
    PROVE  OutboxInv'
<1> USE DEF OutboxInv
<1>1. event'[o] = row /\ \A q \in Orders : q # o => event'[q] = event[q]
  BY Zenon DEF OutboxTypeOK
<1>2. event' \in [Orders -> EventRow]
  BY Zenon DEF OutboxTypeOK, EventRow
<1>3. OutboxTypeOK'
  BY <1>2 DEF OutboxTypeOK, EventRow
<1>4. EventsAreOwed'
  <2>1. ASSUME NEW q \in Orders
        PROVE  /\ event'[q].status # "absent" \/ order'[q] = "reward" => referral' # "none"
               /\ order'[q] # "done" => event'[q] = NoEvent
               /\ event'[q].status = "PENDING" => event'[q].attempts < OUTBOX_MAX_RECOVERY_ATTEMPTS
    <3>1. CASE q = o
      BY Zenon, <1>1, <3>1
    <3>2. CASE q # o
      BY Zenon, <1>1, <3>2 DEF EventsAreOwed
    <3> QED
      BY Zenon, <3>1, <3>2
  <2>2. ASSUME NEW w \in Workers, worker'[w].at = "apply"
        PROVE  worker'[w].on \in Orders /\ referral' # "none" /\ order'[worker'[w].on] = "done"
    <3>1. worker'[w].on = o \/ worker'[w] = worker[w]
      BY <2>2
    <3> QED
      BY Zenon, <2>2, <3>1 DEF EventsAreOwed
  <2> QED
    BY Zenon, <2>1, <2>2 DEF EventsAreOwed
<1>5. RewardPaidOnce'
  BY <1>1 DEF RewardPaidOnce
<1> QED
  BY Zenon, <1>3, <1>4, <1>5

LEMMA OutboxInvInit == OutboxInit => OutboxInv
<1> SUFFICES ASSUME OutboxInit PROVE OutboxInv
  OBVIOUS
<1>1. NoEvent \in EventRow /\ NoEvent.status = "absent"
  BY OutboxAssumption DEF OutboxAssumption, NoEvent, EventRow, EventStatus
<1>2. OutboxTypeOK
  BY Zenon, <1>1 DEF OutboxInit, OutboxTypeOK, EventRow, IdleWorker
<1>3. EventsAreOwed /\ RewardPaidOnce
  BY <1>1 DEF OutboxInit, EventsAreOwed, RewardPaidOnce, IdleWorker
<1> QED
  BY Zenon, <1>2, <1>3 DEF OutboxInv

LEMMA OutboxInvStep == OutboxInv /\ [OutboxNext]_outboxVars => OutboxInv'
<1> SUFFICES ASSUME OutboxInv, [OutboxNext]_outboxVars PROVE OutboxInv'
  OBVIOUS
<1> USE DEF OutboxInv
<1>1. CASE UNCHANGED outboxVars
  BY Zenon, <1>1 DEF outboxVars, OutboxTypeOK, EventsAreOwed, RewardPaidOnce
<1>2. CASE LinkReferral
  BY Zenon, <1>2 DEF LinkReferral, OutboxTypeOK, EventsAreOwed, RewardPaidOnce
<1>3. ASSUME NEW o \in Orders, ReadPendingReferral(o) PROVE OutboxInv'
  BY Zenon, <1>3 DEF ReadPendingReferral, OutboxTypeOK, EventsAreOwed, RewardPaidOnce
<1>4. ASSUME NEW o \in Orders, CommitOrder(o) PROVE OutboxInv'
  <2>1. order' = [order EXCEPT ![o] = "done"] /\ UNCHANGED worker /\ referral # "none"
          /\ event[o] = NoEvent
    BY Zenon, <1>4 DEF CommitOrder, EventsAreOwed
  <2>2. CASE GrantReferralReward /\ UNCHANGED event
    <3>1. OutboxTypeOK'
      BY Zenon, <2>1, <2>2, GrantEffect DEF OutboxTypeOK
    <3>2. EventsAreOwed'
      BY Zenon, <2>1, <2>2, GrantEffect DEF EventsAreOwed, OutboxTypeOK
    <3>3. RewardPaidOnce'
      BY Zenon, <2>2, GrantEffect DEF RewardPaidOnce
    <3> QED
      BY Zenon, <3>1, <3>2, <3>3
  <2>3. CASE EnqueueWithinTx(o) /\ UNCHANGED <<referral, credited>>
    <3> DEFINE row == [NoEvent EXCEPT !.status = "PENDING"]
    <3>1. row \in EventRow /\ row.status = "PENDING" /\ row.attempts < OUTBOX_MAX_RECOVERY_ATTEMPTS
      <4>1. NoEvent \in EventRow /\ NoEvent.attempts = 0
        BY OutboxAssumption DEF OutboxAssumption, NoEvent, EventRow, EventStatus
      <4>2. row \in EventRow /\ row.status = "PENDING" /\ row.attempts = NoEvent.attempts
        BY <4>1 DEF EventRow, EventStatus
      <4> QED
        BY <4>1, <4>2, OutboxAssumption DEF OutboxAssumption
    <3>2. event' = [event EXCEPT ![o] = row]
      BY Zenon, <2>1, <2>3 DEF EnqueueWithinTx
    <3> HIDE DEF row
    <3> QED
      BY Zenon, <2>1, <2>3, <3>1, <3>2, EventStep DEF OutboxTypeOK
  <2> QED
    BY <1>4, <2>2, <2>3 DEF CommitOrder
<1>5. ASSUME NEW o \in Orders, EventLapses(o) \/ ReapStaleClaims(o) \/ RequeueRecoverableFailed(o)
      PROVE  OutboxInv'
  <2>1. /\ UNCHANGED <<referral, credited, order, worker>>
        /\ event[o].status \in {"PROCESSING", "FAILED"} /\ event[o] \in EventRow
    BY <1>5 DEF EventLapses, ReapStaleClaims, RequeueRecoverableFailed, OutboxTypeOK, EventRow
  <2>2. PICK row \in EventRow :
          /\ event' = [event EXCEPT ![o] = row]
          /\ row.status \in {"PENDING", "PROCESSING", "FAILED"}
          /\ row.status = "PENDING" => row.attempts < OUTBOX_MAX_RECOVERY_ATTEMPTS
    <3>1. CASE EventLapses(o)
      <4> DEFINE row == [event[o] EXCEPT !.lapsed = TRUE]
      <4>1. row \in EventRow /\ row.status = event[o].status
        BY Zenon, <2>1 DEF EventRow
      <4>2. event' = [event EXCEPT ![o] = row]
        BY Zenon, <3>1 DEF EventLapses
      <4> HIDE DEF row
      <4> QED
        BY Zenon, <2>1, <4>1, <4>2
    <3>2. ASSUME NEW s \in {"PENDING", "FAILED"},
                 s = "PENDING" => event[o].attempts < OUTBOX_MAX_RECOVERY_ATTEMPTS,
                 event' = [event EXCEPT ![o].lapsed = FALSE, ![o].status = s]
          PROVE  \E row \in EventRow :
                   /\ event' = [event EXCEPT ![o] = row]
                   /\ row.status \in {"PENDING", "PROCESSING", "FAILED"}
                   /\ row.status = "PENDING" => row.attempts < OUTBOX_MAX_RECOVERY_ATTEMPTS
      <4> DEFINE row == [event[o] EXCEPT !.lapsed = FALSE, !.status = s]
      <4>1. row \in EventRow /\ row.status = s /\ row.attempts = event[o].attempts
        BY Zenon, <2>1 DEF EventRow, EventStatus
      <4>2. event' = [event EXCEPT ![o] = row]
        BY Zenon, <3>2 DEF OutboxTypeOK
      <4> HIDE DEF row
      <4> QED
        BY Zenon, <3>2, <4>1, <4>2
    <3>3. CASE ReapStaleClaims(o)
      <4>1. event[o].attempts \in Nat
        BY <2>1, OutboxAssumption DEF EventRow, OutboxAssumption
      <4>2. CASE event[o].attempts >= OUTBOX_MAX_ATTEMPTS
        BY Zenon, <3>2, <3>3, <4>2 DEF ReapStaleClaims
      <4>3. CASE ~(event[o].attempts >= OUTBOX_MAX_ATTEMPTS)
        <5>1. event[o].attempts < OUTBOX_MAX_RECOVERY_ATTEMPTS
          BY <4>1, <4>3, OutboxAssumption DEF OutboxAssumption
        <5>2. event' = [event EXCEPT ![o].lapsed = FALSE, ![o].status = "PENDING"]
          BY Zenon, <3>3, <4>3 DEF ReapStaleClaims
        <5> QED
          BY Zenon, <3>2, <5>1, <5>2
      <4> QED
        BY Zenon, <4>2, <4>3
    <3>4. CASE RequeueRecoverableFailed(o)
      BY Zenon, <3>2, <3>4 DEF RequeueRecoverableFailed
    <3> QED
      BY <1>5, <3>1, <3>3, <3>4
  <2>3. order[o] = "done" /\ referral # "none"
    BY <2>1 DEF EventsAreOwed, NoEvent, OutboxTypeOK
  <2> QED
    BY Zenon, <2>1, <2>2, <2>3, EventStep DEF OutboxTypeOK
<1>6. ASSUME NEW w \in Workers, NEW o \in Orders, ClaimEvent(w, o) PROVE OutboxInv'
  <2> DEFINE row == [status |-> "PROCESSING", attempts |-> event[o].attempts + 1, lapsed |-> FALSE]
  <2>1. /\ event' = [event EXCEPT ![o] = row] /\ UNCHANGED <<referral, credited, order>>
        /\ worker' = [worker EXCEPT ![w] = [at |-> "apply", on |-> o]]
        /\ event[o].status = "PENDING"
    BY <1>6 DEF ClaimEvent
  <2>2. event[o].attempts \in Nat /\ event[o].attempts < OUTBOX_MAX_RECOVERY_ATTEMPTS
    BY <2>1, OutboxAssumption DEF EventsAreOwed, OutboxTypeOK, OutboxAssumption
  <2>3. row \in EventRow /\ row.status = "PROCESSING"
    BY <2>2, OutboxAssumption DEF EventRow, EventStatus, OutboxAssumption
  <2>4. order[o] = "done" /\ referral # "none"
    BY <2>1 DEF EventsAreOwed, NoEvent, OutboxTypeOK
  <2>5. worker' \in [Workers -> [at : {"idle", "apply"}, on : Orders \cup {"none"}]]
          /\ \A v \in Workers : worker'[v] = worker[v] \/ worker'[v].on = o
    BY <2>1 DEF OutboxTypeOK
  <2> HIDE DEF row
  <2> QED
    BY Zenon, <2>1, <2>3, <2>4, <2>5, EventStep DEF OutboxTypeOK
<1>7. ASSUME NEW w \in Workers, ApplyEvent(w) PROVE OutboxInv'
  <2> DEFINE o == worker[w].on
  <2>1. o \in Orders /\ referral # "none"
    BY <1>7 DEF ApplyEvent, EventsAreOwed
  <2>2. /\ GrantReferralReward /\ UNCHANGED order
        /\ event' = [event EXCEPT ![o].status = "PROCESSED"]
        /\ worker' = [worker EXCEPT ![w] = IdleWorker]
    BY <1>7 DEF ApplyEvent, ApplyHandler
  <2>3. referral' = "REWARDED" /\ \A p \in Parties : credited'[p] = 1
    BY Zenon, <2>1, <2>2, GrantEffect
  <2>4. OutboxTypeOK'
    <3>1. event' \in [Orders -> EventRow]
      BY <2>1, <2>2 DEF OutboxTypeOK, EventRow, EventStatus
    <3> QED
      BY <2>2, <3>1, GrantEffect DEF OutboxTypeOK, IdleWorker, EventRow
  <2>5. order[o] = "done"
    BY Zenon, <1>7 DEF EventsAreOwed, ApplyEvent
  <2>6. EventsAreOwed'
    BY <2>1, <2>2, <2>3, <2>5 DEF EventsAreOwed, OutboxTypeOK, IdleWorker
  <2>7. RewardPaidOnce'
    BY Zenon, <2>3 DEF RewardPaidOnce
  <2> QED
    BY <2>4, <2>6, <2>7
<1>8. ASSUME NEW w \in Workers, ApplyFails(w) PROVE OutboxInv'
  BY <1>8 DEF ApplyFails, IdleWorker, OutboxTypeOK, EventsAreOwed, RewardPaidOnce
<1> QED
  BY Zenon, <1>1, <1>2, <1>3, <1>4, <1>5, <1>6, <1>7, <1>8 DEF OutboxNext

----------------------------------------------------------------------------

\* Whatever the number of deliveries, of dispatcher ticks and of retries, each party of a
\* referral is credited once and a PROCESSED event has been paid.
THEOREM RewardIsPaidOnce == OutboxSpec => []RewardPaidOnce
<1>1. OutboxInv => RewardPaidOnce
  BY DEF OutboxInv
<1> QED
  BY <1>1, OutboxInvInit, OutboxInvStep, PTL DEF OutboxSpec

=============================================================================
