----------------------------- MODULE WorkerTier -----------------------------
(***************************************************************************)
(* The processes that run the periodic sweeps (watchdog, partitions,       *)
(* tracking checkpoint, outbox, orphan reaper, recurring deliveries): what *)
(* a process does to the job scheduler persisted in Redis when it boots,   *)
(* while a release that switches a sweep on or off rolls out over several  *)
(* processes that scale, restart and lose Redis, and how a worker that is  *)
(* told to stop gives up its job and its database.                         *)
(*                                                                         *)
(* The sweeps share no state, so a behaviour follows one of them.  Of the  *)
(* environment a release has what gates that sweep: a flag that opts in    *)
(* and a kill switch.                                                      *)
(***************************************************************************)
EXTENDS Naturals

CONSTANTS
  Nodes,       \* process slots
  NodeRoles,   \* assignments of PROCESS_ROLE to the slots
  Releases,    \* pairs of environments: before and after the rollout
  MaxStarts    \* bound: processes started

VARIABLES
  sweep,       \* the sweep followed
  nodeRole,    \* per slot: PROCESS_ROLE
  releases,    \* the pair of environments
  target,      \* the release the deployment asks for: 1, then 2
  node,        \* per slot: where the process is, and its release
  starts,
  scheduled,   \* Redis holds the job scheduler
  tickJob,     \* Redis holds a job nobody works on
  running,     \* slots whose processor works on a job
  database,    \* slots whose Prisma client is connected
  gauge,       \* slots whose SchedulerRegistered gauge reads 1
  reached,     \* ghost: releases that registered with Redis
  overtaken    \* ghost: the old release registered after the new one

workerVars == <<sweep, nodeRole, releases, target, node, starts, scheduled, tickJob, running, database,
                gauge, reached, overtaken>>
setup == <<sweep, nodeRole, releases>>
ghosts == <<reached, overtaken>>
jobs == <<scheduled, tickJob, running>>

Sweeps == {"watchdog", "partition", "checkpoint", "outbox", "orphan", "recurring"}
Down == [at |-> "down", release |-> 1]

WorkersTypeOK ==
  /\ sweep \in Sweeps /\ nodeRole \in NodeRoles /\ releases \in Releases /\ target \in 1..2
  /\ node \in [Nodes -> [at : {"down", "init", "up", "destroying", "closing", "closed"}, release : 1..2]]
  /\ starts \in 0..MaxStarts /\ {scheduled, tickJob, overtaken} \subseteq BOOLEAN
  /\ running \cup database \cup gauge \subseteq Nodes /\ reached \subseteq 1..2

WorkersInit ==
  /\ sweep \in Sweeps /\ nodeRole \in NodeRoles /\ releases \in Releases
  /\ target = 1 /\ node = [n \in Nodes |-> Down] /\ starts = 0
  /\ scheduled = FALSE /\ tickJob = FALSE
  /\ running = {} /\ database = {} /\ gauge = {}
  /\ reached = {} /\ overtaken = FALSE

----------------------------------------------------------------------------
(* Roles and flags *)

IS_WORKER_TIER(r) == r \notin {"api", "realtime"}

\* A kill switch is on unless it is set to 'false'; an opt-in is off unless it
\* has the one value that turns it on.
Unless(setting) == setting # "off"
OnlyIf(setting) == setting = "on"

WATCHDOG_ENABLED(env) == Unless(env.kill)
PARTITION_MAINTENANCE_ENABLED(env) == Unless(env.kill)
CHECKPOINT_ENABLED(env) == OnlyIf(env.optIn) /\ Unless(env.kill)
OUTBOX_DISPATCH_ENABLED(env) == Unless(env.kill)
RUN_ORPHAN_REAPER(r, env) == IS_WORKER_TIER(r) /\ OnlyIf(env.optIn) /\ Unless(env.kill)

\* The modules' providers: every tier has the recurring scheduler, which
\* returns early, and only the worker tier has the others and the processors.
Provided_Everywhere(r) == sweep \in {"recurring", "orphan"} \/ IS_WORKER_TIER(r)
Provided(r) == sweep = "recurring" \/ IS_WORKER_TIER(r)

----------------------------------------------------------------------------
(* onModuleInit of the six schedulers *)

\* external: BullMQ keeps one scheduler per id, with its next job; removing it
\* removes that job, not one a worker has taken.
UpsertJobScheduler == scheduled' = TRUE /\ tickJob' = TRUE
RemoveJobScheduler == scheduled' = FALSE /\ tickJob' = FALSE

Gauged(n) == gauge' = gauge \cup {n}

WatchdogScheduler(n, env) ==
  /\ sweep = "watchdog"
  /\ IF WATCHDOG_ENABLED(env) THEN UpsertJobScheduler /\ Gauged(n) ELSE RemoveJobScheduler /\ UNCHANGED gauge

PartitionScheduler(n, env) ==
  /\ sweep = "partition"
  /\ IF PARTITION_MAINTENANCE_ENABLED(env) THEN UpsertJobScheduler /\ Gauged(n)
     ELSE RemoveJobScheduler /\ UNCHANGED gauge

TrackingCheckpointScheduler(n, env) ==
  /\ sweep = "checkpoint"
  /\ IF CHECKPOINT_ENABLED(env) THEN UpsertJobScheduler ELSE RemoveJobScheduler
  /\ UNCHANGED gauge

OutboxScheduler(n, env) ==
  /\ sweep = "outbox"
  /\ IF OUTBOX_DISPATCH_ENABLED(env) THEN UpsertJobScheduler /\ Gauged(n) ELSE RemoveJobScheduler /\ UNCHANGED gauge

\* Alone in asking no tier first: off the worker tier it would remove.
OrphanReaperScheduler(n, env) ==
  /\ sweep = "orphan"
  /\ IF RUN_ORPHAN_REAPER(nodeRole[n], env) THEN UpsertJobScheduler /\ Gauged(n) ELSE RemoveJobScheduler /\ UNCHANGED gauge

RecurringScheduler(n, env) ==
  /\ sweep = "recurring"
  /\ IF IS_WORKER_TIER(nodeRole[n]) THEN UpsertJobScheduler ELSE UNCHANGED <<scheduled, tickJob>>
  /\ UNCHANGED gauge

At(n, where) == node[n].at = where
Goes(n, where) == node' = [node EXCEPT ![n].at = where]

\* onModuleInit, with Prisma connected first.
Registers(n) ==
  LET r == node[n].release
      env == releases[r] IN
  /\ At(n, "init") /\ Provided(nodeRole[n]) /\ Goes(n, "up")
  /\ \/ WatchdogScheduler(n, env) \/ PartitionScheduler(n, env) \/ TrackingCheckpointScheduler(n, env)
     \/ OutboxScheduler(n, env) \/ OrphanReaperScheduler(n, env) \/ RecurringScheduler(n, env)
  /\ reached' = reached \cup (IF IS_WORKER_TIER(nodeRole[n]) THEN {r} ELSE {})
  /\ overtaken' = (overtaken \/ (r = 1 /\ 2 \in reached'))
  /\ UNCHANGED <<setup, target, starts, running, database>>

\* A process without the scheduler, or one that finds Redis down and only warns.
BootsWithout(n) ==
  /\ At(n, "init") /\ Goes(n, "up")
  /\ UNCHANGED <<setup, target, starts, jobs, database, gauge, ghosts>>

----------------------------------------------------------------------------
(* Processes *)

\* The deployment starts a process of the release it is at; PrismaService
\* connects in its onModuleInit.
Starts(n) ==
  /\ At(n, "down") /\ starts < MaxStarts
  /\ starts' = starts + 1
  /\ node' = [node EXCEPT ![n] = [at |-> "init", release |-> target]]
  /\ database' = database \cup {n}
  /\ UNCHANGED <<setup, target, jobs, gauge, ghosts>>

RollsOut ==
  /\ target = 1 /\ target' = 2
  /\ UNCHANGED <<setup, node, starts, jobs, database, gauge, ghosts>>

\* A process dies and, unless it was being stopped, its container may restart
\* it; BullMQ gives a stalled job back to the queue.
Dies(n) ==
  /\ ~At(n, "down") /\ starts < MaxStarts
  /\ starts' = starts + 1
  /\ \E where \in {"init", "down"} :
       /\ where = "init" => node[n].at \in {"init", "up"}
       /\ Goes(n, where)
       /\ database' = IF where = "init" THEN database \cup {n} ELSE database \ {n}
  /\ gauge' = gauge \ {n} /\ running' = running \ {n}
  /\ tickJob' = (tickJob \/ n \in running)
  /\ UNCHANGED <<setup, target, scheduled, ghosts>>

----------------------------------------------------------------------------
(* Jobs *)

\* process of the six processors: one worker takes the job of a tick.
Process(n) ==
  /\ node[n].at \in {"up", "destroying"} /\ IS_WORKER_TIER(nodeRole[n])
  /\ tickJob /\ n \notin running
  /\ tickJob' = FALSE /\ running' = running \cup {n}
  /\ UNCHANGED <<setup, target, node, starts, scheduled, database, gauge, ghosts>>

\* The sweep returns, and the scheduler's next job comes due.
Processed(n) ==
  /\ n \in running /\ running' = running \ {n}
  /\ tickJob' = (tickJob \/ scheduled)
  /\ UNCHANGED <<setup, target, node, starts, scheduled, database, gauge, ghosts>>

----------------------------------------------------------------------------
(* enableShutdownHooks: SIGTERM runs onModuleDestroy, then                  *)
(* onApplicationShutdown, where @nestjs/bullmq closes its workers, which    *)
(* wait for their jobs, and PrismaModule, initialised early, goes last.     *)

Sigterm(n) ==
  /\ At(n, "up") /\ Goes(n, "destroying")
  /\ UNCHANGED <<setup, target, starts, jobs, database, gauge, ghosts>>

ClosesWorkers(n) ==
  /\ At(n, "destroying") /\ Goes(n, "closing")
  /\ UNCHANGED <<setup, target, starts, jobs, database, gauge, ghosts>>

WorkersClosed(n) ==
  /\ At(n, "closing") /\ n \notin running /\ Goes(n, "closed")
  /\ UNCHANGED <<setup, target, starts, jobs, database, gauge, ghosts>>

\* The client is given up when the modules are destroyed.
OnApplicationShutdown_OnDestroy(n) ==
  /\ At(n, "destroying") /\ n \in database
  /\ database' = database \ {n}
  /\ UNCHANGED <<setup, target, node, starts, jobs, gauge, ghosts>>

\* PrismaService.onApplicationShutdown.
OnApplicationShutdown(n) ==
  /\ At(n, "closed") /\ Goes(n, "down")
  /\ database' = database \ {n} /\ gauge' = gauge \ {n}
  /\ UNCHANGED <<setup, target, starts, jobs, ghosts>>

WorkersNext ==
  \/ RollsOut
  \/ \E n \in Nodes :
       \/ Starts(n) \/ Registers(n) \/ BootsWithout(n) \/ Dies(n) \/ Process(n) \/ Processed(n)
       \/ Sigterm(n) \/ ClosesWorkers(n) \/ WorkersClosed(n) \/ OnApplicationShutdown(n)

WorkersSpec == WorkersInit /\ [][WorkersNext]_workerVars

----------------------------------------------------------------------------
(* Properties *)

\* What the release wants of a worker.
Wants(env) ==
  CASE sweep \in {"watchdog", "partition", "outbox"} -> Unless(env.kill)
    [] sweep \in {"checkpoint", "orphan"} -> OnlyIf(env.optIn) /\ Unless(env.kill)
    [] sweep = "recurring" -> TRUE

\* Once the processes that run are all of the release asked for, and a worker
\* of it has reached Redis since the last of the old release did, the sweep is
\* scheduled if and only if that release wants it, whichever processes of
\* other tiers restart meanwhile; and a gauge that reads 1 says so
\* (outbox.scheduler.ts: "so the kill-switch actually stops the drain").
SweepFollowsRelease ==
  /\ \A n \in Nodes : At(n, "down") \/ (At(n, "up") /\ node[n].release = target)
  /\ target \in reached /\ ~overtaken
  => /\ scheduled = Wants(releases[target])
     /\ gauge # {} => scheduled

\* A job that is still draining when its worker is told to stop keeps its
\* database to the end (prisma.service.ts onApplicationShutdown: disconnecting
\* earlier "pulled the database out from under every job still draining").
JobsKeepTheirDatabase == running \subseteq database
=============================================================================
