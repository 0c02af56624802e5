--------------------------- MODULE PlatformProofs ---------------------------
(***************************************************************************)
(* Proofs about the services around a delivery: accounts, notifications,   *)
(* the worker tier, the console, the proof photo and the partitions.       *)
(***************************************************************************)
EXTENDS Accounts, Notifications, WorkerTier, Console, DeliveryRecords, Partitions, TLAPS

----------------------------------------------------------------------------
(* Accounts, for any refresh tokens, devices and number of resets.         *)

\* A rotation carries its chain's stamp to the new row, so the revoked rows a rotation may
\* start from have to be current too: only a deleted row may be from before the last reset.
SessionsInv ==
  /\ AccountsTypeOK
  /\ signin \in [Devices -> [op : {"idle", "login", "refresh"}, on : SUBSET Tokens]]
  /\ \A t \in Tokens : token[t] \in {"live", "revoked"} => issuedIn[t] = resets
  /\ \A d \in Devices : \A t \in signin[d].on : token[t] # "unissued"

Calls == [op : {"idle", "login", "refresh"}, on : SUBSET Tokens]

----------------------------------------------------------------------------

LEMMA NoCallType == NoCall \in Calls /\ NoCall.on = {}
BY Zenon DEF NoCall, Calls

\* A step that changes one device's call to one about issued tokens.
LEMMA CallStep ==
  ASSUME SessionsInv, NEW d \in Devices, NEW c \in Calls, signin' = [signin EXCEPT ![d] = c],
         \A t \in c.on : token[t] # "unissued",
         UNCHANGED <<token, issuedIn, resetToken, resetting, resets, verifyToken, verified>>
  PROVE  SessionsInv'
BY DEF SessionsInv, AccountsTypeOK, Calls

\* A step that leaves the sessions alone.
LEMMA OtherStep ==
  ASSUME SessionsInv, UNCHANGED <<token, issuedIn, signin, resets>>,
         resetToken' \in {"none", "unused", "used"}, resetting' \in BOOLEAN,
         verifyToken' \in {"none", "unused", "used"}, verified' \in BOOLEAN
  PROVE  SessionsInv'
BY DEF SessionsInv, AccountsTypeOK

LEMMA SessionsInvInit == AccountsInit => SessionsInv
<1> SUFFICES ASSUME AccountsInit PROVE SessionsInv
  OBVIOUS
<1>1. signin \in [Devices -> Calls] /\ \A d \in Devices : signin[d] = NoCall
  BY NoCallType DEF AccountsInit
<1>2. 0 \in 0..MaxResets
  BY AccountsAssumption DEF AccountsAssumption
<1>3. AccountsTypeOK
  BY Zenon, <1>1, <1>2 DEF AccountsInit, AccountsTypeOK, Calls
<1> QED
  BY <1>1, <1>3, NoCallType DEF AccountsInit, SessionsInv, Calls

LEMMA SigninKeeps ==
  ASSUME SessionsInv, NEW d \in Devices,
         \/ Login(d) \/ GenerateTokens(d) \/ RotateTokens(d) \/ SigninFails(d)
         \/ \E t \in Tokens : RefreshReads(d, t)
  PROVE  SessionsInv'
<1> USE DEF SessionsInv
<1>1. CASE Login(d)
  <2> DEFINE c == [signin[d] EXCEPT !.op = "login"]
  <2>1. c \in Calls /\ c.on = signin[d].on /\ signin' = [signin EXCEPT ![d] = c]
    BY <1>1 DEF Login, Calls
  <2>2. \A t \in c.on : token[t] # "unissued"
    BY <1>1, <2>1, NoCallType DEF Login
  <2> HIDE DEF c
  <2> QED
    BY Zenon, <1>1, <2>1, <2>2, CallStep DEF Login
<1>2. ASSUME NEW t \in Tokens, RefreshReads(d, t) PROVE SessionsInv'
  <2> DEFINE c == [op |-> "refresh", on |-> {t}]
  <2>1. c \in Calls /\ c.on = {t} /\ signin' = [signin EXCEPT ![d] = c]
    BY Zenon, <1>2 DEF RefreshReads, Calls
  <2> HIDE DEF c
  <2> QED
    BY Zenon, <1>2, <2>1, CallStep DEF RefreshReads
<1>3. CASE SigninFails(d)
  BY Zenon, <1>3, NoCallType, CallStep DEF SigninFails
<1>4. CASE GenerateTokens(d)
  <2>1. PICK u \in Unissued : /\ token' = [token EXCEPT ![u] = "live"]
                              /\ issuedIn' = [issuedIn EXCEPT ![u] = resets]
    BY Zenon, <1>4 DEF GenerateTokens
  <2> QED
    BY <1>4, <2>1, NoCallType DEF GenerateTokens, AccountsTypeOK, Unissued, Calls
<1>5. CASE RotateTokens(d)
  <2>1. PICK t \in signin[d].on, u \in Unissued :
          /\ token[t] # "gone"
          /\ token' = [token EXCEPT ![t] = "revoked", ![u] = "live"]
          /\ issuedIn' = [issuedIn EXCEPT ![u] = issuedIn[t]]
    BY Zenon, <1>5 DEF RotateTokens
  <2>2. t \in Tokens /\ u \in Tokens /\ t # u /\ issuedIn[t] = resets
    BY <2>1 DEF AccountsTypeOK, Unissued
  <2>3. /\ token' \in [Tokens -> {"unissued", "live", "revoked", "gone"}]
        /\ issuedIn' \in [Tokens -> 0..MaxResets]
    BY <2>1, <2>2 DEF AccountsTypeOK
  <2>4. signin' \in [Devices -> Calls] /\ \A e \in Devices : signin'[e].on \subseteq signin[e].on
    BY <1>5, NoCallType DEF RotateTokens, Calls
  <2>5. UNCHANGED <<resetToken, resetting, resets, verifyToken, verified>>
    BY <1>5 DEF RotateTokens
  <2>6. /\ token'[u] = "live" /\ issuedIn'[u] = resets /\ token'[t] = "revoked"
        /\ issuedIn'[t] = resets
        /\ \A v \in Tokens : v # u => issuedIn'[v] = issuedIn[v]
        /\ \A v \in Tokens : v # u /\ v # t => token'[v] = token[v]
    BY Zenon, <2>1, <2>2 DEF AccountsTypeOK
  <2>7. AccountsTypeOK'
    BY Zenon, <2>3, <2>4, <2>5 DEF AccountsTypeOK, Calls
  <2>8. \A v \in Tokens : token'[v] \in {"live", "revoked"} => issuedIn'[v] = resets'
    BY Zenon, <2>5, <2>6
  <2>9. \A e \in Devices : \A v \in signin'[e].on : token'[v] # "unissued"
    BY <2>4, <2>6 DEF AccountsTypeOK
  <2> QED
    BY Zenon, <2>4, <2>7, <2>8, <2>9 DEF Calls
<1> QED
  BY Zenon, <1>1, <1>2, <1>3, <1>4, <1>5

LEMMA SessionsInvStep == SessionsInv /\ [AccountsNext]_accountVars => SessionsInv'
<1> SUFFICES ASSUME SessionsInv, [AccountsNext]_accountVars PROVE SessionsInv'
  BY Zenon
<1>1. CASE UNCHANGED accountVars
  BY Zenon, <1>1 DEF accountVars, SessionsInv, AccountsTypeOK
<1>2. ASSUME NEW t \in Tokens, RefreshDetectsReuse(t) \/ Logout(t) PROVE SessionsInv'
  BY Zenon, <1>2 DEF RefreshDetectsReuse, Logout, SessionsInv, AccountsTypeOK
<1>3. CASE ResetPassword
  <2>1. \A t \in Tokens : token'[t] \in {"unissued", "gone"}
    BY Zenon, <1>3 DEF ResetPassword
  <2>2. resets' \in 0..MaxResets
    BY <1>3, AccountsAssumption DEF ResetPassword, SessionsInv, AccountsTypeOK, AccountsAssumption
  <2>3. AccountsTypeOK'
    BY Zenon, <1>3, <2>2 DEF ResetPassword, SessionsInv, AccountsTypeOK
  <2>4. \A t \in Tokens : token[t] # "unissued" => token'[t] # "unissued"
    BY <1>3 DEF ResetPassword
  <2> QED
    BY <1>3, <2>1, <2>3, <2>4 DEF ResetPassword, SessionsInv, AccountsTypeOK
<1>4. CASE \/ ForgotPassword \/ ResetReads \/ VerifyEmail \/ ResendVerification \/ VerificationLapses
  BY <1>4, OtherStep DEF ForgotPassword, ResetReads, VerifyEmail, ResendVerification,
     VerificationLapses, SessionsInv, AccountsTypeOK
<1> QED
  BY Zenon, <1>1, <1>2, <1>3, <1>4, SigninKeeps DEF AccountsNext

----------------------------------------------------------------------------

\* However many logins, rotations, logouts and resets interleave, no token whose chain was
\* begun before the last reset is live.
THEOREM ResetEndsEverySession == AccountsSpec => []ResetEndsSessions
<1>1. SessionsInv => ResetEndsSessions
  BY Zenon DEF SessionsInv, ResetEndsSessions
<1> QED
  BY <1>1, SessionsInvInit, SessionsInvStep, PTL DEF AccountsSpec

----------------------------------------------------------------------------
(* Notifications.                                                          *)

\* A push collects only tokens that were reported dead to it.
DeadWereReported == fanout.dead \subseteq saidDead

\* Only the reap deletes device rows, and only for tokens that the push service reported dead to
\* the running fan-out, in whatever order the rows were read, however many requests the fan-out
\* took and whatever registered meanwhile (notifications.service.ts sendPushToUser,
\* reapDeadDevices).
THEOREM OnlyDeadAreReaped == NotificationsSpec => ReapsOnlyReported
<1> DEFINE FanoutInv == DeadWereReported /\ fanout = [at |-> fanout.at, tokens |-> fanout.tokens, next |-> fanout.next, dead |-> fanout.dead]
<1>1. NotificationsInit => FanoutInv
  BY DEF NotificationsInit, DeadWereReported, Quiet
<1>2. FanoutInv /\ [NotificationsNext]_notificationVars => FanoutInv'
  <2> SUFFICES ASSUME FanoutInv, [NotificationsNext]_notificationVars PROVE FanoutInv'
    OBVIOUS
  <2>1. CASE fanout' = fanout /\ saidDead' = saidDead
    BY <2>1 DEF DeadWereReported
  <2>2. CASE PushReadsDevices
    <3>1. fanout' = Quiet \/ \E tokens : fanout' = [Quiet EXCEPT !.at = "sending", !.tokens = tokens]
      BY Zenon, <2>2 DEF PushReadsDevices
    <3>2. CASE fanout' = Quiet
      BY <3>2 DEF Quiet, DeadWereReported
    <3>3. CASE fanout' # Quiet
      <4>1. PICK tokens : fanout' = [Quiet EXCEPT !.at = "sending", !.tokens = tokens]
        BY Zenon, <3>1, <3>3
      <4>2. fanout' = [at |-> "sending", tokens |-> tokens, next |-> 1, dead |-> {}]
        BY Zenon, <4>1 DEF Quiet
      <4>3. fanout'.dead = {} /\ fanout' = [at |-> fanout'.at, tokens |-> fanout'.tokens, next |-> fanout'.next, dead |-> fanout'.dead]
        BY <4>2
      <4> QED
        BY <4>3 DEF DeadWereReported
    <3> QED
      BY <3>2, <3>3
  <2>3. CASE PushChunk
    <3> DEFINE tickets == [j \in DOMAIN Chunk |-> IF Chunk[j] \in installed THEN "ok" ELSE "DeviceNotRegistered"]
               found == TicketTokens(tickets)
    <3>1. /\ fanout' = [Sent EXCEPT !.dead = @ \cup found]
          /\ saidDead' = saidDead \cup {t \in Range(Chunk) : t \notin installed}
      BY <2>3 DEF PushChunk
    <3>2. found \subseteq {t \in Range(Chunk) : t \notin installed}
      <4> SUFFICES ASSUME NEW t \in found PROVE t \in Range(Chunk) /\ t \notin installed
        BY Zenon
      <4>1. PICK j \in DOMAIN tickets : tickets[j] = "DeviceNotRegistered" /\ t = Chunk[j]
        BY Zenon DEF TicketTokens
      <4>2. j \in DOMAIN Chunk /\ Chunk[j] \notin installed
        BY <4>1
      <4> QED
        BY <4>1, <4>2 DEF Range
    <3> HIDE DEF found
    <3>3. Sent.dead = fanout.dead /\ Sent = [at |-> Sent.at, tokens |-> Sent.tokens, next |-> Sent.next, dead |-> Sent.dead]
      BY DEF Sent
    <3>4. fanout'.dead = fanout.dead \cup found
      BY <3>1, <3>3
    <3>5. (fanout = [at |-> fanout.at, tokens |-> fanout.tokens, next |-> fanout.next, dead |-> fanout.dead])'
      BY Zenon, <3>1, <3>3
    <3> QED
      BY <3>1, <3>2, <3>4, <3>5 DEF DeadWereReported
  <2>4. CASE PushChunkUnanswered
    BY <2>4 DEF PushChunkUnanswered, Sent, DeadWereReported
  <2>5. CASE ReapDeadDevices \/ PushFails
    BY <2>5 DEF ReapDeadDevices, PushFails, Quiet, DeadWereReported
  <2>6. ASSUME NEW h \in QuietBounds, CreateNotification(h) PROVE FanoutInv'
    <3>1. (fanout' = fanout \/ fanout' = [Quiet EXCEPT !.at = "gated"]) /\ saidDead' = saidDead
      BY <2>6 DEF CreateNotification
    <3>2. CASE fanout' = fanout
      BY <2>1, <3>1, <3>2
    <3>3. CASE fanout' = [Quiet EXCEPT !.at = "gated"]
      BY Zenon, <3>3 DEF Quiet, DeadWereReported
    <3> QED
      BY <3>1, <3>2, <3>3
  <2>7. CASE \/ MarkAsRead
             \/ \E t \in PushTokens : RegisterDevice(t) \/ Uninstall(t) \/ Reinstall(t)
             \/ \E s, e \in Mention : UpdatePreferencesReads(s, e)
             \/ \E dto \in prefCalls : UpdatePreferences(dto)
             \/ UNCHANGED notificationVars
    BY <2>1, <2>7 DEF MarkAsRead, RegisterDevice, Uninstall, Reinstall, UpdatePreferencesReads, UpdatePreferences,
       notificationVars
  <2> HIDE DEF FanoutInv
  <2> QED
    BY <2>2, <2>3, <2>4, <2>5, <2>6, <2>7 DEF NotificationsNext
<1>3. FanoutInv /\ [NotificationsNext]_notificationVars
        => [\A t \in PushTokens : t \in devices /\ t \notin devices' => t \in saidDead]_notificationVars
  <2> SUFFICES ASSUME FanoutInv, NotificationsNext, NEW t \in PushTokens, t \in devices, t \notin devices'
               PROVE  t \in saidDead
    OBVIOUS
  <2>1. CASE ReapDeadDevices
    <3>1. devices' = devices \ fanout.dead
      BY <2>1 DEF ReapDeadDevices
    <3> QED
      BY <3>1 DEF DeadWereReported
  <2>2. CASE ~ReapDeadDevices
    <3>1. devices \subseteq devices'
      BY Zenon, <2>2 DEF NotificationsNext, MarkAsRead, RegisterDevice, Uninstall, Reinstall, UpdatePreferencesReads,
         UpdatePreferences, CreateNotification, PushReadsDevices, PushChunk, PushChunkUnanswered, PushFails
    <3> QED
      BY <3>1
  <2> QED
    BY <2>1, <2>2
<1> QED
  BY <1>1, <1>2, <1>3, PTL DEF NotificationsSpec, ReapsOnlyReported

----------------------------------------------------------------------------
(* WorkerTier.                                                             *)

Stages == {"down", "init", "up", "destroying", "closing", "closed"}
NodeStates == [at : Stages, release : 1..2]

\* A process is connected from its start to its end, and works only before its workers close.
WorkInv ==
  /\ target \in 1..2
  /\ node \in [Nodes -> NodeStates]
  /\ running \subseteq Nodes
  /\ database = {n \in Nodes : node[n].at # "down"}
  /\ \A n \in running : node[n].at \in {"up", "destroying", "closing"}

\* What Redis holds is what the last release to reach it wants, and a gauge that reads 1
\* belongs to a process whose release reached Redis and wants the sweep.
RolloutInv ==
  /\ sweep \in Sweeps /\ overtaken \in BOOLEAN
  /\ \A n \in Nodes : node[n].release <= target
  /\ reached \subseteq 1..target
  /\ ~overtaken /\ 2 \in reached => scheduled = Wants(releases[2])
  /\ ~overtaken /\ 2 \notin reached /\ 1 \in reached => scheduled = Wants(releases[1])
  /\ gauge \subseteq Nodes
  /\ \A n \in gauge : /\ node[n].at \notin {"down", "init"}
                      /\ node[n].release \in reached
                      /\ Wants(releases[node[n].release])

LEMMA GoesTo ==
  ASSUME node \in [Nodes -> NodeStates], NEW n \in Nodes, NEW p \in Stages, Goes(n, p)
  PROVE  /\ node' \in [Nodes -> NodeStates]
         /\ \A m \in Nodes : node'[m].release = node[m].release
         /\ node'[n].at = p
         /\ \A m \in Nodes \ {n} : node'[m] = node[m]
BY DEF Goes, NodeStates

LEMMA StagesAre == {"down", "init", "up", "destroying", "closing", "closed"} \subseteq Stages
BY Zenon DEF Stages

\* The one-stage steps of a process that touch neither its jobs nor its database.
LEMMA StageKeepsWork ==
  ASSUME WorkInv, NEW n \in Nodes, NEW p \in Stages, Goes(n, p), node[n].at # "down", p # "down",
         n \in running => p \in {"up", "destroying", "closing"},
         running' = running, database' = database, target' = target
  PROVE  WorkInv'
BY GoesTo DEF WorkInv

LEMMA WorkNextKeeps ==
  ASSUME WorkInv, [WorkersNext]_workerVars
  PROVE  WorkInv'
<1>1. CASE UNCHANGED workerVars
  BY <1>1 DEF workerVars, WorkInv
<1>2. CASE RollsOut
  BY <1>2 DEF RollsOut, WorkInv, jobs
<1>3. ASSUME NEW n \in Nodes, Starts(n) PROVE WorkInv'
  <2>1. [at |-> "init", release |-> target] \in NodeStates
    BY Zenon DEF WorkInv, NodeStates, Stages
  <2>2. /\ node' \in [Nodes -> NodeStates] /\ node'[n].at = "init" /\ node[n].at = "down"
        /\ \A m \in Nodes \ {n} : node'[m] = node[m]
    BY Zenon, <1>3, <2>1 DEF Starts, At, WorkInv
  <2> QED
    BY <1>3, <2>2 DEF Starts, WorkInv, jobs
<1>4. ASSUME NEW n \in Nodes, Registers(n) \/ BootsWithout(n) PROVE WorkInv'
  <2>1. /\ Goes(n, "up") /\ node[n].at = "init" /\ running' = running /\ database' = database /\ target' = target
    BY Zenon, <1>4 DEF Registers, BootsWithout, At, jobs
  <2> QED
    BY <2>1, StagesAre, StageKeepsWork
<1>5. ASSUME NEW n \in Nodes, Dies(n) PROVE WorkInv'
  <2>1. PICK p \in {"init", "down"} : /\ Goes(n, p)
                                      /\ database' = IF p = "init" THEN database \cup {n} ELSE database \ {n}
    BY Zenon, <1>5 DEF Dies
  <2>2. target' = target /\ running' = running \ {n}
    BY Zenon, <1>5 DEF Dies
  <2>3. /\ node' \in [Nodes -> NodeStates] /\ node'[n].at = p
        /\ \A m \in Nodes \ {n} : node'[m] = node[m]
    BY Zenon, <2>1, GoesTo, StagesAre DEF WorkInv
  <2> QED
    BY Zenon, <2>1, <2>2, <2>3 DEF WorkInv
<1>6. ASSUME NEW n \in Nodes, Process(n) \/ Processed(n) PROVE WorkInv'
  BY Zenon, <1>6 DEF Process, Processed, WorkInv
<1>7. ASSUME NEW n \in Nodes, Sigterm(n) \/ ClosesWorkers(n) \/ WorkersClosed(n) PROVE WorkInv'
  <2>1. PICK p \in {"destroying", "closing", "closed"} :
          /\ Goes(n, p) /\ node[n].at # "down" /\ (n \in running => p \in {"up", "destroying", "closing"})
    BY Zenon, <1>7 DEF Sigterm, ClosesWorkers, WorkersClosed, At
  <2>2. running' = running /\ database' = database /\ target' = target
    BY <1>7 DEF Sigterm, ClosesWorkers, WorkersClosed, jobs
  <2> QED
    BY Zenon, <2>1, <2>2, StagesAre, StageKeepsWork
<1>8. ASSUME NEW n \in Nodes, OnApplicationShutdown(n) PROVE WorkInv'
  <2>1. /\ Goes(n, "down") /\ node[n].at = "closed" /\ database' = database \ {n}
        /\ running' = running /\ target' = target
    BY Zenon, <1>8 DEF OnApplicationShutdown, At, jobs
  <2>2. /\ node' \in [Nodes -> NodeStates] /\ node'[n].at = "down"
        /\ \A m \in Nodes \ {n} : node'[m] = node[m]
    BY <2>1, GoesTo, StagesAre DEF WorkInv
  <2>3. n \notin running
    BY <2>1 DEF WorkInv
  <2> QED
    BY Zenon, <2>1, <2>2, <2>3 DEF WorkInv
<1> QED
  BY Zenon, <1>1, <1>2, <1>3, <1>4, <1>5, <1>6, <1>7, <1>8 DEF WorkersNext

LEMMA WorkInitHolds == WorkersInit => WorkInv
BY DEF WorkersInit, WorkInv, NodeStates, Stages, Down

\* However deployments, crashes, restarts and stops interleave, a job that a worker is still
\* draining has its database (PrismaService.onApplicationShutdown runs after BullMQ closed the
\* workers).
THEOREM DrainKeepsDatabase == WorkersSpec => []JobsKeepTheirDatabase
<1>1. WorkInv => JobsKeepTheirDatabase
  BY DEF WorkInv, JobsKeepTheirDatabase
<1> QED
  BY <1>1, WorkInitHolds, WorkNextKeeps, PTL DEF WorkersSpec

----------------------------------------------------------------------------

\* What onModuleInit of the sweep's scheduler leaves in Redis: on the worker tier exactly
\* what the release wants, elsewhere what it found.
LEMMA RegistersWhatItWants ==
  ASSUME sweep \in Sweeps, NEW n \in Nodes, Registers(n)
  PROVE  /\ IS_WORKER_TIER(nodeRole[n]) => scheduled' = Wants(releases[node[n].release])
         /\ ~IS_WORKER_TIER(nodeRole[n]) => scheduled' = scheduled
         /\ \/ gauge' = gauge
            \/ /\ gauge' = gauge \cup {n} /\ IS_WORKER_TIER(nodeRole[n])
               /\ Wants(releases[node[n].release])
<1> DEFINE env == releases[node[n].release]
<1>1. Provided(nodeRole[n])
  BY Zenon DEF Registers
<1>2. CASE WatchdogScheduler(n, env)
  BY Zenon, <1>1, <1>2 DEF WatchdogScheduler, WATCHDOG_ENABLED, UpsertJobScheduler, RemoveJobScheduler, Gauged, Wants, Provided, Unless
<1>3. CASE PartitionScheduler(n, env)
  BY <1>1, <1>3 DEF PartitionScheduler, PARTITION_MAINTENANCE_ENABLED, UpsertJobScheduler, RemoveJobScheduler, Gauged,
       Wants, Provided, Unless
<1>4. CASE TrackingCheckpointScheduler(n, env)
  BY Zenon, <1>1, <1>4 DEF TrackingCheckpointScheduler, CHECKPOINT_ENABLED, UpsertJobScheduler, RemoveJobScheduler, Wants, Provided
<1>5. CASE OutboxScheduler(n, env)
  BY Zenon, <1>1, <1>5 DEF OutboxScheduler, OUTBOX_DISPATCH_ENABLED, UpsertJobScheduler, RemoveJobScheduler, Gauged, Wants, Provided, Unless
<1>6. CASE OrphanReaperScheduler(n, env)
  BY Zenon, <1>1, <1>6 DEF OrphanReaperScheduler, RUN_ORPHAN_REAPER, UpsertJobScheduler, RemoveJobScheduler, Gauged, Wants, Provided
<1>7. CASE RecurringScheduler(n, env)
  BY <1>1, <1>7 DEF RecurringScheduler, UpsertJobScheduler, Wants
<1> QED
  BY Zenon, <1>2, <1>3, <1>4, <1>5, <1>6, <1>7 DEF Registers

\* The environment of a release does not change.
LEMMA WantsStays ==
  ASSUME sweep' = sweep, releases' = releases, NEW CONSTANT r
  PROVE  Wants(releases[r])' = Wants(releases[r])
BY DEF Wants

LEMMA GaugeStays ==
  ASSUME NEW n, sweep' = sweep, releases' = releases, node'[n].release = node[n].release
  PROVE  Wants(releases[node[n].release])' = Wants(releases[node[n].release])
BY DEF Wants

\* A step that registers nothing and takes gauges only away.
LEMMA RolloutCarries ==
  ASSUME WorkInv, RolloutInv, sweep' = sweep, releases' = releases, overtaken' = overtaken, reached' = reached,
         scheduled' = scheduled, target' \in {target, 2}, gauge' \subseteq gauge,
         \A n \in Nodes : node'[n].release <= target',
         \A n \in gauge' : node'[n].release = node[n].release /\ node'[n].at \notin {"down", "init"}
  PROVE  RolloutInv'
<1>1. Wants(releases[1])' = Wants(releases[1]) /\ Wants(releases[2])' = Wants(releases[2])
  BY Zenon, WantsStays
<1>2. ASSUME NEW n \in gauge'
      PROVE  /\ node'[n].at \notin {"down", "init"} /\ node'[n].release \in reached'
             /\ Wants(releases[node[n].release])'
  <2>1. n \in gauge /\ node'[n].release = node[n].release
    BY Zenon
  <2>2. Wants(releases[node[n].release]) /\ node[n].release \in reached
    BY Zenon, <2>1 DEF RolloutInv
  <2>3. Wants(releases[node[n].release])' = Wants(releases[node[n].release])
    BY Zenon, <2>1, GaugeStays
  <2> QED
    BY Zenon, <2>1, <2>2, <2>3
<1>3. reached' \subseteq 1..target' /\ gauge' \subseteq Nodes
  BY DEF WorkInv, RolloutInv
<1> QED
  BY Zenon, <1>1, <1>2, <1>3 DEF RolloutInv

LEMMA OneOrTwo == \A i \in 1..2 : i = 1 \/ i = 2
OBVIOUS

LEMMA RegistersKeepsRollout ==
  ASSUME WorkInv, RolloutInv, NEW n \in Nodes, Registers(n)
  PROVE  RolloutInv'
<1> DEFINE r == node[n].release
           worker == IS_WORKER_TIER(nodeRole[n])
<1>1. /\ sweep' = sweep /\ releases' = releases /\ target' = target /\ node[n].at = "init" /\ Goes(n, "up")
      /\ reached' = reached \cup (IF worker THEN {r} ELSE {})
      /\ overtaken' = (overtaken \/ (r = 1 /\ 2 \in reached'))
  BY Zenon DEF Registers, setup, At
<1>10. overtaken' \in BOOLEAN /\ (~overtaken' => ~overtaken /\ ~(r = 1 /\ 2 \in reached'))
  <2>1. CASE overtaken \/ (r = 1 /\ 2 \in reached')
    BY <1>1, <2>1, Zenon
  <2>2. CASE ~(overtaken \/ (r = 1 /\ 2 \in reached'))
    BY <1>1, <2>2, Zenon
  <2> QED
    BY <2>1, <2>2, Zenon
<1>2. /\ sweep \in Sweeps
      /\ worker => scheduled' = Wants(releases[r])
      /\ ~worker => scheduled' = scheduled
      /\ \/ gauge' = gauge
         \/ gauge' = gauge \cup {n} /\ worker /\ Wants(releases[r])
  BY Zenon, RegistersWhatItWants DEF RolloutInv
<1>3. /\ \A m \in Nodes : node'[m].release = node[m].release
      /\ node'[n].at = "up" /\ \A m \in Nodes \ {n} : node'[m] = node[m]
  BY Zenon, <1>1, GoesTo, StagesAre DEF WorkInv
<1>4. r \in 1..2 /\ target \in 1..2 /\ r <= target
  BY DEF WorkInv, RolloutInv, NodeStates
<1>5. Wants(releases[1])' = Wants(releases[1]) /\ Wants(releases[2])' = Wants(releases[2])
  BY Zenon, <1>1, WantsStays
<1>6. ~overtaken' /\ 2 \in reached' => scheduled' = Wants(releases[2])
  <2> SUFFICES ASSUME ~overtaken', 2 \in reached' PROVE scheduled' = Wants(releases[2])
    OBVIOUS
  <2>0. ~overtaken /\ r # 1
    BY Zenon, <1>10
  <2>1. ~overtaken /\ r = 2
    <3>1. r = 2
      BY Zenon, <1>4, <2>0, OneOrTwo
    <3> QED
      BY Zenon, <2>0, <3>1
  <2>2. CASE worker
    BY Zenon, <1>2, <2>1, <2>2
  <2>3. CASE ~worker
    BY Zenon, <1>1, <1>2, <2>1, <2>3 DEF RolloutInv
  <2> QED
    BY Zenon, <2>2, <2>3
<1>7. ~overtaken' /\ 2 \notin reached' /\ 1 \in reached' => scheduled' = Wants(releases[1])
  <2> SUFFICES ASSUME ~overtaken', 2 \notin reached', 1 \in reached' PROVE scheduled' = Wants(releases[1])
    OBVIOUS
  <2>0. ~overtaken /\ (worker => r \in reached')
    BY Zenon, <1>1, <1>10
  <2>1. ~overtaken /\ (worker => r = 1)
    <3>1. r \in reached' => r = 1
      BY Zenon, <1>4, OneOrTwo
    <3> QED
      BY Zenon, <2>0, <3>1
  <2>2. CASE worker
    BY Zenon, <1>2, <2>1, <2>2
  <2>3. CASE ~worker
    BY Zenon, <1>1, <1>2, <2>1, <2>3 DEF RolloutInv
  <2> QED
    BY <2>2, <2>3
<1>8. ASSUME NEW m \in gauge'
      PROVE  /\ node'[m].at \notin {"down", "init"} /\ node'[m].release \in reached'
             /\ Wants(releases[node[m].release])'
  <2>1. m \in Nodes
    BY Zenon, <1>2 DEF RolloutInv
  <2>2. Wants(releases[node[m].release])' = Wants(releases[node[m].release])
    BY Zenon, <1>1, <1>3, <2>1, GaugeStays
  <2>3. CASE m \in gauge
    <3>1. m # n
      BY Zenon, <1>1, <2>3 DEF RolloutInv
    <3> QED
      BY Zenon, <1>1, <1>3, <2>1, <2>2, <2>3, <3>1 DEF RolloutInv
  <2>4. CASE m \notin gauge
    <3>1. m = n /\ worker /\ Wants(releases[r])
      BY Zenon, <1>2, <2>4
    <3> QED
      BY Zenon, <1>1, <1>3, <2>2, <3>1
  <2> QED
    BY <2>3, <2>4
<1>9. reached' \subseteq 1..target' /\ gauge' \subseteq Nodes
  <2>1. reached \subseteq 1..target /\ gauge \subseteq Nodes
    BY Zenon DEF RolloutInv
  <2>2. r \in 1..target
    BY <1>4
  <2>3. reached' \subseteq reached \cup {r} /\ target' = target
    BY Zenon, <1>1
  <2>4. gauge' \subseteq gauge \cup {n}
    BY Zenon, <1>2
  <2> QED
    BY <2>1, <2>2, <2>3, <2>4
<1> QED
  BY Zenon, <1>1, <1>2, <1>3, <1>4, <1>5, <1>6, <1>7, <1>8, <1>9, <1>10 DEF RolloutInv

LEMMA RolloutNextKeeps ==
  ASSUME WorkInv, RolloutInv, [WorkersNext]_workerVars
  PROVE  RolloutInv'
<1>1. /\ target \in 1..2 /\ gauge \subseteq Nodes
      /\ \A n \in Nodes : node[n].release <= target /\ node[n].release \in 1..2
      /\ \A n \in gauge : node[n].at \notin {"down", "init"}
  BY DEF WorkInv, RolloutInv, NodeStates
<1>2. CASE UNCHANGED workerVars
  <2>1. /\ sweep' = sweep /\ releases' = releases /\ overtaken' = overtaken /\ reached' = reached
        /\ scheduled' = scheduled /\ target' = target /\ gauge' = gauge /\ node' = node
    BY Zenon, <1>2 DEF workerVars
  <2> QED
    BY Zenon, <1>1, <2>1, RolloutCarries
<1>3. CASE RollsOut
  <2>1. /\ sweep' = sweep /\ releases' = releases /\ overtaken' = overtaken /\ reached' = reached
        /\ scheduled' = scheduled /\ target' = 2 /\ gauge' = gauge /\ node' = node
    BY Zenon, <1>3 DEF RollsOut, setup, ghosts, jobs
  <2> QED
    BY <1>1, <2>1, RolloutCarries
<1>4. ASSUME NEW n \in Nodes, Starts(n) PROVE RolloutInv'
  <2>1. /\ sweep' = sweep /\ releases' = releases /\ overtaken' = overtaken /\ reached' = reached
        /\ scheduled' = scheduled /\ target' = target /\ gauge' = gauge /\ node[n].at = "down"
        /\ node' = [node EXCEPT ![n] = [at |-> "init", release |-> target]]
    BY Zenon, <1>4 DEF Starts, setup, ghosts, jobs, At
  <2>2. n \notin gauge
    BY Zenon, <1>1, <2>1
  <2>3. node'[n].release = target /\ \A m \in Nodes \ {n} : node'[m] = node[m]
    BY Zenon, <2>1 DEF WorkInv
  <2> QED
    BY <1>1, <2>1, <2>2, <2>3, RolloutCarries
<1>5. ASSUME NEW n \in Nodes, BootsWithout(n) \/ Sigterm(n) \/ ClosesWorkers(n) \/ WorkersClosed(n) PROVE RolloutInv'
  <2>1. /\ sweep' = sweep /\ releases' = releases /\ overtaken' = overtaken /\ reached' = reached
        /\ scheduled' = scheduled /\ target' = target /\ gauge' = gauge
    BY Zenon, <1>5 DEF BootsWithout, Sigterm, ClosesWorkers, WorkersClosed, setup, ghosts, jobs
  <2>2. PICK p \in {"up", "destroying", "closing", "closed"} : Goes(n, p)
    BY Zenon, <1>5 DEF BootsWithout, Sigterm, ClosesWorkers, WorkersClosed
  <2>3. /\ \A m \in Nodes : node'[m].release = node[m].release
        /\ node'[n].at = p /\ \A m \in Nodes \ {n} : node'[m] = node[m]
    BY Zenon, <2>2, GoesTo, StagesAre DEF WorkInv
  <2> QED
    BY Zenon, <1>1, <2>1, <2>3, RolloutCarries
<1>6. ASSUME NEW n \in Nodes, Dies(n) \/ OnApplicationShutdown(n) PROVE RolloutInv'
  <2>1. /\ sweep' = sweep /\ releases' = releases /\ overtaken' = overtaken /\ reached' = reached
        /\ scheduled' = scheduled /\ target' = target /\ gauge' = gauge \ {n}
    BY Zenon, <1>6 DEF Dies, OnApplicationShutdown, setup, ghosts, jobs
  <2>2. PICK p \in {"init", "down"} : Goes(n, p)
    BY Zenon, <1>6 DEF Dies, OnApplicationShutdown
  <2>3. /\ \A m \in Nodes : node'[m].release = node[m].release
        /\ \A m \in Nodes \ {n} : node'[m] = node[m]
    BY Zenon, <2>2, GoesTo, StagesAre DEF WorkInv
  <2> QED
    BY Zenon, <1>1, <2>1, <2>3, RolloutCarries
<1>7. ASSUME NEW n \in Nodes, Process(n) \/ Processed(n) PROVE RolloutInv'
  <2>1. /\ sweep' = sweep /\ releases' = releases /\ overtaken' = overtaken /\ reached' = reached
        /\ scheduled' = scheduled /\ target' = target /\ gauge' = gauge /\ node' = node
    BY <1>7 DEF Process, Processed, setup, ghosts
  <2> QED
    BY Zenon, <1>1, <2>1, RolloutCarries
<1> QED
  BY Zenon, <1>2, <1>3, <1>4, <1>5, <1>6, <1>7, RegistersKeepsRollout DEF WorkersNext

LEMMA RolloutInitHolds == WorkersInit => RolloutInv
<1> SUFFICES ASSUME WorkersInit PROVE RolloutInv
  OBVIOUS
<1>1. sweep \in Sweeps /\ target = 1 /\ reached = {} /\ gauge = {} /\ overtaken = FALSE
  BY Zenon DEF WorkersInit
<1>2. \A n \in Nodes : node[n].release = 1
  BY DEF WorkersInit, Down
<1>3. overtaken \in BOOLEAN
  BY Zenon, <1>1
<1>4. \A n \in Nodes : node[n].release <= target
  <2>1. target = 1 /\ 1 <= 1
    BY <1>1
  <2>2. \A n \in Nodes : node[n].release = target
    BY <1>2, <2>1
  <2>3. target <= target
    BY <2>1
  <2> QED
    BY Zenon, <2>2, <2>3
<1> QED
  BY <1>1, <1>3, <1>4, Zenon DEF RolloutInv

\* A rollout that switches a sweep on or off ends with the sweep as the new release wants it,
\* for every pair of environments, every assignment of roles and every interleaving of starts,
\* crashes, restarts and lost registrations in which the old release does not register last
\* (onModuleInit of the six schedulers).
THEOREM RolloutSettlesSweep == WorkersSpec => []SweepFollowsRelease
<1>1. WorkInv /\ RolloutInv => SweepFollowsRelease
  <2> SUFFICES ASSUME WorkInv, RolloutInv, target \in reached, ~overtaken,
                      \A n \in Nodes : At(n, "down") \/ (At(n, "up") /\ node[n].release = target)
               PROVE  scheduled = Wants(releases[target]) /\ (gauge # {} => scheduled)
    BY Zenon DEF SweepFollowsRelease
  <2>1. scheduled = Wants(releases[target])
    <3>1. CASE target = 2
      BY Zenon, <3>1 DEF RolloutInv
    <3>2. CASE target = 1
      BY <3>2 DEF RolloutInv
    <3> QED
      BY <3>1, <3>2 DEF WorkInv
  <2>2. ASSUME NEW n \in gauge PROVE Wants(releases[target])
    BY DEF RolloutInv, At
  <2> QED
    BY Zenon, <2>1, <2>2
<1> QED
  BY <1>1, WorkInitHolds, WorkNextKeeps, RolloutInitHolds, RolloutNextKeeps, PTL DEF WorkersSpec

----------------------------------------------------------------------------
(* Console, DeliveryRecords and Partitions.                                *)

\* The role and its entry are written by the same transaction, so that replaying the log gives
\* the roles whatever the operators' calls read before it (setRole, recordWithinTx).
THEOREM RolesAreAudited == ConsoleSpec => []AuditExplainsRoles
<1>1. ConsoleInit => role = roleLog
  BY Zenon DEF ConsoleInit
<1>2. role = roleLog /\ [ConsoleNext]_consoleVars => (role = roleLog)'
  <2> SUFFICES ASSUME role = roleLog, [ConsoleNext]_consoleVars PROVE role' = roleLog'
    OBVIOUS
  <2>1. CASE UNCHANGED roleVars
    BY Zenon, <2>1 DEF roleVars
  <2>2. ASSUME NEW s \in Staff, SetRole(s) PROVE role' = roleLog'
    BY Zenon, <2>2 DEF SetRole
  <2>3. CASE UNCHANGED consoleVars
    BY Zenon, <2>3 DEF consoleVars
  <2>4. CASE ConsoleNext
    <3>1. ASSUME NEW s \in Staff,
                 \/ \E u \in Users, to \in Roles : SetRoleReads(s, u, to)
                 \/ \E to \in Switch : UpdatePromoReads(s, to)
                 \/ \E to \in Inbox : SetTicketStatusReads(s, to)
                 \/ ReplyReads(s)
          PROVE  UNCHANGED roleVars
      BY <3>1, Zenon DEF SetRoleReads, UpdatePromoReads, SetTicketStatusReads, ReplyReads, Begin
    <3>2. ASSUME NEW s \in Staff,
                 CallFails(s) \/ CreatePromo(s) \/ UpdatePromo(s) \/ ReplyAsAgent(s) \/ SetTicketStatus(s)
          PROVE  UNCHANGED roleVars
      BY <3>2, Zenon DEF CallFails, CreatePromo, UpdatePromo, ReplyAsAgent, SetTicketStatus
    <3>3. ASSUME SubmitTicket \/ SendReads \/ CreateUserMessage PROVE UNCHANGED roleVars
      BY <3>3, Zenon DEF SubmitTicket, SendReads, CreateUserMessage
    <3> QED
      BY <2>1, <2>2, <2>4, <3>1, <3>2, <3>3 DEF ConsoleNext
  <2> QED
    BY <2>3, <2>4
<1>3. role = roleLog => AuditExplainsRoles
  BY Zenon DEF AuditExplainsRoles
<1> QED
  BY <1>1, <1>2, <1>3, PTL DEF ConsoleSpec

----------------------------------------------------------------------------
(* DeliveryRecords                                                         *)

\* A proof, or a handler that is about to write one, means a delivered package.
ProofInv == proof # "none" \/ submitting = TRUE \/ autoProof = "missing" => handoff = "DELIVERED"
RecordTypes == submitting \in BOOLEAN

LEMMA RecordsStep ==
  ASSUME ProofInv, RecordTypes, RecordsNext
  PROVE  /\ ProofInv' /\ RecordTypes'
         /\ proof = "submitted" => proof' = "submitted"
<1>1. CASE UNCHANGED proofVars
  BY Zenon, <1>1 DEF proofVars, ProofInv, RecordTypes
<1>2. CASE \E status \in {"DELIVERED", "CANCELED"} : HandoffSettles(status)
  BY Zenon, <1>2 DEF HandoffSettles, ProofInv, RecordTypes
<1>3. CASE AutoProofReads \/ AutoProofFails
  BY Zenon, <1>3 DEF AutoProofReads, AutoProofFails, ProofInv, RecordTypes
<1>4. CASE AutoProofCreates
  BY Zenon, <1>4 DEF AutoProofCreates, ProofInv, RecordTypes
<1>5. CASE SubmitProofReads \/ SubmitProof
  BY Zenon, <1>5 DEF SubmitProofReads, SubmitProof, ProofInv, RecordTypes
<1>6. CASE \E stars \in {1, 5} : Rate(stars)
  BY <1>6 DEF Rate, ProofInv, RecordTypes
<1>7. CASE (\E s \in WorkflowSteps : CompleteStep(s)) \/ GenerateQrPayload \/ ValidateQrPayload \/ MinutePasses
  BY <1>1, <1>7, Zenon DEF CompleteStep, GenerateQrPayload, ValidateQrPayload, MinutePasses
<1>8. CASE GetProfileMisses \/ GetProfileFills \/ UpdateProfile \/ InvalidateProfile \/ ProfileCacheLapses
  BY <1>1, <1>8, Zenon DEF GetProfileMisses, GetProfileFills, UpdateProfile, InvalidateProfile, ProfileCacheLapses
<1> QED
  BY Zenon, <1>2, <1>3, <1>4, <1>5, <1>6, <1>7, <1>8 DEF RecordsNext

\* The placeholder of the handoff never takes the place of a photo, although both handlers read
\* before they write, and neither is recorded for a package that was not delivered
\* (createAutoProof, submitProof).
THEOREM PhotoIsKept == RecordsSpec => ProofNeverDowngraded
<1>1. RecordsInit => ProofInv /\ RecordTypes
  BY Zenon DEF RecordsInit, ProofInv, RecordTypes
<1>2. ProofInv /\ RecordTypes /\ [RecordsNext]_recordVars => ProofInv' /\ RecordTypes'
  BY Zenon, RecordsStep DEF recordVars, ProofInv, RecordTypes
<1>3. ProofInv /\ RecordTypes /\ [RecordsNext]_recordVars
        => [/\ proof = "submitted" => proof' = "submitted"
            /\ proof' # "none" => handoff' = "DELIVERED"]_recordVars
  BY Zenon, RecordsStep DEF ProofInv
<1> QED
  BY <1>1, <1>2, <1>3, PTL DEF RecordsSpec, ProofNeverDowngraded

----------------------------------------------------------------------------
(* Partitions                                                              *)

Routines == {"none", "partition_drain_default", "partition_ensure", "partition_drop_old"}

\* A tick drops old partitions only of a table that has a retention.
MaintenanceInv ==
  /\ inLeaf \in [Tables -> SUBSET Int] /\ inDefault \in [Tables -> SUBSET Int] /\ leaves \in [Tables -> SUBSET Int]
  /\ month \in Int
  /\ maintaining \in [on : 0..3, fn : Routines]
  /\ maintaining.fn # "none" => maintaining.on > 0
  /\ maintaining.fn = "partition_drop_old" => RetentionFor(Entry) > 0

LEMMA TablesAre ==
  /\ Len(PARTITIONED_TABLES) = 3
  /\ PARTITIONED_TABLES[1] = [table |-> "flight_frames", retainMonths |-> -1]
  /\ PARTITIONED_TABLES[2] = [table |-> "admin_audit_logs", retainMonths |-> 0]
  /\ PARTITIONED_TABLES[3] = [table |-> "deliveries", retainMonths |-> -1]
  /\ Tables = {"flight_frames", "admin_audit_logs", "deliveries"}
<1>1. /\ Len(PARTITIONED_TABLES) = 3
      /\ PARTITIONED_TABLES[1] = [table |-> "flight_frames", retainMonths |-> -1]
      /\ PARTITIONED_TABLES[2] = [table |-> "admin_audit_logs", retainMonths |-> 0]
      /\ PARTITIONED_TABLES[3] = [table |-> "deliveries", retainMonths |-> -1]
  BY Zenon DEF PARTITIONED_TABLES, Unset
<1>2. DOMAIN PARTITIONED_TABLES = 1..3
  BY DEF PARTITIONED_TABLES
<1>3. Tables = {PARTITIONED_TABLES[i].table : i \in 1..3}
  BY <1>2 DEF Tables
<1>4. 1..3 = {1, 2, 3}
  OBVIOUS
<1>5. Tables = {PARTITIONED_TABLES[1].table, PARTITIONED_TABLES[2].table, PARTITIONED_TABLES[3].table}
  BY Zenon, <1>3, <1>4
<1> QED
  BY <1>1, <1>5

\* The entry a tick works on.
LEMMA EntryIs ==
  ASSUME MaintenanceInv, maintaining.on > 0
  PROVE  /\ Entry.table \in Tables
         /\ RetentionFor(Entry) > 0 => /\ Entry.table # "admin_audit_logs" /\ PARTITION_RETAIN_MONTHS > 0
                                      /\ RetentionFor(Entry) = PARTITION_RETAIN_MONTHS
<1>1. maintaining.on \in {1, 2, 3}
  BY DEF MaintenanceInv
<1>2. CASE maintaining.on = 1
  BY <1>2, TablesAre DEF Entry, RetentionFor, Unset
<1>3. CASE maintaining.on = 2
  BY <1>3, TablesAre DEF Entry, RetentionFor, Unset
<1>4. CASE maintaining.on = 3
  BY <1>4, TablesAre DEF Entry, RetentionFor, Unset
<1> QED
  BY Zenon, <1>1, <1>2, <1>3, <1>4

LEMMA NextTableIs ==
  ASSUME MaintenanceInv, maintaining' = NextTable
  PROVE  /\ maintaining' \in [on : 0..3, fn : Routines]
         /\ maintaining'.fn # "none" => maintaining'.on > 0
         /\ maintaining'.fn # "partition_drop_old"
<1>1. maintaining.on \in 0..3
  BY Zenon DEF MaintenanceInv
<1>2. CASE maintaining.on = 3
  BY <1>2, TablesAre DEF NextTable, NoTick, Routines
<1>3. CASE maintaining.on # 3
  <2>1. maintaining' = [on |-> maintaining.on + 1, fn |-> "partition_drain_default"]
    BY <1>3, TablesAre DEF NextTable
  <2>2. maintaining.on + 1 \in 0..3 /\ maintaining.on + 1 > 0
    BY <1>1, <1>3
  <2> QED
    BY <2>1, <2>2 DEF Routines
<1> QED
  BY Zenon, <1>2, <1>3

\* Attaching partitions moves rows and deletes none.
LEMMA AttachKeepsRows ==
  ASSUME MaintenanceInv, NEW t \in Tables, NEW months \in SUBSET Int, AttachMonths(t, months)
  PROVE  /\ inLeaf' \in [Tables -> SUBSET Int] /\ inDefault' \in [Tables -> SUBSET Int] /\ leaves' \in [Tables -> SUBSET Int]
         /\ \A u \in Tables : Rows(u) \subseteq inLeaf'[u] \cup inDefault'[u]
<1>1. inLeaf' \in [Tables -> SUBSET Int] /\ inDefault' \in [Tables -> SUBSET Int] /\ leaves' \in [Tables -> SUBSET Int]
  BY Zenon DEF AttachMonths, MaintenanceInv
<1>2. ASSUME NEW u \in Tables PROVE Rows(u) \subseteq inLeaf'[u] \cup inDefault'[u]
  BY Zenon DEF AttachMonths, MaintenanceInv, Rows
<1> QED
  BY Zenon, <1>1, <1>2

Gone(t, m) == t # "admin_audit_logs" /\ PARTITION_RETAIN_MONTHS > 0 /\ m < month - PARTITION_RETAIN_MONTHS

LEMMA PartitionsStep ==
  ASSUME MaintenanceInv, PartitionsNext
  PROVE  MaintenanceInv' /\ \A t \in Tables : \A m \in Rows(t) \ (inLeaf'[t] \cup inDefault'[t]) : Gone(t, m)
<1> USE PartitionsAssumption DEF PartitionsAssumption
<1>1. ASSUME NEW t \in Tables, NEW m \in 0..month, Insert(t, m)
      PROVE  MaintenanceInv' /\ \A u \in Tables : Rows(u) \subseteq inLeaf'[u] \cup inDefault'[u]
  <2>1. m \in Int
    BY DEF MaintenanceInv
  <2>2. /\ leaves' = leaves /\ month' = month /\ maintaining' = maintaining
        /\ inLeaf' \in {inLeaf, [inLeaf EXCEPT ![t] = @ \cup {m}]}
        /\ inDefault' \in {inDefault, [inDefault EXCEPT ![t] = @ \cup {m}]}
    BY Zenon, <1>1 DEF Insert
  <2>3. inLeaf' \in [Tables -> SUBSET Int] /\ inDefault' \in [Tables -> SUBSET Int]
    BY <2>1, <2>2 DEF MaintenanceInv
  <2>4. ASSUME NEW u \in Tables PROVE Rows(u) \subseteq inLeaf'[u] \cup inDefault'[u]
    BY <2>2 DEF MaintenanceInv, Rows
  <2>5. Entry' = Entry
    BY <2>2 DEF Entry
  <2>6. RetentionFor(Entry)' = RetentionFor(Entry)
    BY Zenon, <2>5 DEF RetentionFor
  <2> QED
    BY Zenon, <2>2, <2>3, <2>4, <2>6 DEF MaintenanceInv
<1>2. CASE MonthPasses
  <2>1. Entry' = Entry
    BY <1>2 DEF Entry, MonthPasses
  <2>2. RetentionFor(Entry)' = RetentionFor(Entry)
    BY Zenon, <2>1 DEF RetentionFor
  <2>3. MaintenanceInv'
    BY <1>2, <2>2 DEF MonthPasses, MaintenanceInv
  <2> QED
    BY Zenon, <1>2, <2>3 DEF MonthPasses, Rows
<1>3. CASE TickStarts
  <2>1. MaintenanceInv'
    BY <1>3 DEF TickStarts, MaintenanceInv, Routines
  <2> QED
    BY Zenon, <1>3, <2>1 DEF TickStarts, Rows
<1>4. CASE PartitionDrainDefault
  <2>1. Entry.table \in Tables /\ inDefault[Entry.table] \in SUBSET Int
    BY <1>4, EntryIs DEF PartitionDrainDefault, MaintenanceInv
  <2>2. AttachMonths(Entry.table, inDefault[Entry.table])
    BY <1>4 DEF PartitionDrainDefault
  <2>3. maintaining' = [maintaining EXCEPT !.fn = "partition_ensure"] /\ month' = month /\ maintaining.fn = "partition_drain_default"
    BY <1>4 DEF PartitionDrainDefault
  <2>4. /\ maintaining' \in [on : 0..3, fn : Routines] /\ maintaining'.on > 0
        /\ maintaining'.fn = "partition_ensure"
    BY <2>3 DEF MaintenanceInv, Routines
  <2>5. MaintenanceInv'
    BY Zenon, <2>1, <2>2, <2>3, <2>4, AttachKeepsRows DEF MaintenanceInv
  <2> QED
    BY Zenon, <2>1, <2>2, <2>5, AttachKeepsRows
<1>5. CASE PartitionEnsure
  <2>1. Entry.table \in Tables /\ month..month + PARTITION_MONTHS_AHEAD \in SUBSET Int
    BY <1>5, EntryIs DEF PartitionEnsure, MaintenanceInv
  <2>2. AttachMonths(Entry.table, month..month + PARTITION_MONTHS_AHEAD)
    BY <1>5 DEF PartitionEnsure
  <2>3. month' = month
    BY Zenon, <1>5 DEF PartitionEnsure
  <2>4. /\ maintaining' \in [on : 0..3, fn : Routines]
        /\ maintaining'.fn # "none" => maintaining'.on > 0
        /\ maintaining'.fn = "partition_drop_old" => RetentionFor(Entry)' > 0
    <3>1. CASE RetentionFor(Entry) > 0
      <4>1. maintaining' = [maintaining EXCEPT !.fn = "partition_drop_old"] /\ maintaining.fn = "partition_ensure"
        BY <1>5, <3>1 DEF PartitionEnsure
      <4>2. /\ maintaining' \in [on : 0..3, fn : Routines] /\ maintaining'.on = maintaining.on /\ maintaining.on > 0
        BY <4>1 DEF MaintenanceInv, Routines
      <4>3. Entry' = Entry
        BY Zenon, <4>2 DEF Entry
      <4>4. RetentionFor(Entry)' = RetentionFor(Entry)
        BY <4>3 DEF RetentionFor
      <4> QED
        BY <3>1, <4>2, <4>4
    <3>2. CASE ~(RetentionFor(Entry) > 0)
      <4>1. maintaining' = NextTable
        BY Zenon, <1>5, <3>2 DEF PartitionEnsure
      <4> QED
        BY <4>1, NextTableIs
    <3> QED
      BY Zenon, <3>1, <3>2
  <2>5. MaintenanceInv'
    BY <2>1, <2>2, <2>3, <2>4, AttachKeepsRows DEF MaintenanceInv
  <2> QED
    BY <2>1, <2>2, <2>5, AttachKeepsRows
<1>6. CASE PartitionDropOld
  <2> DEFINE t == Entry.table
             old == {m \in leaves[t] : m < month - RetentionFor(Entry)}
             emptied == IF t = "deliveries" THEN {t, "flight_frames"} ELSE {t}
  <2>1. /\ leaves' = [leaves EXCEPT ![t] = @ \ old]
        /\ inLeaf' = [u \in Tables |-> IF u \in emptied THEN inLeaf[u] \ old ELSE inLeaf[u]]
        /\ inDefault' = [u \in Tables |-> IF u \in emptied \ {t} THEN inDefault[u] \ old ELSE inDefault[u]]
        /\ maintaining' = NextTable /\ month' = month
    BY Zenon, <1>6 DEF PartitionDropOld
  <2>2. maintaining.fn = "partition_drop_old"
    BY Zenon, <1>6 DEF PartitionDropOld
  <2>3. /\ t \in Tables /\ t # "admin_audit_logs" /\ PARTITION_RETAIN_MONTHS > 0
        /\ RetentionFor(Entry) = PARTITION_RETAIN_MONTHS
    BY <2>2, EntryIs DEF MaintenanceInv
  <2>4. "admin_audit_logs" \notin emptied
    BY Zenon, <2>3
  <2>5. \A m \in old : m < month - PARTITION_RETAIN_MONTHS
    BY Zenon, <2>3
  <2> HIDE DEF t, old, emptied
  <2>6. leaves' \in [Tables -> SUBSET Int]
    BY Zenon, <2>1 DEF MaintenanceInv
  <2>7. inLeaf' \in [Tables -> SUBSET Int] /\ inDefault' \in [Tables -> SUBSET Int]
    BY Zenon, <2>1 DEF MaintenanceInv
  <2>8. MaintenanceInv'
    BY <2>1, <2>6, <2>7, NextTableIs DEF MaintenanceInv
  <2>9. ASSUME NEW u \in Tables, NEW m \in Rows(u) \ (inLeaf'[u] \cup inDefault'[u]) PROVE Gone(u, m)
    <3>1. u \in emptied /\ m \in old
      BY <2>1 DEF Rows
    <3> QED
      BY Zenon, <2>3, <2>4, <2>5, <3>1 DEF Gone
  <2> QED
    BY Zenon, <2>8, <2>9
<1>7. CASE RoutineFails
  <2>1. MaintenanceInv'
    BY <1>7, NextTableIs DEF RoutineFails, MaintenanceInv
  <2> QED
    BY Zenon, <1>7, <2>1 DEF RoutineFails, Rows
<1> QED
  BY Zenon, <1>1, <1>2, <1>3, <1>4, <1>5, <1>6, <1>7 DEF PartitionsNext

\* Maintenance loses no row that retention does not cover, however its ticks, their failures,
\* the months and the inserts interleave, for every window and every retention
\* (partition_attach_month, partition_drop_old, retentionFor).
THEOREM MaintenanceKeepsRows == PartitionsSpec => OnlyRetentionDeletes
<1>1. PartitionsInit => MaintenanceInv
  BY PartitionsAssumption DEF PartitionsInit, MaintenanceInv, NoTick, Routines, PartitionsAssumption
<1>2. MaintenanceInv /\ [PartitionsNext]_partitionVars => MaintenanceInv'
  <2>1. MaintenanceInv /\ UNCHANGED partitionVars => MaintenanceInv'
    BY DEF partitionVars, MaintenanceInv, Entry, RetentionFor
  <2> QED
    BY Zenon, <2>1, PartitionsStep
<1>3. MaintenanceInv /\ [PartitionsNext]_partitionVars
        => [\A t \in Tables : \A m \in Rows(t) \ (inLeaf'[t] \cup inDefault'[t]) :
              t # "admin_audit_logs" /\ PARTITION_RETAIN_MONTHS > 0 /\ m < month - PARTITION_RETAIN_MONTHS]_partitionVars
  BY Zenon, PartitionsStep DEF Gone
<1> QED
  BY <1>1, <1>2, <1>3, PTL DEF PartitionsSpec, OnlyRetentionDeletes

=============================================================================
