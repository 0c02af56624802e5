----------------------------- MODULE Partitions -----------------------------
(***************************************************************************)
(* Monthly partitions (src/partition-maintenance and the routines of       *)
(* prisma/migrations): each tick drains the DEFAULT partition, ensures the *)
(* forward window of monthly children and drops the children past          *)
(* retention, table by table, while requests keep inserting and months go  *)
(* by with or without a tick.                                              *)
(*                                                                         *)
(* Each routine is one statement and so one transaction; DEFAULT is locked *)
(* while its rows move to a new child.  The rows of one month of one table *)
(* are one bit: there are some.  Three tables stand for the kinds in       *)
(* PARTITIONED_TABLES: a child partitioned by deliveryCreatedAt, the audit *)
(* log, whose retention is pinned off, and deliveries, which the child     *)
(* references with ON DELETE CASCADE.                                      *)
(***************************************************************************)
EXTENDS Integers, Sequences

CONSTANTS
  PARTITION_MONTHS_AHEAD,
  PARTITION_RETAIN_MONTHS,   \* the global retention, 0 for none
  LastMonth,                 \* bound
  MaxMaintenanceFailures     \* bound

ASSUME PartitionsAssumption ==
  PARTITION_MONTHS_AHEAD \in Nat /\ PARTITION_RETAIN_MONTHS \in Nat /\ LastMonth \in Nat

Unset == -1
PARTITIONED_TABLES == <<[table |-> "flight_frames", retainMonths |-> Unset],
                        [table |-> "admin_audit_logs", retainMonths |-> 0],
                        [table |-> "deliveries", retainMonths |-> Unset]>>
Tables == {PARTITIONED_TABLES[i].table : i \in DOMAIN PARTITIONED_TABLES}
Months == 0..LastMonth + PARTITION_MONTHS_AHEAD

VARIABLES
  month,        \* the current month
  leaves,       \* per table: months with a child partition
  inLeaf,       \* per table: months with rows in their child
  inDefault,    \* per table: months with rows in DEFAULT
  maintaining,  \* the running tick: table and routine
  failures

partitionVars == <<month, leaves, inLeaf, inDefault, maintaining, failures>>

NoTick == [on |-> 0, fn |-> "none"]
Rows(t) == inLeaf[t] \cup inDefault[t]

PartitionsTypeOK ==
  /\ month \in 0..LastMonth
  /\ \A t \in Tables : leaves[t] \subseteq Months /\ inLeaf[t] \subseteq leaves[t] /\ inDefault[t] \subseteq Months
  /\ maintaining.on \in 0..Len(PARTITIONED_TABLES)
  /\ maintaining.fn \in {"none", "partition_drain_default", "partition_ensure", "partition_drop_old"}

\* The migrations leave each table with its forward window.
PartitionsInit ==
  /\ month = 0
  /\ leaves = [t \in Tables |-> 0..PARTITION_MONTHS_AHEAD]
  /\ inLeaf = [t \in Tables |-> {}] /\ inDefault = [t \in Tables |-> {}]
  /\ maintaining = NoTick /\ failures = 0

\* external: Postgres routes a row to the child of its month, or to DEFAULT.
\* A flight frame carries the month of its delivery, whose row it references.
Insert(t, m) ==
  /\ IF t = "flight_frames" THEN m \in Rows("deliveries") ELSE m = month
  /\ IF m \in leaves[t]
     THEN inLeaf' = [inLeaf EXCEPT ![t] = @ \cup {m}] /\ UNCHANGED inDefault
     ELSE inDefault' = [inDefault EXCEPT ![t] = @ \cup {m}] /\ UNCHANGED inLeaf
  /\ UNCHANGED <<month, leaves, maintaining, failures>>

MonthPasses ==
  /\ month < LastMonth
  /\ month' = month + 1
  /\ UNCHANGED <<leaves, inLeaf, inDefault, maintaining, failures>>

----------------------------------------------------------------------------
(* A tick *)

Entry == PARTITIONED_TABLES[maintaining.on]

\* retentionFor: the entry's own setting, an explicit 0 included.
RetentionFor_Falsy(entry) == IF entry.retainMonths > 0 THEN entry.retainMonths ELSE PARTITION_RETAIN_MONTHS
RetentionFor(entry) == IF entry.retainMonths # Unset THEN entry.retainMonths ELSE PARTITION_RETAIN_MONTHS

\* partition_attach_month for each of the months that has no child yet: the
\* rows of DEFAULT that belong to it move.
AttachMonths(t, months) ==
  /\ leaves' = [leaves EXCEPT ![t] = @ \cup months]
  /\ inLeaf' = [inLeaf EXCEPT ![t] = @ \cup ((months \ leaves[t]) \cap inDefault[t])]
  /\ inDefault' = [inDefault EXCEPT ![t] = @ \ (months \ leaves[t])]

NextTable == IF maintaining.on = Len(PARTITIONED_TABLES) THEN NoTick
             ELSE [on |-> maintaining.on + 1, fn |-> "partition_drain_default"]

\* The scheduler runs one tick at a time.
TickStarts ==
  /\ maintaining = NoTick
  /\ maintaining' = [on |-> 1, fn |-> "partition_drain_default"]
  /\ UNCHANGED <<month, leaves, inLeaf, inDefault, failures>>

PartitionDrainDefault ==
  /\ maintaining.fn = "partition_drain_default"
  /\ AttachMonths(Entry.table, inDefault[Entry.table])
  /\ maintaining' = [maintaining EXCEPT !.fn = "partition_ensure"]
  /\ UNCHANGED <<month, failures>>

PartitionEnsure ==
  /\ maintaining.fn = "partition_ensure"
  /\ AttachMonths(Entry.table, month..month + PARTITION_MONTHS_AHEAD)
  /\ maintaining' = IF RetentionFor(Entry) > 0 THEN [maintaining EXCEPT !.fn = "partition_drop_old"] ELSE NextTable
  /\ UNCHANGED <<month, failures>>

\* A referenced table is emptied by DELETE, which cascades, before its child
\* is detached and dropped; any other child is dropped as it is.
PartitionDropOld ==
  /\ maintaining.fn = "partition_drop_old"
  /\ LET t == Entry.table
         old == {m \in leaves[t] : m < month - RetentionFor(Entry)}
         emptied == IF t = "deliveries" THEN {t, "flight_frames"} ELSE {t}
     IN /\ leaves' = [leaves EXCEPT ![t] = @ \ old]
        /\ inLeaf' = [u \in Tables |-> IF u \in emptied THEN inLeaf[u] \ old ELSE inLeaf[u]]
        /\ inDefault' = [u \in Tables |-> IF u \in emptied \ {t} THEN inDefault[u] \ old ELSE inDefault[u]]
  /\ maintaining' = NextTable
  /\ UNCHANGED <<month, failures>>

\* A routine throws: the rest of this table's work is skipped.
RoutineFails ==
  /\ maintaining # NoTick /\ failures < MaxMaintenanceFailures
  /\ maintaining' = NextTable
  /\ failures' = failures + 1
  /\ UNCHANGED <<month, leaves, inLeaf, inDefault>>

PartitionsNext ==
  \/ \E t \in Tables, m \in 0..month : Insert(t, m)
  \/ MonthPasses \/ TickStarts
  \/ PartitionDrainDefault \/ PartitionEnsure \/ PartitionDropOld \/ RoutineFails

PartitionsSpec == PartitionsInit /\ [][PartitionsNext]_partitionVars

----------------------------------------------------------------------------
(* Properties *)

\* Only retention deletes: whatever the order of ticks, failures, months and
\* inserts, the rows of a month leave a table only when the month is past the
\* global retention, and the audit log keeps everything (PARTITIONED_TABLES
\* pins its retention off).
OnlyRetentionDeletes ==
  [][\A t \in Tables : \A m \in Rows(t) \ (inLeaf'[t] \cup inDefault'[t]) :
       t # "admin_audit_logs" /\ PARTITION_RETAIN_MONTHS > 0 /\ m < month - PARTITION_RETAIN_MONTHS]_partitionVars
=============================================================================
