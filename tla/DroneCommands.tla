---------------------------- MODULE DroneCommands ----------------------------
(***************************************************************************)
(* The backend-to-drone command channel of one LIVE delivery: an operator  *)
(* or the flight recorder issues a command, the assigned drone polls and   *)
(* answers it, the answer drives the delivery, and the watchdog expires    *)
(* what nobody answered and re-drives what a dead process left half done.  *)
(*                                                                         *)
(* A handler runs one database round trip per step.  A call for another    *)
(* drone's command changes nothing and is left out: the rows here belong   *)
(* to the drone the delivery is bound to, which never changes.             *)
(***************************************************************************)
EXTENDS Statuses, FiniteSetsExt

CONSTANTS
    CommandBound,              \* rows a behaviour may insert
    MAX_COMMANDS_PER_DELIVERY, \* cap on a delivery's rows
    FlightStatuses,            \* where the other handlers take the delivery
    Acks                       \* answers that may be handled at once

ASSUME CommandsAssumption ==
    /\ CommandBound \in Nat
    /\ MAX_COMMANDS_PER_DELIVERY \in Nat
    /\ FlightStatuses \subseteq DeliveryStatus

VARIABLES
    flight,     \* Delivery.status
    command,    \* drone_commands, by row
    issuing,    \* the issue() call in progress
    polling,    \* the fetchPending() call in progress
    acking,     \* ack() calls in progress
    reconciling,\* the watchdog's reconcileStrandedAcks
    moves       \* ghost: how often a row's transition took the delivery

commandVars == <<flight, command, issuing, polling, acking, reconciling, moves>>

\* The rows, in creation order.
CommandRows == 1..CommandBound

CommandType == {"RETURN_TO_BASE", "ABORT"}
CommandStatus == {"absent", "PENDING", "FETCHED", "ACKED", "REJECTED", "EXPIRED"}
COMMAND_OPEN_STATUSES == {"PENDING", "FETCHED"}

COMMAND_TYPE_TO_LEGAL_STATUSES ==
    [RETURN_TO_BASE |-> RETURNABLE_STATUSES, ABORT |-> FAILABLE_STATUSES]

\* aged: expiresAt of an open row, or the reconcile grace of an answered one, has passed.
NoCommand == [status |-> "absent", type |-> "ABORT", aged |-> FALSE, applied |-> FALSE]
NoIssue == [at |-> "idle", type |-> "ABORT"]
NoPoll == [at |-> "idle", row |-> 0]
NoAck == [at |-> "idle", row |-> 0]
NoReconcile == [at |-> "idle", row |-> 0, applied |-> FALSE]

Inserted == {c \in CommandRows : command[c].status # "absent"}
Open(c) == command[c].status \in COMMAND_OPEN_STATUSES

CommandsInit ==
    /\ flight = "DRONE_ASSIGNED"
    /\ command = [c \in CommandRows |-> NoCommand]
    /\ issuing = NoIssue
    /\ polling = NoPoll
    /\ acking = [a \in Acks |-> NoAck]
    /\ reconciling = NoReconcile
    /\ moves = [c \in CommandRows |-> 0]

SetStatus(c, s) == command' = [command EXCEPT ![c].status = s, ![c].aged = FALSE]
MarkApplied(c) == command' = [command EXCEPT ![c].applied = TRUE, ![c].aged = FALSE]

----------------------------------------------------------------------------
(* The delivery.                                                           *)

\* The mapped transition's compare-and-set matches.
CanDrive(c) == flight \in COMMAND_TYPE_TO_LEGAL_STATUSES[command[c].type]

\* beginReturnToBase or failExceptional on behalf of row c, by its compare-and-set.
DriveDelivery(c) ==
    IF CanDrive(c)
    THEN /\ flight' = IF command[c].type = "RETURN_TO_BASE" THEN "RETURNING" ELSE "DELIVERY_FAILED"
         /\ moves' = [moves EXCEPT ![c] = @ + 1]
    ELSE UNCHANGED <<flight, moves>>

\* Telemetry, the recipient, another operator: whoever else moves the delivery.
FlightMoves ==
    /\ flight' \in FlightStatuses
    /\ \/ flight \in StatusesBefore(flight')
       \/ flight \in RETURNABLE_STATUSES /\ flight' = "RETURNING"
       \/ flight = "RETURNING" /\ flight' = "RETURNED_TO_BASE"
       \/ flight \in FAILABLE_STATUSES /\ flight' \in {"DELIVERY_FAILED", "CANCELED"}
    /\ UNCHANGED <<command, issuing, polling, acking, reconciling, moves>>

----------------------------------------------------------------------------
(* DroneCommandService.issue, for an operator or for the flight recorder.  *)

\* The delivery is read and is in the type's legal set.
IssueCheck(type) ==
    /\ issuing.at = "idle"
    /\ flight \in COMMAND_TYPE_TO_LEGAL_STATUSES[type]
    /\ issuing' = [at |-> "count", type |-> type]
    /\ UNCHANGED <<flight, command, polling, acking, reconciling, moves>>

\* The count, against the cap.
IssueCount ==
    /\ issuing.at = "count"
    /\ issuing' = IF Cardinality(Inserted) < MAX_COMMANDS_PER_DELIVERY
                  THEN [issuing EXCEPT !.at = "insert"] ELSE NoIssue
    /\ UNCHANGED <<flight, command, polling, acking, reconciling, moves>>

\* The insert; the partial unique index allows one open row.
IssueInsert ==
    /\ issuing.at = "insert"
    /\ issuing' = NoIssue
    /\ IF \E c \in Inserted : Open(c)
       THEN UNCHANGED command
       ELSE \E c \in CommandRows :
              /\ c = Cardinality(Inserted) + 1
              /\ command' = [command EXCEPT ![c] = [NoCommand EXCEPT !.status = "PENDING",
                                                                    !.type = issuing.type]]
    /\ UNCHANGED <<flight, polling, acking, reconciling, moves>>

----------------------------------------------------------------------------
(* DroneCommandService.fetchPending.                                       *)

\* The poll answers with row c.
HandOut(c) == polling' = [at |-> "reply", row |-> c]

\* The oldest open row whose expiry has not passed; a FETCHED one is handed out again.
PollRead ==
    /\ polling.at = "idle"
    /\ LET due == {c \in CommandRows : Open(c) /\ ~command[c].aged} IN
       /\ due # {}
       /\ IF command[Min(due)].status = "FETCHED"
          THEN HandOut(Min(due))
          ELSE polling' = [at |-> "claim", row |-> Min(due)]
    /\ UNCHANGED <<flight, command, issuing, acking, reconciling, moves>>

\* PENDING -> FETCHED, or the row has moved and is read again.
PollClaim ==
    /\ polling.at = "claim"
    /\ IF command[polling.row].status = "PENDING"
       THEN SetStatus(polling.row, "FETCHED") /\ HandOut(polling.row)
       ELSE polling' = [polling EXCEPT !.at = "reread"] /\ UNCHANGED command
    /\ UNCHANGED <<flight, issuing, acking, reconciling, moves>>

\* Only a row a sibling poll fetched is still handed out.
PollReread ==
    /\ polling.at = "reread"
    /\ IF command[polling.row].status = "FETCHED" THEN HandOut(polling.row)
                                                  ELSE polling' = NoPoll
    /\ UNCHANGED <<flight, command, issuing, acking, reconciling, moves>>

PollEnds ==
    /\ polling.at = "reply" /\ polling' = NoPoll
    /\ UNCHANGED <<flight, command, issuing, acking, reconciling, moves>>

\* A second poll of the same drone, all of it between two steps of the first.
SiblingPoll ==
    /\ polling.at = "claim"
    /\ command[polling.row].status = "PENDING" /\ ~command[polling.row].aged
    /\ SetStatus(polling.row, "FETCHED")
    /\ UNCHANGED <<flight, issuing, polling, acking, reconciling, moves>>

----------------------------------------------------------------------------
(* DroneCommandService.ack, over HTTP or MQTT.                             *)

AckGoto(a, at) == acking' = [acking EXCEPT ![a].at = at]
AckEnds(a) == acking' = [acking EXCEPT ![a] = NoAck]

\* The row is read; one past its expiry is closed instead of claimed.
AckRead(a, c) ==
    /\ acking[a].at = "idle" /\ c \in Inserted
    /\ IF command[c].aged
       THEN Open(c) /\ SetStatus(c, "EXPIRED") /\ UNCHANGED acking
       ELSE acking' = [acking EXCEPT ![a] = [at |-> "claim", row |-> c]] /\ UNCHANGED command
    /\ UNCHANGED <<flight, issuing, polling, reconciling, moves>>

AckClaim_AnyOpen(a) ==
    /\ acking[a].at = "claim"
    /\ LET c == acking[a].row IN
       \/ /\ command[c].status # "REJECTED"
          /\ SetStatus(c, "ACKED") /\ AckGoto(a, "drive")
       \/ SetStatus(c, "REJECTED") /\ AckEnds(a)
    /\ UNCHANGED <<flight, issuing, polling, reconciling, moves>>

\* FETCHED -> ACKED for an acceptance, REJECTED for a refusal; anything else is a conflict.
AckClaim(a) ==
    /\ acking[a].at = "claim"
    /\ LET c == acking[a].row IN
       \/ command[c].status = "FETCHED" /\ SetStatus(c, "ACKED") /\ AckGoto(a, "drive")
       \/ command[c].status = "FETCHED" /\ SetStatus(c, "REJECTED") /\ AckEnds(a)
       \/ command[c].status # "FETCHED" /\ AckEnds(a) /\ UNCHANGED command
    /\ UNCHANGED <<flight, issuing, polling, reconciling, moves>>

\* The mapped transition.
AckDrive(a) ==
    /\ acking[a].at = "drive"
    /\ DriveDelivery(acking[a].row)
    /\ AckGoto(a, IF CanDrive(acking[a].row) THEN "mark" ELSE "supersede")
    /\ UNCHANGED <<command, issuing, polling, reconciling>>

\* appliedTransition for a transition that took, REJECTED for one that did not; the row is
\* written whatever it holds by now.
AckRecord(a) ==
    /\ acking[a].at \in {"mark", "supersede"}
    /\ LET c == acking[a].row IN
       IF acking[a].at = "mark" THEN MarkApplied(c) ELSE SetStatus(c, "REJECTED")
    /\ AckEnds(a)
    /\ UNCHANGED <<flight, issuing, polling, reconciling, moves>>

\* The process dies, or the cleanup behind the transition throws.
AckDies(a) ==
    /\ acking[a].at # "idle" /\ AckEnds(a)
    /\ UNCHANGED <<flight, command, issuing, polling, reconciling, moves>>

----------------------------------------------------------------------------
(* The watchdog, and the clock.                                            *)

\* expireStaleCommands: every open row past its expiry.
ExpireStaleCommands ==
    /\ \E c \in CommandRows : Open(c) /\ command[c].aged
    /\ command' = [c \in CommandRows |-> IF Open(c) /\ command[c].aged
                                         THEN [command[c] EXCEPT !.status = "EXPIRED"]
                                         ELSE command[c]]
    /\ UNCHANGED <<flight, issuing, polling, acking, reconciling, moves>>

Stranded(c) == command[c].status = "ACKED" /\ ~command[c].applied /\ command[c].aged

ReconcileRead(c) ==
    /\ reconciling.at = "idle" /\ Stranded(c)
    /\ reconciling' = [at |-> "drive", row |-> c, applied |-> FALSE]
    /\ UNCHANGED <<flight, command, issuing, polling, acking, moves>>

ReconcileDrive_Again ==
    /\ reconciling.at = "drive"
    /\ flight' = flight /\ moves' = [moves EXCEPT ![reconciling.row] = @ + 1]
    /\ reconciling' = [reconciling EXCEPT !.at = "record", !.applied = TRUE]
    /\ UNCHANGED <<command, issuing, polling, acking>>

\* The mapped transition again.
ReconcileDrive ==
    /\ reconciling.at = "drive"
    /\ DriveDelivery(reconciling.row)
    /\ reconciling' = [reconciling EXCEPT !.at = "record", !.applied = CanDrive(reconciling.row)]
    /\ UNCHANGED <<command, issuing, polling, acking>>

\* Marked applied, or resolved to REJECTED.
ReconcileRecord ==
    /\ reconciling.at = "record"
    /\ LET c == reconciling.row IN
       IF reconciling.applied THEN MarkApplied(c) ELSE SetStatus(c, "REJECTED")
    /\ reconciling' = NoReconcile
    /\ UNCHANGED <<flight, issuing, polling, acking, moves>>

\* A row's expiry passes; the grace of an answered one passes.
CommandAges(c) ==
    /\ Open(c) \/ (command[c].status = "ACKED" /\ ~command[c].applied)
    /\ ~command[c].aged /\ command' = [command EXCEPT ![c].aged = TRUE]
    /\ UNCHANGED <<flight, issuing, polling, acking, reconciling, moves>>

----------------------------------------------------------------------------

AckStep(a) == AckClaim(a) \/ AckDrive(a) \/ AckRecord(a)

CommandsNext ==
    \/ FlightMoves
    \/ \E type \in CommandType : IssueCheck(type)
    \/ IssueCount \/ IssueInsert
    \/ PollRead \/ PollClaim \/ PollReread \/ PollEnds \/ SiblingPoll
    \/ \E a \in Acks : AckStep(a) \/ AckDies(a)
    \/ \E a \in Acks, c \in CommandRows : AckRead(a, c)
    \/ ExpireStaleCommands
    \/ \E c \in CommandRows : ReconcileRead(c) \/ CommandAges(c)
    \/ ReconcileDrive \/ ReconcileRecord

CommandsSpec == CommandsInit /\ [][CommandsNext]_commandVars

\* Time passes, the watchdog keeps scanning, and a handler that is not killed goes on;
\* nobody has to issue, poll or answer.
CommandsFairness ==
    /\ \A c \in CommandRows : WF_commandVars(CommandAges(c)) /\ WF_commandVars(ReconcileRead(c))
    /\ \A a \in Acks : WF_commandVars(AckStep(a))
    /\ WF_commandVars(ExpireStaleCommands)
    /\ WF_commandVars(ReconcileDrive) /\ WF_commandVars(ReconcileRecord)

----------------------------------------------------------------------------
(* Properties.                                                             *)

CommandsTypeOK ==
    /\ flight \in DeliveryStatus
    /\ command \in [CommandRows -> [status : CommandStatus, type : CommandType,
                                    aged : BOOLEAN, applied : BOOLEAN]]
    /\ issuing \in [at : {"idle", "count", "insert"}, type : CommandType]
    /\ polling \in [at : {"idle", "claim", "reread", "reply"}, row : CommandRows \cup {0}]
    /\ acking \in [Acks -> [at : {"idle", "claim", "drive", "mark", "supersede"},
                            row : CommandRows \cup {0}]]
    /\ reconciling \in [at : {"idle", "drive", "record"}, row : CommandRows \cup {0},
                        applied : BOOLEAN]
    /\ moves \in [CommandRows -> Nat]

\* However often a command is polled, answered again and reconciled, it takes the delivery at
\* most once, only after the drone's acceptance claimed it, and never once it expired
\* (drone-command.service.ts ack: the claim; delivery-watchdog.ts: the idempotent re-drive).
CommandActsOnce ==
    \A c \in CommandRows :
        /\ moves[c] <= 1
        /\ moves[c] = 1 => command[c].status \in {"ACKED", "REJECTED"}
        /\ command[c].applied => moves[c] = 1

\* A poll hands the drone only a row that is FETCHED at that moment: one the sweep or an answer
\* took between fetchPending's read and its claim is not handed out.
HandsOutOpenOnly ==
    [][polling'.at = "reply" /\ polling.at # "reply"
        => command'[polling'.row].status = "FETCHED"]_commandVars

\* No command stays open, or accepted and undecided, for ever: it is applied, rejected or
\* expired, whoever died on the way, so the delivery's one slot frees up.
CommandsResolve ==
    \A c \in CommandRows :
        Open(c) \/ (command[c].status = "ACKED" /\ ~command[c].applied)
            ~> ~Open(c) /\ (command[c].status = "ACKED" => command[c].applied)
=============================================================================
