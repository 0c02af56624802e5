------------------------------ MODULE Console ------------------------------
(***************************************************************************)
(* The operator console (src/admin/admin.service.ts) and its audit log     *)
(* (src/admin/audit): roles, promo codes and the support inbox, with the   *)
(* customer's side of a ticket (src/support).                              *)
(*                                                                         *)
(* Every privileged call reads what it needs, then writes the row and its  *)
(* audit entry in one transaction; calls of several operators interleave   *)
(* between the read and the transaction.  Audit entries are kept as what a *)
(* reader would reconstruct from them: the last recorded value per field.  *)
(***************************************************************************)
EXTENDS Naturals, FiniteSets

CONSTANTS
  Users,           \* accounts whose role is managed
  FirstAdmins,     \* the ones that start as ADMIN
  Staff,           \* console calls in flight, one per member of staff
  MaxWrites        \* bound: committed console writes

ASSUME ConsoleAssumption == FirstAdmins \subseteq Users /\ MaxWrites \in Nat

VARIABLES
  role,        \* per user
  roleLog,     \* per user: the role the audit log ends with
  promo,       \* the promo row: [exists, active]
  promoLog,    \* what the audit log says of its switch
  inbox,       \* the ticket: "none", "OPEN", "IN_PROGRESS", "RESOLVED", "CLOSED"
  inboxLog,    \* the status the audit log ends with
  messages,    \* messages of the ticket's thread
  replies,     \* SUPPORT_TICKET_REPLY entries
  agentLines,  \* AGENT messages of the thread
  call,        \* per member of staff: its call
  sendPending, \* a customer's message has passed its status check
  writes

consoleVars == <<role, roleLog, promo, promoLog, inbox, inboxLog, messages, replies,
                 agentLines, call, sendPending, writes>>
roleVars == <<role, roleLog>>
promoVars == <<promo, promoLog>>
inboxVars == <<inbox, inboxLog, messages, replies, agentLines, sendPending>>

Roles == {"USER", "AGENT", "ADMIN"}
Inbox == {"OPEN", "IN_PROGRESS", "RESOLVED", "CLOSED"}
Resting == [op |-> "idle", user |-> {}, to |-> "none", saw |-> "none"]
Switch == {"on", "off"}

ConsoleTypeOK ==
  /\ role \in [Users -> Roles] /\ roleLog \in [Users -> Roles]
  /\ promo \in Switch \cup {"none"} /\ promoLog \in Switch \cup {"none"}
  /\ inbox \in Inbox \cup {"none"} /\ inboxLog \in Inbox \cup {"none"}
  /\ messages \in Nat /\ replies \in 0..MaxWrites /\ agentLines \in 0..MaxWrites
  /\ \A s \in Staff : call[s].op \in {"idle", "role", "promo", "reply", "status"}
  /\ sendPending \in BOOLEAN /\ writes \in 0..MaxWrites

ConsoleInit ==
  /\ role = [u \in Users |-> IF u \in FirstAdmins THEN "ADMIN" ELSE "USER"]
  /\ roleLog = role
  /\ promo = "none" /\ promoLog = "none"
  /\ inbox = "none" /\ inboxLog = "none"
  /\ messages = 0 /\ replies = 0 /\ agentLines = 0
  /\ call = [s \in Staff |-> Resting]
  /\ sendPending = FALSE /\ writes = 0

Begin(s, c) ==
  /\ call[s] = Resting /\ writes < MaxWrites
  /\ call' = [call EXCEPT ![s] = c]
  /\ UNCHANGED <<roleVars, promoVars, inboxVars, writes>>

Commit(s, op) ==
  /\ call[s].op = op /\ writes < MaxWrites
  /\ writes' = writes + 1
  /\ call' = [call EXCEPT ![s] = Resting]

\* The transaction rolls back (the audit insert throws, the row is gone, the
\* unique code is taken) or the call is refused after its read.
CallFails(s) ==
  /\ call[s] # Resting
  /\ call' = [call EXCEPT ![s] = Resting]
  /\ UNCHANGED <<roleVars, promoVars, inboxVars, writes>>

----------------------------------------------------------------------------
(* Roles *)

Admins == {u \in Users : role[u] = "ADMIN"}

\* setRole's reads: the target's role and, for a demotion, the number of
\* admins; both outside the transaction.
SetRoleReads(s, u, to) ==
  /\ ~(role[u] = "ADMIN" /\ to # "ADMIN" /\ Cardinality(Admins) <= 1)
  /\ Begin(s, [op |-> "role", user |-> {u}, to |-> to, saw |-> role[u]])

\* An entry that records what changed against the role as it was read, outside
\* the transaction.
SetRole_LogsDiff(s) ==
  /\ Commit(s, "role")
  /\ \E u \in call[s].user :
       /\ role' = [role EXCEPT ![u] = call[s].to]
       /\ roleLog' = [roleLog EXCEPT ![u] = IF call[s].saw = call[s].to THEN @ ELSE call[s].to]
  /\ UNCHANGED <<promoVars, inboxVars>>

\* The write and its entry: `after` is the role of the updated row.
SetRole(s) ==
  /\ Commit(s, "role")
  /\ \E u \in call[s].user :
       /\ role' = [role EXCEPT ![u] = call[s].to]
       /\ roleLog' = [roleLog EXCEPT ![u] = call[s].to]
  /\ UNCHANGED <<promoVars, inboxVars>>

----------------------------------------------------------------------------
(* Promo codes *)

CreatePromo(s) ==
  /\ promo = "none" /\ call[s] = Resting /\ writes < MaxWrites
  /\ promo' = "on" /\ promoLog' = "on" /\ writes' = writes + 1
  /\ UNCHANGED <<roleVars, inboxVars, call>>

UpdatePromoReads(s, to) ==
  promo # "none" /\ Begin(s, [op |-> "promo", user |-> {}, to |-> to, saw |-> promo])

\* diffAllowed records the fields in which the row as read before the
\* transaction and the row after it differ.
DiffAllowed(before, after, logged) == IF before = after THEN logged ELSE after

UpdatePromo(s) ==
  /\ Commit(s, "promo")
  /\ promo' = call[s].to
  /\ promoLog' = DiffAllowed(call[s].saw, promo', promoLog)
  /\ UNCHANGED <<roleVars, inboxVars>>

----------------------------------------------------------------------------
(* The support inbox *)

\* submitTicket: the ticket and its two first messages are one create.
SubmitTicket ==
  /\ inbox = "none" /\ inbox' = "OPEN" /\ messages' = 2
  /\ UNCHANGED <<roleVars, promoVars, inboxLog, replies, agentLines, call, sendPending, writes>>

\* createUserMessage: the status is read outside the transaction.
SendReads ==
  /\ inbox \notin {"none", "CLOSED"} /\ ~sendPending /\ writes < MaxWrites
  /\ sendPending' = TRUE
  /\ UNCHANGED <<roleVars, promoVars, inbox, inboxLog, messages, replies, agentLines, call, writes>>

CreateUserMessage ==
  /\ sendPending /\ sendPending' = FALSE
  /\ messages' = messages + 1
  /\ writes < MaxWrites /\ writes' = writes + 1
  /\ UNCHANGED <<roleVars, promoVars, inbox, inboxLog, replies, agentLines, call>>

\* replyAsAgent: refused on a CLOSED ticket, then message, recency, status
\* and audit entry in one transaction; the status is derived from the read.
ReplyReads(s) ==
  /\ inbox \notin {"none", "CLOSED"}
  /\ Begin(s, [op |-> "reply", user |-> {}, to |-> "none", saw |-> inbox])

ReplyAsAgent(s) ==
  /\ Commit(s, "reply")
  /\ messages' = messages + 1
  /\ agentLines' = agentLines + 1 /\ replies' = replies + 1
  /\ inbox' = IF call[s].saw = "OPEN" THEN "IN_PROGRESS" ELSE call[s].saw
  /\ UNCHANGED <<roleVars, promoVars, inboxLog, sendPending>>

SetTicketStatusReads(s, to) ==
  inbox # "none" /\ Begin(s, [op |-> "status", user |-> {}, to |-> to, saw |-> inbox])

SetTicketStatus(s) ==
  /\ Commit(s, "status")
  /\ inbox' = call[s].to /\ inboxLog' = call[s].to
  /\ UNCHANGED <<roleVars, promoVars, messages, replies, agentLines, sendPending>>

ConsoleNext ==
  \/ \E s \in Staff :
       \/ \E u \in Users, to \in Roles : SetRoleReads(s, u, to)
       \/ \E to \in Switch : UpdatePromoReads(s, to)
       \/ \E to \in Inbox : SetTicketStatusReads(s, to)
       \/ ReplyReads(s) \/ CallFails(s)
       \/ SetRole(s) \/ CreatePromo(s) \/ UpdatePromo(s) \/ ReplyAsAgent(s) \/ SetTicketStatus(s)
  \/ SubmitTicket \/ SendReads \/ CreateUserMessage

ConsoleSpec == ConsoleInit /\ [][ConsoleNext]_consoleVars

----------------------------------------------------------------------------
(* Properties *)

\* Whoever replays the audit log arrives at the roles the system has, however
\* the calls of several operators on the same user overlap: the entry is
\* written by the transaction that changes the role
\* (admin.service.ts setRole, admin-audit.service.ts recordWithinTx).
AuditExplainsRoles == \A u \in Users : role[u] = roleLog[u]
=============================================================================
