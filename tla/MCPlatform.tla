----------------------------- MODULE MCPlatform -----------------------------
(***************************************************************************)
(* The components around the delivery core that share no state with it or  *)
(* with each other, checked in one run: a behaviour is a behaviour of one  *)
(* of them, chosen initially, while the others stay where they start.      *)
(***************************************************************************)
EXTENDS RecurringDeliveries, Airspace, BookingGate, FlightSafety, Accounts, SupportChat, Console,
        Notifications, Partitions, DeliveryRecords, CustomerRecords, WorkerTier

VARIABLE part

On(p) == part = p

(* The processes of the worker tier: one beside another, or beside an api  *)
(* process; releases that switch an opt-in sweep on, and a kill switch off *)
(* and on again.                                                           *)

MCRoles == {[n \in Nodes |-> IF n = CHOOSE m \in Nodes : TRUE THEN "worker" ELSE r] : r \in {"worker", "api"}}
Env(optIn, kill) == [optIn |-> optIn, kill |-> kill]
MCReleases == {<<Env("unset", "unset"), Env("on", "unset")>>, <<Env("on", "unset"), Env("on", "off")>>,
               <<Env("on", "off"), Env("on", "unset")>>}

\* Which of them, where they do not run.
MCOneSetup == <<"watchdog", CHOOSE r \in MCRoles : TRUE, CHOOSE r \in MCReleases : TRUE>>

MCInit ==
  /\ part \in {"recurring", "airspace", "gate", "flight", "accounts", "chat", "console",
               "notifications", "partitions", "records", "customers", "workers"}
  /\ RecurringInit /\ AirspaceInit /\ GateInit /\ FlightInit /\ AccountsInit /\ ChatInit
  /\ ConsoleInit /\ NotificationsInit /\ PartitionsInit /\ RecordsInit /\ CustomersInit
  /\ WorkersInit
  /\ On("workers") \/ <<sweep, nodeRole, releases>> = MCOneSetup

\* The stationary parts, in three groups.
journeyVars == <<recurringVars, airspaceVars, gateVars, flightVars>>
peopleVars == <<accountVars, chatVars, consoleVars, notificationVars>>
storeVars == <<partitionVars, recordVars, customerVars, workerVars>>

JourneyNext ==
  \/ On("recurring") /\ RecurringNext /\ UNCHANGED <<airspaceVars, gateVars, flightVars>>
  \/ On("airspace") /\ AirspaceNext /\ UNCHANGED <<recurringVars, gateVars, flightVars>>
  \/ On("gate") /\ GateNext /\ UNCHANGED <<recurringVars, airspaceVars, flightVars>>
  \/ On("flight") /\ FlightNext /\ UNCHANGED <<recurringVars, airspaceVars, gateVars>>

PeopleNext ==
  \/ On("accounts") /\ AccountsNext /\ UNCHANGED <<chatVars, consoleVars, notificationVars>>
  \/ On("chat") /\ ChatNext /\ UNCHANGED <<accountVars, consoleVars, notificationVars>>
  \/ On("console") /\ ConsoleNext /\ UNCHANGED <<accountVars, chatVars, notificationVars>>
  \/ On("notifications") /\ NotificationsNext /\ UNCHANGED <<accountVars, chatVars, consoleVars>>

StoreNext ==
  \/ On("partitions") /\ PartitionsNext /\ UNCHANGED <<recordVars, customerVars, workerVars>>
  \/ On("records") /\ RecordsNext /\ UNCHANGED <<partitionVars, customerVars, workerVars>>
  \/ On("customers") /\ CustomersNext /\ UNCHANGED <<partitionVars, recordVars, workerVars>>
  \/ On("workers") /\ WorkersNext /\ UNCHANGED <<partitionVars, recordVars, customerVars>>

MCNext ==
  \/ JourneyNext /\ UNCHANGED <<part, peopleVars, storeVars>>
  \/ PeopleNext /\ UNCHANGED <<part, journeyVars, storeVars>>
  \/ StoreNext /\ UNCHANGED <<part, journeyVars, peopleVars>>

MCSpec == MCInit /\ [][MCNext]_<<part, journeyVars, peopleVars, storeVars>>

----------------------------------------------------------------------------
(* The instances.                                                          *)

Rule(days, time, start, end) == [days |-> days, time |-> time, start |-> start, end |-> end]

\* Daily, weekly and two-day rules; some start late, some end early or before they begin.
MCRules == {Rule(ALL_DAYS, 3, 5, NoRun), Rule(ALL_DAYS, 0, 31, 34), Rule({1}, 1, 5, NoRun),
            Rule({0, 3}, 2, 30, NoRun), Rule({0}, 0, 5, 28), Rule({0}, 3, 5, 29)}

\* Two known addresses whose route crosses the zone between them, and one nobody can find.
MCLocation == [a \in {"harbor", "hill", "unknown"} |->
                 CASE a = "harbor" -> <<0, 0>> [] a = "hill" -> <<4, 2>> [] OTHER -> <<>>]
MCPins == {<<0, 1>>}
MCAreas == {[x |-> 2, y |-> 1, radius |-> 4]}
MCZones == {[x |-> 2, y |-> 1, radius |-> 1]}

\* As much as the range allows for, in whole parts.
MCBurn == [load \in 0..2 |-> CASE load = 0 -> 8 [] load = 1 -> 9 [] load = 2 -> 12]
=============================================================================
