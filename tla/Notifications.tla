--------------------------- MODULE Notifications ---------------------------
(***************************************************************************)
(* One user's notifications (src/notifications/notifications.service.ts):  *)
(* the in-app feed, the preferences that gate a push, the fan-out of a     *)
(* push to the registered devices in requests of at most                   *)
(* EXPO_PUSH_CHUNK_SIZE messages, and the reaping of the push tokens Expo  *)
(* reports dead.                                                           *)
(*                                                                         *)
(* A fan-out is fire-and-forget: it interleaves with registrations and     *)
(* with preference updates at every await.  A token is a model value;      *)
(* Unsupported are the tokens that are not Expo's.  The push service is    *)
(* external: it may refuse a request, answer without tickets, or report a  *)
(* token DeviceNotRegistered when its app is uninstalled.                  *)
(***************************************************************************)
EXTENDS Naturals, FiniteSets, Sequences, Functions

CONSTANTS
  PushTokens,            \* push tokens of the user's devices
  Unsupported,           \* those that are not Expo tokens
  EXPO_PUSH_CHUNK_SIZE,
  QuietBounds,           \* hours the user may set as bounds
  MaxNotices,            \* bound: notifications created
  MaxUpdates,            \* bound: preference updates in flight
  MaxReinstalls          \* bound: apps reinstalled

NoHour == 24
Hours == 0..23
Bounds == QuietBounds \cup {NoHour}

ASSUME NotificationsAssumption ==
  /\ Unsupported \subseteq PushTokens /\ EXPO_PUSH_CHUNK_SIZE \in Nat \ {0}
  /\ QuietBounds \subseteq Hours /\ MaxNotices \in Nat

VARIABLES
  devices,      \* tokens of the device rows, unique per user
  installed,    \* tokens whose app is installed
  prefs,        \* notification preferences
  prefCalls,    \* updatePreferences calls between their read and their upsert
  unread,       \* unread rows of the feed
  notices,      \* notifications created
  fanout,       \* the running push: its tokens, its position, the dead found
  saidDead,     \* tokens reported DeviceNotRegistered to the running push
  reinstalls

notificationVars == <<devices, installed, prefs, prefCalls, unread, notices, fanout, saidDead, reinstalls>>

Quiet == [at |-> "idle", tokens |-> <<>>, next |-> 1, dead |-> {}]

\* A partial update names a bound (a singleton) or leaves it alone ({}).
Mention == {{}} \cup {{h} : h \in Bounds}
Effective(mention, current) == IF mention = {} THEN current ELSE CHOOSE h \in mention : TRUE

NotificationsTypeOK ==
  /\ devices \subseteq PushTokens /\ installed \subseteq PushTokens
  /\ prefs.enabled \in BOOLEAN /\ prefs.start \in Bounds /\ prefs.end \in Bounds
  /\ prefCalls \subseteq [start : Mention, end : Mention]
  /\ unread \in 0..MaxNotices /\ notices \in 0..MaxNotices
  /\ fanout.at \in {"idle", "gated", "sending"} /\ fanout.dead \subseteq PushTokens
  /\ saidDead \subseteq PushTokens

\* DEFAULT_PREFERENCES.
NotificationsInit ==
  /\ devices = {} /\ installed = PushTokens
  /\ prefs = [enabled |-> TRUE, start |-> NoHour, end |-> NoHour]
  /\ prefCalls = {}
  /\ unread = 0 /\ notices = 0
  /\ fanout = Quiet /\ saidDead = {} /\ reinstalls = 0

----------------------------------------------------------------------------
(* Feed, devices, preferences *)

\* markAsRead, markAllAsRead: conditional updates of unread rows.
MarkAsRead ==
  /\ unread > 0
  /\ unread' \in {0, unread - 1}
  /\ UNCHANGED <<devices, installed, prefs, prefCalls, notices, fanout, saidDead, reinstalls>>

\* registerDevice: upsert on (userId, pushToken).
RegisterDevice(t) ==
  /\ t \in installed
  /\ devices' = devices \cup {t}
  /\ UNCHANGED <<installed, prefs, prefCalls, unread, notices, fanout, saidDead, reinstalls>>

\* external: an app goes, or comes back with the same token and registers.
Uninstall(t) ==
  /\ t \in installed /\ t \in devices /\ reinstalls < MaxReinstalls
  /\ installed' = installed \ {t}
  /\ reinstalls' = reinstalls + 1
  /\ UNCHANGED <<devices, prefs, prefCalls, unread, notices, fanout, saidDead>>

Reinstall(t) ==
  /\ t \notin installed
  /\ installed' = installed \cup {t}
  /\ UNCHANGED <<devices, prefs, prefCalls, unread, notices, fanout, saidDead, reinstalls>>

\* updatePreferences, its read: the pair check is made on the state it would
\* lead to.
UpdatePreferencesReads(start, end) ==
  /\ Cardinality(prefCalls) < MaxUpdates
  /\ (Effective(start, prefs.start) = NoHour) = (Effective(end, prefs.end) = NoHour)
  /\ prefCalls' = prefCalls \cup {[start |-> start, end |-> end]}
  /\ UNCHANGED <<devices, installed, prefs, unread, notices, fanout, saidDead, reinstalls>>

UpdatePreferences(dto) ==
  /\ \E on \in BOOLEAN : prefs' = [enabled |-> on, start |-> Effective(dto.start, prefs.start),
                                   end |-> Effective(dto.end, prefs.end)]
  /\ prefCalls' = prefCalls \ {dto}
  /\ UNCHANGED <<devices, installed, unread, notices, fanout, saidDead, reinstalls>>

----------------------------------------------------------------------------
(* The push *)

\* inQuietHours: [start, end), around midnight when start > end.
InQuietHours(start, end, hour) ==
  /\ start # NoHour /\ end # NoHour /\ start # end
  /\ IF start < end THEN hour >= start /\ hour < end ELSE hour >= start \/ hour < end

\* shouldSendPush, at the hour of the service's time zone.
ShouldSendPush(hour) == prefs.enabled /\ ~InQuietHours(prefs.start, prefs.end, hour)

\* create: the row always; then the gate, which lets the fan-out begin.
CreateNotification(hour) ==
  /\ notices < MaxNotices /\ fanout.at = "idle"
  /\ notices' = notices + 1 /\ unread' = unread + 1
  /\ fanout' = IF ShouldSendPush(hour) THEN [Quiet EXCEPT !.at = "gated"] ELSE fanout
  /\ UNCHANGED <<devices, installed, prefs, prefCalls, saidDead, reinstalls>>

\* sendPushToUser, its read of the devices, which asks for no order.
PushReadsDevices ==
  /\ fanout.at = "gated"
  /\ LET expo == devices \ Unsupported
     IN IF expo = {} THEN fanout' = Quiet
        ELSE \E tokens \in Bijection(1..Cardinality(expo), expo) :
                fanout' = [Quiet EXCEPT !.at = "sending", !.tokens = tokens]
  /\ saidDead' = {}
  /\ UNCHANGED <<devices, installed, prefs, prefCalls, unread, notices, reinstalls>>

Chunk == SubSeq(fanout.tokens, fanout.next,
                IF fanout.next + EXPO_PUSH_CHUNK_SIZE - 1 < Len(fanout.tokens)
                THEN fanout.next + EXPO_PUSH_CHUNK_SIZE - 1 ELSE Len(fanout.tokens))

\* Tickets map to the messages of the request by position.
TicketTokens_FromStart(tickets) == {fanout.tokens[j] : j \in {k \in DOMAIN tickets : tickets[k] = "DeviceNotRegistered"}}
TicketTokens(tickets) == {Chunk[j] : j \in {k \in DOMAIN tickets : tickets[k] = "DeviceNotRegistered"}}

Sent == [fanout EXCEPT !.next = @ + Len(Chunk)]

\* One request: answered with a ticket per message ...
PushChunk ==
  /\ fanout.at = "sending" /\ fanout.next <= Len(fanout.tokens)
  /\ LET tickets == [j \in DOMAIN Chunk |-> IF Chunk[j] \in installed THEN "ok" ELSE "DeviceNotRegistered"]
     IN /\ fanout' = [Sent EXCEPT !.dead = @ \cup TicketTokens(tickets)]
        /\ saidDead' = saidDead \cup {t \in Range(Chunk) : t \notin installed}
  /\ UNCHANGED <<devices, installed, prefs, prefCalls, unread, notices, reinstalls>>

\* ... or refused, or answered without tickets (parseExpoTickets).
PushChunkUnanswered ==
  /\ fanout.at = "sending" /\ fanout.next <= Len(fanout.tokens)
  /\ fanout' = Sent
  /\ UNCHANGED <<devices, installed, prefs, prefCalls, unread, notices, saidDead, reinstalls>>

\* reapDeadDevices, after the last request; a failed delete is logged.
ReapDeadDevices ==
  /\ fanout.at = "sending" /\ fanout.next > Len(fanout.tokens)
  /\ devices' \in {devices, devices \ fanout.dead}
  /\ fanout' = Quiet
  /\ UNCHANGED <<installed, prefs, prefCalls, unread, notices, saidDead, reinstalls>>

\* A throw (the network, the process) ends the fan-out before the reap.
PushFails ==
  /\ fanout.at # "idle"
  /\ fanout' = Quiet
  /\ UNCHANGED <<devices, installed, prefs, prefCalls, unread, notices, saidDead, reinstalls>>

NotificationsNext ==
  \/ MarkAsRead
  \/ \E t \in PushTokens : RegisterDevice(t) \/ Uninstall(t) \/ Reinstall(t)
  \/ \E s, e \in Mention : UpdatePreferencesReads(s, e)
  \/ \E dto \in prefCalls : UpdatePreferences(dto)
  \/ \E h \in QuietBounds : CreateNotification(h)
  \/ PushReadsDevices \/ PushChunk \/ PushChunkUnanswered \/ ReapDeadDevices \/ PushFails

NotificationsSpec == NotificationsInit /\ [][NotificationsNext]_notificationVars

----------------------------------------------------------------------------
(* Properties *)

\* A fan-out deletes a device row only for a token the push service reported
\* dead to that very fan-out, however many requests it took, whichever of them
\* went unanswered and whatever registered meanwhile (sendPushToUser maps
\* tickets to tokens by position).
ReapsOnlyReported ==
  [][\A t \in PushTokens : t \in devices /\ t \notin devices' => t \in saidDead]_notificationVars
=============================================================================
