---------------------------- MODULE SupportChat ----------------------------
(***************************************************************************)
(* The sockets that follow one support ticket live                         *)
(* (src/support/chat: support-chat.gateway.ts, support-chat.publisher.ts,  *)
(* support-chat.subscriber.ts), on one replica.                            *)
(*                                                                         *)
(* handleConnection has two awaits: the token, and then the role.  A       *)
(* socket can drop in either, and handleDisconnect then runs before the    *)
(* continuation.  Messages are told apart by their number only.            *)
(***************************************************************************)
EXTENDS Integers, FiniteSets

CONSTANTS
  Customers, Agents,   \* sockets, by the role of their user
  MaxFrames,           \* bound: messages published
  MaxDrops             \* bound: times the subscriber's Redis link drops

ASSUME ChatAssumption ==
  MaxFrames \in Nat /\ MaxDrops \in Nat /\ IsFiniteSet(Customers) /\ IsFiniteSet(Agents)

ChatSockets == Customers \cup Agents

VARIABLES
  published,   \* messages published
  chatSent,    \* per socket: messages sent to it
  chatSocket,  \* per socket: "new", "verifying", "open", "dropped", "closed"
  chatUser,    \* sockets with a userId
  awaitsRole,  \* sockets whose handleConnection awaits getUserRole
  chatRole,    \* sockets whose role is resolved
  chatGauge,   \* wsSupportConnections
  chatSubs,    \* the gateway's subscription set
  chatAsking,  \* sockets whose subscribe awaits assertTicketAccess
  chatLink     \* the subscriber: [up, desired, armed, drops]

chatVars == <<published, chatSent, chatSocket, chatUser, awaitsRole, chatRole, chatGauge,
              chatSubs, chatAsking, chatLink>>
frameVars == <<published, chatSent>>
connVars == <<chatSocket, chatUser, awaitsRole, chatRole, chatGauge>>
feedVars == <<chatSubs, chatAsking, chatLink>>

ChatTypeOK ==
  /\ published \in 0..MaxFrames /\ chatSent \in [ChatSockets -> 0..MaxFrames]
  /\ chatSocket \in [ChatSockets -> {"new", "verifying", "open", "dropped", "closed"}]
  /\ chatUser \cup awaitsRole \cup chatRole \cup chatSubs \cup chatAsking \subseteq ChatSockets
  /\ chatGauge \in -Cardinality(ChatSockets)..Cardinality(ChatSockets)
  /\ chatLink \in [up : BOOLEAN, desired : BOOLEAN, armed : BOOLEAN, drops : 0..MaxDrops]

ChatInit ==
  /\ published = 0 /\ chatSent = [c \in ChatSockets |-> 0]
  /\ chatSocket = [c \in ChatSockets |-> "new"]
  /\ chatUser = {} /\ awaitsRole = {} /\ chatRole = {} /\ chatGauge = 0
  /\ chatSubs = {} /\ chatAsking = {}
  /\ chatLink = [up |-> TRUE, desired |-> FALSE, armed |-> FALSE, drops |-> 0]

----------------------------------------------------------------------------
(* Connections *)

ChatConnects(c) ==
  /\ chatSocket[c] = "new"
  /\ chatSocket' = [chatSocket EXCEPT ![c] = "verifying"]
  /\ UNCHANGED <<frameVars, chatUser, awaitsRole, chatRole, chatGauge, feedVars>>

\* The token verified on a socket that is still open; then the role is awaited.
ChatVerified(c) ==
  /\ chatSocket[c] = "verifying"
  /\ chatSocket' = [chatSocket EXCEPT ![c] = "open"]
  /\ chatUser' = chatUser \cup {c}
  /\ awaitsRole' = awaitsRole \cup {c}
  /\ UNCHANGED <<frameVars, chatRole, chatGauge, feedVars>>

\* A continuation that looks at the socket once more before it counts it.
RoleResolved_Rechecks(c) ==
  /\ c \in awaitsRole
  /\ awaitsRole' = awaitsRole \ {c}
  /\ chatRole' = chatRole \cup {c}
  /\ chatGauge' = IF chatSocket[c] = "open" THEN chatGauge + 1 ELSE chatGauge
  /\ UNCHANGED <<frameVars, chatSocket, chatUser, feedVars>>

\* getUserRole answered (or failed, which leaves no role): the gauge counts the
\* socket whether or not it dropped meanwhile.
RoleResolved(c) ==
  /\ c \in awaitsRole
  /\ awaitsRole' = awaitsRole \ {c}
  /\ chatRole' = chatRole \cup {c}
  /\ chatGauge' = chatGauge + 1
  /\ UNCHANGED <<frameVars, chatSocket, chatUser, feedVars>>

RoleLookupFails(c) ==
  /\ c \in awaitsRole
  /\ awaitsRole' = awaitsRole \ {c}
  /\ chatGauge' = chatGauge + 1
  /\ UNCHANGED <<frameVars, chatSocket, chatUser, chatRole, feedVars>>

ChatDrops(c) ==
  /\ chatSocket[c] \in {"verifying", "open"}
  /\ chatSocket' = [chatSocket EXCEPT ![c] = "dropped"]
  /\ UNCHANGED <<frameVars, chatUser, awaitsRole, chatRole, chatGauge, feedVars>>

\* The last subscriber out gives the channel up.
ChatLeave(c) ==
  /\ chatSubs' = chatSubs \ {c}
  /\ chatLink' = IF c \in chatSubs /\ chatSubs' = {}
                 THEN [chatLink EXCEPT !.desired = FALSE, !.armed = FALSE]
                 ELSE chatLink

ChatHandleDisconnect(c) ==
  /\ chatSocket[c] = "dropped"
  /\ chatSocket' = [chatSocket EXCEPT ![c] = "closed"]
  /\ ChatLeave(c)
  /\ chatGauge' = IF c \in chatUser THEN chatGauge - 1 ELSE chatGauge
  /\ UNCHANGED <<frameVars, chatUser, awaitsRole, chatRole, chatAsking>>

----------------------------------------------------------------------------
(* Following the ticket live *)

\* assertTicketAccess: staff by role, everyone else by ownership.  Before its
\* role is resolved an agent is treated as a customer, and owns no ticket.
HasAccess(c) == c \in Customers \/ c \in chatRole

ChatSubscribeAsks(c) ==
  /\ chatSocket[c] = "open" /\ c \in chatUser /\ c \notin chatAsking /\ HasAccess(c)
  /\ chatAsking' = chatAsking \cup {c}
  /\ UNCHANGED <<frameVars, connVars, chatSubs, chatLink>>

\* subscribeToTicket records the intent first; a dead link is re-armed later.
ChatSubscribeAdds(c) ==
  /\ c \in chatAsking
  /\ chatAsking' = chatAsking \ {c}
  /\ chatSubs' = chatSubs \cup {c}
  /\ chatLink' = IF chatSubs = {}
                 THEN [chatLink EXCEPT !.desired = TRUE, !.armed = chatLink.up]
                 ELSE chatLink
  /\ UNCHANGED <<frameVars, connVars>>

ChatUnsubscribes(c) ==
  /\ chatSocket[c] = "open" /\ c \in chatSubs
  /\ ChatLeave(c)
  /\ UNCHANGED <<frameVars, connVars, chatAsking>>

ChatLinkDrops ==
  /\ chatLink.up /\ chatLink.drops < MaxDrops
  /\ chatLink' = [chatLink EXCEPT !.up = FALSE, !.armed = FALSE, !.drops = @ + 1]
  /\ UNCHANGED <<frameVars, connVars, chatSubs, chatAsking>>

\* rearmAll on 'ready'.
ChatLinkReady ==
  /\ ~chatLink.up
  /\ chatLink' = [chatLink EXCEPT !.up = TRUE, !.armed = chatLink.desired]
  /\ UNCHANGED <<frameVars, connVars, chatSubs, chatAsking>>

\* publishMessage, after the message was persisted: the frame reaches the open
\* sockets of the set if the channel is armed; a failed publish is only logged.
PublishMessage ==
  /\ published < MaxFrames /\ published' = published + 1
  /\ chatSent' = [c \in ChatSockets |->
       IF chatLink.armed /\ c \in chatSubs /\ chatSocket[c] = "open"
       THEN chatSent[c] + 1 ELSE chatSent[c]]
  /\ UNCHANGED <<connVars, feedVars>>

ChatNext ==
  \/ PublishMessage
  \/ \E c \in ChatSockets :
       \/ ChatConnects(c) \/ ChatVerified(c) \/ RoleResolved(c) \/ RoleLookupFails(c)
       \/ ChatDrops(c) \/ ChatHandleDisconnect(c)
       \/ ChatSubscribeAsks(c) \/ ChatSubscribeAdds(c) \/ ChatUnsubscribes(c)
  \/ ChatLinkDrops \/ ChatLinkReady

ChatSpec == ChatInit /\ [][ChatNext]_chatVars

----------------------------------------------------------------------------
(* Properties *)

\* Although a socket can disconnect between the two awaits of handleConnection,
\* so that the gauge goes down before it goes up, it counts the connected users
\* again as soon as no connection is being set up
\* (support-chat.gateway.ts handleConnection, handleDisconnect).
ChatGaugeSettles ==
  awaitsRole = {} => chatGauge = Cardinality({c \in chatUser : chatSocket[c] # "closed"})
=============================================================================
