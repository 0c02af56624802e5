----------------------------- MODULE LiveFanout -----------------------------
(***************************************************************************)
(* Live tracking updates from a producer to the sockets of one realtime    *)
(* replica (src/deliveries/tracking: position-coalescer.ts,                *)
(* tracking.publisher.ts, tracking.subscriber.ts, tracking.gateway.ts),    *)
(* for one delivery.                                                       *)
(*                                                                         *)
(* The producer publishes a status transition at once and buffers the      *)
(* latest position until its flush timer fires.  Redis pub/sub forwards a  *)
(* message to the replica only while the replica's channel is armed; the   *)
(* replica sends it to the sockets in its subscription set.  A socket can  *)
(* drop at any await of the handlers; the Redis link can drop and return.  *)
(*                                                                         *)
(* A frame is abstracted to its kind and to the phase of the delivery when *)
(* it was produced.                                                        *)
(***************************************************************************)
EXTENDS Naturals, Sequences, FiniteSets

CONSTANTS
  Sockets,
  MaxPhase,      \* bound: status transitions
  MaxInbox,      \* bound: messages on their way to the replica
  MaxOutages     \* bound: times the Redis link drops

ASSUME FanoutAssumption == {MaxPhase, MaxInbox, MaxOutages} \subseteq Nat

VARIABLES
  phase,      \* status transitions so far
  buffered,   \* the coalescer's buffer: the phase of the held position, or NoFrame
  linkUp,     \* the subscriber's Redis connection
  outages,
  desired,    \* the subscriber wants the channel
  arming,     \* a SUBSCRIBE is on its way
  armed,      \* Redis forwards the channel to this replica
  inbox,      \* messages forwarded, not yet dispatched
  socket,     \* per socket: "new", "verifying", "open", "dropped", "closed"
  authed,     \* sockets with a userId
  handling,   \* sockets with a subscribe call awaiting findOne
  subscribed, \* the gateway's subscription set
  connections,\* the wsConnections gauge
  heard,      \* per socket: the highest status phase received
  rewound     \* ghost: sockets that got a position older than their status

fanoutVars == <<phase, buffered, linkUp, outages, desired, arming, armed, inbox,
                socket, authed, handling, subscribed, connections, heard, rewound>>
producerVars == <<phase, buffered>>
linkVars == <<linkUp, outages, desired, arming, armed>>
socketVars == <<socket, authed, handling, subscribed, connections>>
viewVars == <<heard, rewound>>

NoFrame == MaxPhase + 1
Frames == [status : BOOLEAN, phase : 0..MaxPhase]
IsOpen(c) == socket[c] = "open"

FanoutTypeOK ==
  /\ phase \in 0..MaxPhase /\ buffered \in 0..NoFrame
  /\ {linkUp, desired, arming, armed} \subseteq BOOLEAN /\ outages \in 0..MaxOutages
  /\ inbox \in Seq(Frames) /\ Len(inbox) <= MaxInbox
  /\ socket \in [Sockets -> {"new", "verifying", "open", "dropped", "closed"}]
  /\ authed \cup handling \cup subscribed \cup rewound \subseteq Sockets
  /\ connections \in 0..Cardinality(Sockets)
  /\ heard \in [Sockets -> 0..MaxPhase]

FanoutInit ==
  /\ phase = 0 /\ buffered = NoFrame
  /\ linkUp = TRUE /\ outages = 0
  /\ desired = FALSE /\ arming = FALSE /\ armed = FALSE
  /\ inbox = <<>>
  /\ socket = [c \in Sockets |-> "new"]
  /\ authed = {} /\ handling = {} /\ subscribed = {} /\ connections = 0
  /\ heard = [c \in Sockets |-> 0] /\ rewound = {}

----------------------------------------------------------------------------
(* The producer: PositionCoalescer and TrackingPublisher *)

\* doPublish: at most once; a message nobody is armed for is gone.
Publish(frame) ==
  inbox' = IF linkUp /\ armed THEN Append(inbox, frame) ELSE inbox

\* submit that leaves the buffered position behind.
SubmitStatus_KeepsBuffer ==
  /\ phase < MaxPhase /\ Len(inbox) < MaxInbox
  /\ phase' = phase + 1
  /\ Publish([status |-> TRUE, phase |-> phase + 1])
  /\ UNCHANGED <<buffered, linkVars, socketVars, viewVars>>

\* submit of a status frame: it supersedes the buffered position.
SubmitStatus ==
  /\ phase < MaxPhase /\ Len(inbox) < MaxInbox
  /\ phase' = phase + 1
  /\ buffered' = NoFrame
  /\ Publish([status |-> TRUE, phase |-> phase + 1])
  /\ UNCHANGED <<linkVars, socketVars, viewVars>>

\* submit of a position: held, the latest wins.
SubmitPosition ==
  /\ buffered # phase
  /\ buffered' = phase
  /\ UNCHANGED <<phase, inbox, linkVars, socketVars, viewVars>>

\* flush, on the timer or at shutdown.
Flush ==
  /\ buffered # NoFrame /\ Len(inbox) < MaxInbox
  /\ Publish([status |-> FALSE, phase |-> buffered])
  /\ buffered' = NoFrame
  /\ UNCHANGED <<phase, linkVars, socketVars, viewVars>>

----------------------------------------------------------------------------
(* TrackingSubscriber: the desired set and the Redis link *)

\* subscribeToDelivery: the intent is recorded first; a SUBSCRIBE on a dead
\* link is refused at once.
SubscribeToDelivery == desired' = TRUE /\ arming' = linkUp /\ UNCHANGED armed

UnsubscribeFromDelivery == desired' = FALSE /\ arming' = FALSE /\ armed' = FALSE

\* The SUBSCRIBE takes effect.
Armed ==
  /\ arming /\ linkUp
  /\ armed' = TRUE /\ arming' = FALSE
  /\ UNCHANGED <<producerVars, linkUp, outages, desired, inbox, socketVars, viewVars>>

LinkDrops ==
  /\ linkUp /\ outages < MaxOutages
  /\ linkUp' = FALSE /\ outages' = outages + 1
  /\ arming' = FALSE /\ armed' = FALSE
  /\ UNCHANGED <<producerVars, desired, inbox, socketVars, viewVars>>

\* A reconnect that does not subscribe again.
RearmAll_Forgets == arming' = FALSE

\* 'ready': rearmAll subscribes everything desired.
RearmAll == arming' = desired

LinkReady ==
  /\ ~linkUp /\ linkUp' = TRUE
  /\ RearmAll
  /\ UNCHANGED <<producerVars, outages, desired, armed, inbox, socketVars, viewVars>>

----------------------------------------------------------------------------
(* TrackingGateway: sockets and subscriptions *)

Connects(c) ==
  /\ socket[c] = "new" /\ socket' = [socket EXCEPT ![c] = "verifying"]
  /\ UNCHANGED <<producerVars, linkVars, inbox, authed, handling, subscribed, connections, viewVars>>

\* The second half of handleConnection: a socket that dropped while its token
\* was verified is not counted.
Verified(c) ==
  /\ socket[c] = "verifying"
  /\ socket' = [socket EXCEPT ![c] = "open"]
  /\ authed' = authed \cup {c}
  /\ connections' = connections + 1
  /\ UNCHANGED <<producerVars, linkVars, inbox, handling, subscribed, viewVars>>

Drops(c) ==
  /\ socket[c] \in {"verifying", "open"}
  /\ socket' = [socket EXCEPT ![c] = "dropped"]
  /\ UNCHANGED <<producerVars, linkVars, inbox, authed, handling, subscribed, connections, viewVars>>

\* Leaving the set; the last one out gives the channel up.
Leave(c) ==
  /\ subscribed' = subscribed \ {c}
  /\ IF c \in subscribed /\ subscribed' = {}
     THEN UnsubscribeFromDelivery
     ELSE UNCHANGED <<desired, arming, armed>>

HandleDisconnect(c) ==
  /\ socket[c] = "dropped"
  /\ socket' = [socket EXCEPT ![c] = "closed"]
  /\ Leave(c)
  /\ connections' = IF c \in authed THEN connections - 1 ELSE connections
  /\ UNCHANGED <<producerVars, linkUp, outages, inbox, authed, handling, viewVars>>

\* handleSubscribe up to its await of the ownership lookup.
SubscribeAsks(c) ==
  /\ IsOpen(c) /\ c \in authed /\ c \notin handling
  /\ handling' = handling \cup {c}
  /\ UNCHANGED <<producerVars, linkVars, inbox, socket, authed, subscribed, connections, viewVars>>

SubscribeRefused(c) ==
  /\ c \in handling
  /\ handling' = handling \ {c}
  /\ UNCHANGED <<producerVars, linkVars, inbox, socket, authed, subscribed, connections, viewVars>>

\* The rest of handleSubscribe: the socket is added without asking again
\* whether it is still open.
SubscribeAdds(c) ==
  /\ c \in handling
  /\ handling' = handling \ {c}
  /\ IF subscribed = {} THEN SubscribeToDelivery ELSE UNCHANGED <<desired, arming, armed>>
  /\ subscribed' = subscribed \cup {c}
  /\ heard' = [heard EXCEPT ![c] = 0]
  /\ UNCHANGED <<producerVars, linkUp, outages, inbox, socket, authed, connections, rewound>>

Unsubscribes(c) ==
  /\ IsOpen(c) /\ c \in subscribed
  /\ Leave(c)
  /\ UNCHANGED <<producerVars, linkUp, outages, inbox, socket, authed, handling, connections, viewVars>>

\* deliverToLocalClients: open sockets get the message, except that a position
\* may be dropped for a socket whose send buffer is full.
DeliverToLocalClients ==
  /\ inbox # <<>>
  /\ inbox' = Tail(inbox)
  /\ LET frame == Head(inbox)
         reach == {c \in subscribed : IsOpen(c)} IN
     \E full \in SUBSET reach :
       LET got == IF frame.status THEN reach ELSE reach \ full IN
       /\ heard' = [c \in Sockets |->
                     IF c \in got /\ frame.status THEN frame.phase ELSE heard[c]]
       /\ rewound' = rewound \cup {c \in got : frame.phase < heard[c]}
  /\ UNCHANGED <<producerVars, linkVars, socketVars>>

FanoutNext ==
  \/ SubmitStatus \/ SubmitPosition \/ Flush
  \/ Armed \/ LinkDrops \/ LinkReady \/ DeliverToLocalClients
  \/ \E c \in Sockets :
       \/ Connects(c) \/ Verified(c) \/ Drops(c) \/ HandleDisconnect(c)
       \/ SubscribeAsks(c) \/ SubscribeRefused(c) \/ SubscribeAdds(c) \/ Unsubscribes(c)

\* Redis comes back and answers, and the event loop runs its handlers.
FanoutFairness ==
  /\ WF_fanoutVars(Armed) /\ WF_fanoutVars(LinkReady) /\ WF_fanoutVars(DeliverToLocalClients)
  /\ \A c \in Sockets : WF_fanoutVars(HandleDisconnect(c))

FanoutSpec == FanoutInit /\ [][FanoutNext]_fanoutVars

----------------------------------------------------------------------------
(* Properties *)

\* A client never sees the drone where it was before the status it was just
\* told: a status frame discards the buffered position it supersedes
\* (position-coalescer.ts submit).
PositionNeverRewinds == rewound = {}

\* A client told it is subscribed is not left deaf by a Redis outage: its
\* channel is armed in the end, unless it leaves
\* (tracking.subscriber.ts:36-48).
SubscribedIsArmed ==
  \A c \in Sockets : (c \in subscribed /\ IsOpen(c)) ~> (armed \/ c \notin subscribed \/ ~IsOpen(c))
=============================================================================
