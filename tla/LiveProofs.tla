----------------------------- MODULE LiveProofs -----------------------------
(***************************************************************************)
(* Proofs about the live side of a delivery: the fan-out of positions, the *)
(* tracking store and the support chat.                                    *)
(***************************************************************************)
EXTENDS LiveFanout, TrackingStore, SupportChat, FiniteSetTheorems, TLAPS

----------------------------------------------------------------------------
(* LiveFanout.                                                             *)

\* Frames travel in the order of the phases they were produced in: what is held is of the
\* phase now, what is on its way is sorted and behind no socket, and no socket is ahead.
InOrder(frames) ==
  \A i \in 1..Len(frames) :
    /\ frames[i].phase <= phase
    /\ \A j \in i..Len(frames) : frames[i].phase <= frames[j].phase
    /\ \A c \in Sockets : heard[c] <= frames[i].phase

FanoutInv ==
  /\ phase \in 0..MaxPhase /\ buffered \in {NoFrame, phase}
  /\ inbox \in Seq(Frames)
  /\ subscribed \subseteq Sockets
  /\ handling \subseteq Sockets
  /\ heard \in [Sockets -> 0..MaxPhase]
  /\ \A c \in Sockets : heard[c] <= phase
  /\ InOrder(inbox)
  /\ rewound = {}

LEMMA FrameType ==
  ASSUME NEW s \in Seq(Frames), NEW i \in 1..Len(s)
  PROVE  s[i] \in Frames /\ s[i].phase \in 0..MaxPhase
<1>1. s[i] \in Frames
  OBVIOUS
<1> QED
  BY <1>1 DEF Frames

LEMMA PublishKeepsOrder ==
  ASSUME FanoutInv, NEW frame \in Frames, phase' \in 0..MaxPhase, phase <= phase', frame.phase = phase',
         heard' = heard, Publish(frame)
  PROVE  inbox' \in Seq(Frames) /\ InOrder(inbox)'
<1>1. CASE inbox' = inbox
  <2>1. \A i \in 1..Len(inbox) : inbox[i].phase \in 0..MaxPhase
    BY FrameType DEF FanoutInv
  <2> QED
    BY <1>1, <2>1, FanoutAssumption DEF FanoutInv, InOrder, FanoutAssumption
<1>2. CASE inbox' = Append(inbox, frame)
  <2>1. /\ inbox' \in Seq(Frames) /\ Len(inbox') = Len(inbox) + 1 /\ Len(inbox) \in Nat
        /\ \A i \in 1..Len(inbox) : inbox'[i] = inbox[i]
        /\ inbox'[Len(inbox) + 1] = frame
    BY <1>2 DEF FanoutInv
  <2>2. \A i \in 1..Len(inbox) : inbox[i].phase \in 0..MaxPhase
    BY FrameType DEF FanoutInv
  <2>3. ASSUME NEW i \in 1..Len(inbox')
        PROVE  /\ inbox'[i].phase <= phase'
               /\ \A j \in i..Len(inbox') : inbox'[i].phase <= inbox'[j].phase
               /\ \A c \in Sockets : heard'[c] <= inbox'[i].phase
    <3>1. CASE i = Len(inbox) + 1
      BY <2>1, <3>1, FanoutAssumption DEF FanoutInv, FanoutAssumption
    <3>2. CASE i \in 1..Len(inbox)
      <4>1. /\ inbox'[i] = inbox[i] /\ inbox[i].phase \in 0..MaxPhase
            /\ inbox[i].phase <= phase /\ \A c \in Sockets : heard'[c] <= inbox[i].phase
            /\ \A j \in i..Len(inbox) : inbox[i].phase <= inbox[j].phase
        BY <2>1, <2>2, <3>2 DEF FanoutInv, InOrder
      <4>2. inbox[i].phase <= phase'
        BY <4>1, FanoutAssumption DEF FanoutAssumption, FanoutInv
      <4>3. ASSUME NEW j \in i..Len(inbox') PROVE inbox'[i].phase <= inbox'[j].phase
        BY <2>1, <4>1, <4>2
      <4> QED
        BY <4>1, <4>2, <4>3
    <3> QED
      BY <2>1, <3>1, <3>2
  <2> QED
    BY <2>1, <2>3 DEF InOrder
<1> QED
  BY <1>1, <1>2 DEF Publish

LEMMA DeliverKeepsOrder ==
  ASSUME FanoutInv, DeliverToLocalClients
  PROVE  FanoutInv'
<1> DEFINE frame == Head(inbox)
<1>1. /\ inbox # <<>> /\ inbox' = Tail(inbox)
      /\ UNCHANGED <<phase, buffered, subscribed, handling>>
  BY DEF DeliverToLocalClients, producerVars, socketVars
<1>2. PICK got \in SUBSET subscribed :
        /\ heard' = [c \in Sockets |-> IF c \in got /\ frame.status THEN frame.phase ELSE heard[c]]
        /\ rewound' = rewound \cup {c \in got : frame.phase < heard[c]}
  <2>1. PICK full \in SUBSET {c \in subscribed : IsOpen(c)} :
          LET reach == {c \in subscribed : IsOpen(c)}
              got == IF frame.status THEN reach ELSE reach \ full IN
          /\ heard' = [c \in Sockets |-> IF c \in got /\ frame.status THEN frame.phase ELSE heard[c]]
          /\ rewound' = rewound \cup {c \in got : frame.phase < heard[c]}
    BY DEF DeliverToLocalClients
  <2> DEFINE reach == {c \in subscribed : IsOpen(c)}
             got == IF frame.status THEN reach ELSE reach \ full
  <2>2. got \in SUBSET subscribed
    OBVIOUS
  <2> QED
    BY Zenon, <2>1, <2>2
<1>3. /\ Len(inbox) \in Nat \ {0} /\ frame = inbox[1] /\ inbox' \in Seq(Frames)
      /\ Len(inbox') = Len(inbox) - 1 /\ \A i \in 1..Len(inbox') : inbox'[i] = inbox[i + 1]
  BY <1>1 DEF FanoutInv
<1>4. /\ \A i \in 1..Len(inbox) : inbox[i] \in Frames /\ inbox[i].phase \in 0..MaxPhase
      /\ frame \in Frames /\ frame.phase \in 0..MaxPhase /\ frame.phase <= phase
      /\ \A j \in 1..Len(inbox) : frame.phase <= inbox[j].phase
      /\ \A c \in Sockets : heard[c] <= frame.phase
  <2>1. \A i \in 1..Len(inbox) : inbox[i] \in Frames /\ inbox[i].phase \in 0..MaxPhase
    BY FrameType DEF FanoutInv
  <2> QED
    BY <1>3, <2>1 DEF FanoutInv, InOrder
<1>5. \A c \in Sockets : heard[c] \in 0..MaxPhase /\ MaxPhase \in Nat
  BY FanoutAssumption DEF FanoutInv, FanoutAssumption
<1>6. rewound' = {}
  BY <1>2, <1>4, <1>5 DEF FanoutInv
<1>7. \A c \in Sockets : heard'[c] = heard[c] \/ heard'[c] = frame.phase
  BY <1>2
<1>8. /\ heard' \in [Sockets -> 0..MaxPhase]
      /\ \A c \in Sockets : heard'[c] <= phase'
  BY <1>1, <1>2, <1>4, <1>5 DEF FanoutInv
<1>9. InOrder(inbox)'
  <2>1. ASSUME NEW i \in 1..Len(inbox')
        PROVE  /\ inbox'[i].phase <= phase'
               /\ \A j \in i..Len(inbox') : inbox'[i].phase <= inbox'[j].phase
               /\ \A c \in Sockets : heard'[c] <= inbox'[i].phase
    <3>1. i + 1 \in 1..Len(inbox) /\ \A j \in i..Len(inbox') : j + 1 \in (i + 1)..Len(inbox)
      BY <1>3
    <3>2. /\ inbox[i + 1].phase <= phase
          /\ \A j \in (i + 1)..Len(inbox) : inbox[i + 1].phase <= inbox[j].phase
          /\ \A c \in Sockets : heard[c] <= inbox[i + 1].phase
      BY <3>1 DEF FanoutInv, InOrder
    <3>3. \A j \in i..Len(inbox') : inbox'[j] = inbox[j + 1]
      BY <1>3
    <3>4. \A c \in Sockets : heard'[c] <= inbox[i + 1].phase
      BY <1>4, <1>7, <3>1, <3>2
    <3> QED
      BY <1>1, <1>3, <3>1, <3>2, <3>3, <3>4
  <2> QED
    BY <2>1 DEF InOrder
<1> QED
  BY <1>1, <1>3, <1>6, <1>8, <1>9 DEF FanoutInv, NoFrame

LEMMA FanoutNextKeeps == FanoutInv /\ [FanoutNext]_fanoutVars => FanoutInv'
<1> SUFFICES ASSUME FanoutInv, [FanoutNext]_fanoutVars PROVE FanoutInv'
  OBVIOUS
<1>0. MaxPhase \in Nat
  BY FanoutAssumption DEF FanoutAssumption
<1>1. CASE SubmitStatus
  <2> DEFINE frame == [status |-> TRUE, phase |-> phase + 1]
  <2>1. /\ phase' = phase + 1 /\ phase' \in 0..MaxPhase /\ phase <= phase' /\ buffered' = NoFrame
        /\ UNCHANGED <<subscribed, handling, heard, rewound>> /\ Publish(frame)
    BY <1>0, <1>1 DEF SubmitStatus, FanoutInv, socketVars, viewVars
  <2>2. frame \in Frames /\ frame.phase = phase'
    BY <2>1 DEF Frames
  <2>3. inbox' \in Seq(Frames) /\ InOrder(inbox)'
    BY <2>1, <2>2, PublishKeepsOrder
  <2>4. \A c \in Sockets : heard'[c] <= phase'
    BY <1>0, <2>1 DEF FanoutInv
  <2> QED
    BY <2>1, <2>3, <2>4 DEF FanoutInv
<1>2. CASE Flush
  <2> DEFINE frame == [status |-> FALSE, phase |-> buffered]
  <2>1. /\ phase' = phase /\ phase' \in 0..MaxPhase /\ phase <= phase' /\ buffered' = NoFrame
        /\ buffered = phase /\ UNCHANGED <<subscribed, handling, heard, rewound>> /\ Publish(frame)
    BY <1>0, <1>2 DEF Flush, FanoutInv, socketVars, viewVars
  <2>2. frame \in Frames /\ frame.phase = phase'
    BY <2>1 DEF Frames
  <2>3. inbox' \in Seq(Frames) /\ InOrder(inbox)'
    BY <2>1, <2>2, PublishKeepsOrder
  <2>4. \A c \in Sockets : heard'[c] <= phase'
    BY <1>0, <2>1 DEF FanoutInv
  <2> QED
    BY <2>1, <2>3, <2>4 DEF FanoutInv
<1>3. ASSUME buffered' \in {buffered, phase}, subscribed' \subseteq Sockets, handling' \subseteq Sockets,
             UNCHANGED <<phase, inbox, heard, rewound>>
      PROVE  FanoutInv'
  <2>1. InOrder(inbox)'
    BY Zenon, <1>3 DEF FanoutInv, InOrder
  <2> QED
    BY <1>3, <2>1 DEF FanoutInv, NoFrame
<1>4. CASE SubmitPosition \/ Armed \/ LinkDrops \/ LinkReady \/ UNCHANGED fanoutVars
  <2>1. /\ buffered' \in {buffered, phase} /\ subscribed' \subseteq Sockets /\ handling' \subseteq Sockets
        /\ UNCHANGED <<phase, inbox, heard, rewound>>
    BY <1>4 DEF SubmitPosition, Armed, LinkDrops, LinkReady, fanoutVars, producerVars, socketVars, viewVars,
                FanoutInv
  <2> QED
    BY <1>3, <2>1
<1>5. ASSUME NEW c \in Sockets,
             \/ Connects(c) \/ Verified(c) \/ Drops(c) \/ HandleDisconnect(c)
             \/ SubscribeAsks(c) \/ SubscribeRefused(c) \/ Unsubscribes(c)
      PROVE  FanoutInv'
  <2>1. /\ buffered' \in {buffered, phase} /\ subscribed' \subseteq Sockets /\ handling' \subseteq Sockets
        /\ UNCHANGED <<phase, inbox, heard, rewound>>
    BY <1>5 DEF Connects, Verified, Drops, HandleDisconnect, SubscribeAsks, SubscribeRefused, Unsubscribes,
                Leave, producerVars, viewVars, FanoutInv
  <2> QED
    BY Zenon, <1>3, <2>1
<1>6. ASSUME NEW c \in Sockets, SubscribeAdds(c) PROVE FanoutInv'
  <2>1. /\ UNCHANGED <<phase, buffered, inbox, rewound>>
        /\ subscribed' \subseteq Sockets /\ handling' \subseteq Sockets
        /\ heard' = [heard EXCEPT ![c] = 0]
    BY <1>6 DEF SubscribeAdds, producerVars, FanoutInv
  <2>2. heard' \in [Sockets -> 0..MaxPhase] /\ \A k \in Sockets : heard'[k] = heard[k] \/ heard'[k] = 0
    BY <1>0, <2>1 DEF FanoutInv
  <2>3. \A i \in 1..Len(inbox) : inbox[i].phase \in 0..MaxPhase
    BY Zenon, FrameType DEF FanoutInv
  <2>4. InOrder(inbox)'
    BY SMTT(30), <2>1, <2>2, <2>3 DEF FanoutInv, InOrder
  <2>5. \A k \in Sockets : heard'[k] <= phase'
    BY <2>1, <2>2 DEF FanoutInv
  <2> QED
    BY <2>1, <2>2, <2>4, <2>5 DEF FanoutInv, NoFrame
<1> QED
  BY <1>1, <1>2, <1>4, <1>5, <1>6, DeliverKeepsOrder DEF FanoutNext

\* A client never sees the drone where it was before the status it was just told, however
\* positions and transitions are submitted, flushed, dropped at a full socket, lost with
\* the Redis link, or met by sockets that come and go: for any number of sockets,
\* transitions, messages in flight and outages.
THEOREM ViewNeverRewinds == FanoutSpec => []PositionNeverRewinds
<1>1. FanoutInit => FanoutInv
  BY FanoutAssumption DEF FanoutInit, FanoutInv, InOrder, NoFrame, FanoutAssumption
<1>2. FanoutInv => PositionNeverRewinds
  BY DEF FanoutInv, PositionNeverRewinds
<1> QED
  BY <1>1, <1>2, FanoutNextKeeps, PTL DEF FanoutSpec

----------------------------------------------------------------------------
(* SupportChat.                                                            *)

Connected == {c \in chatUser : chatSocket[c] # "closed"}

\* A socket that waits for its role is counted already as a user and not yet by the gauge.
ChatInv ==
  /\ chatSocket \in [ChatSockets -> {"new", "verifying", "open", "dropped", "closed"}]
  /\ chatUser \subseteq ChatSockets /\ awaitsRole \subseteq chatUser
  /\ chatGauge \in Int
  /\ chatGauge + Cardinality(awaitsRole) = Cardinality(Connected)
  /\ \A c \in chatUser : chatSocket[c] \notin {"new", "verifying"}

LEMMA ChatFinite ==
  ASSUME NEW S \in SUBSET ChatSockets
  PROVE  IsFiniteSet(S) /\ Cardinality(S) \in Nat
<1>1. IsFiniteSet(ChatSockets)
  BY ChatAssumption, FS_Union DEF ChatAssumption, ChatSockets
<1> QED
  BY <1>1, FS_Subset, FS_CardinalityType

LEMMA ChatNextKeeps ==
  ASSUME ChatInv, [ChatNext]_chatVars
  PROVE  ChatInv'
<1>1. /\ IsFiniteSet(awaitsRole) /\ Cardinality(awaitsRole) \in Nat
      /\ IsFiniteSet(Connected) /\ Cardinality(Connected) \in Nat
  BY ChatFinite DEF ChatInv, Connected
<1>2. CASE UNCHANGED connVars
  <2>1. Connected' = Connected
    BY <1>2 DEF connVars, Connected
  <2> QED
    BY <1>2, <2>1 DEF connVars, ChatInv
<1>3. CASE UNCHANGED chatVars
  BY <1>2, <1>3, Zenon DEF chatVars, connVars
<1>4. ASSUME NEW c \in ChatSockets, ChatConnects(c) \/ ChatDrops(c) PROVE ChatInv'
  <2>1. /\ chatUser' = chatUser /\ awaitsRole' = awaitsRole /\ chatGauge' = chatGauge
        /\ \/ chatSocket[c] = "new" /\ chatSocket' = [chatSocket EXCEPT ![c] = "verifying"]
           \/ chatSocket[c] \in {"verifying", "open"} /\ chatSocket' = [chatSocket EXCEPT ![c] = "dropped"]
    BY <1>4 DEF ChatConnects, ChatDrops
  <2>2. Connected' = Connected
    BY <2>1 DEF Connected, ChatInv
  <2> QED
    BY <2>1, <2>2 DEF ChatInv
<1>5. ASSUME NEW c \in ChatSockets, ChatVerified(c) PROVE ChatInv'
  <2>1. /\ chatUser' = chatUser \cup {c} /\ awaitsRole' = awaitsRole \cup {c} /\ chatGauge' = chatGauge
        /\ chatSocket[c] = "verifying" /\ chatSocket' = [chatSocket EXCEPT ![c] = "open"]
    BY <1>5 DEF ChatVerified
  <2>2. c \notin chatUser /\ c \notin awaitsRole /\ c \notin Connected
    BY <2>1 DEF ChatInv, Connected
  <2>3. Connected' = Connected \cup {c}
    BY <2>1, <2>2 DEF Connected, ChatInv
  <2>4. Cardinality(awaitsRole') = Cardinality(awaitsRole) + 1 /\ Cardinality(Connected') = Cardinality(Connected) + 1
    BY Zenon, <1>1, <2>1, <2>2, <2>3, FS_AddElement
  <2>5. chatGauge' + Cardinality(awaitsRole') = Cardinality(Connected')
    BY <1>1, <2>1, <2>4 DEF ChatInv
  <2> QED
    BY <2>1, <2>5 DEF ChatInv
<1>6. ASSUME NEW c \in ChatSockets, RoleResolved(c) \/ RoleLookupFails(c) PROVE ChatInv'
  <2>1. /\ chatUser' = chatUser /\ awaitsRole' = awaitsRole \ {c} /\ chatGauge' = chatGauge + 1
        /\ c \in awaitsRole /\ chatSocket' = chatSocket
    BY <1>6 DEF RoleResolved, RoleLookupFails
  <2>2. Connected' = Connected
    BY <2>1 DEF Connected
  <2>3. Cardinality(awaitsRole') = Cardinality(awaitsRole) - 1
    BY <1>1, <2>1, FS_RemoveElement
  <2> QED
    BY <1>1, <2>1, <2>2, <2>3 DEF ChatInv
<1>7. ASSUME NEW c \in ChatSockets, ChatHandleDisconnect(c) PROVE ChatInv'
  <2>1. /\ chatUser' = chatUser /\ awaitsRole' = awaitsRole
        /\ chatGauge' = IF c \in chatUser THEN chatGauge - 1 ELSE chatGauge
        /\ chatSocket[c] = "dropped" /\ chatSocket' = [chatSocket EXCEPT ![c] = "closed"]
    BY <1>7 DEF ChatHandleDisconnect
  <2>2. Connected' = Connected \ {c}
    BY <2>1 DEF Connected, ChatInv
  <2>3. chatGauge' + Cardinality(awaitsRole') = Cardinality(Connected')
    <3>1. CASE c \in chatUser
      <4>1. c \in Connected
        BY <2>1, <3>1 DEF Connected
      <4>2. Cardinality(Connected') = Cardinality(Connected) - 1
        BY <1>1, <2>2, <4>1, FS_RemoveElement
      <4> QED
        BY <1>1, <2>1, <3>1, <4>2 DEF ChatInv
    <3>2. CASE c \notin chatUser
      <4>1. Connected' = Connected
        BY <2>2, <3>2 DEF Connected
      <4> QED
        BY <2>1, <3>2, <4>1 DEF ChatInv
    <3> QED
      BY <3>1, <3>2
  <2> QED
    BY <2>1, <2>3 DEF ChatInv
<1>8. ASSUME NEW c \in ChatSockets, ChatSubscribeAsks(c) \/ ChatSubscribeAdds(c) \/ ChatUnsubscribes(c) PROVE ChatInv'
  BY <1>2, <1>8, Zenon DEF ChatSubscribeAsks, ChatSubscribeAdds, ChatUnsubscribes
<1>9. CASE PublishMessage \/ ChatLinkDrops \/ ChatLinkReady
  BY <1>2, <1>9, Zenon DEF PublishMessage, ChatLinkDrops, ChatLinkReady
<1> QED
  BY <1>3, <1>4, <1>5, <1>6, <1>7, <1>8, <1>9 DEF ChatNext

\* However many sockets drop inside handleConnection, the gauge ends up counting the connected
\* users, for any number of sockets (handleConnection, handleDisconnect).
THEOREM GaugeSettles == ChatSpec => []ChatGaugeSettles
<1>1. ChatInit => ChatInv
  <2> SUFFICES ASSUME ChatInit PROVE ChatInv
    OBVIOUS
  <2>1. chatUser = {} /\ awaitsRole = {} /\ chatGauge = 0 /\ Connected = {}
    BY DEF ChatInit, Connected
  <2>2. chatSocket \in [ChatSockets -> {"new", "verifying", "open", "dropped", "closed"}]
    BY DEF ChatInit
  <2> QED
    BY <2>1, <2>2, FS_EmptySet DEF ChatInv
<1>2. ChatInv => ChatGaugeSettles
  <2> SUFFICES ASSUME ChatInv, awaitsRole = {} PROVE chatGauge = Cardinality(Connected)
    BY DEF ChatGaugeSettles, Connected
  <2>1. Cardinality(awaitsRole) = 0
    BY FS_EmptySet
  <2> QED
    BY <2>1 DEF ChatInv
<1> QED
  BY <1>1, <1>2, ChatNextKeeps, PTL DEF ChatSpec

----------------------------------------------------------------------------
(* TrackingStore.                                                          *)

\* The age a row may have when a checkpoint job is over: every fault so far may have cost
\* it one interval.
Late(k) == (k + 1) * CHECKPOINT_INTERVAL

Popped(d) == d \in drain.ids

\* A row whose refresh is in the worker's hands is at most one interval behind; an outage
\* that hits the batch has been counted as a fault.
PoppedBound(d) ==
  Popped(d) =>
    /\ trackRow[d].age <= Late(trackFaults) + CHECKPOINT_INTERVAL
    /\ ~redisUp => trackRow[d].age <= Late(trackFaults)

\* A row that waits for the next job has aged since the last one.  In an outage it is an
\* interval better off, the outage being a fault, until a job has come and gone without
\* Redis; from then on the first frame writes through.
WaitingBound(d) ==
  ~Popped(d) =>
    /\ trackRow[d].age <= Late(trackFaults) + sinceDrain
    /\ ~redisUp => \/ trackRow[d].age + CHECKPOINT_INTERVAL <= Late(trackFaults) + sinceDrain
                   \/ sinceDrain = 0
                   \/ sinceDrain = 1 /\ d \notin framed

\* A row that is neither dirty nor popped although frames came since the last job was
\* written through by them.
CleanIsFresh(d) ==
  ~Popped(d) /\ d \notin dirty /\ (sinceDrain > 1 \/ (sinceDrain = 1 /\ d \in framed))
    => trackRow[d].age <= sinceDrain

MarkedIsHot(d) == Popped(d) \/ d \in dirty => hotPos[d] # "none"

RowBound(d) == PoppedBound(d) /\ WaitingBound(d) /\ CleanIsFresh(d) /\ MarkedIsHot(d)

Drains == [ids : SUBSET Tracked, read : [of : SUBSET Tracked, pos : Freshness]]

TrackRows == [pos : Freshness, age : 0..WATCHDOG_SILENCE]

\* The types; a batch in hand means that the job has just begun, and an outage is a fault.
TrackTypes ==
  /\ craft \in [Tracked -> {"flying", "lost", "reaped"}]
  /\ trackRow \in [Tracked -> TrackRows]
  /\ hotPos \in [Tracked -> Freshness]
  /\ dirty \in SUBSET Tracked /\ framed \in SUBSET Tracked
  /\ redisUp \in BOOLEAN
  /\ drain \in Drains /\ drain.read.of \subseteq drain.ids
  /\ sinceDrain \in 0..CHECKPOINT_INTERVAL
  /\ trackFaults \in 0..MaxFaults
  /\ drain # Idle => sinceDrain = 0
  /\ ~redisUp => trackFaults > 0

TrackInv == TrackTypes /\ \A d \in Tracked : craft[d] = "flying" => RowBound(d)

\* What the theorem asks of the deployment: two frames or more to an interval, a batch that
\* takes every delivery in flight, and at most two faults.
Provisioned ==
  /\ CHECKPOINT_INTERVAL >= 2 /\ MaxFaults <= 2
  /\ IsFiniteSet(Tracked) /\ Cardinality(Tracked) <= CHECKPOINT_BATCH

LEMMA TrackConstants ==
  /\ CHECKPOINT_INTERVAL \in Nat /\ CHECKPOINT_INTERVAL > 0
  /\ WATCHDOG_SILENCE \in Nat /\ WATCHDOG_SILENCE > 0
  /\ CHECKPOINT_BATCH \in Nat /\ MaxFaults \in Nat
  /\ CHECKPOINT_INTERVAL * 4 < WATCHDOG_SILENCE
BY CheckpointSafe DEF CheckpointSafe, CHECKPOINT_SAFETY_FACTOR

\* One more fault, one more interval.
LEMMA LateIs ==
  ASSUME NEW k \in Nat
  PROVE  /\ Late(k) \in Nat
         /\ Late(k + 1) = Late(k) + CHECKPOINT_INTERVAL
         /\ Late(k) >= CHECKPOINT_INTERVAL
         /\ k > 0 => Late(k) >= 2 * CHECKPOINT_INTERVAL
         /\ k <= 2 => Late(k) + CHECKPOINT_INTERVAL <= CHECKPOINT_INTERVAL * 4
<1>1. PICK i \in Nat : i = CHECKPOINT_INTERVAL
  BY TrackConstants
<1>2. Late(k) = k * i + i /\ Late(k + 1) = (k + 1) * i + i /\ k * i \in Nat
  BY <1>1 DEF Late
<1>3. (k + 1) * i = k * i + i
  OBVIOUS
<1>4. k > 0 => k * i >= i
  <2>1. CASE k > 0
    <3>1. PICK j \in Nat : k = j + 1
      BY <2>1
    <3>2. k * i = j * i + i /\ j * i \in Nat
      BY <3>1
    <3> QED
      BY <3>2
  <2> QED
    BY <2>1
<1>5. k <= 2 => k * i <= 2 * i
  <2>1. CASE k = 0
    BY <2>1
  <2>2. CASE k = 1
    BY <2>2
  <2>3. CASE k = 2
    BY <2>3
  <2> QED
    BY <2>1, <2>2, <2>3
<1> QED
  BY <1>1, <1>2, <1>3, <1>4, <1>5

LEMMA MinOfTwo ==
  ASSUME NEW a \in Nat, NEW b \in Nat
  PROVE  Min({a, b}) = IF a <= b THEN a ELSE b
BY DEF Min

\* What a drain pops when the batch is large enough: everything.
LEMMA PopsAll ==
  ASSUME Provisioned, TrackTypes, NEW ids \in SUBSET dirty,
         Cardinality(ids) = Min({Cardinality(dirty), CHECKPOINT_BATCH})
  PROVE  ids = dirty
<1>1. IsFiniteSet(dirty) /\ Cardinality(dirty) \in Nat /\ Cardinality(dirty) <= Cardinality(Tracked)
      /\ Cardinality(Tracked) \in Nat
  BY FS_Subset, FS_CardinalityType DEF Provisioned, TrackTypes
<1>2. Cardinality(dirty) <= CHECKPOINT_BATCH
  BY <1>1, TrackConstants DEF Provisioned
<1>3. Cardinality(ids) = Cardinality(dirty)
  BY <1>1, <1>2, MinOfTwo, TrackConstants
<1> QED
  BY Zenon, <1>1, <1>3, FS_Subset

LEMMA TrackInitHolds == TrackingInit => TrackInv
<1> SUFFICES ASSUME TrackingInit PROVE TrackInv
  OBVIOUS
<1>1. TrackTypes
  BY SMTT(30), TrackConstants DEF TrackTypes, TrackingInit, TrackRows, Freshness, Idle, NothingRead, Drains
<1>2. ASSUME NEW d \in Tracked PROVE RowBound(d)
  <2>1. trackRow[d].age = 0 /\ sinceDrain = 0 /\ trackFaults = 0 /\ redisUp = TRUE /\ dirty = {} /\ drain.ids = {}
    BY DEF TrackingInit, Idle
  <2>2. Late(0) \in Nat
    BY LateIs
  <2> QED
    BY <2>1, <2>2 DEF RowBound, PoppedBound, WaitingBound, CleanIsFresh, MarkedIsHot, Popped
<1> QED
  BY Zenon, <1>1, <1>2 DEF TrackInv

\* What is known of one delivery in flight, in numbers.
LEMMA RowFacts ==
  ASSUME TrackTypes, NEW d \in Tracked
  PROVE  /\ trackRow[d].age \in Nat /\ sinceDrain \in Nat /\ sinceDrain <= CHECKPOINT_INTERVAL
         /\ trackFaults \in Nat /\ trackFaults <= MaxFaults
         /\ Late(trackFaults) \in Nat /\ Late(trackFaults) >= CHECKPOINT_INTERVAL
         /\ ~redisUp => Late(trackFaults) >= 2 * CHECKPOINT_INTERVAL
<1>1. trackRow[d] \in [pos : Freshness, age : 0..WATCHDOG_SILENCE]
  BY Zenon DEF TrackTypes, TrackRows
<1>2. /\ trackRow[d].age \in Nat /\ sinceDrain \in Nat /\ sinceDrain <= CHECKPOINT_INTERVAL
      /\ trackFaults \in Nat /\ trackFaults <= MaxFaults /\ (~redisUp => trackFaults > 0)
  BY <1>1, TrackConstants DEF TrackTypes
<1> QED
  BY <1>2, LateIs

\* A step that leaves the row, the marks, the batch and the clock of a delivery alone keeps
\* its bounds; a fault only loosens them.
LEMMA BoundsCarry ==
  ASSUME TrackTypes, TrackTypes', NEW d \in Tracked, RowBound(d),
         trackRow'[d] = trackRow[d], hotPos'[d] = hotPos[d], redisUp' = redisUp,
         Popped(d)' <=> Popped(d), d \in dirty' <=> d \in dirty,
         d \in framed' <=> d \in framed, sinceDrain' = sinceDrain,
         trackFaults' \in {trackFaults, trackFaults + 1}
  PROVE  RowBound(d)'
<1>1. /\ trackFaults \in Nat /\ Late(trackFaults) \in Nat
      /\ trackRow[d].age \in Nat /\ sinceDrain \in Nat
  BY Zenon, RowFacts
<1>2. Late(trackFaults') \in Nat /\ Late(trackFaults') >= Late(trackFaults)
  BY <1>1, LateIs, TrackConstants
<1>3. PoppedBound(d)'
  BY SMTT(30), <1>1, <1>2, TrackConstants DEF RowBound, PoppedBound
<1>4. WaitingBound(d)'
  BY SMTT(30), <1>1, <1>2, TrackConstants DEF RowBound, WaitingBound
<1> QED
  BY Zenon, <1>3, <1>4 DEF RowBound, CleanIsFresh, MarkedIsHot

\* A row that has just been written is within every bound.
LEMMA FreshIsBound ==
  ASSUME TrackTypes', NEW d \in Tracked, trackRow'[d].age = 0, (MarkedIsHot(d))'
  PROVE  RowBound(d)'
<1>1. /\ sinceDrain' \in Nat /\ trackFaults' \in Nat
      /\ Late(trackFaults') \in Nat /\ Late(trackFaults') >= CHECKPOINT_INTERVAL
  BY LateIs, TrackConstants DEF TrackTypes
<1> QED
  BY SMTT(30), <1>1, TrackConstants DEF RowBound, PoppedBound, WaitingBound, CleanIsFresh

\* One step keeps the types.
LEMMA TrackTypesKept ==
  ASSUME TrackTypes, TrackingNext
  PROVE  TrackTypes'
<1>1. /\ drain.ids \in SUBSET Tracked /\ drain.read.of \in SUBSET Tracked /\ drain.read.pos \in Freshness
      /\ drain = [ids |-> drain.ids, read |-> [of |-> drain.read.of, pos |-> drain.read.pos]]
  BY DEF TrackTypes, Drains
<1>2. \A p \in Freshness : Aged(p) \in Freshness
  BY DEF Freshness, Aged
<1>3. ASSUME NEW d \in Tracked, NEW p \in Freshness
      PROVE  /\ [trackRow EXCEPT ![d] = [pos |-> p, age |-> 0]] \in [Tracked -> TrackRows]
             /\ [trackRow EXCEPT ![d].pos = Aged(@)] \in [Tracked -> TrackRows]
             /\ [hotPos EXCEPT ![d] = p] \in [Tracked -> Freshness]
             /\ [hotPos EXCEPT ![d] = Aged(@)] \in [Tracked -> Freshness]
  BY <1>2, TrackConstants DEF TrackTypes, TrackRows
<1>4. /\ NothingRead \in [of : SUBSET Tracked, pos : Freshness] /\ NothingRead.of = {}
      /\ Idle \in Drains /\ Idle.read.of = {} /\ {"none", "latest"} \subseteq Freshness
  BY DEF Idle, Drains, NothingRead, Freshness
<1>5. Fault => trackFaults' \in 0..MaxFaults /\ trackFaults' > 0
  BY TrackConstants DEF Fault, MayFault, TrackTypes
<1>6. ASSUME NEW d \in Tracked, WritePosition(d) PROVE TrackTypes'
  <2>1. drain' \in Drains /\ drain'.ids = drain.ids /\ drain'.read.of = drain.read.of /\ (drain = Idle => drain' = Idle)
    <3>1. CASE d \in drain.read.of
      <4>1. drain' = [ids |-> drain.ids, read |-> [of |-> drain.read.of, pos |-> Aged(drain.read.pos)]]
        BY <1>1, <1>6, <3>1 DEF WritePosition, DemotesRead
      <4>2. Aged(drain.read.pos) \in Freshness /\ drain # Idle
        BY <1>1, <1>2, <1>4, <3>1
      <4> QED
        BY <1>1, <4>1, <4>2 DEF Drains
    <3>2. CASE d \notin drain.read.of
      BY <1>6, <3>2 DEF WritePosition, DemotesRead, TrackTypes
    <3> QED
      BY Zenon, <3>1, <3>2
  <2>2. hotPos' \in [Tracked -> Freshness] /\ trackRow' \in [Tracked -> TrackRows] /\ dirty' \in SUBSET Tracked
    <3>1. hotPos' \in {[hotPos EXCEPT ![d] = "latest"], [hotPos EXCEPT ![d] = Aged(@)]}
      BY <1>6 DEF WritePosition, HotWrite
    <3>2. trackRow' \in {[trackRow EXCEPT ![d] = [pos |-> "latest", age |-> 0]], [trackRow EXCEPT ![d].pos = Aged(@)]}
      BY <1>6 DEF WritePosition, Fallback, RowWrite
    <3>3. dirty' \in {dirty, dirty \cup {d}}
      BY Zenon, <1>6 DEF WritePosition, HotWrite
    <3>4. dirty' \in SUBSET Tracked
      BY <3>3 DEF TrackTypes
    <3>5. "latest" \in Freshness
      BY <1>4
    <3>6. /\ [trackRow EXCEPT ![d] = [pos |-> "latest", age |-> 0]] \in [Tracked -> TrackRows]
          /\ [trackRow EXCEPT ![d].pos = Aged(@)] \in [Tracked -> TrackRows]
          /\ [hotPos EXCEPT ![d] = "latest"] \in [Tracked -> Freshness]
          /\ [hotPos EXCEPT ![d] = Aged(@)] \in [Tracked -> Freshness]
      BY <1>3, <3>5
    <3>7. hotPos' \in [Tracked -> Freshness]
      BY <3>1, <3>6
    <3>8. trackRow' \in [Tracked -> TrackRows]
      BY <3>2, <3>6
    <3> QED
      BY <3>4, <3>7, <3>8
  <2>3. trackFaults' \in 0..MaxFaults /\ (~redisUp => trackFaults' > 0)
    BY <1>5, <1>6 DEF WritePosition, TrackTypes
  <2> QED
    BY Zenon, <1>6, <2>1, <2>2, <2>3 DEF WritePosition, TrackTypes
<1>7. ASSUME NEW d \in Tracked, ReapSilent(d) \/ LosesComms(d) \/ HotExpires(d) PROVE TrackTypes'
  BY <1>3, <1>4, <1>7 DEF ReapSilent, LosesComms, HotExpires, TrackTypes
<1>8. CASE DrainPop
  <2>1. drain' \in Drains /\ drain'.read.of \subseteq drain'.ids /\ dirty' \in SUBSET Tracked
    <3>1. CASE redisUp
      <4>1. PICK ids \in SUBSET dirty : drain' = [ids |-> ids, read |-> NothingRead] /\ dirty' = dirty \ ids
        BY Zenon, <1>8, <3>1 DEF DrainPop
      <4> QED
        BY Zenon, <1>4, <4>1 DEF Drains, TrackTypes
    <3>2. CASE ~redisUp
      BY <1>8, <3>2 DEF DrainPop, TrackTypes
    <3> QED
      BY Zenon, <3>1, <3>2
  <2> QED
    BY SMTT(30), <1>8, <2>1, TrackConstants DEF DrainPop, TrackTypes
<1>9. CASE DrainRead
  <2>1. PICK d \in drain.ids :
          drain' = IF hotPos[d] = "none" THEN [drain EXCEPT !.ids = @ \ {d}]
                   ELSE [drain EXCEPT !.read = [of |-> {d}, pos |-> hotPos[d]]]
    BY Zenon, <1>9 DEF DrainRead
  <2>2. drain # Idle
    BY <2>1 DEF Idle
  <2>3. hotPos[d] \in Freshness /\ d \in Tracked
    BY <1>1, <2>1 DEF TrackTypes
  <2>4. drain' \in Drains /\ drain'.read.of \subseteq drain'.ids
    <3>1. CASE hotPos[d] = "none"
      <4>1. drain' = [ids |-> drain.ids \ {d}, read |-> NothingRead]
        BY Zenon, <1>1, <1>9, <2>1, <3>1 DEF DrainRead
      <4> QED
        BY <1>1, <1>4, <4>1 DEF Drains
    <3>2. CASE hotPos[d] # "none"
      <4>1. drain' = [ids |-> drain.ids, read |-> [of |-> {d}, pos |-> hotPos[d]]]
        BY Zenon, <1>1, <2>1, <3>2
      <4> QED
        BY <1>1, <2>3, <4>1 DEF Drains
    <3> QED
      BY Zenon, <3>1, <3>2
  <2> QED
    BY <1>9, <2>2, <2>4 DEF DrainRead, TrackTypes
<1>10. CASE DrainUpsert
  <2>1. PICK d \in drain.read.of : /\ trackRow' = [trackRow EXCEPT ![d] = [pos |-> drain.read.pos, age |-> 0]]
                                   /\ drain' = [ids |-> drain.ids \ {d}, read |-> NothingRead]
    BY Zenon, <1>10 DEF DrainUpsert, RowWrite
  <2>2. drain # Idle /\ d \in Tracked
    BY Zenon, <1>1, <1>4, <2>1
  <2>3. drain' \in Drains /\ drain'.read.of \subseteq drain'.ids
    BY <1>1, <1>4, <2>1 DEF Drains
  <2> QED
    BY Zenon, <1>1, <1>3, <1>10, <2>1, <2>2, <2>3 DEF DrainUpsert, TrackTypes
<1>11. CASE DrainFails
  <2>1. PICK d \in drain.ids : /\ Remark(d)
                               /\ \/ drain' = [drain EXCEPT !.ids = @ \ {d}] /\ drain.read.of = {}
                                  \/ drain' = [ids |-> drain.ids \ {d}, read |-> NothingRead]
    BY <1>11 DEF DrainFails, TrackTypes
  <2>2. drain # Idle /\ d \in Tracked
    BY <1>1, <2>1 DEF Idle
  <2>3. drain' \in Drains /\ drain'.read.of \subseteq drain'.ids
    <3>1. CASE drain' = [ids |-> drain.ids \ {d}, read |-> NothingRead]
      BY Zenon, <1>1, <1>4, <3>1 DEF Drains
    <3>2. CASE drain' = [drain EXCEPT !.ids = @ \ {d}] /\ drain.read.of = {}
      <4>1. drain' = [ids |-> drain.ids \ {d}, read |-> [of |-> {}, pos |-> drain.read.pos]]
        BY <1>1, <3>2
      <4> QED
        BY <1>1, <4>1 DEF Drains
    <3> QED
      BY Zenon, <2>1, <3>1, <3>2
  <2>4. dirty' \in SUBSET Tracked
    BY <2>1, <2>2 DEF Remark, TrackTypes
  <2>5. trackFaults' \in 0..MaxFaults /\ (~redisUp => trackFaults' > 0)
    BY Zenon, <1>5, <1>11 DEF DrainFails, TrackTypes
  <2> QED
    BY <1>11, <2>2, <2>3, <2>4, <2>5 DEF DrainFails, TrackTypes
<1>12. CASE DrainDies
  BY Zenon, <1>4, <1>5, <1>12 DEF DrainDies, TrackTypes
<1>13. CASE RedisFails \/ RedisReturns
  BY Zenon, <1>5, <1>13 DEF RedisFails, RedisReturns, TrackTypes
<1>14. CASE Tick
  <2>1. ASSUME NEW d \in Tracked PROVE trackRow'[d] \in TrackRows
    <3>1. trackRow[d] \in TrackRows /\ trackRow[d].age \in 0..WATCHDOG_SILENCE
      BY Zenon DEF TrackTypes, TrackRows
    <3>2. Min({trackRow[d].age + 1, WATCHDOG_SILENCE}) \in 0..WATCHDOG_SILENCE
      BY <3>1, MinOfTwo, TrackConstants
    <3>3. trackRow'[d] = [trackRow[d] EXCEPT !.age = Min({trackRow[d].age + 1, WATCHDOG_SILENCE})]
      BY <1>14 DEF Tick
    <3> QED
      BY <3>1, <3>2, <3>3 DEF TrackRows
  <2>2. trackRow' = [d \in Tracked |-> trackRow'[d]]
    BY <1>14 DEF Tick
  <2>3. trackRow' \in [Tracked -> TrackRows]
    BY <2>1, <2>2
  <2>4. sinceDrain' \in 0..CHECKPOINT_INTERVAL
    BY <1>14, TrackConstants DEF Tick, TrackTypes
  <2> QED
    BY Zenon, <1>14, <2>3, <2>4 DEF Tick, TrackTypes
<1> QED
  BY <1>6, <1>7, <1>8, <1>9, <1>10, <1>11, <1>12, <1>13, <1>14 DEF TrackingNext

\* A frame: into the hash and onto the marks, or through to the row.
LEMMA FrameKeepsBounds ==
  ASSUME Provisioned, TrackTypes, TrackTypes', NEW f \in Tracked, WritePosition(f),
         NEW d \in Tracked, RowBound(d)
  PROVE  RowBound(d)'
<1>1. Popped(d)' <=> Popped(d)
  BY DEF WritePosition, DemotesRead, Popped, TrackTypes, Drains
<1>2. trackFaults' \in {trackFaults, trackFaults + 1}
  BY Zenon DEF WritePosition, Fault
<1>3. CASE d # f
  <2>1. trackRow'[d] = trackRow[d]
    BY <1>3 DEF WritePosition, Fallback, RowWrite, TrackTypes
  <2>2. hotPos'[d] = hotPos[d]
    BY <1>3 DEF WritePosition, HotWrite, TrackTypes
  <2>3. d \in dirty' <=> d \in dirty
    BY <1>3 DEF WritePosition, HotWrite
  <2>4. (d \in framed' <=> d \in framed) /\ redisUp' = redisUp /\ sinceDrain' = sinceDrain
    BY Zenon, <1>3 DEF WritePosition
  <2> QED
    BY <1>1, <1>2, <2>1, <2>2, <2>3, <2>4, BoundsCarry
<1>4. CASE d = f /\ trackRow' = [trackRow EXCEPT ![d] = [pos |-> "latest", age |-> 0]]
  <2>1. trackRow'[d].age = 0
    BY <1>4 DEF TrackTypes
  <2>2. \/ hotPos'[d] = "latest"
        \/ hotPos'[d] = Aged(hotPos[d]) /\ dirty' = dirty
    BY Zenon, <1>4 DEF WritePosition, HotWrite, TrackTypes
  <2>3. hotPos[d] # "none" => hotPos'[d] # "none"
    BY Zenon, <2>2 DEF Aged
  <2>4. MarkedIsHot(d)'
    BY <1>1, <2>2, <2>3 DEF RowBound, MarkedIsHot
  <2> QED
    BY Zenon, <2>1, <2>4, FreshIsBound
<1>5. CASE d = f /\ trackRow' # [trackRow EXCEPT ![d] = [pos |-> "latest", age |-> 0]]
  <2>1. /\ redisUp /\ redisUp' /\ sinceDrain' = sinceDrain /\ trackFaults' = trackFaults
        /\ d \in dirty' /\ hotPos' = [hotPos EXCEPT ![d] = "latest"]
        /\ trackRow' = [trackRow EXCEPT ![d].pos = Aged(@)]
    BY <1>5 DEF WritePosition, HotWrite, Fallback, RowWrite
  <2>2. hotPos'[d] # "none"
    BY <2>1 DEF TrackTypes
  <2>3. trackRow'[d].age = trackRow[d].age
    BY <2>1 DEF TrackTypes, TrackRows
  <2> QED
    BY <1>1, <2>1, <2>2, <2>3 DEF RowBound, PoppedBound, WaitingBound, CleanIsFresh, MarkedIsHot
<1> QED
  BY <1>3, <1>4, <1>5

\* The pop: with Redis up every mark goes into the batch, and what is not marked is fresh.
LEMMA PopKeepsBounds ==
  ASSUME Provisioned, TrackTypes, TrackTypes', DrainPop, NEW d \in Tracked, RowBound(d)
  PROVE  RowBound(d)'
<1>1. /\ drain = Idle /\ sinceDrain = CHECKPOINT_INTERVAL /\ sinceDrain' = 0
      /\ trackRow' = trackRow /\ hotPos' = hotPos /\ redisUp' = redisUp /\ trackFaults' = trackFaults
  BY Zenon DEF DrainPop
<1>2. ~Popped(d)
  BY Zenon, <1>1 DEF Popped, Idle
<1>3. /\ trackRow[d].age \in Nat /\ Late(trackFaults) \in Nat /\ Late(trackFaults) >= CHECKPOINT_INTERVAL
      /\ CHECKPOINT_INTERVAL \in Nat /\ CHECKPOINT_INTERVAL >= 2
  BY Zenon, RowFacts, TrackConstants DEF Provisioned
<1>4. trackRow[d].age <= Late(trackFaults) + CHECKPOINT_INTERVAL
  BY Zenon, <1>1, <1>2 DEF RowBound, WaitingBound
<1>5. CleanIsFresh(d)'
  BY <1>1 DEF CleanIsFresh
<1>6. CASE redisUp
  <2>1. PICK ids \in SUBSET dirty : /\ Cardinality(ids) = Min({Cardinality(dirty), CHECKPOINT_BATCH})
                                    /\ drain' = [ids |-> ids, read |-> NothingRead] /\ dirty' = dirty \ ids
    BY Zenon, <1>6 DEF DrainPop
  <2>2. ids = dirty
    BY Zenon, <2>1, PopsAll
  <2>3. (Popped(d)' <=> d \in dirty) /\ d \notin dirty'
    BY Zenon, <2>1, <2>2 DEF Popped
  <2>4. d \notin dirty => trackRow[d].age <= Late(trackFaults)
    BY SMTT(30), <1>1, <1>2, <1>3 DEF RowBound, CleanIsFresh
  <2>5. MarkedIsHot(d)'
    BY <1>1, <2>3 DEF RowBound, MarkedIsHot
  <2>6. PoppedBound(d)' /\ WaitingBound(d)'
    BY SMTT(30), <1>1, <1>3, <1>4, <1>6, <2>3, <2>4 DEF PoppedBound, WaitingBound
  <2> QED
    BY Zenon, <1>5, <2>5, <2>6 DEF RowBound
<1>7. CASE ~redisUp
  <2>1. drain' = drain /\ dirty' = dirty
    BY Zenon, <1>7 DEF DrainPop
  <2>2. ~Popped(d)'
    BY <1>2, <2>1 DEF Popped
  <2>3. trackRow[d].age <= Late(trackFaults)
    <3> DEFINE a == trackRow[d].age  l == Late(trackFaults)  i == CHECKPOINT_INTERVAL
    <3>1. a + i <= l + i \/ i = 0 \/ i = 1
      BY Zenon, <1>1, <1>2, <1>7 DEF RowBound, WaitingBound
    <3>2. a \in Nat /\ l \in Nat /\ i \in Nat /\ i >= 2
      BY Zenon, <1>3
    <3> HIDE DEF a, l, i
    <3>3. a <= l
      BY <3>1, <3>2
    <3> QED
      BY Zenon, <3>3 DEF a, l
  <2>4. MarkedIsHot(d)'
    BY Zenon, <1>1, <1>2, <2>1, <2>2 DEF RowBound, MarkedIsHot
  <2>5. PoppedBound(d)' /\ WaitingBound(d)'
    BY <1>1, <1>3, <1>7, <2>2, <2>3 DEF PoppedBound, WaitingBound
  <2> QED
    BY Zenon, <1>5, <2>4, <2>5 DEF RowBound
<1> QED
  BY Zenon, <1>6, <1>7

\* A step of the job that leaves a delivery in the batch, or out of it.
LEMMA BatchCarries ==
  ASSUME TrackTypes, TrackTypes', NEW d \in Tracked, RowBound(d),
         trackRow'[d] = trackRow[d], hotPos' = hotPos, redisUp' = redisUp, dirty \subseteq dirty',
         d \in dirty' => d \in dirty \/ Popped(d),
         Popped(d)' => Popped(d), framed' = framed, sinceDrain' = sinceDrain, drain # Idle,
         trackFaults' \in {trackFaults, trackFaults + 1},
         Popped(d) /\ ~Popped(d)' => trackFaults' = trackFaults + 1 \/ ~redisUp
  PROVE  RowBound(d)'
<1>1. /\ trackFaults \in Nat /\ Late(trackFaults) \in Nat
      /\ trackRow[d].age \in Nat /\ sinceDrain = 0 /\ sinceDrain' = 0
  BY Zenon, RowFacts DEF TrackTypes
<1>2. /\ Late(trackFaults') \in Nat /\ Late(trackFaults') >= Late(trackFaults)
      /\ trackFaults' = trackFaults + 1 => Late(trackFaults') = Late(trackFaults) + CHECKPOINT_INTERVAL
  BY SMTT(30), <1>1, LateIs, TrackConstants
<1>3. PoppedBound(d)'
  BY SMTT(30), <1>1, <1>2, TrackConstants DEF RowBound, PoppedBound
<1>4. WaitingBound(d)'
  <2> DEFINE a == trackRow[d].age  l == Late(trackFaults)  m == Late(trackFaults')  i == CHECKPOINT_INTERVAL
  <2>1. Popped(d) => a <= l + i /\ (~redisUp => a <= l)
    BY Zenon DEF RowBound, PoppedBound
  <2>2. ~Popped(d) => a <= l + 0
    BY Zenon, <1>1 DEF RowBound, WaitingBound
  <2>3. Popped(d) /\ ~Popped(d)' => m = l + i \/ ~redisUp
    BY Zenon, <1>2
  <2>4. a \in Nat /\ l \in Nat /\ m \in Nat /\ m >= l
    BY Zenon, <1>1, <1>2
  <2> SUFFICES ASSUME ~Popped(d)' PROVE a <= m + 0
    BY Zenon, <1>1 DEF WaitingBound, Late
  <2>5. (a <= l + i /\ m = l + i) \/ a <= l \/ a <= l + 0
    BY Zenon, <2>1, <2>2, <2>3
  <2> HIDE DEF a, l, m, i
  <2> QED
    BY <2>4, <2>5
<1>5. CleanIsFresh(d)'
  <2>1. ~(sinceDrain' > 1) /\ sinceDrain' # 1
    BY <1>1
  <2> QED
    BY Zenon, <2>1 DEF CleanIsFresh
<1>6. MarkedIsHot(d)'
  BY DEF RowBound, MarkedIsHot
<1> QED
  BY Zenon, <1>3, <1>4, <1>5, <1>6 DEF RowBound

\* The rest of the job.
LEMMA JobKeepsBounds ==
  ASSUME TrackTypes, TrackTypes', DrainRead \/ DrainUpsert \/ DrainFails \/ DrainDies,
         NEW d \in Tracked, RowBound(d)
  PROVE  RowBound(d)'
<1>1. CASE DrainRead
  <2>1. PICK e \in drain.ids :
          drain' = IF hotPos[e] = "none" THEN [drain EXCEPT !.ids = @ \ {e}]
                   ELSE [drain EXCEPT !.read = [of |-> {e}, pos |-> hotPos[e]]]
    BY Zenon, <1>1 DEF DrainRead
  <2>2. drain # Idle
    BY <2>1 DEF Idle
  <2>3. Popped(d) => hotPos[d] # "none"
    BY Zenon DEF RowBound, MarkedIsHot
  <2>4. Popped(d)' <=> Popped(d)
    <3>1. CASE hotPos[e] = "none"
      <4>1. drain'.ids = drain.ids \ {e}
        BY <2>1, <3>1 DEF TrackTypes, Drains
      <4> QED
        BY <2>3, <3>1, <4>1 DEF Popped
    <3>2. CASE hotPos[e] # "none"
      <4>1. drain'.ids = drain.ids
        BY <2>1, <3>2 DEF TrackTypes, Drains
      <4> QED
        BY <4>1 DEF Popped
    <3> QED
      BY Zenon, <3>1, <3>2
  <2>5. /\ trackRow' = trackRow /\ hotPos' = hotPos /\ redisUp' = redisUp /\ dirty' = dirty
        /\ framed' = framed /\ sinceDrain' = sinceDrain /\ trackFaults' = trackFaults
    BY <1>1 DEF DrainRead
  <2> QED
    BY <2>4, <2>5, BoundsCarry
<1>2. CASE DrainUpsert
  <2>1. PICK e \in drain.read.of : /\ trackRow' = [trackRow EXCEPT ![e] = [pos |-> drain.read.pos, age |-> 0]]
                                   /\ drain' = [ids |-> drain.ids \ {e}, read |-> NothingRead]
    BY Zenon, <1>2 DEF DrainUpsert, RowWrite
  <2>2. /\ hotPos' = hotPos /\ redisUp' = redisUp /\ dirty' = dirty
        /\ framed' = framed /\ sinceDrain' = sinceDrain /\ trackFaults' = trackFaults
    BY Zenon, <1>2 DEF DrainUpsert
  <2>3. Popped(d)' <=> Popped(d) /\ d # e
    BY <2>1 DEF Popped
  <2>4. CASE d = e
    <3>1. trackRow'[d].age = 0
      BY Zenon, <2>1, <2>4 DEF TrackTypes
    <3>2. MarkedIsHot(d)'
      BY Zenon, <2>2, <2>3 DEF RowBound, MarkedIsHot
    <3> QED
      BY Zenon, <3>1, <3>2, FreshIsBound
  <2>5. CASE d # e
    <3>1. trackRow'[d] = trackRow[d]
      BY Zenon, <2>1, <2>5 DEF TrackTypes
    <3> QED
      BY Zenon, <2>2, <2>3, <2>5, <3>1, BoundsCarry
  <2> QED
    BY Zenon, <2>4, <2>5
<1>3. CASE DrainFails
  <2>1. PICK e \in drain.ids :
          /\ Remark(e)
          /\ \/ drain' = [drain EXCEPT !.ids = @ \ {e}] /\ ~redisUp /\ trackFaults' = trackFaults
             \/ drain' = [ids |-> drain.ids \ {e}, read |-> NothingRead] /\ trackFaults' = trackFaults + 1
    BY <1>3 DEF DrainFails, Fault, TrackTypes
  <2>2. drain # Idle
    BY <2>1 DEF Idle
  <2>3. drain'.ids = drain.ids \ {e}
    BY <2>1 DEF TrackTypes, Drains
  <2>4. dirty \subseteq dirty' /\ (d \in dirty' => d \in dirty \/ Popped(d)) /\ (Popped(d)' => Popped(d))
    BY <2>1, <2>3 DEF Remark, Popped
  <2>5. /\ trackRow' = trackRow /\ hotPos' = hotPos /\ redisUp' = redisUp
        /\ framed' = framed /\ sinceDrain' = sinceDrain
    BY <1>3 DEF DrainFails
  <2>6. trackFaults' \in {trackFaults, trackFaults + 1} /\ (trackFaults' = trackFaults + 1 \/ ~redisUp)
    BY Zenon, <2>1
  <2> QED
    BY <2>2, <2>4, <2>5, <2>6, BatchCarries
<1>4. CASE DrainDies
  <2>1. /\ trackRow' = trackRow /\ hotPos' = hotPos /\ redisUp' = redisUp /\ dirty' = dirty
        /\ framed' = framed /\ sinceDrain' = sinceDrain /\ trackFaults' = trackFaults + 1
        /\ drain' = Idle /\ drain # Idle
    BY Zenon, <1>4 DEF DrainDies, Fault
  <2>2. ~Popped(d)'
    BY Zenon, <2>1 DEF Popped, Idle
  <2> QED
    BY Zenon, <2>1, <2>2, BatchCarries
<1> QED
  BY Zenon, <1>1, <1>2, <1>3, <1>4

\* Redis goes and comes.
LEMMA OutageKeepsBounds ==
  ASSUME TrackTypes, TrackTypes', RedisFails \/ RedisReturns, NEW d \in Tracked, RowBound(d)
  PROVE  RowBound(d)'
<1>1. /\ trackRow' = trackRow /\ hotPos' = hotPos /\ drain' = drain /\ dirty' = dirty
      /\ framed' = framed /\ sinceDrain' = sinceDrain
      /\ \/ redisUp /\ ~redisUp' /\ trackFaults' = trackFaults + 1
         \/ ~redisUp /\ redisUp' /\ trackFaults' = trackFaults
  BY Zenon DEF RedisFails, RedisReturns, Fault
<1>2. /\ trackFaults \in Nat /\ Late(trackFaults) \in Nat
      /\ trackRow[d].age \in Nat /\ sinceDrain \in Nat
  BY Zenon, RowFacts
<1>3. trackFaults' = trackFaults + 1 => Late(trackFaults') = Late(trackFaults) + CHECKPOINT_INTERVAL
  BY Zenon, <1>2, LateIs
<1>4. Popped(d)' <=> Popped(d)
  BY Zenon, <1>1 DEF Popped
<1>5. PoppedBound(d)'
  BY SMTT(30), <1>1, <1>2, <1>3, <1>4, TrackConstants DEF RowBound, PoppedBound
<1>6. WaitingBound(d)'
  BY SMTT(30), <1>1, <1>2, <1>3, <1>4, TrackConstants DEF RowBound, WaitingBound
<1> QED
  BY Zenon, <1>1, <1>4, <1>5, <1>6 DEF RowBound, CleanIsFresh, MarkedIsHot

\* A tick ages every row, and every drone in the air has sent its frame.
LEMMA TickKeepsBounds ==
  ASSUME Provisioned, TrackTypes, TrackTypes', Tick, NEW d \in Tracked, craft[d] = "flying", RowBound(d)
  PROVE  RowBound(d)'
<1>1. /\ d \in framed /\ drain = Idle /\ drain' = drain /\ sinceDrain' = sinceDrain + 1 /\ framed' = {}
      /\ hotPos' = hotPos /\ dirty' = dirty /\ redisUp' = redisUp /\ trackFaults' = trackFaults
      /\ trackRow'[d] = [trackRow[d] EXCEPT !.age = Min({@ + 1, WATCHDOG_SILENCE})]
  BY Zenon DEF Tick
<1>2. /\ Late(trackFaults) \in Nat /\ trackRow[d].age \in Nat /\ sinceDrain \in Nat
  BY RowFacts
<1>3. trackRow'[d].age = Min({trackRow[d].age + 1, WATCHDOG_SILENCE})
  BY <1>1 DEF TrackTypes, TrackRows
<1>4. trackRow'[d].age \in Nat /\ trackRow'[d].age <= trackRow[d].age + 1
  BY <1>2, <1>3, MinOfTwo, TrackConstants
<1>5. ~Popped(d) /\ ~Popped(d)'
  BY Zenon, <1>1 DEF Popped, Idle
<1>6. PoppedBound(d)'
  BY <1>5 DEF PoppedBound
<1>7. WaitingBound(d)'
  BY <1>1, <1>2, <1>4, <1>5, TrackConstants DEF RowBound, WaitingBound
<1>8. CleanIsFresh(d)'
  BY <1>1, <1>2, <1>4, <1>5 DEF RowBound, CleanIsFresh
<1> QED
  BY <1>1, <1>5, <1>6, <1>7, <1>8 DEF RowBound, MarkedIsHot

LEMMA TrackNextKeeps ==
  ASSUME Provisioned, TrackInv, [TrackingNext]_trackingVars
  PROVE  TrackInv'
<1>1. CASE UNCHANGED trackingVars
  BY Zenon, <1>1 DEF trackingVars, TrackInv, TrackTypes, RowBound, PoppedBound, WaitingBound, CleanIsFresh, MarkedIsHot, Popped
<1>2. CASE TrackingNext
  <2>1. TrackTypes /\ TrackTypes'
    BY <1>2, TrackTypesKept DEF TrackInv
  <2>2. ASSUME NEW d \in Tracked, craft'[d] = "flying" PROVE RowBound(d)'
    <3>1. craft[d] = "flying"
      BY Zenon, <1>2, <2>1, <2>2 DEF TrackingNext, WritePosition, ReapSilent, LosesComms, HotExpires, DrainPop, DrainRead,
           DrainUpsert, DrainFails, DrainDies, RedisFails, RedisReturns, Tick, TrackTypes
    <3>2. RowBound(d)
      BY Zenon, <3>1 DEF TrackInv
    <3>3. ASSUME NEW f \in Tracked, ReapSilent(f) \/ LosesComms(f) \/ HotExpires(f) PROVE RowBound(d)'
      <4>1. /\ trackRow' = trackRow /\ drain' = drain /\ dirty' = dirty /\ redisUp' = redisUp
            /\ framed' = framed /\ sinceDrain' = sinceDrain /\ trackFaults' = trackFaults
        BY Zenon, <3>3 DEF ReapSilent, LosesComms, HotExpires
      <4>2. hotPos'[d] = hotPos[d]
        BY Zenon, <2>1, <3>1, <3>3 DEF ReapSilent, LosesComms, HotExpires, TrackTypes
      <4>3. Popped(d)' <=> Popped(d)
        BY <4>1 DEF Popped
      <4> QED
        BY Zenon, <2>1, <3>2, <4>1, <4>2, <4>3, BoundsCarry
    <3> QED
      BY <1>2, <2>1, <3>1, <3>2, <3>3, FrameKeepsBounds, PopKeepsBounds, JobKeepsBounds, OutageKeepsBounds,
         TickKeepsBounds DEF TrackingNext
  <2> QED
    BY <2>1, <2>2 DEF TrackInv
<1> QED
  BY Zenon, <1>1, <1>2

\* The boot assertion pays for two faults: with CHECKPOINT_INTERVAL * 4 < WATCHDOG_SILENCE, at
\* least two frames to an interval and a batch that takes every delivery in flight, no two
\* faults of Redis, of Postgres or of the worker, whenever they strike, make the watchdog fail
\* a delivery whose drone transmits (assertCheckpointSafe, drainDirty, writePosition).
THEOREM TransmittingIsSafe ==
  ASSUME Provisioned
  PROVE  TrackingSpec => []TransmittingIsNeverSilent
<1>1. TrackInv => TransmittingIsNeverSilent
  <2> SUFFICES ASSUME TrackInv, NEW d \in Tracked, craft[d] = "flying" PROVE ~Silent(d)
    BY Zenon DEF TransmittingIsNeverSilent
  <2>1. /\ trackRow[d].age \in Nat /\ sinceDrain \in Nat /\ sinceDrain <= CHECKPOINT_INTERVAL
        /\ trackFaults \in Nat /\ trackFaults <= MaxFaults /\ Late(trackFaults) \in Nat
    BY Zenon, RowFacts DEF TrackInv
  <2>2. trackRow[d].age <= Late(trackFaults) + CHECKPOINT_INTERVAL
    BY <2>1, TrackConstants DEF TrackInv, RowBound, PoppedBound, WaitingBound
  <2>3. Late(trackFaults) + CHECKPOINT_INTERVAL <= CHECKPOINT_INTERVAL * 4
    BY <2>1, LateIs, TrackConstants DEF Provisioned
  <2> QED
    BY <2>1, <2>2, <2>3, TrackConstants DEF Silent
<1> QED
  BY <1>1, TrackInitHolds, TrackNextKeeps, PTL DEF TrackingSpec

=============================================================================
