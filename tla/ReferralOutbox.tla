---------------------------- MODULE ReferralOutbox ----------------------------
(***************************************************************************)
(* A referral from its link at signup to the two wallet credits it earns.  *)
(* The referee's first delivery either grants the reward inside its own    *)
(* transaction or commits an outbox event beside its row; workers claim    *)
(* events, apply them, die, outlive their lease, and the reaper and the    *)
(* recovery sweep return what they left.                                   *)
(***************************************************************************)
EXTENDS Naturals

CONSTANTS
    Orders,                       \* deliveries the referee creates
    Workers,                      \* dispatcher ticks running at once
    OUTBOX_MAX_ATTEMPTS,          \* claims before a row is parked FAILED
    OUTBOX_MAX_RECOVERY_ATTEMPTS  \* claims before it stays FAILED

ASSUME OutboxAssumption ==
    /\ OUTBOX_MAX_ATTEMPTS \in Nat \ {0}
    /\ OUTBOX_MAX_RECOVERY_ATTEMPTS \in Nat
    /\ OUTBOX_MAX_RECOVERY_ATTEMPTS > OUTBOX_MAX_ATTEMPTS

VARIABLES
    referral,   \* the referee's Referral row
    credited,   \* wallet credits written for it, by party
    order,      \* where the referee's create() calls are
    event,      \* the outbox row of an order
    worker      \* processOne calls in progress

outboxVars == <<referral, credited, order, event, worker>>

Parties == {"referrer", "referee"}
EventStatus == {"absent", "PENDING", "PROCESSING", "PROCESSED", "FAILED"}

\* lapsed: claimedAt is older than what the next sweep waits for (lease or backoff).
NoEvent == [status |-> "absent", attempts |-> 0, lapsed |-> FALSE]
IdleWorker == [at |-> "idle", on |-> "none"]

OutboxInit ==
    /\ referral = "none"
    /\ credited = [p \in Parties |-> 0]
    /\ order = [o \in Orders |-> "idle"]
    /\ event = [o \in Orders |-> NoEvent]
    /\ worker = [w \in Workers |-> IdleWorker]

----------------------------------------------------------------------------
(* Signup, and the referee's deliveries.                                   *)

\* signup links an inbound code, best effort, before the referee can order.
LinkReferral ==
    /\ referral = "none" /\ \A o \in Orders : order[o] = "idle"
    /\ referral' = "PENDING"
    /\ UNCHANGED <<credited, order, event, worker>>

GrantReferralReward_Unguarded ==
    /\ referral' = "REWARDED"
    /\ credited' = [p \in Parties |-> credited[p] + 1]

\* maybeGrantReferralRewardWithinTx: PENDING -> REWARDED once, and both credits with it.
GrantReferralReward ==
    IF referral = "PENDING"
    THEN /\ referral' = "REWARDED"
         /\ credited' = [p \in Parties |-> credited[p] + 1]
    ELSE UNCHANGED <<referral, credited>>

\* enqueueWithinTx: the event of the order, under its own idempotency key.
EnqueueWithinTx(o) == event' = [event EXCEPT ![o].status = "PENDING"]

\* create() reads the referral before its transaction.
ReadPendingReferral(o) ==
    /\ order[o] = "idle"
    /\ order' = [order EXCEPT ![o] = IF referral = "PENDING" THEN "reward" ELSE "done"]
    /\ UNCHANGED <<referral, credited, event, worker>>

\* The delivery's transaction: the inline grant, or the event under its own key.
CommitOrder(o) ==
    /\ order[o] = "reward"
    /\ order' = [order EXCEPT ![o] = "done"]
    /\ \/ GrantReferralReward /\ UNCHANGED event
       \/ EnqueueWithinTx(o) /\ UNCHANGED <<referral, credited>>
    /\ UNCHANGED worker

----------------------------------------------------------------------------
(* OutboxService.                                                          *)

\* processOne's claim.
ClaimEvent(w, o) ==
    /\ worker[w].at = "idle" /\ event[o].status = "PENDING"
    /\ event' = [event EXCEPT ![o] = [status |-> "PROCESSING", attempts |-> @.attempts + 1,
                                      lapsed |-> FALSE]]
    /\ worker' = [worker EXCEPT ![w] = [at |-> "apply", on |-> o]]
    /\ UNCHANGED <<referral, credited, order>>

\* applyHandler: the one event type carries the referral reward.
ApplyHandler == GrantReferralReward

\* The handler and the PROCESSED mark commit together, whoever owns the row by now.
ApplyEvent(w) ==
    /\ worker[w].at = "apply"
    /\ ApplyHandler
    /\ event' = [event EXCEPT ![worker[w].on].status = "PROCESSED"]
    /\ worker' = [worker EXCEPT ![w] = IdleWorker]
    /\ UNCHANGED order

\* The transaction fails and the row stays PROCESSING; or the worker dies before it.
ApplyFails(w) ==
    /\ worker[w].at = "apply"
    /\ worker' = [worker EXCEPT ![w] = IdleWorker]
    /\ UNCHANGED <<referral, credited, order, event>>

\* The lease of a claim, or the backoff of a parked row, runs out.
EventLapses(o) ==
    /\ event[o].status \in {"PROCESSING", "FAILED"} /\ ~event[o].lapsed
    /\ event' = [event EXCEPT ![o].lapsed = TRUE]
    /\ UNCHANGED <<referral, credited, order, worker>>

ReapStaleClaims_DropsSpent(o) ==
    /\ event[o].status = "PROCESSING" /\ event[o].lapsed
    /\ event[o].attempts < OUTBOX_MAX_ATTEMPTS
    /\ event' = [event EXCEPT ![o].lapsed = FALSE, ![o].status = "PENDING"]
    /\ UNCHANGED <<referral, credited, order, worker>>

\* reapStaleClaims: back to PENDING, or parked once its attempts are spent.
ReapStaleClaims(o) ==
    /\ event[o].status = "PROCESSING" /\ event[o].lapsed
    /\ event' = [event EXCEPT ![o].lapsed = FALSE,
                   ![o].status = IF event[o].attempts >= OUTBOX_MAX_ATTEMPTS THEN "FAILED"
                                                                            ELSE "PENDING"]
    /\ UNCHANGED <<referral, credited, order, worker>>

\* requeueRecoverableFailed.
RequeueRecoverableFailed(o) ==
    /\ event[o].status = "FAILED" /\ event[o].lapsed
    /\ event[o].attempts < OUTBOX_MAX_RECOVERY_ATTEMPTS
    /\ event' = [event EXCEPT ![o].lapsed = FALSE, ![o].status = "PENDING"]
    /\ UNCHANGED <<referral, credited, order, worker>>

----------------------------------------------------------------------------

OutboxNext ==
    \/ LinkReferral
    \/ \E o \in Orders : \/ ReadPendingReferral(o) \/ CommitOrder(o) \/ EventLapses(o)
                         \/ ReapStaleClaims(o) \/ RequeueRecoverableFailed(o)
    \/ \E w \in Workers : ApplyEvent(w) \/ ApplyFails(w)
    \/ \E w \in Workers, o \in Orders : ClaimEvent(w, o)

OutboxSpec == OutboxInit /\ [][OutboxNext]_outboxVars

\* Ticks keep coming, a claim is worked on or fails, and time passes.
OutboxFairness ==
    /\ \A o \in Orders : /\ WF_outboxVars(CommitOrder(o)) /\ WF_outboxVars(EventLapses(o))
                         /\ WF_outboxVars(ReapStaleClaims(o))
                         /\ WF_outboxVars(RequeueRecoverableFailed(o))
                         /\ SF_outboxVars(\E w \in Workers : ClaimEvent(w, o))
    /\ \A w \in Workers : WF_outboxVars(ApplyEvent(w) \/ ApplyFails(w))

----------------------------------------------------------------------------
(* Properties.                                                             *)

OutboxTypeOK ==
    /\ referral \in {"none", "PENDING", "REWARDED"}
    /\ credited \in [Parties -> Nat]
    /\ order \in [Orders -> {"idle", "reward", "done"}]
    /\ event \in [Orders -> [status : EventStatus, attempts : 0..OUTBOX_MAX_RECOVERY_ATTEMPTS,
                             lapsed : BOOLEAN]]
    /\ worker \in [Workers -> [at : {"idle", "apply"}, on : Orders \cup {"none"}]]

\* Two first deliveries at once, inline or through the outbox, a claim that outlives its lease
\* and a parked row that is replayed pay each party once, and an event is PROCESSED only when
\* the reward has been paid (maybeGrantReferralRewardWithinTx, processOne).
RewardPaidOnce ==
    /\ \A p \in Parties : credited[p] = (IF referral = "REWARDED" THEN 1 ELSE 0)
    /\ \A o \in Orders : event[o].status = "PROCESSED" => referral = "REWARDED"

\* No event is lost: it pays the reward, or is parked after every attempt it is allowed
\* (reapStaleClaims, requeueRecoverableFailed).
RewardArrives ==
    \A o \in Orders :
        event[o].status = "PENDING" ~>
            \/ referral = "REWARDED"
            \/ event[o].status = "FAILED" /\ event[o].attempts = OUTBOX_MAX_RECOVERY_ATTEMPTS

=============================================================================
