------------------------------ MODULE Checkout ------------------------------
(***************************************************************************)
(* The money of a booking: what create() reserves before its delivery      *)
(* exists (a promo slot, wallet credits), the card charge it opens         *)
(* afterwards, the webhooks that settle the charge, what a terminated      *)
(* delivery gives back, the goodwill refund of an administrator, and the   *)
(* sweep for reservations whose delivery never came to be.                 *)
(*                                                                         *)
(* All bookings are of one customer and try one promo code, the case in    *)
(* which they contend.  One action is one transaction or one call of       *)
(* Stripe; every handler may be overtaken between two of them.             *)
(***************************************************************************)
EXTENDS Integers, FiniteSets, FiniteSetsExt

CONSTANTS
    Bookings,             \* delivery ids, minted before anything is written
    PRICE,                \* PricingService.estimate of each of them
    DISCOUNT,             \* what the promo code takes off
    OPENING,              \* User.creditBalance at the start
    MaxRedemptions,       \* PromoCode.maxRedemptions
    IntentEvents,         \* the Stripe event types that can happen
    Faults,               \* "crash", "reserve", "insert", "write": see below
    GraceOutlastsCreate   \* ORPHAN_GRACE_MS exceeds any create() still running

ASSUME CheckoutAssumption ==
    /\ IsFiniteSet(Bookings)
    /\ PRICE \in Nat \ {0} /\ DISCOUNT \in 0..PRICE
    /\ OPENING \in Nat /\ MaxRedemptions \in Nat
    /\ IntentEvents \subseteq {"succeeded", "payment_failed", "processing", "canceled"}
    /\ Faults \subseteq {"crash", "reserve", "insert", "write"}
    /\ GraceOutlastsCreate \in BOOLEAN

VARIABLES
    config,        \* DELIVERY_DEBIT_FIRST and whether Stripe is mocked
    balance,       \* User.creditBalance
    ledger,        \* WalletTransaction: idempotency key -> amount
    promoOpen,     \* PromoCode.active, and now is within its window
    timesRedeemed, \* PromoCode.timesRedeemed
    redemption,    \* PromoRedemption.status by delivery
    row,           \* the delivery: absent, open, or how it ended
    call,          \* the create() of each booking: where it is, what it quoted
    payment,       \* Payment.status by delivery
    intent,        \* external: the PaymentIntent at Stripe
    sent,          \* external: events Stripe delivers, at least once, in any order
    seen,          \* WebhookEvent rows
    tidy,          \* cleanupAfterTermination of each delivery
    sweep          \* the orphan reaper

vars == <<config, balance, ledger, promoOpen, timesRedeemed, redemption, row, call, payment,
          intent, sent, seen, tidy, sweep>>

wallet == <<balance, ledger>>
promo == <<timesRedeemed, redemption>>
stripe == <<payment, intent, sent, seen>>

PaymentStatus == {"PENDING", "PROCESSING", "COMPLETED", "FAILED", "REFUNDED"}
Kinds == {"debit", "refund", "exception-refund", "admin-refund"}
Keys == Kinds \X Bookings
NoSweep == [at |-> "idle"]
NoQuote == [at |-> "idle", promo |-> FALSE, credits |-> 0, total |-> 0]
Refused == [NoQuote EXCEPT !.at = "rejected"]  \* by a validation before any write

CallSteps == {"idle", "redeem", "debit", "insert", "undo_promo", "undo_credits", "intent", "payment",
              "done", "rejected", "dead"}
Sweeps ==
    {NoSweep} \cup [at : {"check"}, of : Bookings]
              \cup [at : {"refund", "release"}, of : Bookings, refund : BOOLEAN, release : BOOLEAN]

Init ==
    /\ config \in [debitFirst : BOOLEAN, mock : BOOLEAN]
    /\ balance = OPENING
    /\ ledger = [k \in Keys |-> 0]
    /\ promoOpen = TRUE
    /\ timesRedeemed = 0
    /\ redemption = [d \in Bookings |-> "none"]
    /\ row = [d \in Bookings |-> "absent"]
    /\ call \in [Bookings -> {NoQuote, Refused}]
    /\ payment = [d \in Bookings |-> "none"]
    /\ intent = [d \in Bookings |-> "none"]
    /\ sent = {} /\ seen = {}
    /\ tidy = [d \in Bookings |-> "none"]
    /\ sweep = NoSweep

----------------------------------------------------------------------------
(* Wallet and promo code.                                                  *)

\* A ledger row is written with its balance change, and its key only once.
Written(kind, d) == ledger[<<kind, d>>] > 0
Post(kind, d, amount, delta) ==
    /\ balance' = balance + delta
    /\ ledger' = [ledger EXCEPT ![<<kind, d>>] = amount]

\* creditWithinTx: the unique key makes a second credit of one kind a no-op.
CreditWithinTx(kind, d, amount) ==
    IF Written(kind, d) \/ amount = 0 THEN UNCHANGED wallet
    ELSE Post(kind, d, amount, amount)

DebitWithinTx_Clamped(d) == Post("debit", d, call[d].credits, -Min({balance, call[d].credits}))

\* debitWithinTx: the conditional decrement, and its ledger row.
DebitWithinTx(d) ==
    /\ balance >= call[d].credits
    /\ Post("debit", d, call[d].credits, -call[d].credits)

\* refundForDelivery: what the delivery spent, back under refund:<id>.
RefundForDelivery(d) == CreditWithinTx("refund", d, ledger[<<"debit", d>>])

RefundChargeToWallet_AnyStatus(d) ==
    IF payment[d] \notin {"none", "REFUNDED"}
    THEN /\ payment' = [payment EXCEPT ![d] = "REFUNDED"]
         /\ CreditWithinTx("exception-refund", d, call[d].total)
    ELSE UNCHANGED <<payment, wallet>>

\* refundChargeToWallet: only the winner of COMPLETED -> REFUNDED credits the charge.
RefundChargeToWallet(d) ==
    IF payment[d] = "COMPLETED"
    THEN /\ payment' = [payment EXCEPT ![d] = "REFUNDED"]
         /\ CreditWithinTx("exception-refund", d, call[d].total)
    ELSE UNCHANGED <<payment, wallet>>

\* checkRedeemable, advisory: the cap, the window and this customer's active redemption.
CheckRedeemable ==
    /\ promoOpen
    /\ timesRedeemed < MaxRedemptions
    /\ \A d \in Bookings : redemption[d] # "REDEEMED"

RedeemWithinTx_Advisory(d) ==
    /\ promoOpen
    /\ timesRedeemed' = timesRedeemed + 1
    /\ redemption' = [redemption EXCEPT ![d] = "REDEEMED"]

\* redeemWithinTx: the guarded increment, then the partial unique index per user.
RedeemWithinTx(d) ==
    /\ promoOpen /\ timesRedeemed < MaxRedemptions
    /\ \A e \in Bookings : redemption[e] # "REDEEMED"
    /\ timesRedeemed' = timesRedeemed + 1
    /\ redemption' = [redemption EXCEPT ![d] = "REDEEMED"]

\* releaseForDelivery: REDEEMED -> RELEASED once, and the slot with it.
ReleaseForDelivery(d) ==
    IF redemption[d] = "REDEEMED"
    THEN /\ redemption' = [redemption EXCEPT ![d] = "RELEASED"]
         /\ timesRedeemed' = IF timesRedeemed > 0 THEN timesRedeemed - 1 ELSE 0
    ELSE UNCHANGED promo

----------------------------------------------------------------------------
(* create().                                                               *)

At(d, step) == call[d].at = step
Goto(d, step) == call' = [call EXCEPT ![d].at = step]

\* Validation, price, promo and credits: reads only, any of which may be stale when used.
Quote(d) ==
    /\ At(d, "idle")
    /\ \E usesPromo, useCredits \in BOOLEAN :
         /\ usesPromo => CheckRedeemable
         /\ LET afterPromo == IF usesPromo THEN PRICE - DISCOUNT ELSE PRICE
                credits == IF useCredits THEN Min({balance, afterPromo}) ELSE 0 IN
            call' = [call EXCEPT ![d] = [at |-> IF config.debitFirst THEN "redeem" ELSE "insert",
                                         promo |-> usesPromo, credits |-> credits,
                                         total |-> afterPromo - credits]]
    /\ UNCHANGED <<config, wallet, promoOpen, promo, row, stripe, tidy, sweep>>

\* The transaction rejects although it committed.
Ambiguous == "reserve" \in Faults

\* The promo slot, in a transaction of its own; any rejection is compensated.
ReservePromo(d) ==
    /\ At(d, "redeem")
    /\ IF call[d].promo
       THEN \/ RedeemWithinTx(d) /\ Goto(d, "debit")
            \/ Ambiguous /\ RedeemWithinTx(d) /\ Goto(d, "undo_promo")
            \/ UNCHANGED promo /\ Goto(d, "undo_promo")
       ELSE UNCHANGED promo /\ Goto(d, "debit")
    /\ UNCHANGED <<config, wallet, promoOpen, row, stripe, tidy, sweep>>

\* The credits, in a transaction of their own; a rejection is compensated.
ReserveCredits(d) ==
    /\ At(d, "debit")
    /\ IF call[d].credits > 0
       THEN \/ DebitWithinTx(d) /\ Goto(d, "insert")
            \/ Ambiguous /\ DebitWithinTx(d) /\ Goto(d, "undo_promo")
            \/ UNCHANGED wallet /\ Goto(d, "undo_promo")
       ELSE UNCHANGED wallet /\ Goto(d, "insert")
    /\ UNCHANGED <<config, promoOpen, promo, row, stripe, tidy, sweep>>

\* What the delivery transaction does when the reservations are part of it.
InTx(d) ==
    /\ IF ~config.debitFirst /\ call[d].promo THEN RedeemWithinTx(d) ELSE UNCHANGED promo
    /\ IF ~config.debitFirst /\ call[d].credits > 0 THEN DebitWithinTx(d) ELSE UNCHANGED wallet
    /\ row' = [row EXCEPT ![d] = "open"]

\* Where create() goes when the delivery transaction rejects.
Rejected == IF config.debitFirst THEN "undo_promo" ELSE "rejected"

\* The delivery transaction, collisions of the tracking id included: the last one rejects.
InsertDelivery(d) ==
    /\ At(d, "insert")
    /\ \/ InTx(d) /\ Goto(d, "intent")
       \/ "insert" \in Faults /\ InTx(d) /\ Goto(d, Rejected)
       \/ Goto(d, Rejected) /\ UNCHANGED <<promo, wallet, row>>
    /\ UNCHANGED <<config, promoOpen, stripe, tidy, sweep>>

\* A best-effort leg: it happens, or it fails and is logged.
BestEffort(leg, unchanged) == leg \/ ("write" \in Faults /\ unchanged)

\* compensateReservations, its two legs in order.
CompensatePromo(d) ==
    /\ At(d, "undo_promo") /\ Goto(d, "undo_credits")
    /\ BestEffort(ReleaseForDelivery(d), UNCHANGED promo)
    /\ UNCHANGED <<config, wallet, promoOpen, row, stripe, tidy, sweep>>

CompensateCredits(d) ==
    /\ At(d, "undo_credits") /\ Goto(d, "rejected")
    /\ BestEffort(RefundForDelivery(d), UNCHANGED wallet)
    /\ UNCHANGED <<config, promoOpen, promo, row, stripe, tidy, sweep>>

\* createPaymentIntent: a free order is skipped, a mocked intent succeeds at once.
CreateIntent(d) ==
    /\ At(d, "intent")
    /\ IF call[d].total = 0 THEN Goto(d, "done") /\ UNCHANGED intent
       ELSE \/ /\ intent' = [intent EXCEPT ![d] = IF config.mock THEN "succeeded" ELSE "open"]
               /\ Goto(d, "payment")
            \/ "write" \in Faults /\ Goto(d, "done") /\ UNCHANGED intent
    /\ UNCHANGED <<config, wallet, promoOpen, promo, row, payment, sent, seen, tidy, sweep>>

\* mapIntentStatus of the intent as createPaymentIntent returned it.
MapIntentStatus == IF config.mock THEN "COMPLETED" ELSE "PENDING"

\* payment.create; a failure is logged and the booking stands.
CreateDeliveryPayment(d) ==
    /\ At(d, "payment") /\ Goto(d, "done")
    /\ BestEffort(payment' = [payment EXCEPT ![d] = MapIntentStatus], UNCHANGED payment)
    /\ UNCHANGED <<config, wallet, promoOpen, promo, row, intent, sent, seen, tidy, sweep>>

\* The process dies between two steps of create().
CrashCreate(d) ==
    /\ "crash" \in Faults
    /\ call[d].at \notin {"idle", "done", "rejected", "dead"}
    /\ Goto(d, "dead")
    /\ UNCHANGED <<config, wallet, promoOpen, promo, row, stripe, tidy, sweep>>

----------------------------------------------------------------------------
(* Stripe and its webhooks.                                                *)

\* What can happen to an intent, and the state it ends in.
IntentMoves(state) ==
    CASE state \in {"open", "failed"} -> IntentEvents
      [] state = "processing" -> IntentEvents \ {"processing"}
      [] OTHER -> {}

AfterEvent(type) ==
    CASE type = "succeeded" -> "succeeded" [] type = "payment_failed" -> "failed"
      [] type = "processing" -> "processing" [] type = "canceled" -> "canceled"

\* The customer confirms, the card is declined, ...: one event per type and intent.
StripeMoves(d) ==
    /\ \E type \in IntentMoves(intent[d]) :
         /\ <<d, type>> \notin sent
         /\ intent' = [intent EXCEPT ![d] = AfterEvent(type)]
         /\ sent' = sent \cup {<<d, type>>}
    /\ UNCHANGED <<config, wallet, promoOpen, promo, row, call, payment, seen, tidy, sweep>>

WebhookStatus(type) ==
    CASE type = "succeeded" -> "COMPLETED" [] type = "processing" -> "PROCESSING"
      [] type \in {"payment_failed", "canceled"} -> "FAILED"

AdvanceFrom_Any(target) == PaymentStatus \ {target}

AdvanceFrom(target) ==
    CASE target = "PROCESSING" -> {"PENDING"}
      [] target = "COMPLETED" -> {"PENDING", "PROCESSING", "FAILED"}
      [] target = "FAILED" -> {"PENDING", "PROCESSING"}

\* handleWebhookEvent: the event id and the guarded status write commit together; an id that
\* is known is acknowledged and skipped.
HandleWebhookEvent(d, type) ==
    /\ <<d, type>> \in sent
    /\ IF <<d, type>> \in seen THEN UNCHANGED <<seen, payment>>
       ELSE /\ seen' = seen \cup {<<d, type>>}
            /\ payment' = IF payment[d] \in AdvanceFrom(WebhookStatus(type))
                          THEN [payment EXCEPT ![d] = WebhookStatus(type)] ELSE payment
    /\ UNCHANGED <<config, wallet, promoOpen, promo, row, call, intent, sent, tidy, sweep>>

----------------------------------------------------------------------------
(* The end of a delivery, refunds and the sweep.                           *)

\* Canceled or failed by the service's fault: all is given back.  Failed by the recipient's,
\* or delivered: nothing is.
Terminate(d) ==
    /\ row[d] = "open"
    /\ \E end \in {"refunded", "kept"} :
         /\ row' = [row EXCEPT ![d] = end]
         /\ tidy' = [tidy EXCEPT ![d] = IF end = "refunded" THEN "promo" ELSE "none"]
    /\ UNCHANGED <<config, wallet, promoOpen, promo, call, stripe, sweep>>

\* The refund legs of cleanupAfterTermination, each best-effort.
TidyPromo(d) ==
    /\ tidy[d] = "promo" /\ tidy' = [tidy EXCEPT ![d] = "credits"]
    /\ BestEffort(ReleaseForDelivery(d), UNCHANGED promo)
    /\ UNCHANGED <<config, wallet, promoOpen, row, call, stripe, sweep>>

TidyCredits(d) ==
    /\ tidy[d] = "credits" /\ tidy' = [tidy EXCEPT ![d] = "charge"]
    /\ BestEffort(RefundForDelivery(d), UNCHANGED wallet)
    /\ UNCHANGED <<config, promoOpen, promo, row, call, stripe, sweep>>

TidyCharge(d) ==
    /\ tidy[d] = "charge" /\ tidy' = [tidy EXCEPT ![d] = "done"]
    /\ BestEffort(RefundChargeToWallet(d), UNCHANGED <<payment, wallet>>)
    /\ UNCHANGED <<config, promoOpen, promo, row, call, intent, sent, seen, sweep>>

\* AdminService.refund: any amount up to the charge, if this call flips the payment.
AdminRefund(d) ==
    /\ row[d] # "absent"
    /\ payment[d] \notin {"none", "REFUNDED"}
    /\ payment' = [payment EXCEPT ![d] = "REFUNDED"]
    /\ \E amount \in 1..call[d].total : CreditWithinTx("admin-refund", d, amount)
    /\ UNCHANGED <<config, promoOpen, promo, row, call, intent, sent, seen, tidy, sweep>>

\* updatePromo deactivates the code, or its window ends.
ClosePromo ==
    /\ promoOpen /\ promoOpen' = FALSE
    /\ UNCHANGED <<config, wallet, promo, row, call, stripe, tidy, sweep>>

NeedsRefund(d) == Written("debit", d) /\ ~\E k \in Kinds \ {"debit"} : Written(k, d)

Aged_NoGrace(d) == d \in Bookings

\* Past the grace window: no younger reservation is looked at.
Aged(d) == GraceOutlastsCreate => call[d].at \in {"done", "rejected", "dead"}

Orphan_DebitOnly(d) == row[d] = "absent" /\ Aged(d) /\ NeedsRefund(d)

\* The two anti-joins of sweep(): a reservation of age whose delivery does not exist.
Orphan(d) == row[d] = "absent" /\ Aged(d) /\ (NeedsRefund(d) \/ redemption[d] = "REDEEMED")

SweepBegin(d) ==
    /\ config.debitFirst /\ sweep = NoSweep
    /\ Orphan(d)
    /\ sweep' = [at |-> "check", of |-> d]
    /\ UNCHANGED <<config, wallet, promoOpen, promo, row, call, stripe, tidy>>

\* reapIfOrphan reads the delivery again, and what is outstanding.
SweepCheck ==
    /\ sweep.at = "check"
    /\ LET d == sweep.of IN
       sweep' = IF row[d] = "absent" THEN [at |-> "refund", of |-> d, release |-> redemption[d] = "REDEEMED",
                                           refund |-> NeedsRefund(d)]
                ELSE NoSweep
    /\ UNCHANGED <<config, wallet, promoOpen, promo, row, call, stripe, tidy>>

SweepRefund ==
    /\ sweep.at = "refund"
    /\ IF sweep.refund THEN RefundForDelivery(sweep.of) ELSE UNCHANGED wallet
    /\ sweep' = [sweep EXCEPT !.at = "release"]
    /\ UNCHANGED <<config, promoOpen, promo, row, call, stripe, tidy>>

SweepRelease ==
    /\ sweep.at = "release"
    /\ IF sweep.release THEN ReleaseForDelivery(sweep.of) ELSE UNCHANGED promo
    /\ sweep' = NoSweep
    /\ UNCHANGED <<config, wallet, promoOpen, row, call, stripe, tidy>>

\* A leg throws, or the worker dies: the candidate is left to the next sweep.
SweepFails ==
    /\ {"write", "crash"} \cap Faults # {}
    /\ sweep.at \in {"refund", "release"}
    /\ sweep' = NoSweep
    /\ UNCHANGED <<config, wallet, promoOpen, promo, row, call, stripe, tidy>>

Create(d) ==
    \/ Quote(d) \/ ReservePromo(d) \/ ReserveCredits(d) \/ InsertDelivery(d)
    \/ CompensatePromo(d) \/ CompensateCredits(d) \/ CreateIntent(d) \/ CreateDeliveryPayment(d)
Tidy(d) == TidyPromo(d) \/ TidyCredits(d) \/ TidyCharge(d)
Sweep == (\E d \in Bookings : SweepBegin(d)) \/ SweepCheck \/ SweepRefund \/ SweepRelease
         \/ SweepFails

Next ==
    \/ \E d \in Bookings :
         \/ Create(d) \/ CrashCreate(d) \/ StripeMoves(d) \/ Terminate(d) \/ Tidy(d) \/ AdminRefund(d)
         \/ \E type \in IntentEvents : HandleWebhookEvent(d, type)
    \/ ClosePromo
    \/ Sweep

Spec == Init /\ [][Next]_vars

\* A handler that runs goes on; every sweep visits every candidate, and no update is rejected
\* each time it is tried.
Fairness ==
    /\ \A d \in Bookings : WF_vars(Create(d)) /\ WF_vars(Tidy(d)) /\ SF_vars(SweepBegin(d))
    /\ WF_vars(SweepCheck)
    /\ SF_vars(SweepRefund)
    /\ SF_vars(SweepRelease)

----------------------------------------------------------------------------
(* Properties.                                                             *)

\* Every variable keeps its type, and the balance is never negative (debitWithinTx).
TypeOK ==
    /\ config \in [debitFirst : BOOLEAN, mock : BOOLEAN]
    /\ balance \in Nat
    /\ ledger \in [Keys -> Nat]
    /\ promoOpen \in BOOLEAN
    /\ timesRedeemed \in Nat
    /\ redemption \in [Bookings -> {"none", "REDEEMED", "RELEASED"}]
    /\ row \in [Bookings -> {"absent", "open", "refunded", "kept"}]
    /\ call \in [Bookings -> [at : CallSteps, promo : BOOLEAN, credits : Nat, total : Nat]]
    /\ payment \in [Bookings -> PaymentStatus \cup {"none"}]
    /\ intent \in [Bookings -> {"none", "open", "processing", "succeeded", "failed", "canceled"}]
    /\ sent \subseteq Bookings \X IntentEvents
    /\ seen \subseteq sent
    /\ tidy \in [Bookings -> {"none", "promo", "credits", "charge", "done"}]
    /\ sweep \in Sweeps

\* What the ledger's rows add up to.
LedgerSum(rows) == MapThenSumSet(LAMBDA k : IF k[1] = "debit" THEN -rows[k] ELSE rows[k], Keys)

\* creditBalance is the opening balance and what the ledger says happened to it since: no
\* crash, retry or race of the writers changes one without the other, or twice for one key.
LedgerExplainsBalance == balance = OPENING + LedgerSum(ledger)

\* Whoever gives back, and however often - compensation, sweep, cleanup, administrator - a
\* delivery gets back at most the credits it spent, and its charge through one channel only
\* (refundChargeToWallet: "the card charge returns to the wallet AT MOST ONCE").
ReturnedAtMostOnce ==
    \A d \in Bookings :
        /\ ledger[<<"refund", d>>] <= ledger[<<"debit", d>>]
        /\ ledger[<<"exception-refund", d>>] + ledger[<<"admin-refund", d>>] <= call[d].total

\* timesRedeemed counts the active redemptions exactly, and stays within the cap: a slot is
\* neither lost nor handed back twice by compensation, sweep and cleanup together.
PromoCount ==
    /\ timesRedeemed = Cardinality({d \in Bookings : redemption[d] = "REDEEMED"})
    /\ timesRedeemed <= MaxRedemptions

\* A delivery that exists and was not refunded is backed by what it was priced with: the
\* credits are spent and the promo slot is taken (create: "the platform can never
\* under-charge").
BookedIsPaidFor ==
    \A d \in Bookings : row[d] \in {"open", "kept"} =>
        /\ ledger[<<"debit", d>>] = call[d].credits
        /\ ~Written("refund", d)
        /\ call[d].promo => redemption[d] = "REDEEMED"

\* A payment is COMPLETED, and is refunded automatically, only if Stripe captured it, however
\* its events are repeated and reordered (ADVANCE_FROM, refundChargeToWallet).
RefundsOnlyCaptured ==
    \A d \in Bookings :
        payment[d] = "COMPLETED" \/ Written("exception-refund", d) => intent[d] = "succeeded"

\* A reservation that is held for no delivery.
Stranded(d) ==
    /\ row[d] = "absent" /\ call[d].at \in {"dead", "rejected"}
    /\ NeedsRefund(d) \/ redemption[d] = "REDEEMED"

\* Credits and promo slots that a crash or a failed compensation of create() leaves behind are
\* given back by the sweep, although its own legs may fail too.
OrphansSettle == \A d \in Bookings : config.debitFirst /\ Stranded(d) ~> ~Stranded(d)

\* Once the cleanup of a canceled delivery is through and create() has ended, no captured
\* charge is left unreturned (cleanupAfterTermination: "so the 'refunded to your wallet'
\* comms are truthful for every payer").
RefundIsTruthful ==
    \A d \in Bookings : tidy[d] = "done" /\ call[d].at = "done" => payment[d] # "COMPLETED"

=============================================================================
