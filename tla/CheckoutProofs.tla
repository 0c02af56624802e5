--------------------------- MODULE CheckoutProofs ---------------------------
(***************************************************************************)
(* The money of a booking, for any bookings, prices, balances, event types *)
(* and faults: what the helpers of Checkout write and its types, the promo *)
(* slots, what a booking takes and gives back, what backs a booking that   *)
(* stands, and the sum of the ledger.                                      *)
(***************************************************************************)
EXTENDS Checkout, FiniteSetTheorems, WellFoundedInduction, TLAPS

Quotes == [at : CallSteps, promo : BOOLEAN, credits : Nat, total : Nat]
Reaping == [at : {"refund", "release"}, of : Bookings, refund : BOOLEAN, release : BOOLEAN]

----------------------------------------------------------------------------
(* What the helpers write.                                                 *)

LEMMA QuoteType ==
    ASSUME NEW q \in Quotes, NEW s \in CallSteps
    PROVE  [q EXCEPT !.at = s] \in Quotes
BY Zenon DEF Quotes

\* Moving a create() on changes its position and nothing else of it.
LEMMA GotoEffect ==
    ASSUME TypeOK, NEW d \in Bookings, NEW s \in CallSteps, Goto(d, s)
    PROVE  /\ call' \in [Bookings -> Quotes]
           /\ call'[d].at = s /\ call'[d].promo = call[d].promo
           /\ call'[d].credits = call[d].credits /\ call'[d].total = call[d].total
           /\ \A e \in Bookings : e # d => call'[e] = call[e]
<1>1. call \in [Bookings -> Quotes]
  BY DEF TypeOK, Quotes
<1>2. call' = [call EXCEPT ![d] = [call[d] EXCEPT !.at = s]]
  BY Zenon DEF Goto
<1>3. [call[d] EXCEPT !.at = s] \in Quotes
  BY <1>1, QuoteType
<1>4. call' \in [Bookings -> Quotes]
  BY Zenon, <1>1, <1>2, <1>3
<1>5. call'[d] = [call[d] EXCEPT !.at = s] /\ \A e \in Bookings : e # d => call'[e] = call[e]
  BY Zenon, <1>1, <1>2
<1> QED
  BY <1>1, <1>4, <1>5 DEF Quotes

LEMMA PostEffect ==
    ASSUME TypeOK, NEW kind \in Kinds, NEW d \in Bookings, NEW amount \in Nat, NEW delta \in Int,
           Post(kind, d, amount, delta)
    PROVE  /\ ledger' \in [Keys -> Nat] /\ ledger'[<<kind, d>>] = amount
           /\ \A k \in Kinds, e \in Bookings :
                k # kind \/ e # d => ledger'[<<k, e>>] = ledger[<<k, e>>]
           /\ balance' = balance + delta
BY DEF TypeOK, Post, Keys

\* A credit is written once per kind and booking, and never lowers the balance.
LEMMA CreditEffect ==
    ASSUME TypeOK, NEW kind \in Kinds, NEW d \in Bookings, NEW amount \in Nat,
           CreditWithinTx(kind, d, amount)
    PROVE  /\ ledger' \in [Keys -> Nat] /\ balance' \in Nat
           /\ \A k \in Kinds, e \in Bookings :
                k # kind \/ e # d => ledger'[<<k, e>>] = ledger[<<k, e>>]
           /\ \/ ledger'[<<kind, d>>] = ledger[<<kind, d>>]
              \/ ledger[<<kind, d>>] = 0 /\ ledger'[<<kind, d>>] = amount
<1>1. CASE Written(kind, d) \/ amount = 0
  BY <1>1 DEF CreditWithinTx, wallet, TypeOK
<1>2. CASE ~(Written(kind, d) \/ amount = 0)
  <2>1. Post(kind, d, amount, amount)
    BY <1>2 DEF CreditWithinTx
  <2>2. ledger[<<kind, d>>] = 0
    <3>1. ledger[<<kind, d>>] \in Nat
      BY DEF TypeOK, Keys
    <3> QED
      BY <1>2, <3>1 DEF Written
  <2>3. balance \in Nat
    BY DEF TypeOK
  <2> QED
    BY <2>1, <2>2, <2>3, PostEffect
<1> QED
  BY <1>1, <1>2

LEMMA DebitEffect ==
    ASSUME TypeOK, NEW d \in Bookings, DebitWithinTx(d)
    PROVE  /\ ledger' \in [Keys -> Nat] /\ balance' \in Nat
           /\ ledger'[<<"debit", d>>] = call[d].credits
           /\ \A k \in Kinds, e \in Bookings :
                k # "debit" \/ e # d => ledger'[<<k, e>>] = ledger[<<k, e>>]
<1>1. call[d].credits \in Nat /\ balance \in Nat
  BY DEF TypeOK
<1>2. Post("debit", d, call[d].credits, -call[d].credits) /\ balance >= call[d].credits
  BY DEF DebitWithinTx
<1> QED
  BY <1>1, <1>2, PostEffect DEF Kinds

\* Where a wallet write of a create() or a give-back may leave the ledger.
LEMMA RefundEffect ==
    ASSUME TypeOK, NEW d \in Bookings, RefundForDelivery(d)
    PROVE  /\ ledger' \in [Keys -> Nat] /\ balance' \in Nat
           /\ \A k \in Kinds, e \in Bookings :
                k # "refund" \/ e # d => ledger'[<<k, e>>] = ledger[<<k, e>>]
           /\ \/ ledger'[<<"refund", d>>] = ledger[<<"refund", d>>]
              \/ ledger'[<<"refund", d>>] = ledger[<<"debit", d>>]
<1>1. ledger[<<"debit", d>>] \in Nat
  BY DEF TypeOK, Keys, Kinds
<1> QED
  BY <1>1, CreditEffect DEF RefundForDelivery, Kinds

\* An administrator's refund is at most the charge.
LEMMA AdminEffect ==
    ASSUME TypeOK, NEW d \in Bookings, AdminRefund(d)
    PROVE  /\ ledger' \in [Keys -> Nat] /\ balance' \in Nat
           /\ \A k \in Kinds, e \in Bookings :
                k # "admin-refund" \/ e # d => ledger'[<<k, e>>] = ledger[<<k, e>>]
           /\ \/ ledger'[<<"admin-refund", d>>] = ledger[<<"admin-refund", d>>]
              \/ ledger'[<<"admin-refund", d>>] <= call[d].total
<1>1. PICK amount \in 1..call[d].total : CreditWithinTx("admin-refund", d, amount)
  BY DEF AdminRefund
<1>2. amount \in Nat /\ amount <= call[d].total
  BY DEF TypeOK
<1> QED
  BY <1>1, <1>2, CreditEffect DEF Kinds

\* The automatic refund of the charge.
LEMMA ChargeEffect ==
    ASSUME TypeOK, NEW d \in Bookings, RefundChargeToWallet(d), payment[d] = "COMPLETED"
    PROVE  /\ ledger' \in [Keys -> Nat] /\ balance' \in Nat
           /\ \A k \in Kinds, e \in Bookings :
                k # "exception-refund" \/ e # d => ledger'[<<k, e>>] = ledger[<<k, e>>]
           /\ \/ ledger'[<<"exception-refund", d>>] = ledger[<<"exception-refund", d>>]
              \/ ledger'[<<"exception-refund", d>>] = call[d].total
           /\ payment' = [payment EXCEPT ![d] = "REFUNDED"]
<1>1. call[d].total \in Nat
  BY DEF TypeOK
<1> QED
  BY <1>1, CreditEffect DEF RefundChargeToWallet, Kinds

LEMMA RedeemEffect ==
    ASSUME TypeOK, NEW d \in Bookings, RedeemWithinTx(d)
    PROVE  /\ timesRedeemed' \in Nat
           /\ redemption' \in [Bookings -> {"none", "REDEEMED", "RELEASED"}]
           /\ redemption'[d] = "REDEEMED"
           /\ \A e \in Bookings : e # d => redemption'[e] = redemption[e]
BY DEF TypeOK, RedeemWithinTx

LEMMA ReleaseEffect ==
    ASSUME TypeOK, NEW d \in Bookings, ReleaseForDelivery(d)
    PROVE  /\ timesRedeemed' \in Nat
           /\ redemption' \in [Bookings -> {"none", "REDEEMED", "RELEASED"}]
           /\ \A e \in Bookings : e # d => redemption'[e] = redemption[e]
BY DEF TypeOK, ReleaseForDelivery, promo

----------------------------------------------------------------------------
(* Type correctness.                                                       *)

\* The types, with the records that hold a Boolean left folded.
Types ==
    /\ config \in [debitFirst : BOOLEAN, mock : BOOLEAN]
    /\ balance \in Nat
    /\ ledger \in [Keys -> Nat]
    /\ promoOpen \in BOOLEAN
    /\ timesRedeemed \in Nat
    /\ redemption \in [Bookings -> {"none", "REDEEMED", "RELEASED"}]
    /\ row \in [Bookings -> {"absent", "open", "refunded", "kept"}]
    /\ call \in [Bookings -> Quotes]
    /\ payment \in [Bookings -> PaymentStatus \cup {"none"}]
    /\ intent \in [Bookings -> {"none", "open", "processing", "succeeded", "failed", "canceled"}]
    /\ sent \subseteq Bookings \X IntentEvents
    /\ seen \subseteq sent
    /\ tidy \in [Bookings -> {"none", "promo", "credits", "charge", "done"}]
    /\ sweep \in Sweeps

LEMMA TypesAreTypeOK == TypeOK <=> Types
BY DEF TypeOK, Types, Quotes

LEMMA SweepShape ==
    ASSUME TypeOK
    PROVE  /\ sweep.at # "idle" => sweep.of \in Bookings
           /\ sweep.at \in {"refund", "release"} => sweep \in Reaping
           /\ sweep = NoSweep => sweep.at = "idle"
BY DEF TypeOK, Sweeps, NoSweep, Reaping

LEMMA QuoteResult ==
    ASSUME TypeOK, NEW d \in Bookings, Quote(d)
    PROVE  /\ call' \in [Bookings -> Quotes]
           /\ call'[d].at = IF config.debitFirst THEN "redeem" ELSE "insert"
           /\ \A e \in Bookings : e # d => call'[e] = call[e]
<1>1. PICK usesPromo \in BOOLEAN, useCredits \in BOOLEAN :
        LET afterPromo == IF usesPromo THEN PRICE - DISCOUNT ELSE PRICE
            credits == IF useCredits THEN Min({balance, afterPromo}) ELSE 0 IN
        call' = [call EXCEPT ![d] = [at |-> IF config.debitFirst THEN "redeem" ELSE "insert",
                                     promo |-> usesPromo, credits |-> credits,
                                     total |-> afterPromo - credits]]
  BY Zenon DEF Quote
<1> DEFINE afterPromo == IF usesPromo THEN PRICE - DISCOUNT ELSE PRICE
           credits == IF useCredits THEN Min({balance, afterPromo}) ELSE 0
           at == IF config.debitFirst THEN "redeem" ELSE "insert"
           q == [at |-> at, promo |-> usesPromo, credits |-> credits, total |-> afterPromo - credits]
<1>2. afterPromo \in Nat /\ balance \in Nat
  BY CheckoutAssumption DEF CheckoutAssumption, TypeOK
<1>3. credits \in Nat /\ credits <= afterPromo
  <2> HIDE DEF afterPromo
  <2>1. Min({balance, afterPromo}) \in {balance, afterPromo}
          /\ Min({balance, afterPromo}) <= afterPromo
    BY <1>2 DEF Min
  <2> QED
    BY <1>2, <2>1
<1>4. afterPromo - credits \in Nat /\ at \in CallSteps
  <2> HIDE DEF afterPromo, credits
  <2> QED
    BY <1>2, <1>3 DEF CallSteps
<1>5. call' = [call EXCEPT ![d] = q] /\ q.at = at
  BY <1>1
<1> HIDE DEF afterPromo, credits, at
<1>6. q \in Quotes
  BY Zenon, <1>3, <1>4 DEF Quotes
<1>7. call \in [Bookings -> Quotes]
  BY TypesAreTypeOK DEF Types
<1> HIDE DEF q
<1> QED
  BY Zenon, <1>5, <1>6, <1>7 DEF at

LEMMA CallStepType ==
    \A s \in {"debit", "insert", "undo_promo", "undo_credits", "intent", "payment", "done", "rejected",
              "dead"} : s \in CallSteps
BY DEF CallSteps

\* A step of create().
LEMMA CreateTypes ==
    ASSUME TypeOK, NEW d \in Bookings, Create(d) \/ CrashCreate(d)
    PROVE  TypeOK'
<1> SUFFICES Types'
  BY DEF TypeOK, Types, Quotes
<1>0. Types
  BY TypesAreTypeOK
<1>1. CASE Quote(d)
  BY <1>0, <1>1, QuoteResult DEF Quote, Types, wallet, promo, stripe
<1>2. CASE ReservePromo(d)
  <2>1. call' \in [Bookings -> Quotes]
    BY <1>2, GotoEffect, CallStepType DEF ReservePromo
  <2>2. timesRedeemed' \in Nat /\ redemption' \in [Bookings -> {"none", "REDEEMED", "RELEASED"}]
    BY <1>0, <1>2, RedeemEffect DEF ReservePromo, promo, Types
  <2> QED
    BY <1>0, <1>2, <2>1, <2>2 DEF ReservePromo, Types, wallet, stripe
<1>3. CASE ReserveCredits(d)
  <2>1. call' \in [Bookings -> Quotes]
    BY <1>3, GotoEffect, CallStepType DEF ReserveCredits
  <2>2. ledger' \in [Keys -> Nat] /\ balance' \in Nat
    BY <1>0, <1>3, DebitEffect DEF ReserveCredits, wallet, Types
  <2> QED
    BY <1>0, <1>3, <2>1, <2>2 DEF ReserveCredits, Types, promo, stripe
<1>4. CASE InsertDelivery(d)
  <2>1. call' \in [Bookings -> Quotes]
    BY <1>4, GotoEffect, CallStepType DEF InsertDelivery, Rejected
  <2>2. CASE UNCHANGED <<promo, wallet, row>>
    BY <1>0, <1>4, <2>1, <2>2 DEF InsertDelivery, Types, stripe, promo, wallet
  <2>3. CASE InTx(d)
    <3>1. ledger' \in [Keys -> Nat] /\ balance' \in Nat
      BY Zenon, <1>0, <2>3, DebitEffect DEF InTx, wallet, Types
    <3>2. timesRedeemed' \in Nat /\ redemption' \in [Bookings -> {"none", "REDEEMED", "RELEASED"}]
      BY <1>0, <2>3, RedeemEffect DEF InTx, promo, Types
    <3>3. row' \in [Bookings -> {"absent", "open", "refunded", "kept"}]
      BY <1>0, <2>3 DEF InTx, Types
    <3> QED
      BY <1>0, <1>4, <2>1, <3>1, <3>2, <3>3 DEF InsertDelivery, Types, stripe
  <2> QED
    BY <1>4, <2>2, <2>3 DEF InsertDelivery
<1>5. CASE CompensatePromo(d)
  <2>1. call' \in [Bookings -> Quotes]
    BY <1>5, GotoEffect, CallStepType DEF CompensatePromo
  <2>2. timesRedeemed' \in Nat /\ redemption' \in [Bookings -> {"none", "REDEEMED", "RELEASED"}]
    BY <1>0, <1>5, ReleaseEffect DEF CompensatePromo, BestEffort, promo, Types
  <2> QED
    BY Zenon, <1>0, <1>5, <2>1, <2>2 DEF CompensatePromo, Types, wallet, stripe
<1>6. CASE CompensateCredits(d)
  <2>1. call' \in [Bookings -> Quotes]
    BY <1>6, GotoEffect, CallStepType DEF CompensateCredits
  <2>2. ledger' \in [Keys -> Nat] /\ balance' \in Nat
    BY Zenon, <1>0, <1>6, RefundEffect DEF CompensateCredits, BestEffort, wallet, Types
  <2> QED
    BY Zenon, <1>0, <1>6, <2>1, <2>2 DEF CompensateCredits, Types, promo, stripe
<1>7. CASE CreateIntent(d)
  <2>1. call' \in [Bookings -> Quotes]
    BY <1>7, GotoEffect, CallStepType DEF CreateIntent
  <2>2. intent' \in [Bookings -> {"none", "open", "processing", "succeeded", "failed", "canceled"}]
    BY <1>0, <1>7 DEF CreateIntent, Types
  <2> QED
    BY Zenon, <1>0, <1>7, <2>1, <2>2 DEF CreateIntent, Types, promo, wallet
<1>8. CASE CreateDeliveryPayment(d)
  <2>1. call' \in [Bookings -> Quotes]
    BY Zenon, <1>8, GotoEffect, CallStepType DEF CreateDeliveryPayment
  <2>2. payment' \in [Bookings -> PaymentStatus \cup {"none"}]
    BY Zenon, <1>0, <1>8 DEF CreateDeliveryPayment, BestEffort, MapIntentStatus, PaymentStatus, Types
  <2> QED
    BY Zenon, <1>0, <1>8, <2>1, <2>2 DEF CreateDeliveryPayment, Types, promo, wallet
<1>9. CASE CrashCreate(d)
  <2>1. call' \in [Bookings -> Quotes]
    BY Zenon, <1>9, GotoEffect, CallStepType DEF CrashCreate
  <2> QED
    BY Zenon, <1>0, <1>9, <2>1 DEF CrashCreate, Types, promo, wallet, stripe
<1> QED
  BY <1>1, <1>2, <1>3, <1>4, <1>5, <1>6, <1>7, <1>8, <1>9 DEF Create

\* Stripe, its webhooks and the end of a delivery.
LEMMA SettleTypes ==
    ASSUME TypeOK, NEW d \in Bookings,
           \/ StripeMoves(d) \/ Terminate(d) \/ Tidy(d) \/ AdminRefund(d)
           \/ \E type \in IntentEvents : HandleWebhookEvent(d, type)
    PROVE  TypeOK'
<1> SUFFICES Types'
  BY Zenon DEF TypeOK, Types, Quotes
<1>0. Types /\ call[d].total \in Nat
  BY Zenon, TypesAreTypeOK DEF Types, Quotes
<1>1. CASE StripeMoves(d)
  <2>1. PICK type \in IntentMoves(intent[d]) :
          intent' = [intent EXCEPT ![d] = AfterEvent(type)] /\ sent' = sent \cup {<<d, type>>}
    BY Zenon, <1>1 DEF StripeMoves
  <2>2. type \in IntentEvents
    BY DEF IntentMoves
  <2>3. AfterEvent(type) \in {"succeeded", "failed", "processing", "canceled"}
    BY <2>2, CheckoutAssumption DEF AfterEvent, CheckoutAssumption
  <2>4. intent' \in [Bookings -> {"none", "open", "processing", "succeeded", "failed", "canceled"}]
    BY <1>0, <2>1, <2>3 DEF Types
  <2>5. sent' \subseteq Bookings \X IntentEvents /\ seen \subseteq sent'
    BY <1>0, <2>1, <2>2 DEF Types
  <2> QED
    BY Zenon, <1>0, <1>1, <2>4, <2>5 DEF StripeMoves, Types, wallet, promo
<1>2. CASE Terminate(d)
  <2>1. row' \in [Bookings -> {"absent", "open", "refunded", "kept"}]
          /\ tidy' \in [Bookings -> {"none", "promo", "credits", "charge", "done"}]
    BY <1>0, <1>2 DEF Terminate, Types
  <2> QED
    BY Zenon, <1>0, <1>2, <2>1 DEF Terminate, Types, wallet, promo, stripe
<1>3. CASE TidyPromo(d)
  <2>1. timesRedeemed' \in Nat /\ redemption' \in [Bookings -> {"none", "REDEEMED", "RELEASED"}]
    BY Zenon, <1>0, <1>3, ReleaseEffect DEF TidyPromo, BestEffort, promo, Types
  <2>2. tidy' \in [Bookings -> {"none", "promo", "credits", "charge", "done"}]
    BY Zenon, <1>0, <1>3 DEF TidyPromo, Types
  <2> QED
    BY Zenon, <1>0, <1>3, <2>1, <2>2 DEF TidyPromo, Types, wallet, stripe
<1>4. CASE TidyCredits(d)
  <2>1. ledger' \in [Keys -> Nat] /\ balance' \in Nat
    BY Zenon, <1>0, <1>4, RefundEffect DEF TidyCredits, BestEffort, wallet, Types
  <2>2. tidy' \in [Bookings -> {"none", "promo", "credits", "charge", "done"}]
    BY <1>0, <1>4 DEF TidyCredits, Types
  <2> QED
    BY Zenon, <1>0, <1>4, <2>1, <2>2 DEF TidyCredits, Types, promo, stripe
<1>5. CASE TidyCharge(d)
  <2>1. ledger' \in [Keys -> Nat] /\ balance' \in Nat
    BY Zenon, <1>0, <1>5, CreditEffect DEF TidyCharge, BestEffort, RefundChargeToWallet, wallet, Types, Kinds
  <2>2. payment' \in [Bookings -> PaymentStatus \cup {"none"}]
    BY <1>0, <1>5 DEF TidyCharge, BestEffort, RefundChargeToWallet, Types, PaymentStatus
  <2>3. tidy' \in [Bookings -> {"none", "promo", "credits", "charge", "done"}]
    BY <1>0, <1>5 DEF TidyCharge, Types
  <2> QED
    BY <1>0, <1>5, <2>1, <2>2, <2>3 DEF TidyCharge, Types, promo
<1>6. CASE AdminRefund(d)
  <2>1. ledger' \in [Keys -> Nat] /\ balance' \in Nat
    BY Zenon, <1>6, AdminEffect
  <2>2. payment' \in [Bookings -> PaymentStatus \cup {"none"}]
    BY Zenon, <1>0, <1>6 DEF AdminRefund, Types, PaymentStatus
  <2> QED
    BY Zenon, <1>0, <1>6, <2>1, <2>2 DEF AdminRefund, Types, promo
<1>7. ASSUME NEW type \in IntentEvents, HandleWebhookEvent(d, type)
      PROVE  Types'
  <2>1. WebhookStatus(type) \in PaymentStatus
    BY Zenon, CheckoutAssumption DEF WebhookStatus, PaymentStatus, CheckoutAssumption
  <2>2. payment' \in [Bookings -> PaymentStatus \cup {"none"}]
    BY Zenon, <1>0, <1>7, <2>1 DEF HandleWebhookEvent, Types
  <2>3. seen' \subseteq sent
    BY <1>0, <1>7 DEF HandleWebhookEvent, Types
  <2> QED
    BY <1>0, <1>7, <2>2, <2>3 DEF HandleWebhookEvent, Types, promo, wallet
<1> QED
  BY Zenon, <1>1, <1>2, <1>3, <1>4, <1>5, <1>6, <1>7 DEF Tidy

LEMMA SweepTypes ==
    ASSUME TypeOK, Sweep
    PROVE  TypeOK'
<1> SUFFICES Types'
  BY DEF TypeOK, Types, Quotes
<1>0. Types
  BY Zenon, TypesAreTypeOK
<1>1. ASSUME NEW d \in Bookings, SweepBegin(d) PROVE Types'
  <2>1. sweep' \in Sweeps
    BY Zenon, <1>1 DEF SweepBegin, Sweeps
  <2> QED
    BY Zenon, <1>0, <1>1, <2>1 DEF SweepBegin, Types, wallet, promo, stripe
<1>2. CASE SweepCheck
  <2>1. sweep.of \in Bookings
    BY Zenon, <1>2, SweepShape DEF SweepCheck
  <2>2. NeedsRefund(sweep.of) \in BOOLEAN /\ (redemption[sweep.of] = "REDEEMED") \in BOOLEAN
    BY DEF NeedsRefund
  <2>3. sweep' \in Sweeps
    <3> DEFINE s == [at |-> "refund", of |-> sweep.of, release |-> redemption[sweep.of] = "REDEEMED",
                     refund |-> NeedsRefund(sweep.of)]
    <3>1. s \in Reaping
      BY Zenon, <2>1, <2>2 DEF Reaping
    <3>2. sweep' = s \/ sweep' = NoSweep
      BY Zenon, <1>2 DEF SweepCheck
    <3> HIDE DEF s
    <3> QED
      BY Zenon, <3>1, <3>2 DEF Sweeps, Reaping
  <2> QED
    BY <1>0, <1>2, <2>3 DEF SweepCheck, Types, wallet, promo, stripe
<1>3. CASE SweepRefund
  <2>1. sweep \in Reaping /\ sweep.of \in Bookings
    BY <1>3, SweepShape DEF SweepRefund
  <2>2. ledger' \in [Keys -> Nat] /\ balance' \in Nat
    BY Zenon, <1>0, <1>3, <2>1, RefundEffect DEF SweepRefund, wallet, Types
  <2>3. sweep' \in Sweeps
    <3>1. [sweep EXCEPT !.at = "release"] \in Reaping
      BY Zenon, <2>1 DEF Reaping
    <3> QED
      BY Zenon, <1>3, <3>1 DEF SweepRefund, Sweeps, Reaping
  <2> QED
    BY <1>0, <1>3, <2>2, <2>3 DEF SweepRefund, Types, promo, stripe
<1>4. CASE SweepRelease
  <2>1. sweep.of \in Bookings
    BY <1>4, SweepShape DEF SweepRelease
  <2>2. timesRedeemed' \in Nat /\ redemption' \in [Bookings -> {"none", "REDEEMED", "RELEASED"}]
    BY Zenon, <1>0, <1>4, <2>1, ReleaseEffect DEF SweepRelease, promo, Types
  <2>3. sweep' \in Sweeps
    BY Zenon, <1>4 DEF SweepRelease, Sweeps
  <2> QED
    BY <1>0, <1>4, <2>2, <2>3 DEF SweepRelease, Types, wallet, stripe
<1>5. CASE SweepFails
  <2>1. sweep' \in Sweeps
    BY Zenon, <1>5 DEF SweepFails, Sweeps
  <2> QED
    BY Zenon, <1>0, <1>5, <2>1 DEF SweepFails, Types, wallet, promo, stripe
<1> QED
  BY Zenon, <1>1, <1>2, <1>3, <1>4, <1>5 DEF Sweep

LEMMA TypeInit == Init => TypeOK
<1> SUFFICES ASSUME Init PROVE Types
  BY TypesAreTypeOK
<1>1. NoQuote \in Quotes /\ Refused \in Quotes
  <2>1. NoQuote \in Quotes
    BY DEF NoQuote, Quotes, CallSteps
  <2> QED
    BY Zenon, <2>1, QuoteType DEF Refused, CallSteps
<1>2. call \in [Bookings -> Quotes]
  BY Zenon, <1>1 DEF Init
<1> QED
  BY <1>2, CheckoutAssumption DEF Init, Types, Sweeps, CheckoutAssumption

LEMMA TypeStep == TypeOK /\ [Next]_vars => TypeOK'
<1> SUFFICES ASSUME TypeOK, [Next]_vars PROVE TypeOK'
  BY Zenon
<1>1. CASE UNCHANGED vars
  BY Zenon, <1>1 DEF vars, TypeOK
<1>2. CASE ClosePromo
  <2>1. Types' 
    BY Zenon, <1>2, TypesAreTypeOK DEF ClosePromo, Types, wallet, promo, stripe
  <2> QED
    BY Zenon, <2>1 DEF TypeOK, Types, Quotes
<1> QED
  BY Zenon, <1>1, <1>2, CreateTypes, SettleTypes, SweepTypes DEF Next

----------------------------------------------------------------------------
(* The promo slots.                                                        *)

Redeemed == {d \in Bookings : redemption[d] = "REDEEMED"}

\* The customer's bookings hold no slot, or one of them holds the one that is counted.
CountInv ==
    \/ timesRedeemed = 0 /\ Redeemed = {}
    \/ timesRedeemed = 1 /\ 1 <= MaxRedemptions /\ \E d \in Bookings : Redeemed = {d}

LEMMA RedeemCounts ==
    ASSUME TypeOK, CountInv, NEW d \in Bookings, RedeemWithinTx(d)
    PROVE  CountInv'
<1>1. Redeemed = {} /\ timesRedeemed = 0 /\ 1 <= MaxRedemptions
  BY CheckoutAssumption DEF RedeemWithinTx, CountInv, Redeemed, CheckoutAssumption
<1>2. Redeemed' = {d}
  BY Zenon, <1>1, RedeemEffect DEF Redeemed
<1> QED
  BY <1>1, <1>2 DEF CountInv, RedeemWithinTx

LEMMA ReleaseCounts ==
    ASSUME TypeOK, CountInv, NEW d \in Bookings, ReleaseForDelivery(d)
    PROVE  CountInv'
<1>1. CASE redemption[d] # "REDEEMED"
  BY Zenon, <1>1 DEF ReleaseForDelivery, promo, CountInv, Redeemed
<1>2. CASE redemption[d] = "REDEEMED"
  <2>1. Redeemed = {d} /\ timesRedeemed = 1
    BY Zenon, <1>2 DEF CountInv, Redeemed
  <2>2. redemption' = [redemption EXCEPT ![d] = "RELEASED"] /\ timesRedeemed' = 0
    BY <1>2, <2>1 DEF ReleaseForDelivery
  <2>3. Redeemed' = {}
    BY Zenon, <2>1, <2>2 DEF Redeemed, TypeOK
  <2> QED
    BY Zenon, <2>2, <2>3 DEF CountInv
<1> QED
  BY Zenon, <1>1, <1>2

LEMMA CountStep == TypeOK /\ CountInv /\ [Next]_vars => CountInv'
<1> SUFFICES ASSUME TypeOK, CountInv, [Next]_vars PROVE CountInv'
  OBVIOUS
<1>1. \/ UNCHANGED promo
      \/ \E d \in Bookings : RedeemWithinTx(d) \/ ReleaseForDelivery(d)
  <2>1. CASE UNCHANGED vars \/ ClosePromo
    BY <2>1 DEF vars, ClosePromo, promo
  <2>2. ASSUME NEW d \in Bookings, Create(d) \/ CrashCreate(d)
        PROVE  UNCHANGED promo \/ RedeemWithinTx(d) \/ ReleaseForDelivery(d)
    BY Zenon, <2>2 DEF Create, CrashCreate, Quote, ReservePromo, ReserveCredits, InsertDelivery, InTx,
       CompensatePromo, CompensateCredits, CreateIntent, CreateDeliveryPayment, BestEffort
  <2>3. ASSUME NEW d \in Bookings, \/ StripeMoves(d) \/ Terminate(d) \/ Tidy(d) \/ AdminRefund(d)
                                   \/ \E type \in IntentEvents : HandleWebhookEvent(d, type)
        PROVE  UNCHANGED promo \/ ReleaseForDelivery(d)
    BY Zenon, <2>3 DEF StripeMoves, Terminate, Tidy, TidyPromo, TidyCredits, TidyCharge, AdminRefund,
       HandleWebhookEvent, BestEffort
  <2>4. CASE Sweep
    BY Zenon, <2>4, SweepShape DEF Sweep, SweepBegin, SweepCheck, SweepRefund, SweepRelease, SweepFails
  <2> QED
    BY Zenon, <2>1, <2>2, <2>3, <2>4 DEF Next
<1>2. CASE UNCHANGED promo
  BY <1>2 DEF promo, CountInv, Redeemed
<1> QED
  BY <1>1, <1>2, RedeemCounts, ReleaseCounts

\* The counter is exactly the number of active redemptions, and within the cap, through every
\* rejection that committed, every compensation that failed and every sweep.
THEOREM PromoIsCounted == Spec => []PromoCount
<1>1. Init => TypeOK /\ CountInv
  <2> SUFFICES ASSUME Init PROVE CountInv
    BY Zenon, TypeInit
  <2>1. Redeemed = {}
    BY Zenon DEF Init, Redeemed
  <2> QED
    BY <2>1 DEF Init, CountInv
<1>2. TypeOK /\ CountInv /\ [Next]_vars => (TypeOK /\ CountInv)'
  BY Zenon, TypeStep, CountStep
<1>3. TypeOK /\ CountInv => PromoCount
  <2> SUFFICES ASSUME CountInv PROVE PromoCount
    BY Zenon
  <2>1. timesRedeemed = Cardinality(Redeemed) /\ timesRedeemed <= MaxRedemptions
    <3>1. CASE timesRedeemed = 0 /\ Redeemed = {}
      <4>1. MaxRedemptions \in Nat
        BY Zenon, CheckoutAssumption DEF CheckoutAssumption
      <4> QED
        BY <3>1, <4>1, FS_EmptySet
    <3>2. CASE timesRedeemed = 1 /\ 1 <= MaxRedemptions /\ \E d \in Bookings : Redeemed = {d}
      BY <3>2, FS_Singleton
    <3> QED
      BY Zenon, <3>1, <3>2 DEF CountInv
  <2> QED
    BY Zenon, <2>1 DEF PromoCount, Redeemed
<1> QED
  BY <1>1, <1>2, <1>3, PTL DEF Spec

----------------------------------------------------------------------------
(* What a booking took from wallet and card, and what it gave back.        *)

\* The debit of a booking is still to come.
BeforeDebit(d) ==
    call[d].at \in {"idle", "redeem", "debit"} \/ (call[d].at = "insert" /\ ~config.debitFirst)

\* Give-backs never exceed what was taken; a charge is given back only by the flip to
\* REFUNDED; and a COMPLETED payment is a captured one.
MoneyOf(d) ==
    /\ call[d].at \in {"redeem", "debit"} => config.debitFirst
    /\ BeforeDebit(d) => ledger[<<"debit", d>>] = 0
    /\ ledger[<<"refund", d>>] <= ledger[<<"debit", d>>]
    /\ payment[d] # "REFUNDED" => ledger[<<"exception-refund", d>>] = 0 /\ ledger[<<"admin-refund", d>>] = 0
    /\ ledger[<<"exception-refund", d>>] + ledger[<<"admin-refund", d>>] <= call[d].total
    /\ payment[d] # "none" => call[d].at = "done"
    /\ intent[d] # "none" => call[d].at \in {"payment", "done", "dead"}
    /\ call[d].at = "payment" /\ config.mock => intent[d] = "succeeded"
    /\ <<d, "succeeded">> \in sent => intent[d] = "succeeded"
    /\ payment[d] = "COMPLETED" \/ Written("exception-refund", d) => intent[d] = "succeeded"

MoneyInv == TypeOK /\ \A d \in Bookings : MoneyOf(d)

\* A step says nothing about booking e.
Untouched(e) ==
    /\ call'[e] = call[e] /\ payment'[e] = payment[e] /\ intent'[e] = intent[e]
    /\ \A k \in Kinds : ledger'[<<k, e>>] = ledger[<<k, e>>]
    /\ <<e, "succeeded">> \in sent' => <<e, "succeeded">> \in sent

LEMMA UntouchedMoney ==
    ASSUME NEW e \in Bookings, MoneyOf(e), UNCHANGED config, Untouched(e)
    PROVE  MoneyOf(e)'
<1>1. /\ ledger'[<<"debit", e>>] = ledger[<<"debit", e>>]
      /\ ledger'[<<"refund", e>>] = ledger[<<"refund", e>>]
      /\ ledger'[<<"exception-refund", e>>] = ledger[<<"exception-refund", e>>]
      /\ ledger'[<<"admin-refund", e>>] = ledger[<<"admin-refund", e>>]
  BY Zenon DEF Untouched, Kinds
<1> QED
  BY Zenon, <1>1 DEF MoneyOf, BeforeDebit, Written, Untouched

\* The ledger of a booking, entry by entry.
LEMMA Entries ==
    ASSUME TypeOK, NEW d \in Bookings
    PROVE  \A k \in {"debit", "refund", "exception-refund", "admin-refund"} :
             k \in Kinds /\ ledger[<<k, d>>] \in Nat
BY DEF TypeOK, Keys, Kinds

\* Before its debit a booking has neither been charged nor repaid credits.
LEMMA Undebited ==
    ASSUME TypeOK, NEW d \in Bookings, MoneyOf(d), BeforeDebit(d)
    PROVE  ledger[<<"debit", d>>] = 0 /\ ledger[<<"refund", d>>] = 0
<1>1. ledger[<<"debit", d>>] = 0 /\ ledger[<<"refund", d>>] <= ledger[<<"debit", d>>]
  BY Zenon DEF MoneyOf
<1>2. ledger[<<"refund", d>>] \in Nat
  BY Zenon, Entries
<1> QED
  BY <1>1, <1>2

\* A refund of credits is at most the debit.
LEMMA RefundMoney ==
    ASSUME TypeOK, NEW d \in Bookings, RefundForDelivery(d),
           ledger[<<"refund", d>>] <= ledger[<<"debit", d>>]
    PROVE  /\ ledger'[<<"debit", d>>] = ledger[<<"debit", d>>]
           /\ ledger'[<<"exception-refund", d>>] = ledger[<<"exception-refund", d>>]
           /\ ledger'[<<"admin-refund", d>>] = ledger[<<"admin-refund", d>>]
           /\ ledger'[<<"refund", d>>] <= ledger[<<"debit", d>>]
<1>1. \A k \in Kinds : k # "refund" => ledger'[<<k, d>>] = ledger[<<k, d>>]
  BY Zenon, RefundEffect
<1>2. ledger'[<<"refund", d>>] \in {ledger[<<"refund", d>>], ledger[<<"debit", d>>]}
  BY Zenon, RefundEffect
<1>3. ledger[<<"debit", d>>] \in Nat
  BY Entries
<1> QED
  BY <1>1, <1>2, <1>3 DEF Kinds

\* The flip to REFUNDED, whoever makes it.
LEMMA FlipMoney ==
    ASSUME NEW d \in Bookings, MoneyOf(d), UNCHANGED <<config, call, intent, sent>>,
           call[d].at = "done", payment'[d] = "REFUNDED",
           ledger'[<<"debit", d>>] = ledger[<<"debit", d>>],
           ledger'[<<"refund", d>>] = ledger[<<"refund", d>>],
           ledger'[<<"exception-refund", d>>] + ledger'[<<"admin-refund", d>>] <= call[d].total,
           ledger'[<<"exception-refund", d>>] > 0 => intent[d] = "succeeded"
    PROVE  MoneyOf(d)'
BY Zenon DEF MoneyOf, BeforeDebit, Written

\* A booking that has neither a charge nor a row of one.
LEMMA UnpaidMoney ==
    ASSUME NEW d \in Bookings, payment'[d] = "none", intent'[d] = "none", <<d, "succeeded">> \notin sent',
           call'[d].at # "payment", call'[d].total \in Nat,
           call'[d].at \in {"redeem", "debit"} => config'.debitFirst,
           BeforeDebit(d)' => ledger'[<<"debit", d>>] = 0,
           ledger'[<<"refund", d>>] <= ledger'[<<"debit", d>>],
           ledger'[<<"exception-refund", d>>] = 0, ledger'[<<"admin-refund", d>>] = 0
    PROVE  MoneyOf(d)'
<1>1. ledger'[<<"exception-refund", d>>] + ledger'[<<"admin-refund", d>>] <= call'[d].total
  OBVIOUS
<1>2. ~Written("exception-refund", d)'
  BY DEF Written
<1> QED
  BY Zenon, <1>1, <1>2 DEF MoneyOf

LEMMA CreateMoney ==
    ASSUME MoneyInv, NEW d \in Bookings, Create(d) \/ CrashCreate(d)
    PROVE  \A e \in Bookings : MoneyOf(e)'
<1>0. UNCHANGED config
  BY Zenon DEF Create, Quote, ReservePromo, ReserveCredits, InsertDelivery, CompensatePromo,
     CompensateCredits, CreateIntent, CreateDeliveryPayment, CrashCreate
<1>1. ASSUME \A e \in Bookings \ {d} : Untouched(e), MoneyOf(d)'
      PROVE  \A e \in Bookings : MoneyOf(e)'
  BY Zenon, <1>0, <1>1, UntouchedMoney DEF MoneyInv
<1>2. TypeOK /\ MoneyOf(d)
  BY Zenon DEF MoneyInv
<1>3. ASSUME NEW s \in CallSteps \ {"idle", "redeem", "payment"}, Goto(d, s),
             UNCHANGED <<ledger, payment, intent, sent>>,
             call[d].at \notin {"idle", "done", "rejected", "dead"},
             call[d].at = "payment" => s \in {"done", "dead"},
             s = "debit" => call[d].at = "redeem", s = "insert" => call[d].at = "debit"
      PROVE  \A e \in Bookings : MoneyOf(e)'
  <2>1. \A e \in Bookings \ {d} : Untouched(e)
    BY Zenon, <1>2, <1>3, GotoEffect DEF Untouched
  <2>2. call'[d].at = s /\ call'[d].total = call[d].total
    BY Zenon, <1>2, <1>3, GotoEffect
  <2>3. payment[d] = "none"
    BY Zenon, <1>2, <1>3 DEF MoneyOf
  <2>4. MoneyOf(d)'
    BY Zenon, <1>0, <1>2, <1>3, <2>2, <2>3 DEF MoneyOf, BeforeDebit, Written
  <2> QED
    BY <1>1, <2>1, <2>4
<1>4. CASE Quote(d)
  <2>1. UNCHANGED <<ledger, payment, intent, sent>> /\ call[d].at = "idle"
    BY Zenon, <1>4 DEF Quote, wallet, stripe, At
  <2>2. \A e \in Bookings \ {d} : Untouched(e)
    BY Zenon, <1>2, <1>4, <2>1, QuoteResult DEF Untouched
  <2>3. call'[d].total \in Nat /\ call'[d].at = IF config.debitFirst THEN "redeem" ELSE "insert"
    BY <1>2, <1>4, QuoteResult DEF Quotes
  <2>4. payment[d] = "none" /\ intent[d] = "none"
    BY Zenon, <1>2, <2>1 DEF MoneyOf
  <2>5. /\ ledger[<<"exception-refund", d>>] = 0 /\ ledger[<<"admin-refund", d>>] = 0
        /\ <<d, "succeeded">> \notin sent
    BY Zenon, <1>2, <2>4 DEF MoneyOf
  <2>6. ledger[<<"debit", d>>] = 0 /\ ledger[<<"refund", d>>] = 0 /\ 0 <= 0
    BY <1>2, <2>1, Undebited DEF BeforeDebit
  <2>7. /\ call'[d].at # "payment"
        /\ call'[d].at \in {"redeem", "debit"} => config.debitFirst
    BY Zenon, <2>3
  <2>8. MoneyOf(d)'
    BY Zenon, <1>0, <2>1, <2>3, <2>4, <2>5, <2>6, <2>7, UnpaidMoney
  <2> QED
    BY <1>1, <2>2, <2>8
<1>5. CASE ReservePromo(d)
  <2>1. UNCHANGED <<ledger, payment, intent, sent>> /\ call[d].at = "redeem"
    BY Zenon, <1>5 DEF ReservePromo, wallet, stripe, At
  <2>2. Goto(d, "debit") \/ Goto(d, "undo_promo")
    BY Zenon, <1>5 DEF ReservePromo
  <2> QED
    BY <1>3, <2>1, <2>2, CallStepType
<1>6. CASE ReserveCredits(d)
  <2>1. UNCHANGED <<payment, intent, sent>> /\ call[d].at = "debit"
    BY Zenon, <1>6 DEF ReserveCredits, stripe, At
  <2>2. Goto(d, "insert") \/ Goto(d, "undo_promo")
    BY <1>6 DEF ReserveCredits
  <2>3. CASE UNCHANGED ledger
    BY Zenon, <1>3, <2>1, <2>2, <2>3, CallStepType
  <2>4. CASE DebitWithinTx(d)
    <3>1. \A e \in Bookings \ {d} : Untouched(e)
      <4>1. \A e \in Bookings \ {d} : \A k \in Kinds : ledger'[<<k, e>>] = ledger[<<k, e>>]
        BY Zenon, <1>2, <2>4, DebitEffect
      <4>2. \A e \in Bookings \ {d} : call'[e] = call[e]
        BY <1>2, <2>2, GotoEffect, CallStepType
      <4> QED
        BY Zenon, <2>1, <4>1, <4>2 DEF Untouched
    <3>2. call'[d].at \in {"insert", "undo_promo"} /\ call'[d].total = call[d].total
      BY Zenon, <1>2, <2>2, GotoEffect, CallStepType
    <3>3. /\ ledger'[<<"refund", d>>] = ledger[<<"refund", d>>]
          /\ ledger'[<<"exception-refund", d>>] = ledger[<<"exception-refund", d>>]
          /\ ledger'[<<"admin-refund", d>>] = ledger[<<"admin-refund", d>>]
          /\ ledger'[<<"debit", d>>] \in Nat
      BY <1>2, <2>4, DebitEffect, Entries DEF Keys, Kinds
    <3>4. ledger[<<"refund", d>>] = 0 /\ payment[d] = "none" /\ intent[d] = "none" /\ config.debitFirst
      <4>1. BeforeDebit(d)
        BY Zenon, <2>1 DEF BeforeDebit
      <4>2. payment[d] = "none" /\ intent[d] = "none" /\ config.debitFirst
        BY <1>2, <2>1 DEF MoneyOf
      <4> QED
        BY Zenon, <1>2, <4>1, <4>2, Undebited
    <3>5. MoneyOf(d)'
      <4>1. /\ ledger[<<"exception-refund", d>>] = 0 /\ ledger[<<"admin-refund", d>>] = 0
            /\ <<d, "succeeded">> \notin sent
        BY Zenon, <1>2, <3>4 DEF MoneyOf
      <4>2. ~BeforeDebit(d)' /\ call'[d].at # "payment" /\ call'[d].at \notin {"redeem", "debit"}
        BY Zenon, <1>0, <3>2, <3>4 DEF BeforeDebit
      <4>3. ledger'[<<"refund", d>>] <= ledger'[<<"debit", d>>] /\ call[d].total \in Nat
        BY <1>2, <3>3, <3>4 DEF TypeOK
      <4> QED
        BY Zenon, <2>1, <3>2, <3>3, <3>4, <4>1, <4>2, <4>3, UnpaidMoney
    <3> QED
      BY <1>1, <3>1, <3>5
  <2> QED
    BY <1>6, <2>3, <2>4 DEF ReserveCredits, wallet
<1>7. CASE InsertDelivery(d)
  <2>1. UNCHANGED <<payment, intent, sent>> /\ call[d].at = "insert"
    BY Zenon, <1>7 DEF InsertDelivery, stripe, At
  <2>2. PICK s \in {"intent", "undo_promo", "rejected"} : Goto(d, s)
    BY <1>7 DEF InsertDelivery, Rejected
  <2>3. CASE UNCHANGED ledger
    BY Zenon, <1>3, <2>1, <2>2, <2>3, CallStepType
  <2>4. CASE DebitWithinTx(d) /\ ~config.debitFirst
    <3>1. \A e \in Bookings \ {d} : Untouched(e)
      <4>1. \A e \in Bookings \ {d} : \A k \in Kinds : ledger'[<<k, e>>] = ledger[<<k, e>>]
        BY Zenon, <1>2, <2>4, DebitEffect
      <4>2. \A e \in Bookings \ {d} : call'[e] = call[e]
        BY Zenon, <1>2, <2>2, GotoEffect, CallStepType
      <4> QED
        BY Zenon, <2>1, <4>1, <4>2 DEF Untouched
    <3>2. call'[d].at = s /\ call'[d].total = call[d].total
      BY Zenon, <1>2, <2>2, GotoEffect, CallStepType
    <3>3. /\ ledger'[<<"refund", d>>] = ledger[<<"refund", d>>]
          /\ ledger'[<<"exception-refund", d>>] = ledger[<<"exception-refund", d>>]
          /\ ledger'[<<"admin-refund", d>>] = ledger[<<"admin-refund", d>>]
          /\ ledger'[<<"debit", d>>] \in Nat
      BY <1>2, <2>4, DebitEffect, Entries DEF Keys, Kinds
    <3>4. ledger[<<"refund", d>>] = 0 /\ payment[d] = "none" /\ intent[d] = "none"
      BY <1>2, <2>1, <2>4, Entries DEF MoneyOf, BeforeDebit
    <3>5. MoneyOf(d)'
      BY SMTT(30), <1>0, <1>2, <2>1, <3>2, <3>3, <3>4 DEF MoneyOf, BeforeDebit, Written
    <3> QED
      BY <1>1, <3>1, <3>5
  <2> QED
    BY Zenon, <1>7, <2>3, <2>4 DEF InsertDelivery, InTx, wallet
<1>8. CASE CompensatePromo(d)
  BY Zenon, <1>3, <1>8, CallStepType DEF CompensatePromo, wallet, stripe, At
<1>9. CASE CompensateCredits(d)
  <2>1. UNCHANGED <<payment, intent, sent>> /\ call[d].at = "undo_credits" /\ Goto(d, "rejected")
    BY <1>9 DEF CompensateCredits, stripe, At
  <2>2. CASE UNCHANGED ledger
    BY Zenon, <1>3, <2>1, <2>2, CallStepType
  <2>3. CASE RefundForDelivery(d)
    <3>1. \A e \in Bookings \ {d} : Untouched(e)
      <4>1. \A e \in Bookings \ {d} : \A k \in Kinds : ledger'[<<k, e>>] = ledger[<<k, e>>]
        BY <1>2, <2>3, RefundEffect
      <4>2. \A e \in Bookings \ {d} : call'[e] = call[e]
        BY Zenon, <1>2, <2>1, GotoEffect, CallStepType
      <4> QED
        BY Zenon, <2>1, <4>1, <4>2 DEF Untouched
    <3>2. call'[d].at = "rejected" /\ call'[d].total = call[d].total
      BY Zenon, <1>2, <2>1, GotoEffect, CallStepType
    <3>3. /\ ledger'[<<"debit", d>>] = ledger[<<"debit", d>>]
          /\ ledger'[<<"exception-refund", d>>] = ledger[<<"exception-refund", d>>]
          /\ ledger'[<<"admin-refund", d>>] = ledger[<<"admin-refund", d>>]
          /\ ledger'[<<"refund", d>>] <= ledger[<<"debit", d>>]
      <4>1. ledger[<<"refund", d>>] <= ledger[<<"debit", d>>]
        BY Zenon, <1>2 DEF MoneyOf
      <4> QED
        BY Zenon, <1>2, <2>3, <4>1, RefundMoney
    <3>4. payment[d] = "none" /\ intent[d] = "none"
      BY Zenon, <1>2, <2>1 DEF MoneyOf
    <3>5. MoneyOf(d)'
      BY Zenon, <1>0, <1>2, <2>1, <3>2, <3>3, <3>4 DEF MoneyOf, BeforeDebit, Written
    <3> QED
      BY <1>1, <3>1, <3>5
  <2> QED
    BY Zenon, <1>9, <2>2, <2>3 DEF CompensateCredits, BestEffort, wallet
<1>10. CASE CreateIntent(d)
  <2>1. UNCHANGED <<ledger, payment, sent>> /\ call[d].at = "intent"
    BY <1>10 DEF CreateIntent, wallet, At
  <2>2. CASE UNCHANGED intent /\ Goto(d, "done")
    BY Zenon, <1>3, <2>1, <2>2, CallStepType
  <2>3. CASE /\ intent' = [intent EXCEPT ![d] = IF config.mock THEN "succeeded" ELSE "open"]
             /\ Goto(d, "payment")
    <3>1. /\ intent'[d] = IF config.mock THEN "succeeded" ELSE "open"
          /\ \A e \in Bookings \ {d} : intent'[e] = intent[e]
      BY Zenon, <1>2, <2>3 DEF TypeOK
    <3>2. \A e \in Bookings \ {d} : Untouched(e)
      BY Zenon, <1>2, <2>1, <2>3, <3>1, GotoEffect, CallStepType DEF Untouched
    <3>3. call'[d].at = "payment" /\ call'[d].total = call[d].total
      BY Zenon, <1>2, <2>3, GotoEffect, CallStepType
    <3>4. payment[d] = "none" /\ intent[d] = "none"
      BY Zenon, <1>2, <2>1 DEF MoneyOf
    <3>5. MoneyOf(d)'
      BY Zenon, <1>0, <1>2, <2>1, <3>1, <3>3, <3>4 DEF MoneyOf, BeforeDebit, Written
    <3> QED
      BY <1>1, <3>2, <3>5
  <2> QED
    BY Zenon, <1>10, <2>2, <2>3 DEF CreateIntent
<1>11. CASE CreateDeliveryPayment(d)
  <2>1. UNCHANGED <<ledger, intent, sent>> /\ call[d].at = "payment" /\ Goto(d, "done")
    BY Zenon, <1>11 DEF CreateDeliveryPayment, wallet, At
  <2>2. CASE UNCHANGED payment
    BY <1>3, <2>1, <2>2, CallStepType
  <2>3. CASE payment' = [payment EXCEPT ![d] = MapIntentStatus]
    <3>1. /\ payment'[d] = IF config.mock THEN "COMPLETED" ELSE "PENDING"
          /\ \A e \in Bookings \ {d} : payment'[e] = payment[e]
      BY <1>2, <2>3 DEF TypeOK, MapIntentStatus
    <3>2. \A e \in Bookings \ {d} : Untouched(e)
      BY Zenon, <1>2, <2>1, <3>1, GotoEffect, CallStepType DEF Untouched
    <3>3. call'[d].at = "done" /\ call'[d].total = call[d].total
      BY Zenon, <1>2, <2>1, GotoEffect, CallStepType
    <3>4. payment[d] = "none"
      BY Zenon, <1>2, <2>1 DEF MoneyOf
    <3>5. MoneyOf(d)'
      BY Zenon, <1>0, <1>2, <2>1, <3>1, <3>3, <3>4 DEF MoneyOf, BeforeDebit, Written
    <3> QED
      BY <1>1, <3>2, <3>5
  <2> QED
    BY <1>11, <2>2, <2>3 DEF CreateDeliveryPayment, BestEffort
<1>12. CASE CrashCreate(d)
  BY Zenon, <1>3, <1>12, CallStepType DEF CrashCreate, wallet, stripe
<1> QED
  BY <1>4, <1>5, <1>6, <1>7, <1>8, <1>9, <1>10, <1>11, <1>12 DEF Create

LEMMA SettleMoney ==
    ASSUME MoneyInv, NEW d \in Bookings,
           \/ StripeMoves(d) \/ Terminate(d) \/ Tidy(d) \/ AdminRefund(d)
           \/ \E type \in IntentEvents : HandleWebhookEvent(d, type)
    PROVE  \A e \in Bookings : MoneyOf(e)'
<1>0. UNCHANGED <<config, call>>
  BY Zenon DEF StripeMoves, Terminate, Tidy, TidyPromo, TidyCredits, TidyCharge, AdminRefund,
     HandleWebhookEvent
<1>1. ASSUME \A e \in Bookings \ {d} : Untouched(e), MoneyOf(d)'
      PROVE  \A e \in Bookings : MoneyOf(e)'
  BY Zenon, <1>0, <1>1, UntouchedMoney DEF MoneyInv
<1>2. TypeOK /\ MoneyOf(d)
  BY DEF MoneyInv
<1>3. ASSUME UNCHANGED <<ledger, payment, intent, sent>>
      PROVE  \A e \in Bookings : MoneyOf(e)'
  BY Zenon, <1>0, <1>3, UntouchedMoney DEF Untouched, MoneyInv
<1>4. CASE StripeMoves(d)
  <2>1. PICK type \in IntentMoves(intent[d]) :
          intent' = [intent EXCEPT ![d] = AfterEvent(type)] /\ sent' = sent \cup {<<d, type>>}
    BY Zenon, <1>4 DEF StripeMoves
  <2>2. intent[d] # "none" /\ intent[d] # "succeeded"
    BY <2>1 DEF IntentMoves
  <2>3. UNCHANGED <<ledger, payment>>
    BY Zenon, <1>4 DEF StripeMoves, wallet
  <2>4. intent'[d] = AfterEvent(type) /\ \A e \in Bookings \ {d} : intent'[e] = intent[e]
    BY <1>2, <2>1 DEF TypeOK
  <2>5. \A e \in Bookings \ {d} : Untouched(e)
    BY Zenon, <1>0, <2>1, <2>3, <2>4 DEF Untouched
  <2>6. <<d, "succeeded">> \in sent' => intent'[d] = "succeeded"
    BY <1>2, <2>1, <2>2, <2>4 DEF MoneyOf, AfterEvent
  <2>7. ~(payment[d] = "COMPLETED" \/ Written("exception-refund", d))
    BY Zenon, <1>2, <2>2 DEF MoneyOf
  <2>8. ~(call[d].at = "payment" /\ config.mock)
    BY Zenon, <1>2, <2>2 DEF MoneyOf
  <2>9. MoneyOf(d)'
    BY Zenon, <1>0, <1>2, <2>2, <2>3, <2>6, <2>7, <2>8 DEF MoneyOf, BeforeDebit, Written
  <2> QED
    BY <1>1, <2>5, <2>9
<1>5. CASE Terminate(d) \/ TidyPromo(d)
  BY Zenon, <1>3, <1>5 DEF Terminate, TidyPromo, wallet, stripe
<1>6. CASE TidyCredits(d)
  <2>1. UNCHANGED <<payment, intent, sent>>
    BY Zenon, <1>6 DEF TidyCredits, stripe
  <2>2. CASE UNCHANGED ledger
    BY Zenon, <1>3, <2>1, <2>2
  <2>3. CASE RefundForDelivery(d)
    <3>1. \A e \in Bookings \ {d} : Untouched(e)
      BY Zenon, <1>2, <1>0, <2>1, <2>3, RefundEffect DEF Untouched
    <3>2. /\ ledger'[<<"debit", d>>] = ledger[<<"debit", d>>]
          /\ ledger'[<<"exception-refund", d>>] = ledger[<<"exception-refund", d>>]
          /\ ledger'[<<"admin-refund", d>>] = ledger[<<"admin-refund", d>>]
          /\ ledger'[<<"refund", d>>] <= ledger[<<"debit", d>>]
      <4>1. ledger[<<"refund", d>>] <= ledger[<<"debit", d>>]
        BY Zenon, <1>2 DEF MoneyOf
      <4> QED
        BY Zenon, <1>2, <2>3, <4>1, RefundMoney
    <3>3. MoneyOf(d)'
      BY Zenon, <1>0, <1>2, <2>1, <3>2 DEF MoneyOf, BeforeDebit, Written
    <3> QED
      BY <1>1, <3>1, <3>3
  <2> QED
    BY Zenon, <1>6, <2>2, <2>3 DEF TidyCredits, BestEffort, wallet
<1>7. CASE TidyCharge(d)
  <2>1. UNCHANGED <<intent, sent>>
    BY Zenon, <1>7 DEF TidyCharge
  <2>2. CASE UNCHANGED <<payment, ledger>>
    BY <1>3, <2>1, <2>2
  <2>3. CASE RefundChargeToWallet(d) /\ payment[d] = "COMPLETED"
    <3>1. payment'[d] = "REFUNDED" /\ \A e \in Bookings \ {d} : payment'[e] = payment[e]
      <4>1. payment' = [payment EXCEPT ![d] = "REFUNDED"]
        BY Zenon, <1>2, <2>3, ChargeEffect
      <4> QED
        BY <1>2, <4>1 DEF TypeOK
    <3>2. \A e \in Bookings \ {d} : Untouched(e)
      <4>1. \A e \in Bookings \ {d} : \A k \in Kinds : ledger'[<<k, e>>] = ledger[<<k, e>>]
        BY Zenon, <1>2, <2>3, ChargeEffect
      <4> QED
        BY Zenon, <1>0, <2>1, <3>1, <4>1 DEF Untouched
    <3>3. /\ ledger'[<<"debit", d>>] = ledger[<<"debit", d>>]
          /\ ledger'[<<"refund", d>>] = ledger[<<"refund", d>>]
          /\ ledger'[<<"admin-refund", d>>] = 0
          /\ ledger'[<<"exception-refund", d>>] \in {0, call[d].total}
      BY Zenon, <1>2, <2>3, ChargeEffect DEF MoneyOf, Kinds
    <3>4. call[d].at = "done" /\ intent[d] = "succeeded" /\ call[d].total \in Nat
      BY Zenon, <1>2, <2>3 DEF MoneyOf, TypeOK
    <3>5. ledger'[<<"exception-refund", d>>] + ledger'[<<"admin-refund", d>>] <= call[d].total
      <4> DEFINE a == ledger'[<<"exception-refund", d>>]  t == call[d].total
      <4>1. a \in {0, t} /\ t \in Nat
        BY Zenon, <3>3, <3>4
      <4> HIDE DEF a, t
      <4>2. a + 0 <= t
        BY <4>1
      <4> QED
        BY Zenon, <3>3, <4>2 DEF a, t
    <3>6. MoneyOf(d)'
      BY Zenon, <1>0, <1>2, <2>1, <3>1, <3>3, <3>4, <3>5, FlipMoney
    <3> QED
      BY <1>1, <3>2, <3>6
  <2> QED
    BY Zenon, <1>7, <2>2, <2>3 DEF TidyCharge, BestEffort, RefundChargeToWallet, wallet
<1>8. CASE AdminRefund(d)
  <2>1. UNCHANGED <<intent, sent>> /\ payment[d] \notin {"none", "REFUNDED"}
    BY Zenon, <1>8 DEF AdminRefund
  <2>2. payment'[d] = "REFUNDED" /\ \A e \in Bookings \ {d} : payment'[e] = payment[e]
    BY Zenon, <1>2, <1>8 DEF TypeOK, AdminRefund
  <2>3. \A e \in Bookings \ {d} : Untouched(e)
    BY Zenon, <1>2, <1>0, <1>8, <2>1, <2>2, AdminEffect DEF Untouched
  <2>4. /\ ledger[<<"exception-refund", d>>] = 0 /\ ledger[<<"admin-refund", d>>] = 0
        /\ call[d].at = "done" /\ call[d].total \in Nat
    BY Zenon, <1>2, <2>1 DEF MoneyOf, TypeOK
  <2>5. /\ ledger'[<<"debit", d>>] = ledger[<<"debit", d>>]
        /\ ledger'[<<"refund", d>>] = ledger[<<"refund", d>>]
        /\ ledger'[<<"exception-refund", d>>] = 0
        /\ ledger'[<<"admin-refund", d>>] <= call[d].total /\ ledger'[<<"admin-refund", d>>] \in Nat
    <3>1. \A k \in Kinds : k # "admin-refund" => ledger'[<<k, d>>] = ledger[<<k, d>>]
      BY Zenon, <1>2, <1>8, AdminEffect
    <3>2. ledger'[<<"admin-refund", d>>] = 0 \/ ledger'[<<"admin-refund", d>>] <= call[d].total
      BY Zenon, <1>2, <1>8, <2>4, AdminEffect
    <3>3. ledger'[<<"admin-refund", d>>] \in Nat
      BY Zenon, <1>2, <1>8, AdminEffect DEF Keys, Kinds
    <3>4. /\ ledger'[<<"debit", d>>] = ledger[<<"debit", d>>]
          /\ ledger'[<<"refund", d>>] = ledger[<<"refund", d>>]
          /\ ledger'[<<"exception-refund", d>>] = ledger[<<"exception-refund", d>>]
      BY Zenon, <3>1 DEF Kinds
    <3>5. ledger'[<<"exception-refund", d>>] = 0
      BY <2>4, <3>4, Zenon
    <3>6. ledger'[<<"admin-refund", d>>] <= call[d].total
      <4> DEFINE a == ledger'[<<"admin-refund", d>>]  t == call[d].total
      <4>1. t \in Nat /\ (a = 0 \/ a <= t)
        BY <2>4, <3>2, Zenon
      <4> HIDE DEF a, t
      <4>2. a <= t
        BY <4>1
      <4> QED
        BY Zenon, <4>2 DEF a, t
    <3> QED
      BY <3>3, <3>4, <3>5, <3>6, Zenon
  <2>6. MoneyOf(d)'
    BY <1>0, <1>2, <2>1, <2>2, <2>4, <2>5, FlipMoney
  <2> QED
    BY <1>1, <2>3, <2>6
<1>9. ASSUME NEW type \in IntentEvents, HandleWebhookEvent(d, type)
      PROVE  \A e \in Bookings : MoneyOf(e)'
  <2>1. UNCHANGED <<ledger, intent, sent>> /\ <<d, type>> \in sent
    BY Zenon, <1>9 DEF HandleWebhookEvent, wallet
  <2>2. CASE UNCHANGED payment
    BY Zenon, <1>3, <2>1, <2>2
  <2>3. CASE /\ payment[d] \in AdvanceFrom(WebhookStatus(type))
             /\ payment' = [payment EXCEPT ![d] = WebhookStatus(type)]
    <3>1. type \in {"succeeded", "payment_failed", "processing", "canceled"}
      BY Zenon, CheckoutAssumption DEF CheckoutAssumption
    <3>2. payment[d] \in {"PENDING", "PROCESSING", "FAILED"}
      BY Zenon, <2>3, <3>1 DEF AdvanceFrom, WebhookStatus
    <3>3. /\ payment'[d] \in {"PROCESSING", "COMPLETED", "FAILED"}
          /\ payment'[d] = "COMPLETED" => type = "succeeded"
          /\ \A e \in Bookings \ {d} : payment'[e] = payment[e]
      BY <1>2, <2>3, <3>1 DEF WebhookStatus, TypeOK
    <3>4. \A e \in Bookings \ {d} : Untouched(e)
      BY Zenon, <1>0, <2>1, <3>3 DEF Untouched
    <3>5. MoneyOf(d)'
      BY Zenon, <1>0, <1>2, <2>1, <3>2, <3>3 DEF MoneyOf, BeforeDebit, Written
    <3> QED
      BY Zenon, <1>1, <3>4, <3>5
  <2> QED
    BY Zenon, <1>9, <2>2, <2>3 DEF HandleWebhookEvent
<1> QED
  BY <1>4, <1>5, <1>6, <1>7, <1>8, <1>9 DEF Tidy

LEMMA SweepMoney ==
    ASSUME MoneyInv, Sweep
    PROVE  \A e \in Bookings : MoneyOf(e)'
<1>0. TypeOK /\ UNCHANGED <<config, call, payment, intent, sent>>
  BY Zenon DEF MoneyInv, Sweep, SweepBegin, SweepCheck, SweepRefund, SweepRelease, SweepFails, stripe
<1>1. CASE UNCHANGED ledger
  BY Zenon, <1>0, <1>1, UntouchedMoney DEF Untouched, MoneyInv
<1>2. CASE SweepRefund /\ RefundForDelivery(sweep.of)
  <2> DEFINE d == sweep.of
  <2>1. d \in Bookings /\ MoneyOf(d)
    BY <1>0, <1>2, SweepShape DEF SweepRefund, MoneyInv
  <2>2. \A e \in Bookings \ {d} : Untouched(e)
    BY Zenon, <1>0, <1>2, <2>1, RefundEffect DEF Untouched
  <2>3. /\ ledger'[<<"debit", d>>] = ledger[<<"debit", d>>]
        /\ ledger'[<<"exception-refund", d>>] = ledger[<<"exception-refund", d>>]
        /\ ledger'[<<"admin-refund", d>>] = ledger[<<"admin-refund", d>>]
        /\ ledger'[<<"refund", d>>] <= ledger[<<"debit", d>>]
    <3>1. ledger[<<"refund", d>>] <= ledger[<<"debit", d>>]
      BY Zenon, <2>1 DEF MoneyOf
    <3> QED
      BY Zenon, <1>0, <1>2, <2>1, <3>1, RefundMoney
  <2> HIDE DEF d
  <2>4. ASSUME NEW e \in Bookings, e = d PROVE MoneyOf(e)'
    BY Zenon, <1>0, <2>1, <2>3, <2>4 DEF MoneyOf, BeforeDebit, Written
  <2> QED
    BY <1>0, <2>2, <2>4, UntouchedMoney DEF MoneyInv
<1> QED
  BY Zenon, <1>1, <1>2 DEF Sweep, SweepBegin, SweepCheck, SweepRefund, SweepRelease, SweepFails, wallet

LEMMA MoneyInvInit == Init => MoneyInv
<1> SUFFICES ASSUME Init PROVE \A d \in Bookings : MoneyOf(d)
  BY Zenon, TypeInit DEF MoneyInv
<1> TAKE d \in Bookings
<1>1. \A k \in {"debit", "refund", "exception-refund", "admin-refund"} : ledger[<<k, d>>] = 0
  BY Zenon DEF Init, Keys, Kinds
<1>2. call[d].at \in {"idle", "rejected"} /\ call[d].total = 0
  BY DEF Init, NoQuote, Refused
<1>3. payment[d] = "none" /\ intent[d] = "none" /\ sent = {}
  BY Zenon DEF Init
<1> QED
  BY <1>1, <1>2, <1>3 DEF MoneyOf, BeforeDebit, Written

LEMMA MoneyInvStep == MoneyInv /\ [Next]_vars => MoneyInv'
<1> SUFFICES ASSUME MoneyInv, [Next]_vars PROVE \A d \in Bookings : MoneyOf(d)'
  BY Zenon, TypeStep DEF MoneyInv
<1>1. CASE UNCHANGED vars \/ ClosePromo
  <2>1. UNCHANGED <<config, call, payment, intent, sent, ledger>>
    BY <1>1 DEF vars, ClosePromo, wallet, stripe
  <2> QED
    BY Zenon, <2>1, UntouchedMoney DEF MoneyInv, Untouched
<1>2. CASE Next /\ ~ClosePromo
  BY Zenon, <1>2, CreateMoney, SettleMoney, SweepMoney DEF Next
<1> QED
  BY Zenon, <1>1, <1>2

\* Compensation, sweep, cleanup and administrator together never return more credits than a
\* booking spent, nor its charge twice, whatever fails, repeats or interleaves.
THEOREM NothingIsReturnedTwice == Spec => []ReturnedAtMostOnce
<1>1. MoneyInv => ReturnedAtMostOnce
  BY Zenon DEF MoneyInv, MoneyOf, ReturnedAtMostOnce
<1> QED
  BY <1>1, MoneyInvInit, MoneyInvStep, PTL DEF Spec

\* In every order Stripe's events may arrive, and however often, a payment is COMPLETED or
\* refunded automatically only if the intent was captured.
THEOREM OnlyCapturedIsRefunded == Spec => []RefundsOnlyCaptured
<1>1. MoneyInv => RefundsOnlyCaptured
  BY Zenon DEF MoneyInv, MoneyOf, RefundsOnlyCaptured
<1> QED
  BY <1>1, MoneyInvInit, MoneyInvStep, PTL DEF Spec

----------------------------------------------------------------------------
(* A booking that stands is paid for.                                      *)

\* The grace window covers every create() still running, and the delivery transaction never
\* rejects after it committed.
NoLateCommit == GraceOutlastsCreate /\ "insert" \notin Faults

Backed(d) ==
    /\ ledger[<<"debit", d>>] = call[d].credits /\ ledger[<<"refund", d>>] = 0
    /\ call[d].promo => redemption[d] = "REDEEMED"

\* The reservations are complete before the row, and only a row that is absent for good, or
\* was canceled, has them given back.
BackedOf(d) ==
    /\ call[d].at = "debit" /\ call[d].promo => redemption[d] = "REDEEMED"
    /\ call[d].at = "insert" /\ config.debitFirst => Backed(d)
    /\ row[d] # "absent" => call[d].at \in {"intent", "payment", "done", "dead"}
    /\ row[d] \in {"open", "kept"} => Backed(d)
    /\ tidy[d] # "none" => row[d] = "refunded"

SweepIsLate ==
    sweep.at # "idle" => row[sweep.of] = "absent" /\ call[sweep.of].at \in {"done", "rejected", "dead"}

BackedInv == MoneyInv /\ (\A d \in Bookings : BackedOf(d)) /\ SweepIsLate

\* A step leaves the reservations of booking e, and its place, alone.
Kept(e) ==
    /\ call'[e] = call[e] /\ row'[e] = row[e] /\ tidy'[e] = tidy[e] /\ redemption'[e] = redemption[e]
    /\ ledger'[<<"debit", e>>] = ledger[<<"debit", e>>]
    /\ ledger'[<<"refund", e>>] = ledger[<<"refund", e>>]

LEMMA KeptBacked ==
    ASSUME NEW e \in Bookings, BackedOf(e), UNCHANGED config, Kept(e)
    PROVE  BackedOf(e)'
BY Zenon DEF BackedOf, Backed, Kept

\* A create() in progress is not the one being swept.
LEMMA SweepStays ==
    ASSUME BackedInv, NEW d \in Bookings, UNCHANGED sweep, \A e \in Bookings \ {d} : Kept(e),
           call[d].at \notin {"done", "rejected", "dead"}
    PROVE  SweepIsLate'
<1>1. sweep.at # "idle" => sweep.of \in Bookings \ {d}
  BY Zenon, SweepShape DEF BackedInv, MoneyInv, SweepIsLate
<1> QED
  BY Zenon, <1>1 DEF BackedInv, SweepIsLate, Kept

LEMMA CreateBacked ==
    ASSUME BackedInv, NoLateCommit, NEW d \in Bookings, Create(d) \/ CrashCreate(d)
    PROVE  (\A e \in Bookings : BackedOf(e)') /\ SweepIsLate'
<1>0. UNCHANGED <<config, sweep, tidy>> /\ call[d].at \notin {"done", "rejected", "dead"}
  BY Zenon DEF Create, Quote, ReservePromo, ReserveCredits, InsertDelivery, CompensatePromo,
     CompensateCredits, CreateIntent, CreateDeliveryPayment, CrashCreate, At
<1>1. ASSUME \A e \in Bookings \ {d} : Kept(e), BackedOf(d)'
      PROVE  (\A e \in Bookings : BackedOf(e)') /\ SweepIsLate'
  BY Zenon, <1>0, <1>1, KeptBacked, SweepStays DEF BackedInv
<1>2. TypeOK /\ BackedOf(d) /\ MoneyOf(d)
  BY Zenon DEF BackedInv, MoneyInv
\* Progress that gives nothing back and takes nothing.
<1>3. ASSUME NEW s \in {"undo_promo", "undo_credits", "payment", "done", "rejected", "dead"},
             Goto(d, s), UNCHANGED <<ledger, row, redemption>>,
             row[d] = "absent" \/ s \in {"payment", "done", "dead"}
      PROVE  (\A e \in Bookings : BackedOf(e)') /\ SweepIsLate'
  <2>1. \A e \in Bookings \ {d} : Kept(e)
    BY Zenon, <1>2, <1>0, <1>3, GotoEffect, CallStepType DEF Kept
  <2>2. call'[d].at = s /\ call'[d].credits = call[d].credits /\ call'[d].promo = call[d].promo
    BY Zenon, <1>2, <1>3, GotoEffect, CallStepType
  <2>3. BackedOf(d)'
    BY Zenon, <1>0, <1>2, <1>3, <2>2 DEF BackedOf, Backed
  <2> QED
    BY <1>1, <2>1, <2>3
<1>4. CASE Quote(d)
  <2>1. UNCHANGED <<ledger, row, redemption>> /\ call[d].at = "idle"
    BY Zenon, <1>4 DEF Quote, wallet, promo, At
  <2>2. \A e \in Bookings \ {d} : Kept(e)
    BY Zenon, <1>2, <1>0, <1>4, <2>1, QuoteResult DEF Kept
  <2>3. call'[d].at = IF config.debitFirst THEN "redeem" ELSE "insert"
    BY Zenon, <1>2, <1>4, QuoteResult
  <2>4. row[d] = "absent"
    BY Zenon, <1>2, <2>1 DEF BackedOf
  <2>5. BackedOf(d)'
    BY Zenon, <1>0, <1>2, <2>1, <2>3, <2>4 DEF BackedOf
  <2> QED
    BY <1>1, <2>2, <2>5
<1>5. CASE ReservePromo(d)
  <2>1. UNCHANGED <<ledger, row>> /\ call[d].at = "redeem" /\ row[d] = "absent"
    BY Zenon, <1>2, <1>5 DEF ReservePromo, wallet, At, BackedOf
  <2>2. PICK s \in {"debit", "undo_promo"} : Goto(d, s) /\ (RedeemWithinTx(d) \/ UNCHANGED redemption)
                                             /\ (s = "debit" /\ call[d].promo => RedeemWithinTx(d))
    BY <1>5 DEF ReservePromo, promo
  <2>3. /\ call'[d].at = s /\ call'[d].promo = call[d].promo
        /\ \A e \in Bookings \ {d} : call'[e] = call[e]
    BY Zenon, <1>2, <2>2, GotoEffect, CallStepType
  <2>4. /\ \A e \in Bookings \ {d} : redemption'[e] = redemption[e]
        /\ s = "debit" /\ call[d].promo => redemption'[d] = "REDEEMED"
    BY <1>2, <2>2, RedeemEffect
  <2>5. \A e \in Bookings \ {d} : Kept(e)
    BY Zenon, <1>0, <2>1, <2>3, <2>4 DEF Kept
  <2>6. BackedOf(d)'
    BY Zenon, <1>0, <1>2, <2>1, <2>3, <2>4 DEF BackedOf
  <2> QED
    BY <1>1, <2>5, <2>6
<1>6. CASE ReserveCredits(d)
  <2>1. UNCHANGED <<redemption, row>> /\ call[d].at = "debit" /\ row[d] = "absent"
    BY Zenon, <1>2, <1>6 DEF ReserveCredits, promo, At, BackedOf
  <2>2. PICK s \in {"insert", "undo_promo"} :
          /\ Goto(d, s) /\ (DebitWithinTx(d) \/ UNCHANGED ledger)
          /\ s = "insert" => DebitWithinTx(d) \/ (~(call[d].credits > 0) /\ UNCHANGED ledger)
    BY Zenon, <1>6 DEF ReserveCredits, wallet
  <2>3. /\ call'[d].at = s /\ call'[d].promo = call[d].promo /\ call'[d].credits = call[d].credits
        /\ \A e \in Bookings \ {d} : call'[e] = call[e]
    BY Zenon, <1>2, <2>2, GotoEffect, CallStepType
  <2>4. /\ ledger[<<"debit", d>>] = 0 /\ ledger[<<"refund", d>>] = 0 /\ call[d].credits \in Nat
        /\ \A e \in Bookings \ {d} : /\ ledger'[<<"debit", e>>] = ledger[<<"debit", e>>]
                                     /\ ledger'[<<"refund", e>>] = ledger[<<"refund", e>>]
    <3>1. ledger[<<"debit", d>>] = 0 /\ ledger[<<"refund", d>>] = 0 /\ call[d].credits \in Nat
      <4>1. BeforeDebit(d)
        BY Zenon, <2>1 DEF BeforeDebit
      <4>2. ledger[<<"debit", d>>] = 0 /\ ledger[<<"refund", d>>] = 0
        BY Zenon, <1>2, <4>1, Undebited
      <4> QED
        BY <1>2, <4>2 DEF TypeOK
    <3> QED
      BY Zenon, <1>2, <2>2, <3>1, DebitEffect DEF Kinds
  <2>5. s = "insert" => ledger'[<<"debit", d>>] = call[d].credits /\ ledger'[<<"refund", d>>] = 0
    <3>1. CASE DebitWithinTx(d)
      BY Zenon, <1>2, <2>4, <3>1, DebitEffect DEF Kinds
    <3>2. CASE ~(call[d].credits > 0) /\ UNCHANGED ledger
      <4>1. call[d].credits = 0
        BY <2>4, <3>2
      <4> QED
        BY Zenon, <2>4, <3>2, <4>1
    <3> QED
      BY Zenon, <2>2, <3>1, <3>2
  <2>6. \A e \in Bookings \ {d} : Kept(e)
    BY Zenon, <1>0, <2>1, <2>3, <2>4 DEF Kept
  <2>7. BackedOf(d)'
    BY Zenon, <1>0, <1>2, <2>1, <2>3, <2>5 DEF BackedOf, Backed
  <2> QED
    BY <1>1, <2>6, <2>7
<1>7. CASE InsertDelivery(d)
  <2>1. call[d].at = "insert" /\ row[d] = "absent"
    BY Zenon, <1>2, <1>7 DEF InsertDelivery, At, BackedOf
  <2>2. CASE Goto(d, Rejected) /\ UNCHANGED <<promo, wallet, row>>
    BY Zenon, <1>3, <2>1, <2>2 DEF Rejected, promo, wallet
  <2>3. CASE InTx(d) /\ Goto(d, "intent")
    <3>1. /\ call'[d].at = "intent" /\ call'[d].promo = call[d].promo /\ call'[d].credits = call[d].credits
          /\ \A e \in Bookings \ {d} : call'[e] = call[e]
      BY Zenon, <1>2, <2>3, GotoEffect, CallStepType
    <3>2. row'[d] = "open" /\ \A e \in Bookings \ {d} : row'[e] = row[e]
      BY Zenon, <1>2, <2>3 DEF InTx, TypeOK
    <3>3. /\ \A e \in Bookings \ {d} : redemption'[e] = redemption[e]
          /\ ~config.debitFirst /\ call[d].promo => redemption'[d] = "REDEEMED"
          /\ config.debitFirst => UNCHANGED redemption
      BY Zenon, <1>2, <2>3, RedeemEffect DEF InTx, promo
    <3>4. ~config.debitFirst => ledger[<<"debit", d>>] = 0 /\ ledger[<<"refund", d>>] = 0
      <4>1. ~config.debitFirst => BeforeDebit(d)
        BY Zenon, <2>1 DEF BeforeDebit
      <4> QED
        BY Zenon, <1>2, <4>1, Undebited
    <3>5. call[d].credits \in Nat
      BY <1>2 DEF TypeOK
    <3>6. CASE ~config.debitFirst /\ call[d].credits > 0
      <4>1. DebitWithinTx(d)
        BY Zenon, <2>3, <3>6 DEF InTx
      <4>2. /\ ledger'[<<"debit", d>>] = call[d].credits /\ ledger'[<<"refund", d>>] = 0
            /\ \A e \in Bookings \ {d} : /\ ledger'[<<"debit", e>>] = ledger[<<"debit", e>>]
                                         /\ ledger'[<<"refund", e>>] = ledger[<<"refund", e>>]
        BY Zenon, <1>2, <3>4, <3>6, <4>1, DebitEffect DEF Kinds
      <4>3. \A e \in Bookings \ {d} : Kept(e)
        BY Zenon, <1>0, <3>1, <3>2, <3>3, <4>2 DEF Kept
      <4>4. BackedOf(d)'
        BY Zenon, <1>0, <1>2, <2>1, <3>1, <3>2, <3>3, <3>6, <4>2 DEF BackedOf, Backed
      <4> QED
        BY <1>1, <4>3, <4>4
    <3>7. CASE ~(~config.debitFirst /\ call[d].credits > 0)
      <4>1. UNCHANGED ledger
        BY Zenon, <2>3, <3>7 DEF InTx, wallet
      <4>2. \A e \in Bookings \ {d} : Kept(e)
        BY Zenon, <1>0, <3>1, <3>2, <3>3, <4>1 DEF Kept
      <4>3. ledger[<<"debit", d>>] = call[d].credits /\ ledger[<<"refund", d>>] = 0
        BY <1>2, <2>1, <3>4, <3>5, <3>7 DEF BackedOf, Backed
      <4>4. BackedOf(d)'
        BY Zenon, <1>0, <1>2, <2>1, <3>1, <3>2, <3>3, <4>1, <4>3 DEF BackedOf, Backed
      <4> QED
        BY <1>1, <4>2, <4>4
    <3> QED
      BY Zenon, <3>6, <3>7
  <2> QED
    BY <1>7, <2>2, <2>3 DEF InsertDelivery, NoLateCommit
<1>8. CASE CompensatePromo(d) \/ CompensateCredits(d)
  <2>1. UNCHANGED row /\ row[d] = "absent"
    BY Zenon, <1>2, <1>8 DEF CompensatePromo, CompensateCredits, At, BackedOf
  <2>2. PICK s \in {"undo_credits", "rejected"} : Goto(d, s)
    BY Zenon, <1>8 DEF CompensatePromo, CompensateCredits
  <2>3. call'[d].at = s /\ \A e \in Bookings \ {d} : call'[e] = call[e]
    BY Zenon, <1>2, <2>2, GotoEffect, CallStepType
  <2>4. \A e \in Bookings \ {d} : redemption'[e] = redemption[e]
    BY Zenon, <1>2, <1>8, ReleaseEffect DEF CompensatePromo, CompensateCredits, BestEffort, promo
  <2>5. \A e \in Bookings \ {d} : /\ ledger'[<<"debit", e>>] = ledger[<<"debit", e>>]
                                  /\ ledger'[<<"refund", e>>] = ledger[<<"refund", e>>]
    BY Zenon, <1>2, <1>8, RefundEffect DEF CompensatePromo, CompensateCredits, BestEffort, wallet, Kinds
  <2>6. \A e \in Bookings \ {d} : Kept(e)
    BY Zenon, <1>0, <2>1, <2>3, <2>4, <2>5 DEF Kept
  <2>7. BackedOf(d)'
    BY Zenon, <1>0, <1>2, <2>1, <2>3 DEF BackedOf
  <2> QED
    BY <1>1, <2>6, <2>7
<1>9. CASE CreateIntent(d) \/ CreateDeliveryPayment(d) \/ CrashCreate(d)
  <2>1. UNCHANGED <<ledger, row, redemption>>
    BY Zenon, <1>9 DEF CreateIntent, CreateDeliveryPayment, CrashCreate, wallet, promo
  <2>2. Goto(d, "payment") \/ Goto(d, "done") \/ Goto(d, "dead")
    BY Zenon, <1>9 DEF CreateIntent, CreateDeliveryPayment, CrashCreate
  <2> QED
    BY <1>3, <2>1, <2>2
<1> QED
  BY <1>4, <1>5, <1>6, <1>7, <1>8, <1>9 DEF Create

LEMMA SettleBacked ==
    ASSUME BackedInv, NEW d \in Bookings,
           \/ StripeMoves(d) \/ Terminate(d) \/ Tidy(d) \/ AdminRefund(d)
           \/ \E type \in IntentEvents : HandleWebhookEvent(d, type)
    PROVE  (\A e \in Bookings : BackedOf(e)') /\ SweepIsLate'
<1>0. UNCHANGED <<config, call, sweep>>
  BY DEF StripeMoves, Terminate, Tidy, TidyPromo, TidyCredits, TidyCharge, AdminRefund,
     HandleWebhookEvent
<1>2. TypeOK /\ BackedOf(d) /\ SweepIsLate
  BY DEF BackedInv, MoneyInv
<1>1. ASSUME \A e \in Bookings \ {d} : Kept(e), BackedOf(d)', row[d] # "absent"
      PROVE  (\A e \in Bookings : BackedOf(e)') /\ SweepIsLate'
  <2>1. sweep.at # "idle" => sweep.of \in Bookings \ {d}
    BY <1>2, <1>1, SweepShape DEF SweepIsLate
  <2> QED
    BY <1>0, <1>1, <2>1, KeptBacked DEF SweepIsLate, Kept, BackedInv
<1>3. ASSUME UNCHANGED <<row, tidy, redemption>>,
             \A e \in Bookings : /\ ledger'[<<"debit", e>>] = ledger[<<"debit", e>>]
                                 /\ ledger'[<<"refund", e>>] = ledger[<<"refund", e>>]
      PROVE  (\A e \in Bookings : BackedOf(e)') /\ SweepIsLate'
  BY <1>0, <1>3, KeptBacked DEF Kept, SweepIsLate, BackedInv
<1>4. CASE StripeMoves(d) \/ \E type \in IntentEvents : HandleWebhookEvent(d, type)
  BY <1>3, <1>4 DEF StripeMoves, HandleWebhookEvent, wallet, promo
<1>5. CASE AdminRefund(d)
  <2>1. UNCHANGED <<row, tidy, redemption>>
    BY <1>5 DEF AdminRefund, promo
  <2> QED
    BY <1>2, <1>3, <1>5, <2>1, AdminEffect DEF Kinds
<1>6. CASE Terminate(d)
  <2>1. UNCHANGED <<ledger, redemption>> /\ row[d] = "open"
    BY <1>6 DEF Terminate, wallet, promo
  <2>2. /\ row'[d] \in {"refunded", "kept"} /\ (tidy'[d] # "none" => row'[d] = "refunded")
        /\ \A e \in Bookings \ {d} : row'[e] = row[e] /\ tidy'[e] = tidy[e]
    BY <1>2, <1>6 DEF Terminate, TypeOK
  <2>3. \A e \in Bookings \ {d} : Kept(e)
    BY <1>0, <2>1, <2>2 DEF Kept
  <2>4. BackedOf(d)'
    BY <1>0, <1>2, <2>1, <2>2 DEF BackedOf, Backed
  <2> QED
    BY <1>1, <2>1, <2>3, <2>4
<1>7. CASE Tidy(d)
  <2>1. row[d] = "refunded" /\ UNCHANGED row
    BY <1>2, <1>7 DEF Tidy, TidyPromo, TidyCredits, TidyCharge, BackedOf
  <2>2. \A e \in Bookings \ {d} : tidy'[e] = tidy[e]
    <3>1. \E t \in {"credits", "charge", "done"} : tidy' = [tidy EXCEPT ![d] = t]
      BY <1>7 DEF Tidy, TidyPromo, TidyCredits, TidyCharge
    <3>2. DOMAIN tidy = Bookings
      BY <1>2 DEF TypeOK
    <3> QED
      BY <3>1, <3>2
  <2>3. \A e \in Bookings \ {d} : redemption'[e] = redemption[e]
    BY <1>2, <1>7, ReleaseEffect DEF Tidy, TidyPromo, TidyCredits, TidyCharge, BestEffort, promo
  <2>4. \A e \in Bookings \ {d} : /\ ledger'[<<"debit", e>>] = ledger[<<"debit", e>>]
                                  /\ ledger'[<<"refund", e>>] = ledger[<<"refund", e>>]
    <3>1. CASE UNCHANGED ledger
      BY <3>1
    <3>2. CASE RefundForDelivery(d)
      BY <1>2, <3>2, RefundEffect DEF Kinds
    <3>3. CASE RefundChargeToWallet(d) /\ payment[d] = "COMPLETED"
      BY <1>2, <3>3, ChargeEffect DEF Kinds
    <3> QED
      BY <1>7, <3>1, <3>2, <3>3
      DEF Tidy, TidyPromo, TidyCredits, TidyCharge, BestEffort, RefundChargeToWallet, wallet
  <2>5. \A e \in Bookings \ {d} : Kept(e)
    BY <1>0, <2>1, <2>2, <2>3, <2>4 DEF Kept
  <2>6. call[d].at \notin {"debit", "insert"}
    BY <1>2, <2>1 DEF BackedOf
  <2>7. BackedOf(d)'
    BY <1>0, <1>2, <2>1, <2>6 DEF BackedOf
  <2> QED
    BY <1>1, <2>1, <2>5, <2>7
<1> QED
  BY <1>4, <1>5, <1>6, <1>7

LEMMA SweepBacked ==
    ASSUME BackedInv, NoLateCommit, Sweep
    PROVE  (\A e \in Bookings : BackedOf(e)') /\ SweepIsLate'
<1>0. TypeOK /\ SweepIsLate /\ UNCHANGED <<config, call, row, tidy>>
  BY DEF BackedInv, MoneyInv, Sweep, SweepBegin, SweepCheck, SweepRefund, SweepRelease, SweepFails
<1>1. SweepIsLate'
  <2>1. ASSUME NEW d \in Bookings, SweepBegin(d) PROVE SweepIsLate'
    <3>1. sweep'.of = d /\ row[d] = "absent" /\ call[d].at \in {"done", "rejected", "dead"}
      BY <2>1 DEF SweepBegin, Orphan, Aged, NoLateCommit
    <3> QED
      BY <1>0, <3>1 DEF SweepIsLate
  <2>2. CASE SweepCheck
    BY <1>0, <2>2 DEF SweepCheck, SweepIsLate, NoSweep
  <2>3. CASE SweepRefund
    <3>1. sweep \in Reaping
      BY <1>0, <2>3, SweepShape DEF SweepRefund
    <3>2. sweep'.of = sweep.of
      BY <2>3, <3>1 DEF SweepRefund, Reaping
    <3> QED
      BY <1>0, <2>3, <3>2 DEF SweepRefund, SweepIsLate
  <2>4. CASE SweepRelease \/ SweepFails
    BY <2>4 DEF SweepRelease, SweepFails, SweepIsLate, NoSweep
  <2> QED
    BY <2>1, <2>2, <2>3, <2>4 DEF Sweep
<1>2. CASE UNCHANGED <<ledger, redemption>>
  BY <1>0, <1>1, <1>2, KeptBacked DEF Kept, BackedInv
<1>3. CASE SweepRefund \/ SweepRelease
  <2> DEFINE d == sweep.of
  <2>1. d \in Bookings /\ row[d] = "absent" /\ call[d].at \in {"done", "rejected", "dead"} /\ BackedOf(d)
    BY <1>0, <1>3, SweepShape DEF SweepRefund, SweepRelease, SweepIsLate, BackedInv
  <2>2. \A e \in Bookings \ {d} : redemption'[e] = redemption[e]
    BY <1>0, <1>3, <2>1, ReleaseEffect DEF SweepRefund, SweepRelease, promo
  <2>3. \A e \in Bookings \ {d} : /\ ledger'[<<"debit", e>>] = ledger[<<"debit", e>>]
                                  /\ ledger'[<<"refund", e>>] = ledger[<<"refund", e>>]
    BY <1>0, <1>3, <2>1, RefundEffect DEF SweepRefund, SweepRelease, wallet, Kinds
  <2> HIDE DEF d
  <2>4. \A e \in Bookings \ {d} : Kept(e)
    BY <1>0, <2>2, <2>3 DEF Kept
  <2>5. ASSUME NEW e \in Bookings, e = d PROVE BackedOf(e)'
    BY <1>0, <2>1, <2>5 DEF BackedOf
  <2> QED
    BY <1>0, <1>1, <2>4, <2>5, KeptBacked DEF BackedInv
<1> QED
  BY <1>2, <1>3 DEF Sweep, SweepBegin, SweepCheck, SweepFails, wallet, promo

LEMMA BackedInvInit == Init => BackedInv
<1> SUFFICES ASSUME Init PROVE (\A d \in Bookings : BackedOf(d)) /\ SweepIsLate
  BY MoneyInvInit DEF BackedInv
<1>1. \A d \in Bookings : /\ call[d].at \in {"idle", "rejected"}
                          /\ row[d] = "absent" /\ tidy[d] = "none"
  BY DEF Init, NoQuote, Refused
<1> QED
  BY <1>1 DEF BackedOf, SweepIsLate, Init, NoSweep

LEMMA BackedInvStep ==
    ASSUME NoLateCommit
    PROVE  BackedInv /\ [Next]_vars => BackedInv'
<1> SUFFICES ASSUME BackedInv, [Next]_vars PROVE (\A d \in Bookings : BackedOf(d)') /\ SweepIsLate'
  BY MoneyInvStep DEF BackedInv
<1>1. CASE UNCHANGED vars \/ ClosePromo
  <2>1. UNCHANGED <<config, call, row, tidy, redemption, ledger, sweep>>
    BY <1>1 DEF vars, ClosePromo, wallet, promo
  <2> QED
    BY <2>1, KeptBacked DEF BackedInv, Kept, SweepIsLate
<1>2. CASE Next /\ ~ClosePromo
  BY Zenon, <1>2, CreateBacked, SettleBacked, SweepBacked DEF Next
<1> QED
  BY <1>1, <1>2

\* When the grace window covers every create() still running and the delivery transaction never
\* rejects after it committed, every delivery that exists and was not canceled has its credits
\* spent and its promo slot taken: neither compensation nor the sweep takes them from under it.
THEOREM BookingsArePaidFor == NoLateCommit => (Spec => []BookedIsPaidFor)
<1> SUFFICES ASSUME NoLateCommit PROVE Spec => []BookedIsPaidFor
  OBVIOUS
<1>1. BackedInv => BookedIsPaidFor
  BY DEF BackedInv, BackedOf, Backed, BookedIsPaidFor, Written
<1>2. BackedInv /\ [Next]_vars => BackedInv'
  BY BackedInvStep
<1> QED
  BY <1>1, <1>2, BackedInvInit, PTL DEF Spec

----------------------------------------------------------------------------
(* The sum of the ledger.                                                  *)

\* A least element, from the well-founded order of the naturals.
LEMMA MinIsMember ==
    ASSUME NEW S \in SUBSET Nat, S # {}
    PROVE  Min(S) \in S /\ \A y \in S : Min(S) <= y
<1>1. PICK x \in S : \A y \in S : ~(<<y, x>> \in OpToRel(<, Nat))
  BY NatLessThanWellFounded, WFMin
<1>2. ASSUME NEW y \in S PROVE ~(y < x)
  <2> DEFINE p == <<y, x>>
  <2>1. p \in Nat \X Nat /\ p[1] = y /\ p[2] = x
    OBVIOUS
  <2>2. p \notin OpToRel(<, Nat)
    BY <1>1, <1>2
  <2> HIDE DEF p
  <2> QED
    BY Zenon, <2>1, <2>2 DEF OpToRel
<1>3. \A y \in S : x <= y
  BY <1>2
<1> QED
  BY <1>3 DEF Min

\* The row that the fold of LedgerSum takes next, and what it adds.
Taken(S) == CHOOSE k \in S : TRUE
Signed(rows, k) == IF k[1] = "debit" THEN -rows[k] ELSE rows[k]

\* f adds up the rows of every set of keys, in the order of the fold.
Sums(rows, f) ==
    f = [S \in SUBSET Keys |-> IF S = {} THEN 0 ELSE Signed(rows, Taken(S)) + f[S \ {Taken(S)}]]

LEMMA TakenIs ==
    ASSUME NEW S, S # {}
    PROVE  Taken(S) \in S
BY DEF Taken

LEMMA SignedIs ==
    ASSUME NEW rows \in [Keys -> Int], NEW k \in Keys
    PROVE  Signed(rows, k) = IF k[1] = "debit" THEN 0 - rows[k] ELSE rows[k]
<1> DEFINE n == rows[k]
<1>1. n \in Int
  OBVIOUS
<1> HIDE DEF n
<1>2. -n = 0 - n
  BY <1>1
<1> QED
  BY <1>2 DEF Signed, n

LEMMA LedgerSumIs ==
    ASSUME NEW rows, NEW g, Sums(rows, g)
    PROVE  \E f : Sums(rows, f) /\ LedgerSum(rows) = f[Keys]
<1> DEFINE F == CHOOSE f : Sums(rows, f)
<1>1. Sums(rows, F)
  OBVIOUS
<1>2. LedgerSum(rows) = F[Keys]
  BY Zenon DEF LedgerSum, MapThenSumSet, MapThenFoldSet, Sums, Signed, Taken
<1> QED
  BY <1>1, <1>2

LEMMA KeysAreFinite == IsFiniteSet(Keys)
<1>1. IsFiniteSet(Kinds)
  <2>1. IsFiniteSet({"debit"}) /\ IsFiniteSet({"refund"}) /\ IsFiniteSet({"exception-refund"})
        /\ IsFiniteSet({"admin-refund"})
    BY FS_Singleton
  <2>2. IsFiniteSet({"debit"} \cup {"refund"}) /\ IsFiniteSet({"exception-refund"} \cup {"admin-refund"})
    BY <2>1, FS_Union
  <2>3. IsFiniteSet(({"debit"} \cup {"refund"}) \cup ({"exception-refund"} \cup {"admin-refund"}))
    BY <2>2, FS_Union
  <2>4. Kinds = ({"debit"} \cup {"refund"}) \cup ({"exception-refund"} \cup {"admin-refund"})
    BY DEF Kinds
  <2> QED
    BY <2>3, <2>4
<1> QED
  BY <1>1, CheckoutAssumption, FS_Product DEF CheckoutAssumption, Keys

\* Taking the next row leaves one fewer.
LEMMA OneFewer ==
    ASSUME NEW S \in SUBSET Keys, S # {}
    PROVE  /\ Cardinality(S) \in Nat /\ Cardinality(S \ {Taken(S)}) \in Nat
           /\ Cardinality(S \ {Taken(S)}) = Cardinality(S) - 1
           /\ S \ {Taken(S)} \in SUBSET Keys /\ Taken(S) \in Keys
<1>1. IsFiniteSet(S) /\ Taken(S) \in S
  BY KeysAreFinite, FS_Subset, TakenIs
<1>2. Cardinality(S \ {Taken(S)}) = Cardinality(S) - 1 /\ IsFiniteSet(S \ {Taken(S)})
  BY <1>1, FS_RemoveElement
<1>3. Cardinality(S) \in Nat /\ Cardinality(S \ {Taken(S)}) \in Nat
  BY <1>1, <1>2, FS_CardinalityType
<1> QED
  BY <1>1, <1>2, <1>3

UpTo(n) == {S \in SUBSET Keys : Cardinality(S) <= n}
AddsUp(rows, f, S) == f[S] = IF S = {} THEN 0 ELSE Signed(rows, Taken(S)) + f[S \ {Taken(S)}]

\* The fold is defined: its values exist for the sets of up to n keys, for every n.
LEMMA SumsExist ==
    ASSUME NEW rows
    PROVE  \E f : Sums(rows, f)
<1> DEFINE Exists(n) == \E f : DOMAIN f = UpTo(n) /\ f = [S \in UpTo(n) |-> f[S]] /\ \A S \in UpTo(n) : AddsUp(rows, f, S)
           Bad == {n \in Nat : ~Exists(n)}
<1>1. \A S \in SUBSET Keys : IsFiniteSet(S) /\ Cardinality(S) \in Nat
  BY KeysAreFinite, FS_Subset, FS_CardinalityType
<1>2. Exists(0)
  <2> DEFINE f == [S \in UpTo(0) |-> 0]
  <2>1. \A S \in UpTo(0) : S = {}
    <3> TAKE S \in UpTo(0)
    <3>1. IsFiniteSet(S) /\ Cardinality(S) = 0
      BY <1>1 DEF UpTo
    <3> QED
      BY <3>1, FS_EmptySet
  <2>2. \A S \in UpTo(0) : AddsUp(rows, f, S)
    BY <2>1 DEF AddsUp
  <2>3. DOMAIN f = UpTo(0) /\ f = [S \in UpTo(0) |-> f[S]]
    OBVIOUS
  <2> HIDE DEF f
  <2> QED
    BY <2>2, <2>3
<1>3. ASSUME NEW n \in Nat, Exists(n) PROVE Exists(n + 1)
  <2>1. PICK f : \A S \in UpTo(n) : AddsUp(rows, f, S)
    BY <1>3
  <2> DEFINE g == [S \in UpTo(n + 1) |-> IF S \in UpTo(n) THEN f[S]
                                         ELSE Signed(rows, Taken(S)) + f[S \ {Taken(S)}]]
  <2>2. ASSUME NEW S \in UpTo(n + 1) PROVE AddsUp(rows, g, S)
    <3>1. S \in SUBSET Keys /\ Cardinality(S) \in Nat /\ Cardinality(S) <= n + 1
      BY <1>1, <2>2 DEF UpTo
    <3>2. CASE S = {}
      <4>1. Cardinality(S) = 0
        BY <3>2, FS_EmptySet
      <4>2. S \in UpTo(n)
        BY <3>1, <4>1 DEF UpTo
      <4> QED
        BY <2>1, <3>2, <4>2, <2>2 DEF AddsUp
    <3>3. CASE S # {}
      <4> DEFINE R == S \ {Taken(S)}
      <4>1. R \in SUBSET Keys /\ Cardinality(R) <= n /\ Cardinality(R) \in Nat
        BY <3>1, <3>3, OneFewer
      <4>2. R \in UpTo(n) /\ R \in UpTo(n + 1)
        BY <4>1 DEF UpTo
      <4> HIDE DEF R
      <4>3. g[R] = f[R]
        BY <4>2
      <4>4. S \in UpTo(n) => f[S] = Signed(rows, Taken(S)) + f[R]
        BY <2>1, <3>3 DEF AddsUp, R
      <4>5. g[S] = Signed(rows, Taken(S)) + f[R]
        BY <2>2, <4>4 DEF R
      <4> QED
        BY <3>3, <4>3, <4>5 DEF AddsUp, R
    <3> QED
      BY <3>2, <3>3
  <2>3. DOMAIN g = UpTo(n + 1) /\ g = [S \in UpTo(n + 1) |-> g[S]]
    OBVIOUS
  <2> HIDE DEF g
  <2> QED
    BY <2>2, <2>3
<1>4. Bad = {}
  <2> SUFFICES ASSUME Bad # {} PROVE FALSE
    OBVIOUS
  <2> DEFINE m == Min(Bad)
  <2> HIDE DEF Exists
  <2>1. m \in Bad /\ \A y \in Bad : m <= y
    BY MinIsMember
  <2> HIDE DEF m
  <2>2. m \in Nat /\ ~Exists(m) /\ m # 0
    BY <1>2, <2>1
  <2>3. m - 1 \in Nat /\ (m - 1) + 1 = m
    BY <2>2
  <2>4. Exists(m - 1)
    BY <2>1, <2>3
  <2>5. Exists((m - 1) + 1)
    BY <1>3, <2>3, <2>4
  <2> QED
    BY <2>2, <2>3, <2>5
<1> HIDE DEF Exists
<1>5. Cardinality(Keys) \in Nat
  BY KeysAreFinite, FS_CardinalityType
<1>6. Exists(Cardinality(Keys))
  BY <1>4, <1>5
<1>7. UpTo(Cardinality(Keys)) = SUBSET Keys
  BY KeysAreFinite, FS_Subset DEF UpTo
<1>8. PICK f : f = [S \in SUBSET Keys |-> f[S]] /\ \A S \in SUBSET Keys : AddsUp(rows, f, S)
  BY <1>6, <1>7 DEF Exists
<1>9. Sums(rows, f)
  BY <1>8 DEF Sums, AddsUp
<1> QED
  BY <1>9

\* A row that is written adds its signed amount, whatever the order of the fold.
LEMMA SumsDiffer ==
    ASSUME NEW old \in [Keys -> Int], NEW new \in [Keys -> Int], NEW k,
           \A j \in Keys : j # k => new[j] = old[j],
           NEW f, Sums(old, f), NEW g, Sums(new, g)
    PROVE  /\ f[Keys] \in Int
           /\ g[Keys] = f[Keys] + IF k \in Keys THEN Signed(new, k) - Signed(old, k) ELSE 0
<1> DEFINE Gap(S) == IF k \in S THEN Signed(new, k) - Signed(old, k) ELSE 0
           Ok(S) == f[S] \in Int /\ g[S] = f[S] + Gap(S)
           Bad == {n \in Nat : \E S \in SUBSET Keys : Cardinality(S) = n /\ ~Ok(S)}
<1>1. \A j \in Keys : Signed(old, j) \in Int /\ Signed(new, j) \in Int
  BY DEF Signed
<1>2. \A j \in Keys : j # k => Signed(new, j) = Signed(old, j)
  BY DEF Signed
<1>3. \A S \in SUBSET Keys : AddsUp(old, f, S) /\ AddsUp(new, g, S)
  BY DEF Sums, AddsUp
<1>4. ASSUME NEW S \in SUBSET Keys, S # {} => Ok(S \ {Taken(S)}) PROVE Ok(S)
  <2>1. CASE S = {}
    <3>1. f[S] = 0 /\ g[S] = 0
      BY <1>3, <2>1 DEF AddsUp
    <3>2. Gap(S) = 0
      BY <2>1
    <3> QED
      BY <3>1, <3>2
  <2>2. CASE S # {}
    <3> DEFINE R == S \ {Taken(S)}
               t == Taken(S)
    <3>1. t \in S /\ t \in Keys
      BY <2>2, TakenIs
    <3>2. f[S] = Signed(old, t) + f[R] /\ g[S] = Signed(new, t) + g[R]
      BY <1>3, <2>2 DEF AddsUp
    <3>3. f[R] \in Int /\ g[R] = f[R] + Gap(R)
      BY <1>4, <2>2
    <3>4. CASE t = k
      <4>1. Gap(R) = 0 /\ Gap(S) = Signed(new, t) - Signed(old, t)
        BY <3>1, <3>4
      <4> HIDE DEF t, R, Gap
      <4> QED
        BY <1>1, <3>1, <3>2, <3>3, <4>1
    <3>5. CASE t # k
      <4>1. Gap(R) = Gap(S) /\ Signed(new, t) = Signed(old, t)
        BY <1>2, <3>1, <3>5
      <4>2. Gap(S) \in Int
        BY <1>1
      <4> HIDE DEF t, R, Gap
      <4> QED
        BY <1>1, <3>1, <3>2, <3>3, <4>1, <4>2
    <3> QED
      BY <3>4, <3>5
  <2> QED
    BY <2>1, <2>2
<1>5. Bad = {}
  <2> SUFFICES ASSUME Bad # {} PROVE FALSE
    OBVIOUS
  <2> HIDE DEF Ok
  <2>1. Min(Bad) \in Bad /\ \A y \in Bad : Min(Bad) <= y
    BY MinIsMember
  <2>2. PICK S \in SUBSET Keys : Cardinality(S) = Min(Bad) /\ ~Ok(S)
    BY <2>1
  <2>3. S # {} /\ ~Ok(S \ {Taken(S)})
    BY <1>4, <2>2
  <2> DEFINE R == S \ {Taken(S)}
  <2>4. Cardinality(R) \in Nat /\ Cardinality(R) = Min(Bad) - 1 /\ R \in SUBSET Keys /\ Min(Bad) \in Nat
    BY <2>2, <2>3, OneFewer
  <2>5. ~Ok(R)
    BY <2>3
  <2> HIDE DEF R
  <2>6. Cardinality(R) \in Bad
    BY <2>4, <2>5
  <2> QED
    BY <2>1, <2>4, <2>6
<1>6. Ok(Keys)
  <2> HIDE DEF Ok
  <2>1. Cardinality(Keys) \in Nat
    BY KeysAreFinite, FS_CardinalityType
  <2> QED
    BY <1>5, <2>1
<1> QED
  BY <1>6

\* Writing a row changes the sum by its signed amount.
LEMMA SumOfWrite ==
    ASSUME NEW old \in [Keys -> Int], NEW new \in [Keys -> Int], NEW k \in Keys,
           \A j \in Keys : j # k => new[j] = old[j]
    PROVE  /\ LedgerSum(old) \in Int
           /\ LedgerSum(new) = LedgerSum(old) + Signed(new, k) - Signed(old, k)
<1>1. PICK f : Sums(old, f) /\ LedgerSum(old) = f[Keys]
  BY SumsExist, LedgerSumIs
<1>2. PICK g : Sums(new, g) /\ LedgerSum(new) = g[Keys]
  BY SumsExist, LedgerSumIs
<1>3. f[Keys] \in Int /\ g[Keys] = f[Keys] + (Signed(new, k) - Signed(old, k))
  BY <1>1, <1>2, SumsDiffer
<1>4. Signed(new, k) \in Int /\ Signed(old, k) \in Int
  BY DEF Signed
<1> QED
  BY <1>1, <1>2, <1>3, <1>4

----------------------------------------------------------------------------
(* Every write of the wallet is one new row and its amount.                *)

Entered(kind, d) ==
    /\ ledger[<<kind, d>>] = 0
    /\ \E amount \in Nat : Post(kind, d, amount, IF kind = "debit" THEN -amount ELSE amount)

WalletKept == UNCHANGED wallet \/ \E kind \in Kinds, d \in Bookings : Entered(kind, d)

LEMMA CreditEnters ==
    ASSUME TypeOK, NEW kind \in Kinds, kind # "debit", NEW d \in Bookings, NEW amount \in Nat,
           CreditWithinTx(kind, d, amount)
    PROVE  WalletKept
<1>1. ledger[<<kind, d>>] \in Nat
  BY DEF TypeOK, Keys
<1>2. CASE Written(kind, d) \/ amount = 0
  BY <1>2 DEF CreditWithinTx, WalletKept
<1>3. CASE ~(Written(kind, d) \/ amount = 0)
  <2>1. Post(kind, d, amount, amount) /\ ledger[<<kind, d>>] = 0
    BY <1>1, <1>3 DEF CreditWithinTx, Written
  <2>2. Entered(kind, d)
    BY <2>1 DEF Entered
  <2> QED
    BY <2>2 DEF WalletKept
<1> QED
  BY <1>2, <1>3

LEMMA RefundEnters ==
    ASSUME TypeOK, NEW d \in Bookings, RefundForDelivery(d)
    PROVE  WalletKept
<1>1. "refund" \in Kinds /\ ledger[<<"debit", d>>] \in Nat
  BY DEF TypeOK, Keys, Kinds
<1> QED
  BY <1>1, CreditEnters DEF RefundForDelivery

LEMMA DebitEnters ==
    ASSUME TypeOK, NEW d \in Bookings, MoneyOf(d), BeforeDebit(d), DebitWithinTx(d)
    PROVE  WalletKept
<1>1. "debit" \in Kinds /\ call[d].credits \in Nat
  BY DEF TypeOK, Kinds
<1>2. ledger[<<"debit", d>>] = 0
  BY DEF MoneyOf
<1>3. Entered("debit", d)
  BY <1>1, <1>2 DEF DebitWithinTx, Entered
<1> QED
  BY <1>1, <1>3 DEF WalletKept

LEMMA NextKeepsWallet ==
    ASSUME MoneyInv, [Next]_vars
    PROVE  WalletKept
<1>0. TypeOK /\ \A d \in Bookings : MoneyOf(d)
  BY DEF MoneyInv
<1>1. CASE UNCHANGED wallet
  BY <1>1 DEF WalletKept
<1>2. ASSUME NEW d \in Bookings, Create(d) \/ CrashCreate(d) PROVE WalletKept
  <2>1. CASE ReserveCredits(d) /\ DebitWithinTx(d)
    <3>1. BeforeDebit(d)
      BY <2>1 DEF ReserveCredits, At, BeforeDebit
    <3> QED
      BY <1>0, <2>1, <3>1, DebitEnters
  <2>2. CASE InsertDelivery(d) /\ DebitWithinTx(d) /\ ~config.debitFirst
    <3>1. BeforeDebit(d)
      BY <2>2 DEF InsertDelivery, At, BeforeDebit
    <3> QED
      BY <1>0, <2>2, <3>1, DebitEnters
  <2>3. CASE CompensateCredits(d) /\ RefundForDelivery(d)
    BY <1>0, <2>3, RefundEnters
  <2>4. CASE ReserveCredits(d)
    BY <1>1, <2>1, <2>4 DEF ReserveCredits
  <2>5. CASE InsertDelivery(d)
    BY <1>1, <2>2, <2>5 DEF InsertDelivery, InTx
  <2>6. CASE CompensateCredits(d)
    BY <1>1, <2>3, <2>6 DEF CompensateCredits, BestEffort
  <2>7. CASE \/ Quote(d) \/ ReservePromo(d) \/ CompensatePromo(d) \/ CreateIntent(d)
             \/ CreateDeliveryPayment(d) \/ CrashCreate(d)
    BY <1>1, <2>7 DEF Quote, ReservePromo, CompensatePromo, CreateIntent, CreateDeliveryPayment, CrashCreate
  <2> QED
    BY <1>2, <2>4, <2>5, <2>6, <2>7 DEF Create
<1>3. ASSUME NEW d \in Bookings, Tidy(d) \/ AdminRefund(d) PROVE WalletKept
  <2>1. CASE TidyPromo(d)
    BY <1>1, <2>1 DEF TidyPromo
  <2>2. CASE TidyCredits(d)
    BY <1>0, <1>1, <2>2, RefundEnters DEF TidyCredits, BestEffort
  <2>3. CASE TidyCharge(d)
    <3>1. "exception-refund" \in Kinds /\ call[d].total \in Nat
      BY <1>0 DEF TypeOK, Kinds
    <3>2. UNCHANGED wallet \/ CreditWithinTx("exception-refund", d, call[d].total)
      BY <2>3 DEF TidyCharge, BestEffort, RefundChargeToWallet
    <3> QED
      BY <1>0, <1>1, <3>1, <3>2, CreditEnters
  <2>4. CASE AdminRefund(d)
    <3>1. PICK amount \in 1..call[d].total : CreditWithinTx("admin-refund", d, amount)
      BY <2>4 DEF AdminRefund
    <3>2. "admin-refund" \in Kinds /\ amount \in Nat
      BY <1>0 DEF TypeOK, Kinds
    <3> QED
      BY <1>0, <3>1, <3>2, CreditEnters
  <2> QED
    BY <1>3, <2>1, <2>2, <2>3, <2>4 DEF Tidy
<1>4. ASSUME NEW d \in Bookings,
             StripeMoves(d) \/ Terminate(d) \/ \E type \in IntentEvents : HandleWebhookEvent(d, type)
      PROVE  WalletKept
  BY <1>1, <1>4 DEF StripeMoves, Terminate, HandleWebhookEvent
<1>5. CASE Sweep
  <2>1. CASE SweepRefund
    <3>1. sweep.of \in Bookings
      BY <1>0, <2>1, SweepShape DEF SweepRefund
    <3>2. UNCHANGED wallet \/ RefundForDelivery(sweep.of)
      BY <2>1 DEF SweepRefund
    <3> QED
      BY <1>0, <1>1, <3>1, <3>2, RefundEnters
  <2>2. CASE SweepCheck \/ SweepRelease \/ SweepFails \/ \E d \in Bookings : SweepBegin(d)
    BY <1>1, <2>2 DEF SweepCheck, SweepRelease, SweepFails, SweepBegin
  <2> QED
    BY <1>5, <2>1, <2>2 DEF Sweep
<1>6. CASE ClosePromo \/ UNCHANGED vars
  BY <1>1, <1>6 DEF ClosePromo, vars, wallet
<1> QED
  BY <1>2, <1>3, <1>4, <1>5, <1>6 DEF Next

\* The balance is the opening balance and the sum of the ledger's rows, for any number of
\* bookings and whatever crashes, fails ambiguously, repeats or races: every writer of
\* creditBalance writes one row under a key that had none, in the transaction of the balance
\* (wallet.service.ts creditWithinTx, debitWithinTx).
THEOREM BalanceIsExplained == Spec => []LedgerExplainsBalance
<1>1. Init => LedgerExplainsBalance
  <2> SUFFICES ASSUME Init PROVE LedgerExplainsBalance
    OBVIOUS
  <2> DEFINE none == [S \in SUBSET Keys |-> 0]
  <2>1. \A k \in Keys : Signed(ledger, k) = 0
    <3> TAKE k \in Keys
    <3>1. ledger[k] = 0 /\ ledger \in [Keys -> Int]
      BY DEF Init
    <3> QED
      BY <3>1, SignedIs
  <2>2. Sums(ledger, none)
    <3>1. ASSUME NEW S \in SUBSET Keys
          PROVE  0 = IF S = {} THEN 0 ELSE Signed(ledger, Taken(S)) + none[S \ {Taken(S)}]
      <4>1. CASE S = {}
        BY <4>1
      <4>2. CASE S # {}
        <5>1. Taken(S) \in Keys /\ S \ {Taken(S)} \in SUBSET Keys
          BY <4>2, TakenIs
        <5>2. none[S \ {Taken(S)}] = 0
          BY <5>1
        <5>3. Signed(ledger, Taken(S)) = 0
          BY <2>1, <5>1
        <5> QED
          BY <4>2, <5>2, <5>3
      <4> QED
        BY <4>1, <4>2
    <3> QED
      BY <3>1 DEF Sums
  <2>3. PICK f : Sums(ledger, f) /\ LedgerSum(ledger) = f[Keys]
    BY SumsExist, LedgerSumIs
  <2>4. ledger \in [Keys -> Int] /\ balance = OPENING /\ OPENING \in Int
    BY CheckoutAssumption DEF Init, CheckoutAssumption
  <2>5. none[Keys] = 0
    OBVIOUS
  <2> HIDE DEF none
  <2>6. f[Keys] = none[Keys] + IF 0 \in Keys THEN Signed(ledger, 0) - Signed(ledger, 0) ELSE 0
    BY <2>2, <2>3, <2>4, SumsDiffer
  <2>7. 0 \in Keys => Signed(ledger, 0) = 0
    BY <2>1
  <2>8. f[Keys] = 0
    BY <2>5, <2>6, <2>7
  <2> QED
    BY <2>3, <2>4, <2>8 DEF LedgerExplainsBalance
<1>2. MoneyInv /\ LedgerExplainsBalance /\ [Next]_vars => LedgerExplainsBalance'
  <2> SUFFICES ASSUME MoneyInv, LedgerExplainsBalance, [Next]_vars PROVE LedgerExplainsBalance'
    OBVIOUS
  <2>1. CASE UNCHANGED wallet
    BY <2>1 DEF LedgerExplainsBalance, wallet
  <2>2. ASSUME NEW kind \in Kinds, NEW d \in Bookings, Entered(kind, d) PROVE LedgerExplainsBalance'
    <3> DEFINE k == <<kind, d>>
    <3>0. k \in Keys /\ k[1] = kind
      BY DEF Keys
    <3>1. PICK amount \in Nat :
            /\ balance' = balance + (IF kind = "debit" THEN -amount ELSE amount)
            /\ ledger' = [ledger EXCEPT ![k] = amount]
      BY <2>2 DEF Entered, Post
    <3>2. ledger[k] = 0
      BY <2>2 DEF Entered
    <3>3. ledger \in [Keys -> Nat] /\ OPENING \in Int
      BY CheckoutAssumption DEF CheckoutAssumption, MoneyInv, TypeOK
    <3> HIDE DEF k
    <3>4. /\ ledger' \in [Keys -> Nat] /\ ledger'[k] = amount
          /\ \A j \in Keys : j # k => ledger'[j] = ledger[j]
      BY <3>0, <3>1, <3>3
    <3>5. ledger \in [Keys -> Int] /\ ledger' \in [Keys -> Int]
      BY <3>3, <3>4
    <3>6. /\ LedgerSum(ledger) \in Int
          /\ LedgerSum(ledger') = LedgerSum(ledger) + Signed(ledger', k) - Signed(ledger, k)
      BY <3>0, <3>4, <3>5, SumOfWrite
    <3>7. Signed(ledger, k) = 0 /\ Signed(ledger', k) = IF kind = "debit" THEN -amount ELSE amount
      <4>1. /\ Signed(ledger, k) = IF kind = "debit" THEN 0 - ledger[k] ELSE ledger[k]
            /\ Signed(ledger', k) = IF kind = "debit" THEN 0 - ledger'[k] ELSE ledger'[k]
        BY <3>0, <3>5, SignedIs
      <4> QED
        BY <3>2, <3>4, <4>1
    <3>8. balance = OPENING + LedgerSum(ledger)
      BY DEF LedgerExplainsBalance
    <3>9. balance' = OPENING + LedgerSum(ledger')
      BY <3>1, <3>3, <3>6, <3>7, <3>8
    <3> QED
      BY <3>9 DEF LedgerExplainsBalance
  <2> QED
    BY <2>1, <2>2, NextKeepsWallet DEF WalletKept
<1> QED
  BY <1>1, <1>2, MoneyInvInit, MoneyInvStep, PTL DEF Spec

=============================================================================
