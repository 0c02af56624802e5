-------------------------- MODULE FleetOutcomeProofs --------------------------
(***************************************************************************)
(* What a delivery ends in, proved for every set of deliveries, aircraft   *)
(* and handlers: the outcome the customer was promised, the refund, the    *)
(* aircraft handed back, and the aircraft grounded.                        *)
(***************************************************************************)
EXTENDS DeliveryFleetProofs

----------------------------------------------------------------------------
(* What every handler may rely on, whatever faults the environment has.    *)

\* Where money may go back: the order was called off, failed, or turned for home.
Repayable == {"CANCELED", "DELIVERY_FAILED", "RETURNING", "RETURNED_TO_BASE"}

\* A create that has not inserted its row.
Creating(p) == frame[p].op \in CreateOps /\ frame[p].at \in {"dispatch", "claim", "insert"}

OutcomeFrame(p) ==
    LET f == frame[p] IN
    /\ f.at = "idle" => f.op = "none" /\ f.on = None
    /\ f.at = "insert" => f.op \in CreateOps
    /\ f.at \in {"dispatch", "claim"} => f.op \in {"create", "kickoff"}
    /\ Creating(p) => status[f.on] = "MINTED"
    /\ f.op = "watchdog" => f.at \in {"fail", "release", "cleanup"}
    /\ f.cleanup = "refund" => f.at \in {"release", "cleanup"} /\ status[f.on] \in Repayable

CreatedOnce ==
    \A p, q \in Procs : p # q /\ Creating(p) /\ Creating(q) => frame[p].on # frame[q].on

OutcomeInv == TypeOK /\ (\A p \in Procs : OutcomeFrame(p)) /\ CreatedOnce

----------------------------------------------------------------------------
(* What a step of handler p does to the rows, as the customer sees it.     *)

\* One row moves on.
Progress(p, e) ==
    \/ status[e] = "FREE" /\ status'[e] = "MINTED"
    \/ /\ status[e] = "MINTED" /\ status'[e] \in {"SCHEDULED", "PENDING"}
       /\ Creating(p) /\ frame[p].on = e
    \/ /\ status[e] \in DeliveryStatus \ (TERMINAL_STATUSES \cup {"RETURNING"})
       /\ status'[e] \in DeliveryStatus \ {"RETURNED_TO_BASE"}
    \/ status[e] = "RETURNING" /\ status'[e] \in Repayable

OutcomeStep(p) ==
    \/ UNCHANGED <<status, refunded>>
    \/ /\ UNCHANGED refunded
       /\ \E d \in Deliveries :
            Progress(p, d) /\ \A e \in Deliveries : e # d => status'[e] = status[e]
    \/ /\ UNCHANGED status
       /\ \E d \in Deliveries :
            /\ status[d] \in Repayable /\ refunded'[d]
            /\ \A e \in Deliveries : e # d => refunded'[e] = refunded[e]

\* A new create is of an id nobody had.
KeepsCreate(p) ==
    Creating(p)' => \/ Creating(p) /\ frame'[p].on = frame[p].on
                    \/ status[frame'[p].on] = "FREE"

Tidy(p) == OthersStay(p) /\ KeepsCreate(p) /\ OutcomeFrame(p)' /\ OutcomeStep(p)

\* A row progresses or stays, and leaves the set money may go back from only to stay out of
\* the customer's hands.
LEMMA RowsProgress ==
    ASSUME NEW p, OutcomeStep(p), NEW e \in Deliveries
    PROVE  status'[e] = status[e] \/ Progress(p, e)
BY DEF OutcomeStep

LEMMA RepayableStays ==
    ASSUME NEW p, NEW e, Progress(p, e), status[e] \in Repayable
    PROVE  status'[e] \in Repayable
BY DEF Progress, Repayable, DeliveryStatus, TERMINAL_STATUSES, CANCELABLE_STATUSES, FAILABLE_STATUSES

LEMMA TidyKeepsOthers ==
    ASSUME OutcomeInv, NEW p \in Procs, Tidy(p), NEW q \in Procs, q # p
    PROVE  OutcomeFrame(q)'
<1>1. OutcomeFrame(q) /\ frame'[q] = frame[q]
  BY Zenon DEF OutcomeInv, Tidy, OthersStay
<1>2. CASE frame[q].at = "idle"
  BY Zenon, <1>1, <1>2 DEF OutcomeFrame, Creating
<1>3. CASE frame[q].at # "idle"
  <2>1. frame[q].on \in Deliveries
    BY <1>3, OnType DEF OutcomeInv, At
  <2>2. status'[frame[q].on] = status[frame[q].on] \/ Progress(p, frame[q].on)
    BY <2>1, RowsProgress DEF Tidy
  <2>3. Creating(q) => status'[frame[q].on] = "MINTED"
    <3>1. ASSUME Creating(q) PROVE ~Progress(p, frame[q].on)
      <4>1. status[frame[q].on] = "MINTED"
        BY Zenon, <1>1, <3>1 DEF OutcomeFrame
      <4>2. ~(Creating(p) /\ frame[p].on = frame[q].on)
        BY Zenon, <3>1 DEF OutcomeInv, CreatedOnce
      <4> QED
        BY <4>1, <4>2 DEF Progress, DeliveryStatus, TERMINAL_STATUSES, CANCELABLE_STATUSES, FAILABLE_STATUSES
    <3> QED
      BY Zenon, <1>1, <2>2, <3>1 DEF OutcomeFrame
  <2>4. status[frame[q].on] \in Repayable => status'[frame[q].on] \in Repayable
    BY <2>2, RepayableStays
  <2> QED
    BY Zenon, <1>1, <2>3, <2>4 DEF OutcomeFrame, Creating
<1> QED
  BY <1>2, <1>3

LEMMA TidyKeepsOutcomes ==
    ASSUME OutcomeInv, NEW p \in Procs, Tidy(p), TypeOK'
    PROVE  OutcomeInv'
<1>1. \A q \in Procs : OutcomeFrame(q)'
  BY TidyKeepsOthers DEF Tidy
<1>2. CreatedOnce'
  <2>1. ASSUME NEW q \in Procs, q # p, Creating(p)', Creating(q)'
        PROVE  frame'[p].on # frame'[q].on
    <3>1. frame'[q] = frame[q] /\ Creating(q) /\ status[frame[q].on] = "MINTED"
      BY Zenon, <2>1 DEF Tidy, OthersStay, Creating, OutcomeInv, OutcomeFrame
    <3> QED
      BY Zenon, <2>1, <3>1 DEF Tidy, KeepsCreate, OutcomeInv, CreatedOnce
  <2>2. ASSUME NEW q \in Procs, NEW r \in Procs, q # r, q # p, r # p, Creating(q)', Creating(r)'
        PROVE  frame'[q].on # frame'[r].on
    BY Zenon, <2>2 DEF Tidy, OthersStay, Creating, OutcomeInv, CreatedOnce
  <2> QED
    BY Zenon, <2>1, <2>2 DEF CreatedOnce
<1> QED
  BY <1>1, <1>2 DEF OutcomeInv

----------------------------------------------------------------------------
(* The refund and the claim: who still owes what.                          *)

\* The service owes the customer their money.
Owed(d) ==
    \/ status[d] = "CANCELED"
    \/ /\ status[d] \in {"DELIVERY_FAILED", "RETURNING", "RETURNED_TO_BASE"}
       /\ reason[d] # "RECIPIENT_UNAVAILABLE"

\* Handler p is going to give it back.
Repaying(p, d) ==
    frame[p].on = d /\ frame[p].cleanup = "refund" /\ frame[p].at \in {"release", "cleanup"}

RefundInv == \A d \in Deliveries : Owed(d) => refunded[d] \/ \E p \in Procs : Repaying(p, d)

PaysOn(p) ==
    \A e \in Deliveries :
        /\ Repaying(p, e) => Repaying(p, e)' \/ refunded'[e]
        /\ Owed(e)' => Owed(e) \/ Repaying(p, e)'
        /\ refunded[e] => refunded'[e]

\* Handler p is going to bind the aircraft to its delivery, or to hand it back.
Holding(p, d) ==
    /\ frame[p].on = d
    /\ \/ frame[p].at = "release"
       \/ frame[p].at \in {"insert", "kickCas"} /\ frame[p].craft # None

LeakInv == \A d \in Deliveries : Held(d) # {} => Flying(d) \/ \E p \in Procs : Holding(p, d)

HandsBack(p) ==
    \A e \in Deliveries :
        /\ Holding(p, e) => Holding(p, e)' \/ Flying(e)' \/ Held(e)' = {}
        /\ Flying(e) => Flying(e)' \/ Holding(p, e)' \/ Held(e)' = {}
        /\ Held(e)' # {} => Held(e) # {} \/ Holding(p, e)'

LEMMA PaysOnKeeps ==
    ASSUME RefundInv, NEW p \in Procs, OthersStay(p), PaysOn(p)
    PROVE  RefundInv'
<1> SUFFICES ASSUME NEW e \in Deliveries, Owed(e)', ~refunded'[e]
             PROVE  \E q \in Procs : Repaying(q, e)'
  BY DEF RefundInv
<1>1. CASE Repaying(p, e)'
  BY <1>1
<1>2. CASE Owed(e)
  <2>1. PICK q \in Procs : Repaying(q, e)
    BY Zenon, <1>2 DEF RefundInv, PaysOn
  <2>2. CASE q = p
    BY Zenon, <2>1, <2>2 DEF PaysOn
  <2>3. CASE q # p
    BY Zenon, <2>1, <2>3 DEF OthersStay, Repaying
  <2> QED
    BY <2>2, <2>3
<1> QED
  BY Zenon, <1>1, <1>2 DEF PaysOn

LEMMA HandsBackKeeps ==
    ASSUME LeakInv, NEW p \in Procs, OthersStay(p), HandsBack(p)
    PROVE  LeakInv'
<1> SUFFICES ASSUME NEW e \in Deliveries, Held(e)' # {}, ~Flying(e)'
             PROVE  \E q \in Procs : Holding(q, e)'
  BY DEF LeakInv
<1>1. CASE Holding(p, e)'
  BY <1>1
<1>2. CASE ~Holding(p, e)'
  <2>1. Held(e) # {} /\ ~Flying(e) /\ ~Holding(p, e)
    BY Zenon, <1>2 DEF HandsBack
  <2>2. PICK q \in Procs : Holding(q, e)
    BY Zenon, <2>1 DEF LeakInv
  <2> QED
    BY Zenon, <2>1, <2>2 DEF OthersStay, Holding
<1> QED
  BY <1>1, <1>2

----------------------------------------------------------------------------
(* The frames the helpers build.                                           *)

LEMMA FinishIs ==
    ASSUME TypeOK, NEW p \in Procs, Finish(p)
    PROVE  /\ OthersStay(p)
           /\ frame'[p].op = "none" /\ frame'[p].at = "idle" /\ frame'[p].on = None
           /\ frame'[p].craft = None /\ frame'[p].cleanup = "none" /\ ~frame'[p].ground
<1>1. frame'[p] = IdleFrame /\ OthersStay(p)
  BY Zenon, GotoIs DEF Finish
<1> QED
  BY <1>1 DEF IdleFrame

LEMMA StepIs ==
    ASSUME TypeOK, NEW p \in Procs, ~At(p, "idle"), NEW at, Step(p, at)
    PROVE  /\ OthersStay(p)
           /\ frame'[p].op = frame[p].op /\ frame'[p].at = at /\ frame'[p].on = frame[p].on
           /\ frame'[p].craft = frame[p].craft /\ frame'[p].cleanup = frame[p].cleanup
           /\ frame'[p].ground = frame[p].ground
<1>1. frame[p] \in Frame
  BY OnType
<1>2. frame'[p] = [frame[p] EXCEPT !.at = at] /\ OthersStay(p)
  BY Zenon, GotoIs DEF Step
<1> QED
  BY <1>1, <1>2 DEF Frame

LEMMA ThenReleaseIs ==
    ASSUME TypeOK, NEW p \in Procs, ~At(p, "idle"), NEW c,
           ThenRelease(p, TRUE, c) \/ ThenRelease(p, FALSE, c)
    PROVE  /\ OthersStay(p)
           /\ frame'[p].op = frame[p].op /\ frame'[p].at = "release" /\ frame'[p].on = frame[p].on
           /\ frame'[p].craft = frame[p].craft /\ frame'[p].cleanup = c
<1>1. frame[p] \in Frame
  BY OnType
<1>2. CASE ThenRelease(p, TRUE, c)
  <2>1. frame'[p] = [frame[p] EXCEPT !.at = "release", !.ground = TRUE, !.cleanup = c] /\ OthersStay(p)
    BY <1>2, GotoIs DEF ThenRelease
  <2> QED
    BY <1>1, <2>1 DEF Frame
<1>3. CASE ThenRelease(p, FALSE, c)
  <2>1. frame'[p] = [frame[p] EXCEPT !.at = "release", !.ground = FALSE, !.cleanup = c] /\ OthersStay(p)
    BY <1>3, GotoIs DEF ThenRelease
  <2> QED
    BY <1>1, <2>1 DEF Frame
<1> QED
  BY <1>2, <1>3

LEMMA DispatchedIs ==
    ASSUME TypeOK, NEW p \in Procs, ~At(p, "idle"), NEW x, Dispatched(p, x)
    PROVE  /\ OthersStay(p)
           /\ frame'[p].op = frame[p].op /\ frame'[p].on = frame[p].on
           /\ frame'[p].at = IF frame[p].op = "kickoff" THEN "kickCas" ELSE "insert"
           /\ frame'[p].craft = x /\ frame'[p].cleanup = frame[p].cleanup
<1> DEFINE at == IF frame[p].op = "kickoff" THEN "kickCas" ELSE "insert"
<1>1. frame[p] \in Frame
  BY OnType
<1>2. frame'[p] = [frame[p] EXCEPT !.at = at, !.craft = x, !.cand = {}] /\ OthersStay(p)
  BY Zenon, GotoIs DEF Dispatched
<1> HIDE DEF at
<1>3. /\ frame'[p].op = frame[p].op /\ frame'[p].on = frame[p].on /\ frame'[p].at = at
      /\ frame'[p].craft = x /\ frame'[p].cleanup = frame[p].cleanup
  BY <1>1, <1>2 DEF Frame
<1> QED
  BY <1>2, <1>3 DEF at

LEMMA GiveUpIs ==
    ASSUME TypeOK, NEW p \in Procs, ~At(p, "idle"), GiveUp(p)
    PROVE  /\ OthersStay(p)
           /\ frame'[p].op = frame[p].op /\ frame'[p].at = "fail" /\ frame'[p].on = frame[p].on
           /\ frame'[p].craft = frame[p].craft /\ frame'[p].cleanup = frame[p].cleanup
<1>1. frame[p] \in Frame
  BY OnType
<1>2. frame'[p] = [frame[p] EXCEPT !.at = "fail", !.why = "DRONE_FAULT", !.cand = {}] /\ OthersStay(p)
  BY Zenon, GotoIs DEF GiveUp
<1> QED
  BY <1>1, <1>2 DEF Frame

----------------------------------------------------------------------------
(* The steps that change no row and no claim.                              *)

\* The handler ends, or goes on with its delivery to a round trip it may go to.
QuietFrame(p) ==
    LET f == frame[p]
        g == frame'[p] IN
    \/ g.op = "none" /\ g.at = "idle" /\ g.on = None /\ g.cleanup = "none"
    \/ /\ g.op = f.op /\ g.on = f.on /\ g.cleanup # "refund"
       /\ f.at \notin {"idle", "fail", "release", "cleanup"}
       /\ g.at # "idle"
       /\ g.at \in {"dispatch", "claim", "insert"} => f.at \in {"dispatch", "claim"}
       /\ g.at = "insert" => f.op # "kickoff"

Quiet(p) ==
    OthersStay(p) /\ QuietFrame(p) /\ UNCHANGED <<status, source, reason, active, refunded>>

LEMMA QuietIsTidy ==
    ASSUME OutcomeInv, NEW p \in Procs, OthersStay(p), QuietFrame(p), UNCHANGED <<status, refunded>>
    PROVE  Tidy(p)
<1>1. OutcomeFrame(p) /\ status' = status /\ refunded' = refunded
  BY Zenon DEF OutcomeInv
<1>2. OutcomeFrame(p)' /\ KeepsCreate(p)
  BY ZenonT(30), <1>1 DEF OutcomeFrame, QuietFrame, KeepsCreate, Creating, CreateOps
<1> QED
  BY <1>1, <1>2 DEF Tidy, OutcomeStep

\* Handlers that are releasing or cleaning up are the ones that repay.
LEMMA QuietPaysOn ==
    ASSUME NEW p \in Procs, frame[p].at \notin {"release", "cleanup"},
           UNCHANGED <<status, reason, refunded>>
    PROVE  PaysOn(p)
BY Zenon DEF PaysOn, Repaying, Owed

\* The others hold no aircraft, or have just decided to release it.
LEMMA QuietHandsBack ==
    ASSUME NEW p \in Procs, UNCHANGED <<status, source, active>>,
           \/ frame[p].at \notin {"insert", "kickCas", "release"}
           \/ frame[p].at \in {"insert", "kickCas"} /\ frame[p].craft = None
           \/ frame'[p].at = "release" /\ frame'[p].on = frame[p].on
    PROVE  HandsBack(p)
<1>1. \A e \in Deliveries : Held(e)' = Held(e) /\ Flying(e)' = Flying(e)
  BY DEF Held, Flying
<1> QED
  BY Zenon, <1>1 DEF HandsBack, Holding

----------------------------------------------------------------------------
(* The steps that settle a delivery.                                       *)

\* Handler p has settled d and is about to release, then to clean up.
Settles(p, d, to) ==
    /\ OthersStay(p)
    /\ frame[p].at \notin {"insert", "kickCas", "release", "cleanup"}
    /\ frame'[p].on = d /\ frame'[p].at = "release"
    /\ status[d] \in DeliveryStatus \ TERMINAL_STATUSES
    /\ Settle(d, to)
    /\ UNCHANGED <<source, active, refunded>>
    /\ to = "DELIVERED" => status[d] # "RETURNING" /\ frame'[p].cleanup # "refund"
    /\ to = "RETURNED_TO_BASE" => status[d] = "RETURNING"
    /\ \A e \in Deliveries : e # d => reason'[e] = reason[e]
    /\ to = "CANCELED" => frame'[p].cleanup = "refund"
    /\ to = "DELIVERY_FAILED" => reason'[d] = "RECIPIENT_UNAVAILABLE" \/ frame'[p].cleanup = "refund"
    /\ to = "RETURNED_TO_BASE" => reason'[d] = reason[d]

LEMMA SettlesIsTidy ==
    ASSUME OutcomeInv, NEW p \in Procs, NEW d \in Deliveries, NEW to \in TERMINAL_STATUSES,
           Settles(p, d, to)
    PROVE  Tidy(p)
<1>1. /\ status'[d] = to
      /\ \A e \in Deliveries : e # d => status'[e] = status[e]
  BY DEF OutcomeInv, TypeOK, Settles, Settle
<1>2. Progress(p, d)
  BY <1>1 DEF Progress, Settles, Repayable, DeliveryStatus, TERMINAL_STATUSES, CANCELABLE_STATUSES,
              FAILABLE_STATUSES
<1>3. OutcomeStep(p)
  BY Zenon, <1>1, <1>2 DEF OutcomeStep, Settles
<1>4. to # "DELIVERED" => to \in Repayable
  BY DEF Repayable, TERMINAL_STATUSES
<1>5. OutcomeFrame(p)' /\ KeepsCreate(p)
  BY Zenon, <1>1, <1>4 DEF OutcomeFrame, KeepsCreate, Creating, Settles
<1> QED
  BY <1>3, <1>5 DEF Tidy, Settles

LEMMA SettlesPaysOn ==
    ASSUME OutcomeInv, NEW p \in Procs, NEW d \in Deliveries, NEW to \in TERMINAL_STATUSES,
           Settles(p, d, to)
    PROVE  PaysOn(p)
<1>1. /\ status'[d] = to
      /\ \A e \in Deliveries : e # d => status'[e] = status[e] /\ reason'[e] = reason[e]
      /\ refunded' = refunded
  BY DEF OutcomeInv, TypeOK, Settles, Settle
<1>2. \A e \in Deliveries : ~Repaying(p, e)
  BY Zenon DEF Repaying, Settles
<1>3. ASSUME NEW e \in Deliveries, Owed(e)'
      PROVE  Owed(e) \/ Repaying(p, e)'
  <2>1. CASE e # d
    BY Zenon, <1>1, <1>3, <2>1 DEF Owed
  <2>2. CASE e = d
    <3>1. CASE to = "RETURNED_TO_BASE"
      BY Zenon, <1>1, <1>3, <2>2, <3>1 DEF Owed, Settles
    <3>2. CASE to # "RETURNED_TO_BASE"
      BY Zenon, <1>1, <1>3, <2>2, <3>2 DEF Owed, Settles, Repaying, TERMINAL_STATUSES
    <3> QED
      BY <3>1, <3>2
  <2> QED
    BY <2>1, <2>2
<1> QED
  BY Zenon, <1>1, <1>2, <1>3 DEF PaysOn

LEMMA SettlesHandsBack ==
    ASSUME OutcomeInv, NEW p \in Procs, NEW d \in Deliveries, NEW to \in TERMINAL_STATUSES,
           Settles(p, d, to)
    PROVE  HandsBack(p)
<1>1. /\ \A e \in Deliveries : e # d => status'[e] = status[e]
      /\ source' = source /\ active' = active
  BY DEF OutcomeInv, TypeOK, Settles, Settle
<1>2. \A e \in Deliveries : Held(e)' = Held(e)
  BY <1>1 DEF Held
<1>3. \A e \in Deliveries : ~Holding(p, e)
  BY Zenon DEF Holding, Settles
<1>4. Holding(p, d)'
  BY DEF Holding, Settles
<1>5. \A e \in Deliveries : e # d => Flying(e)' = Flying(e)
  BY <1>1 DEF Flying
<1> QED
  BY Zenon, <1>2, <1>3, <1>4, <1>5 DEF HandsBack

----------------------------------------------------------------------------
(* Every step of a handler, one by one.                                    *)

\* No process dies and no database write rejects.
Reliable == "crash" \notin Faults /\ "write" \notin Faults

Good(p) ==
    /\ Tidy(p)
    /\ Reliable => PaysOn(p)
    /\ Reliable /\ "insert" \notin Faults => HandsBack(p)

LEMMA QuietIsGood ==
    ASSUME OutcomeInv, NEW p \in Procs, Quiet(p), frame[p].at \notin {"release", "cleanup"},
           \/ frame[p].at \notin {"insert", "kickCas"}
           \/ frame[p].craft = None
           \/ frame'[p].at = "release" /\ frame'[p].on = frame[p].on
           \/ ~(Reliable /\ "insert" \notin Faults)
    PROVE  Good(p)
<1>1. /\ OthersStay(p) /\ QuietFrame(p)
      /\ UNCHANGED <<status, refunded>> /\ UNCHANGED <<status, reason, refunded>>
      /\ UNCHANGED <<status, source, active>>
  BY DEF Quiet
<1> QED
  BY Zenon, <1>1, QuietIsTidy, QuietPaysOn, QuietHandsBack DEF Good

LEMMA SettlesIsGood ==
    ASSUME OutcomeInv, NEW p \in Procs, NEW d \in Deliveries, NEW to \in TERMINAL_STATUSES,
           Settles(p, d, to)
    PROVE  Good(p)
BY Zenon, SettlesIsTidy, SettlesPaysOn, SettlesHandsBack DEF Good

LEMMA FailFromIsGood ==
    ASSUME OutcomeInv, NEW p \in Procs, NEW f \in Frame, f.on \in Deliveries, FailFrom(p, f),
           frame[p].at \in {"idle", "fail"}
    PROVE  Good(p)
<1> DEFINE ground == IsDroneFaultReason(f.why) \/ status[f.on] \in FAILABLE_STATUSES
           cleanup == IF IsDroneFaultReason(f.why) THEN "refund" ELSE "stop"
           g == [f EXCEPT !.at = "release", !.ground = ground, !.cleanup = cleanup]
<1>0. TypeOK
  BY DEF OutcomeInv
<1>1. frame'[p] = g /\ OthersStay(p)
  BY <1>0, GotoIs DEF FailFrom
<1> HIDE DEF ground, cleanup
<1>2. g.op = f.op /\ g.at = "release" /\ g.on = f.on /\ g.cleanup = cleanup
  BY DEF Frame
<1> HIDE DEF g
<1>3. status[f.on] \in DeliveryStatus \ TERMINAL_STATUSES
  BY DEF FailFrom, AllowedStatuses, DeliveryStatus, TERMINAL_STATUSES, FAILABLE_STATUSES,
         CANCELABLE_STATUSES, WATCHDOG_STUCK_STATUSES
<1>4. "DELIVERY_FAILED" \in TERMINAL_STATUSES
  BY DEF TERMINAL_STATUSES
<1>5. reason'[f.on] = f.why /\ \A e \in Deliveries : e # f.on => reason'[e] = reason[e]
  BY <1>0 DEF FailFrom, TypeOK
<1>6. f.why = "RECIPIENT_UNAVAILABLE" \/ cleanup = "refund"
  BY DEF cleanup, IsDroneFaultReason
<1>7. Settles(p, f.on, "DELIVERY_FAILED")
  BY Zenon, <1>1, <1>2, <1>3, <1>5, <1>6 DEF Settles, FailFrom, fleet
<1> QED
  BY Zenon, <1>1, <1>2, <1>4, <1>7, SettlesIsGood

LEMMA ReleaseIsGood ==
    ASSUME OutcomeInv, NEW p \in Procs, Release(p)
    PROVE  Good(p)
<1> DEFINE d == frame[p].on
<1>0. TypeOK /\ OutcomeFrame(p)
  BY DEF OutcomeInv
<1>1. At(p, "release") /\ ~At(p, "idle") /\ d \in Deliveries
  BY <1>0, OnType DEF Release, At
<1>2. UNCHANGED <<status, source, reason, refunded>>
  BY DEF Release, row
<1>3. \/ Finish(p) /\ frame[p].cleanup = "none"
      \/ Step(p, "cleanup")
  BY DEF Release
<1>4. OthersStay(p)
  BY Zenon, <1>0, <1>1, <1>3, FinishIs, StepIs
<1>5. /\ frame'[p].op = "none" /\ frame'[p].at = "idle" /\ frame'[p].on = None
         /\ frame'[p].cleanup = "none" /\ frame[p].cleanup = "none"
      \/ /\ frame'[p].op = frame[p].op /\ frame'[p].at = "cleanup" /\ frame'[p].on = d
         /\ frame'[p].cleanup = frame[p].cleanup
  BY Zenon, <1>0, <1>1, <1>3, FinishIs, StepIs
<1>6. Tidy(p)
  <2>1. OutcomeFrame(p)' /\ KeepsCreate(p)
    BY Zenon, <1>0, <1>2, <1>5 DEF OutcomeFrame, KeepsCreate, Creating, CreateOps
  <2> QED
    BY <1>2, <1>4, <2>1 DEF Tidy, OutcomeStep
<1>7. PaysOn(p)
  BY Zenon, <1>2, <1>5 DEF PaysOn, Repaying, Owed
<1>8. ASSUME Reliable PROVE HandsBack(p)
  <2>1. \A x \in Drones : active'[x] = IF active[x] = d THEN None ELSE active[x]
    BY <1>8 DEF Release, Reliable
  <2>2. d # None
    BY <1>1, FleetAssumption DEF FleetAssumption
  <2>3. ASSUME NEW e \in Deliveries, e = d PROVE Held(e)' = {}
    BY <2>1, <2>2, <2>3 DEF Held
  <2>4. ASSUME NEW e \in Deliveries, Held(e)' # {} PROVE Held(e) # {}
    <3>1. e # None
      BY FleetAssumption DEF FleetAssumption
    <3> QED
      BY <2>1, <2>4, <3>1 DEF Held
  <2>5. \A e \in Deliveries : Flying(e)' = Flying(e)
    BY <1>2 DEF Flying
  <2> QED
    BY Zenon, <2>3, <2>4, <2>5 DEF HandsBack, Holding
<1> QED
  BY <1>6, <1>7, <1>8 DEF Good

LEMMA CleanupIsGood ==
    ASSUME OutcomeInv, NEW p \in Procs, Cleanup(p)
    PROVE  Good(p)
<1> DEFINE d == frame[p].on
<1>0. TypeOK /\ OutcomeFrame(p)
  BY DEF OutcomeInv
<1>1. At(p, "cleanup") /\ ~At(p, "idle") /\ d \in Deliveries
  BY Zenon, <1>0, OnType DEF Cleanup, At
<1>2. UNCHANGED <<status, source, reason, active>>
  BY Zenon DEF Cleanup, row, fleet
<1>3. /\ OthersStay(p)
      /\ frame'[p].op = "none" /\ frame'[p].at = "idle" /\ frame'[p].on = None
      /\ frame'[p].cleanup = "none"
  BY <1>0, FinishIs DEF Cleanup
<1>4. /\ \A e \in Deliveries : e # d => refunded'[e] = refunded[e]
      /\ refunded'[d] = (refunded[d] \/ frame[p].cleanup = "refund") \/ UNCHANGED refunded
      /\ Reliable => refunded'[d] = (refunded[d] \/ frame[p].cleanup = "refund")
  <2>1. \/ refunded' = [refunded EXCEPT ![d] = @ \/ frame[p].cleanup = "refund"]
        \/ "write" \in Faults /\ UNCHANGED refunded
    BY Zenon DEF Cleanup
  <2> QED
    BY Zenon, <1>0, <1>1, <2>1 DEF TypeOK, Reliable
<1>5. refunded \in [Deliveries -> BOOLEAN] /\ refunded' \in [Deliveries -> BOOLEAN]
  BY <1>0, ContinueType DEF TypeOK, Continue
<1>6. OutcomeStep(p)
  <2>1. CASE frame[p].cleanup = "refund" /\ refunded'[d]
    <3>1. status[d] \in Repayable
      BY Zenon, <1>0, <2>1 DEF OutcomeFrame
    <3> QED
      BY Zenon, <1>1, <1>2, <1>4, <2>1, <3>1 DEF OutcomeStep
  <2>2. CASE ~(frame[p].cleanup = "refund" /\ refunded'[d])
    <3>1. refunded'[d] = refunded[d]
      BY Zenon, <1>1, <1>4, <1>5, <2>2
    <3>2. refunded' = refunded
      BY <1>4, <1>5, <3>1
    <3> QED
      BY <1>2, <3>2 DEF OutcomeStep
  <2> QED
    BY <2>1, <2>2
<1>7. Tidy(p)
  <2>1. OutcomeFrame(p)' /\ KeepsCreate(p)
    BY Zenon, <1>3 DEF OutcomeFrame, KeepsCreate, Creating, CreateOps
  <2> QED
    BY <1>3, <1>6, <2>1 DEF Tidy
<1>8. ASSUME Reliable PROVE PaysOn(p)
  <2>1. \A e \in Deliveries : refunded[e] => refunded'[e]
    BY Zenon, <1>4, <1>8
  <2>2. frame[p].cleanup = "refund" => refunded'[d]
    BY Zenon, <1>4, <1>8
  <2> QED
    BY Zenon, <1>2, <2>1, <2>2 DEF PaysOn, Repaying, Owed
<1>9. HandsBack(p)
  <2>1. \A e \in Deliveries : Held(e)' = Held(e) /\ Flying(e)' = Flying(e)
    BY <1>2 DEF Held, Flying
  <2> QED
    BY Zenon, <1>1, <2>1 DEF HandsBack, Holding, At
<1> QED
  BY Zenon, <1>7, <1>8, <1>9 DEF Good

LEMMA DispatchThrowsIs ==
    ASSUME OutcomeInv, NEW p \in Procs, At(p, "claim"), DispatchThrows(p)
    PROVE  OthersStay(p) /\ QuietFrame(p)
<1>0. TypeOK /\ OutcomeFrame(p) /\ ~At(p, "idle")
  BY DEF OutcomeInv, At
<1>1. CASE Finish(p)
  BY Zenon, <1>0, <1>1, FinishIs DEF QuietFrame
<1>2. CASE GiveUp(p)
  BY Zenon, <1>0, <1>2, GiveUpIs DEF QuietFrame, OutcomeFrame, At
<1> QED
  BY Zenon, <1>1, <1>2 DEF DispatchThrows, HandleDispatchRefusal

LEMMA DispatchedIsQuiet ==
    ASSUME OutcomeInv, NEW p \in Procs, frame[p].at \in {"dispatch", "claim"}, NEW x, Dispatched(p, x)
    PROVE  OthersStay(p) /\ QuietFrame(p)
<1>0. TypeOK /\ OutcomeFrame(p) /\ ~At(p, "idle")
  BY DEF OutcomeInv, At
<1> QED
  BY Zenon, <1>0, DispatchedIs DEF QuietFrame, OutcomeFrame

LEMMA ReleaseClaimedIs ==
    ASSUME OutcomeInv, NEW p \in Procs, frame[p].at \in {"insert", "kickCas"},
           ReleaseClaimedAircraft(p)
    PROVE  /\ OthersStay(p) /\ QuietFrame(p)
           /\ frame[p].craft # None => frame'[p].at = "release" /\ frame'[p].on = frame[p].on
<1>0. TypeOK /\ OutcomeFrame(p) /\ ~At(p, "idle")
  BY DEF OutcomeInv, At
<1>1. CASE frame[p].craft = None /\ Finish(p)
  BY Zenon, <1>0, <1>1, FinishIs DEF QuietFrame
<1>2. CASE ThenRelease(p, FALSE, "none")
  <2>1. /\ OthersStay(p)
        /\ frame'[p].op = frame[p].op /\ frame'[p].at = "release" /\ frame'[p].on = frame[p].on
        /\ frame'[p].cleanup = "none"
    BY <1>0, <1>2, ThenReleaseIs
  <2> QED
    BY <2>1 DEF QuietFrame
<1> QED
  BY Zenon, <1>1, <1>2 DEF ReleaseClaimedAircraft

LEMMA ClaimIsGood ==
    ASSUME OutcomeInv, NEW p \in Procs, ClaimAircraft(p)
    PROVE  Good(p)
<1> DEFINE d == frame[p].on
<1>0. TypeOK /\ OutcomeFrame(p)
  BY DEF OutcomeInv
<1>1. At(p, "claim") /\ ~At(p, "idle") /\ d \in Deliveries
  BY <1>0, OnType DEF ClaimAircraft, At
<1>2. UNCHANGED <<status, source, reason, refunded>>
  BY Zenon DEF ClaimAircraft, row
<1>3. PICK x \in Drones : /\ active' = [active EXCEPT ![x] = d]
                          /\ Dispatched(p, x) \/ ("write" \in Faults /\ DispatchThrows(p))
  <2>1. frame[p].cand \subseteq Drones
    BY <1>0, <1>1, OnType DEF Frame
  <2> QED
    BY Zenon, <2>1 DEF ClaimAircraft
<1>4. OthersStay(p) /\ QuietFrame(p)
  BY Zenon, <1>1, <1>3, DispatchedIsQuiet, DispatchThrowsIs DEF At
<1>5. Tidy(p)
  BY <1>2, <1>4, QuietIsTidy
<1>6. PaysOn(p)
  BY <1>1, <1>2, QuietPaysOn DEF At
<1>7. ASSUME Reliable PROVE HandsBack(p)
  <2>1. /\ frame'[p].on = d /\ frame'[p].craft = x
        /\ frame'[p].at = IF frame[p].op = "kickoff" THEN "kickCas" ELSE "insert"
    BY Zenon, <1>0, <1>1, <1>3, <1>7, DispatchedIs DEF Reliable
  <2>2. x # None
    BY FleetAssumption DEF FleetAssumption
  <2>3. \A e \in Deliveries : e = d => Holding(p, e)'
    BY Zenon, <2>1, <2>2 DEF Holding
  <2>4. \A e \in Deliveries : e # d /\ Held(e)' # {} => Held(e) # {}
    BY <1>0, <1>3 DEF Held, TypeOK
  <2>5. \A e \in Deliveries : Flying(e)' = Flying(e)
    BY <1>2 DEF Flying
  <2> QED
    BY Zenon, <1>1, <2>3, <2>4, <2>5 DEF HandsBack, Holding, At
<1> QED
  BY <1>5, <1>6, <1>7 DEF Good

LEMMA InsertIsGood ==
    ASSUME OutcomeInv, NEW p \in Procs, InsertDelivery(p)
    PROVE  Good(p)
<1> DEFINE d == frame[p].on
<1>0. TypeOK /\ OutcomeFrame(p)
  BY DEF OutcomeInv
<1>1. At(p, "insert") /\ ~At(p, "idle") /\ d \in Deliveries
  BY <1>0, OnType DEF InsertDelivery, At
<1>2. UNCHANGED <<reason, active, refunded>>
  BY Zenon DEF InsertDelivery, fleet
<1>3. /\ status'[d] \in {"SCHEDULED", "PENDING"}
      /\ frame[p].craft # None => source'[d] = "LIVE"
      /\ \A e \in Deliveries : e # d => status'[e] = status[e] /\ source'[e] = source[e]
  BY <1>0, <1>1 DEF InsertDelivery, TypeOK
<1>4. Creating(p) /\ status[d] = "MINTED"
  BY Zenon, <1>0, <1>1 DEF OutcomeFrame, Creating, At
<1>5. OthersStay(p) /\ QuietFrame(p) /\ frame'[p].at \in {"idle", "enqueue", "release"}
  <2>1. CASE Finish(p)
    BY Zenon, <1>0, <2>1, FinishIs DEF QuietFrame
  <2>2. CASE Step(p, "enqueue")
    <3>1. /\ OthersStay(p)
          /\ frame'[p].op = frame[p].op /\ frame'[p].at = "enqueue" /\ frame'[p].on = frame[p].on
          /\ frame'[p].cleanup = frame[p].cleanup
      BY Zenon, <1>0, <1>1, <2>2, StepIs
    <3>2. frame[p].at = "insert" /\ frame[p].cleanup # "refund"
      BY Zenon, <1>0, <1>1 DEF OutcomeFrame, At
    <3> QED
      BY <3>1, <3>2 DEF QuietFrame
  <2>3. CASE ReleaseClaimedAircraft(p)
    <3>1. OthersStay(p) /\ QuietFrame(p)
      BY Zenon, <1>1, <2>3, ReleaseClaimedIs DEF At
    <3>2. frame'[p].at \in {"idle", "release"}
      BY Zenon, <1>0, <1>1, <2>3, FinishIs, ThenReleaseIs DEF ReleaseClaimedAircraft
    <3> QED
      BY <3>1, <3>2
  <2> QED
    BY Zenon, <2>1, <2>2, <2>3 DEF InsertDelivery
<1>6. Tidy(p)
  <2>1. OutcomeFrame(p)' /\ KeepsCreate(p)
    BY ZenonT(30), <1>0, <1>5 DEF OutcomeFrame, QuietFrame, KeepsCreate, Creating, CreateOps
  <2>2. Progress(p, d)
    BY Zenon, <1>3, <1>4 DEF Progress
  <2>3. OutcomeStep(p)
    BY Zenon, <1>1, <1>2, <1>3, <2>2 DEF OutcomeStep
  <2> QED
    BY <1>5, <2>1, <2>3 DEF Tidy
<1>7. PaysOn(p)
  <2>1. \A e \in Deliveries : Owed(e)' => Owed(e)
    BY <1>2, <1>3 DEF Owed
  <2> QED
    BY Zenon, <1>1, <1>2, <2>1 DEF PaysOn, Repaying, At
<1>8. ASSUME "insert" \notin Faults PROVE HandsBack(p)
  <2>1. \A e \in Deliveries : Held(e)' = Held(e)
    BY Zenon, <1>2 DEF Held
  <2>2. \A e \in Deliveries : Flying(e) => e # d /\ Flying(e)'
    BY <1>3, <1>4 DEF Flying, DeliveryStatus, CANCELABLE_STATUSES, FAILABLE_STATUSES, TERMINAL_STATUSES
  <2>3. ASSUME NEW e \in Deliveries, Holding(p, e) PROVE Flying(e)'
    <3>1. e = d /\ frame[p].craft # None
      BY Zenon, <1>1, <2>3 DEF Holding, At
    <3> QED
      BY <1>3, <3>1 DEF Flying, DeliveryStatus, CANCELABLE_STATUSES, FAILABLE_STATUSES, TERMINAL_STATUSES
  <2> QED
    BY Zenon, <2>1, <2>2, <2>3 DEF HandsBack
<1> QED
  BY Zenon, <1>6, <1>7, <1>8 DEF Good

LEMMA BindIsGood ==
    ASSUME OutcomeInv, NEW p \in Procs, At(p, "kickCas"), BindKickoff(p),
           OthersStay(p), QuietFrame(p), UNCHANGED <<reason, active, refunded>>
    PROVE  Good(p)
<1> DEFINE d == frame[p].on
<1>0. TypeOK /\ OutcomeFrame(p)
  BY DEF OutcomeInv
<1>1. ~At(p, "idle") /\ d \in Deliveries
  BY Zenon, <1>0, OnType DEF At
<1>2. /\ status[d] = "SCHEDULED" /\ status'[d] = "PENDING"
      /\ frame[p].craft # None => source'[d] = "LIVE"
      /\ frame[p].craft = None => source'[d] = source[d]
      /\ \A e \in Deliveries : e # d => status'[e] = status[e] /\ source'[e] = source[e]
  BY <1>0, <1>1 DEF BindKickoff, TypeOK
<1>3. Tidy(p)
  <2>1. OutcomeFrame(p)' /\ KeepsCreate(p)
    BY ZenonT(30), <1>0 DEF OutcomeFrame, QuietFrame, KeepsCreate, Creating, CreateOps, At
  <2>2. Progress(p, d)
    BY <1>2 DEF Progress, DeliveryStatus, TERMINAL_STATUSES, CANCELABLE_STATUSES
  <2>3. OutcomeStep(p)
    BY Zenon, <1>1, <1>2, <2>2 DEF OutcomeStep
  <2> QED
    BY <2>1, <2>3 DEF Tidy
<1>4. PaysOn(p)
  <2>1. \A e \in Deliveries : Owed(e)' => Owed(e)
    BY <1>2 DEF Owed
  <2> QED
    BY Zenon, <1>1, <2>1 DEF PaysOn, Repaying, At
<1>5. HandsBack(p)
  <2>1. \A e \in Deliveries : Held(e)' = Held(e)
    BY Zenon DEF Held
  <2>2. \A e \in Deliveries : Flying(e) => Flying(e)'
    BY Zenon, <1>2 DEF Flying, DeliveryStatus, CANCELABLE_STATUSES, FAILABLE_STATUSES, TERMINAL_STATUSES
  <2>3. ASSUME NEW e \in Deliveries, Holding(p, e) PROVE Flying(e)'
    <3>1. e = d /\ frame[p].craft # None
      BY Zenon, <2>3 DEF Holding, At
    <3> QED
      BY <1>2, <3>1 DEF Flying, DeliveryStatus, CANCELABLE_STATUSES, FAILABLE_STATUSES, TERMINAL_STATUSES
  <2> QED
    BY Zenon, <2>1, <2>2, <2>3 DEF HandsBack
<1> QED
  BY <1>3, <1>4, <1>5 DEF Good

\* Every step of a handler in progress keeps the customer's promise; when nothing is lost it
\* pays what is owed, and when no insert rejects late it hands its aircraft back.
LEMMA ContinueIsGood ==
    ASSUME OutcomeInv, NEW p \in Procs, Continue(p)
    PROVE  Good(p)
<1> DEFINE d == frame[p].on
<1>0. TypeOK /\ OutcomeFrame(p)
  BY DEF OutcomeInv
<1>t. /\ FAILABLE_STATUSES \subseteq DeliveryStatus \ TERMINAL_STATUSES
      /\ "AWAITING_HANDOFF" \in FAILABLE_STATUSES
      /\ {"CANCELED", "DELIVERED"} \subseteq TERMINAL_STATUSES
  BY Zenon DEF FAILABLE_STATUSES, TERMINAL_STATUSES, DeliveryStatus
<1>q. ASSUME OthersStay(p), QuietFrame(p), UNCHANGED <<status, source, reason, active, refunded>>,
             frame[p].at \notin {"release", "cleanup"},
             \/ frame[p].at \notin {"insert", "kickCas"}
             \/ frame[p].craft = None
             \/ frame'[p].at = "release" /\ frame'[p].on = frame[p].on
             \/ ~(Reliable /\ "insert" \notin Faults)
      PROVE  Good(p)
  BY Zenon, <1>q, QuietIsGood DEF Quiet
<1>f. ASSUME Finish(p), UNCHANGED <<status, source, reason, active, refunded>>,
             frame[p].at \notin {"insert", "kickCas", "release", "cleanup"}
      PROVE  Good(p)
  <2>1. OthersStay(p) /\ QuietFrame(p)
    BY Zenon, <1>0, <1>f, FinishIs DEF QuietFrame
  <2> QED
    BY <1>f, <1>q, <2>1
<1>u. ASSUME UNCHANGED <<row, fleet, queued, refunded, midair>>
      PROVE  UNCHANGED <<status, source, reason, active, refunded>>
  BY Zenon, <1>u DEF row, fleet
<1>s. ASSUME NEW at \in {"claim", "kickCas", "guessed", "fail"}, OthersStay(p),
             frame'[p].op = frame[p].op, frame'[p].at = at, frame'[p].on = d,
             frame'[p].cleanup = frame[p].cleanup, frame[p].at \notin {"idle", "fail", "release", "cleanup"},
             at = "claim" => frame[p].at \in {"dispatch", "claim"}
      PROVE  QuietFrame(p)
  <2>1. frame[p].cleanup # "refund"
    BY Zenon, <1>0, <1>s DEF OutcomeFrame
  <2> QED
    BY <1>s, <2>1 DEF QuietFrame
<1>1. CASE SelectAircraft(p)
  <2>1. At(p, "dispatch") /\ UNCHANGED <<status, source, reason, active, refunded>>
    BY Zenon, <1>1, <1>u DEF SelectAircraft
  <2>2. ASSUME NEW x, Dispatched(p, x) PROVE Good(p)
    BY <1>q, <2>1, <2>2, DispatchedIsQuiet DEF At
  <2>3. ASSUME NEW feasible, Goto(p, [frame[p] EXCEPT !.at = "claim", !.cand = feasible])
        PROVE  Good(p)
    <3>1. frame[p] \in Frame
      BY <1>0, <2>1, OnType DEF At
    <3>2. frame'[p] = [frame[p] EXCEPT !.at = "claim", !.cand = feasible] /\ OthersStay(p)
      BY Zenon, <1>0, <2>3, GotoIs
    <3>3. /\ frame'[p].op = frame[p].op /\ frame'[p].at = "claim" /\ frame'[p].on = d
          /\ frame'[p].cleanup = frame[p].cleanup
      BY <3>1, <3>2 DEF Frame
    <3>4. QuietFrame(p)
      BY <1>s, <2>1, <3>2, <3>3 DEF At
    <3> QED
      BY <1>q, <2>1, <3>2, <3>4 DEF At
  <2> QED
    BY Zenon, <1>1, <2>2, <2>3 DEF SelectAircraft
<1>2. CASE ClaimAircraft(p)
  BY <1>2, ClaimIsGood
<1>3. CASE ClaimLost(p)
  <2>1. At(p, "claim") /\ UNCHANGED <<status, source, reason, active, refunded>>
    BY <1>3, <1>u DEF ClaimLost
  <2>2. PICK x : Goto(p, [frame[p] EXCEPT !.cand = @ \ {x}])
    BY <1>3 DEF ClaimLost
  <2>3. frame[p] \in Frame
    BY <1>0, <2>1, OnType DEF At
  <2>4. frame'[p] = [frame[p] EXCEPT !.cand = @ \ {x}] /\ OthersStay(p)
    BY <1>0, <2>2, GotoIs
  <2>5. /\ frame'[p].op = frame[p].op /\ frame'[p].at = "claim" /\ frame'[p].on = d
        /\ frame'[p].cleanup = frame[p].cleanup
    BY <2>1, <2>3, <2>4 DEF Frame, At
  <2>6. QuietFrame(p)
    BY <1>s, <2>1, <2>4, <2>5 DEF At
  <2> QED
    BY <1>q, <2>1, <2>4, <2>6 DEF At
<1>4. CASE ClaimThrows(p)
  <2>1. At(p, "claim") /\ UNCHANGED <<status, source, reason, active, refunded>> /\ DispatchThrows(p)
    BY <1>4, <1>u DEF ClaimThrows
  <2> QED
    BY Zenon, <1>q, <2>1, DispatchThrowsIs DEF At
<1>5. CASE Release(p)
  BY <1>5, ReleaseIsGood
<1>6. CASE Cleanup(p)
  BY <1>6, CleanupIsGood
<1>7. CASE InsertDelivery(p)
  BY <1>7, InsertIsGood
<1>8. CASE InsertThrows(p)
  <2>1. /\ At(p, "insert") /\ UNCHANGED <<status, source, reason, active, refunded>>
        /\ ReleaseClaimedAircraft(p)
    BY <1>8, <1>u DEF InsertThrows
  <2> QED
    BY <1>q, <2>1, ReleaseClaimedIs DEF At
<1>9. CASE Enqueue(p)
  <2>1. At(p, "enqueue") /\ Finish(p) /\ UNCHANGED <<status, source, reason, active, refunded>>
    BY <1>9 DEF Enqueue, row, fleet
  <2> QED
    BY Zenon, <1>f, <2>1 DEF At
<1>10. CASE KickoffStartSimulation(p)
  <2>1. At(p, "startSim") /\ UNCHANGED <<status, source, reason, active, refunded>>
    BY Zenon, <1>10 DEF KickoffStartSimulation, row, fleet
  <2>2. CASE Finish(p)
    BY Zenon, <1>f, <2>1, <2>2 DEF At
  <2>3. CASE Step(p, "kickCas")
    <3>1. /\ OthersStay(p)
          /\ frame'[p].op = frame[p].op /\ frame'[p].at = "kickCas" /\ frame'[p].on = d
          /\ frame'[p].cleanup = frame[p].cleanup
      BY <1>0, <2>1, <2>3, StepIs DEF At
    <3>2. QuietFrame(p)
      BY <1>s, <2>1, <3>1 DEF At
    <3> QED
      BY Zenon, <1>q, <2>1, <3>1, <3>2 DEF At
  <2> QED
    BY <1>10, <2>2, <2>3 DEF KickoffStartSimulation
<1>11. CASE KickoffCas(p)
  <2>1. At(p, "kickCas") /\ BindKickoff(p) /\ Finish(p) /\ UNCHANGED <<reason, active, refunded>>
    BY <1>11 DEF KickoffCas, fleet
  <2>2. OthersStay(p) /\ QuietFrame(p)
    BY Zenon, <1>0, <2>1, FinishIs DEF QuietFrame
  <2> QED
    BY <2>1, <2>2, BindIsGood
<1>12. CASE KickoffLost(p)
  <2>1. /\ At(p, "kickCas") /\ UNCHANGED <<status, source, reason, active, refunded>>
        /\ ReleaseClaimedAircraft(p)
    BY <1>12, <1>u DEF KickoffLost
  <2> QED
    BY <1>q, <2>1, ReleaseClaimedIs DEF At
<1>13. CASE KickoffCasThrows(p)
  <2>1. At(p, "kickCas") /\ UNCHANGED <<reason, active, refunded>> /\ ~Reliable
    BY <1>13 DEF KickoffCasThrows, fleet, Reliable
  <2>2. OthersStay(p) /\ QuietFrame(p)
    <3>1. CASE Finish(p)
      BY Zenon, <1>0, <3>1, FinishIs DEF QuietFrame
    <3>2. CASE Step(p, "recheck")
      <4>1. /\ OthersStay(p)
            /\ frame'[p].op = frame[p].op /\ frame'[p].at = "recheck" /\ frame'[p].on = d
            /\ frame'[p].cleanup = frame[p].cleanup
        BY <1>0, <2>1, <3>2, StepIs DEF At
      <4>2. frame[p].at = "kickCas" /\ frame[p].cleanup # "refund"
        BY Zenon, <1>0, <2>1 DEF OutcomeFrame, At
      <4> QED
        BY Zenon, <4>1, <4>2 DEF QuietFrame
    <3> QED
      BY <1>13, <3>1, <3>2 DEF KickoffCasThrows
  <2>3. CASE BindKickoff(p)
    BY <2>1, <2>2, <2>3, BindIsGood
  <2>4. CASE UNCHANGED <<status, source, assigned>>
    BY <1>q, <2>1, <2>2, <2>4 DEF At
  <2> QED
    BY <1>13, <2>3, <2>4 DEF KickoffCasThrows
<1>14. CASE KickoffRecheck(p)
  <2>1. At(p, "recheck") /\ UNCHANGED <<status, source, reason, active, refunded>>
    BY <1>14, <1>u DEF KickoffRecheck
  <2>2. CASE Finish(p)
    BY <1>f, <2>1, <2>2 DEF At
  <2>3. CASE ThenRelease(p, FALSE, "none")
    <3>1. /\ OthersStay(p)
          /\ frame'[p].op = frame[p].op /\ frame'[p].at = "release" /\ frame'[p].on = frame[p].on
          /\ frame'[p].cleanup = "none"
      BY Zenon, <1>0, <2>1, <2>3, ThenReleaseIs DEF At
    <3>2. QuietFrame(p)
      BY Zenon, <2>1, <3>1 DEF QuietFrame, At
    <3> QED
      BY Zenon, <1>q, <2>1, <3>1, <3>2 DEF At
  <2> QED
    BY Zenon, <1>14, <2>2, <2>3 DEF KickoffRecheck
<1>15. CASE ForceCancelAirborne(p)
  <2>1. /\ At(p, "force") /\ d \in Deliveries
        /\ UNCHANGED <<source, reason, active, refunded>>
    BY Zenon, <1>0, <1>15, OnType DEF ForceCancelAirborne, At, fleet
  <2>2. CASE status[d] \in FAILABLE_STATUSES /\ Settle(d, "CANCELED") /\ ThenRelease(p, TRUE, "refund")
    <3>1. /\ OthersStay(p)
          /\ frame'[p].op = frame[p].op /\ frame'[p].at = "release" /\ frame'[p].on = d
          /\ frame'[p].cleanup = "refund"
      BY Zenon, <1>0, <2>1, <2>2, ThenReleaseIs DEF At
    <3>2. Settles(p, d, "CANCELED")
      BY Zenon, <1>t, <2>1, <2>2, <3>1 DEF Settles, At
    <3> QED
      BY <1>t, <2>1, <3>2, SettlesIsGood
  <2>3. CASE Finish(p) /\ UNCHANGED <<status, midair>>
    BY <1>f, <2>1, <2>3 DEF At
  <2> QED
    BY Zenon, <1>15, <2>2, <2>3 DEF ForceCancelAirborne
<1>16. CASE FailExceptional(p)
  <2>1. At(p, "fail")
    BY <1>16 DEF FailExceptional
  <2>2. CASE FailFrom(p, frame[p])
    BY <1>0, <2>1, <2>2, OnType, FailFromIsGood DEF At
  <2>3. CASE Finish(p) /\ UNCHANGED <<row, fleet, queued, refunded, midair>>
    BY Zenon, <1>f, <1>u, <2>1, <2>3 DEF At
  <2> QED
    BY <1>16, <2>2, <2>3 DEF FailExceptional
<1>17. CASE CountWrongCode(p)
  <2>1. At(p, "guess") /\ UNCHANGED <<status, source, reason, active, refunded>>
    BY <1>17 DEF CountWrongCode, fleet
  <2>2. PICK at \in {"guessed", "fail"} : Step(p, at)
    BY Zenon, <1>17 DEF CountWrongCode
  <2>3. /\ OthersStay(p)
        /\ frame'[p].op = frame[p].op /\ frame'[p].at = at /\ frame'[p].on = d
        /\ frame'[p].cleanup = frame[p].cleanup
    BY Zenon, <1>0, <2>1, <2>2, StepIs DEF At
  <2>4. QuietFrame(p)
    BY <1>s, <2>1, <2>3 DEF At
  <2> QED
    BY <1>q, <2>1, <2>3, <2>4 DEF At
<1>18. CASE RereadAttempts(p)
  <2>1. At(p, "guessed") /\ UNCHANGED <<status, source, reason, active, refunded>>
    BY <1>18, <1>u DEF RereadAttempts
  <2>2. CASE Finish(p)
    BY Zenon, <1>f, <2>1, <2>2 DEF At
  <2>3. CASE Step(p, "fail")
    <3>1. /\ OthersStay(p)
          /\ frame'[p].op = frame[p].op /\ frame'[p].at = "fail" /\ frame'[p].on = d
          /\ frame'[p].cleanup = frame[p].cleanup
      BY Zenon, <1>0, <2>1, <2>3, StepIs DEF At
    <3>2. QuietFrame(p)
      BY <1>s, <2>1, <3>1 DEF At
    <3> QED
      BY Zenon, <1>q, <2>1, <3>1, <3>2 DEF At
  <2> QED
    BY Zenon, <1>18, <2>2, <2>3 DEF RereadAttempts
<1>19. CASE FinishHandoff(p)
  <2>1. /\ At(p, "confirm") /\ d \in Deliveries
        /\ UNCHANGED <<source, reason, active, refunded>>
    BY <1>0, <1>19, OnType DEF FinishHandoff, At, fleet
  <2>2. CASE status[d] = "AWAITING_HANDOFF" /\ Settle(d, "DELIVERED") /\ ThenRelease(p, FALSE, "none")
    <3>1. /\ OthersStay(p)
          /\ frame'[p].op = frame[p].op /\ frame'[p].at = "release" /\ frame'[p].on = d
          /\ frame'[p].cleanup = "none"
      BY Zenon, <1>0, <2>1, <2>2, ThenReleaseIs DEF At
    <3>2. Settles(p, d, "DELIVERED")
      BY Zenon, <1>t, <2>1, <2>2, <3>1 DEF Settles, At
    <3> QED
      BY Zenon, <1>t, <2>1, <3>2, SettlesIsGood
  <2>3. CASE Finish(p) /\ UNCHANGED <<status, midair>>
    BY <1>f, <2>1, <2>3 DEF At
  <2> QED
    BY Zenon, <1>19, <2>2, <2>3 DEF FinishHandoff
<1> QED
  BY ZenonT(30), <1>1, <1>2, <1>3, <1>4, <1>5, <1>6, <1>7, <1>8, <1>9, <1>10, <1>11, <1>12, <1>13,
     <1>14, <1>15, <1>16, <1>17, <1>18, <1>19 DEF Continue

----------------------------------------------------------------------------
(* The handlers that arrive.                                               *)

\* A handler that has only read.
LEMMA FreshIsGood ==
    ASSUME OutcomeInv, NEW p \in Procs, At(p, "idle"), OthersStay(p),
           frame'[p].at \in {"dispatch", "startSim", "fail", "force", "confirm", "guess"},
           frame'[p].op \notin CreateOps, frame'[p].cleanup # "refund",
           frame'[p].at = "dispatch" => frame'[p].op = "kickoff",
           frame'[p].op = "watchdog" => frame'[p].at = "fail",
           UNCHANGED <<status, source, reason, active, refunded>>
    PROVE  Good(p)
<1>1. OutcomeFrame(p)' /\ KeepsCreate(p)
  BY Zenon DEF OutcomeFrame, KeepsCreate, Creating
<1>2. Tidy(p)
  BY <1>1 DEF Tidy, OutcomeStep
<1>3. PaysOn(p)
  BY Zenon, QuietPaysOn DEF At
<1>4. HandsBack(p)
  BY QuietHandsBack DEF At
<1> QED
  BY <1>2, <1>3, <1>4 DEF Good

LEMMA CreateBeginIsGood ==
    ASSUME OutcomeInv, NEW p \in Procs, At(p, "idle"), NEW d \in Deliveries, CreateBegin(p, d)
    PROVE  Good(p)
<1>0. TypeOK
  BY DEF OutcomeInv
<1>1. PICK op \in CreateOps, at \in {"dispatch", "insert"} :
         Begin(p, op, at, d) /\ (op = "schedule" => at = "insert")
  BY DEF CreateBegin, CreateOps
<1>2. frame'[p] = [IdleFrame EXCEPT !.op = op, !.at = at, !.on = d] /\ OthersStay(p)
  BY Zenon, <1>0, <1>1, GotoIs DEF Begin
<1>3. frame'[p].op = op /\ frame'[p].at = at /\ frame'[p].on = d /\ frame'[p].cleanup = "none"
  BY <1>2 DEF IdleFrame
<1>4. /\ status[d] = "FREE" /\ status'[d] = "MINTED"
      /\ \A e \in Deliveries : e # d => status'[e] = status[e]
      /\ UNCHANGED <<source, reason, active, refunded>>
  BY Zenon, <1>0 DEF CreateBegin, TypeOK, fleet
<1>5. OutcomeStep(p)
  BY <1>4 DEF OutcomeStep, Progress
<1>6. OutcomeFrame(p)' /\ KeepsCreate(p)
  BY Zenon, <1>1, <1>3, <1>4 DEF OutcomeFrame, KeepsCreate, Creating, CreateOps
<1>7. PaysOn(p)
  BY Zenon, <1>4 DEF PaysOn, Repaying, Owed, At
<1>8. \A e \in Deliveries : Held(e)' = Held(e)
  BY <1>4 DEF Held
<1>9. \A e \in Deliveries : Flying(e) => Flying(e)'
  BY <1>4 DEF Flying, DeliveryStatus, FAILABLE_STATUSES, CANCELABLE_STATUSES, TERMINAL_STATUSES
<1>10. HandsBack(p)
  BY Zenon, <1>8, <1>9 DEF HandsBack, Holding, At
<1> QED
  BY <1>2, <1>5, <1>6, <1>7, <1>10 DEF Good, Tidy

LEMMA BeginReturnToBaseIsGood ==
    ASSUME OutcomeInv, NEW p \in Procs, NEW d \in Deliveries, BeginReturnToBase(p, d)
    PROVE  Good(p)
<1>0. TypeOK
  BY DEF OutcomeInv
<1>1. PICK why \in FailureReason :
           /\ reason' = [reason EXCEPT ![d] = why]
           /\ Goto(p, [IdleFrame EXCEPT !.op = "return", !.at = "cleanup", !.on = d, !.why = why,
                           !.cleanup = IF IsDroneFaultReason(why) THEN "refund" ELSE "stop"])
  BY Zenon DEF BeginReturnToBase
<1> DEFINE c == IF IsDroneFaultReason(why) THEN "refund" ELSE "stop"
<1>2. frame'[p] = [IdleFrame EXCEPT !.op = "return", !.at = "cleanup", !.on = d, !.why = why,
                       !.cleanup = c] /\ OthersStay(p)
  BY Zenon, <1>0, <1>1, GotoIs
<1>3. why = "RECIPIENT_UNAVAILABLE" \/ c = "refund"
  BY DEF IsDroneFaultReason
<1> HIDE DEF c
<1>4. frame'[p].op = "return" /\ frame'[p].at = "cleanup" /\ frame'[p].on = d /\ frame'[p].cleanup = c
  BY <1>2 DEF IdleFrame
<1>5. /\ status[d] \in RETURNABLE_STATUSES /\ status'[d] = "RETURNING" /\ source[d] = "LIVE"
      /\ \A e \in Deliveries : e # d => status'[e] = status[e] /\ reason'[e] = reason[e]
      /\ reason'[d] = why
      /\ UNCHANGED <<source, active, refunded>>
  BY <1>0, <1>1 DEF BeginReturnToBase, TypeOK, fleet
<1>6. /\ status[d] \in DeliveryStatus \ (TERMINAL_STATUSES \cup {"RETURNING"})
      /\ status'[d] \in DeliveryStatus \ (TERMINAL_STATUSES \cup {"RETURNED_TO_BASE"})
      /\ status'[d] \in Repayable
  BY <1>5 DEF RETURNABLE_STATUSES, DeliveryStatus, TERMINAL_STATUSES, CANCELABLE_STATUSES,
              FAILABLE_STATUSES, Repayable
<1>7. OutcomeStep(p)
  BY Zenon, <1>5, <1>6 DEF OutcomeStep, Progress
<1>8. OutcomeFrame(p)' /\ KeepsCreate(p)
  BY Zenon, <1>4, <1>6 DEF OutcomeFrame, KeepsCreate, Creating, CreateOps
<1>9. At(p, "idle")
  BY DEF BeginReturnToBase
<1>10. PaysOn(p)
  <2>1. \A e \in Deliveries : Owed(e)' => Owed(e) \/ Repaying(p, e)'
    BY Zenon, <1>3, <1>4, <1>5 DEF Owed, Repaying
  <2> QED
    BY Zenon, <1>5, <1>9, <2>1 DEF PaysOn, Repaying, At
<1>11. \A e \in Deliveries : Held(e)' = Held(e)
  BY <1>5 DEF Held
<1>12. \A e \in Deliveries : Flying(e) => Flying(e)'
  BY Zenon, <1>5, <1>6 DEF Flying
<1>13. HandsBack(p)
  BY Zenon, <1>9, <1>11, <1>12 DEF HandsBack, Holding, At
<1> QED
  BY <1>2, <1>7, <1>8, <1>10, <1>13 DEF Good, Tidy

\* Every handler that arrives does the same.
LEMMA ArriveIsGood ==
    ASSUME OutcomeInv, NEW p \in Procs, NEW d \in Deliveries, Arrive(p, d)
    PROVE  Good(p)
<1>0. TypeOK
  BY DEF OutcomeInv
<1>t. {"CANCELED", "RETURNED_TO_BASE"} \subseteq TERMINAL_STATUSES
  BY DEF TERMINAL_STATUSES
<1>u. ASSUME UNCHANGED <<row, fleet, queued, refunded, midair>>
      PROVE  UNCHANGED <<status, source, reason, active, refunded>>
  BY <1>u DEF row, fleet
<1>1. CASE CreateBegin(p, d)
  <2>1. At(p, "idle")
    BY Zenon, <1>1 DEF CreateBegin, Begin
  <2> QED
    BY <1>1, <2>1, CreateBeginIsGood
<1>2. CASE KickoffBegin(p, d)
  <2>1. At(p, "idle") /\ UNCHANGED <<status, source, reason, active, refunded>>
    BY <1>2, <1>u DEF KickoffBegin
  <2>2. PICK at \in {"fail", "dispatch", "startSim"} :
             Goto(p, [IdleFrame EXCEPT !.op = "kickoff", !.at = at, !.on = d, !.why = "DRONE_FAULT"])
    BY Zenon, <1>2 DEF KickoffBegin
  <2>3. frame'[p] = [IdleFrame EXCEPT !.op = "kickoff", !.at = at, !.on = d, !.why = "DRONE_FAULT"]
        /\ OthersStay(p)
    BY <1>0, <2>2, GotoIs
  <2>4. frame'[p].op = "kickoff" /\ frame'[p].at = at /\ frame'[p].cleanup = "none"
    BY <2>3 DEF IdleFrame
  <2> QED
    BY <2>1, <2>3, <2>4, FreshIsGood DEF CreateOps
<1>3. CASE Cancel(p, d)
  <2>1. frame'[p] = [IdleFrame EXCEPT !.op = "cancel", !.at = "release", !.on = d,
                                      !.cleanup = "refund"] /\ OthersStay(p)
    BY Zenon, <1>0, <1>3, GotoIs DEF Cancel
  <2>2. frame'[p].at = "release" /\ frame'[p].on = d /\ frame'[p].cleanup = "refund"
    BY <2>1 DEF IdleFrame
  <2>3. status[d] \in DeliveryStatus \ TERMINAL_STATUSES
    BY <1>3 DEF Cancel, DeliveryStatus, TERMINAL_STATUSES, CANCELABLE_STATUSES, FAILABLE_STATUSES
  <2>4. Settles(p, d, "CANCELED")
    BY <1>3, <2>1, <2>2, <2>3 DEF Settles, Cancel, At, fleet
  <2> QED
    BY <1>t, <2>4, SettlesIsGood
<1>4. CASE ForceCancelGrounded(p, d)
  <2>1. d \in Rows /\ At(p, "idle") /\ UNCHANGED <<source, reason, active, refunded>>
    BY <1>4 DEF ForceCancelGrounded, fleet
  <2>2. CASE status[d] \notin TERMINAL_STATUSES \cup FAILABLE_STATUSES
    <3>1. frame'[p] = [IdleFrame EXCEPT !.op = "forceCancel", !.at = "release", !.on = d,
                                        !.cleanup = "refund"] /\ OthersStay(p)
      BY Zenon, <1>0, <1>4, <2>2, GotoIs DEF ForceCancelGrounded
    <3>2. frame'[p].at = "release" /\ frame'[p].on = d /\ frame'[p].cleanup = "refund"
      BY <3>1 DEF IdleFrame
    <3>3. status[d] \in DeliveryStatus \ TERMINAL_STATUSES /\ Settle(d, "CANCELED")
      BY <1>4, <2>1, <2>2 DEF ForceCancelGrounded, Rows
    <3>4. Settles(p, d, "CANCELED")
      BY <2>1, <3>1, <3>2, <3>3 DEF Settles, At
    <3> QED
      BY <1>t, <3>4, SettlesIsGood
  <2>3. CASE ~(status[d] \notin TERMINAL_STATUSES \cup FAILABLE_STATUSES)
    <3>1. Begin(p, "forceCancel", "force", d) /\ UNCHANGED <<status, midair>>
      BY Zenon, <1>4, <2>3 DEF ForceCancelGrounded
    <3>2. frame'[p] = [IdleFrame EXCEPT !.op = "forceCancel", !.at = "force", !.on = d] /\ OthersStay(p)
      BY Zenon, <1>0, <3>1, GotoIs DEF Begin
    <3>3. frame'[p].op = "forceCancel" /\ frame'[p].at = "force" /\ frame'[p].cleanup = "none"
      BY <3>2 DEF IdleFrame
    <3> QED
      BY <2>1, <3>1, <3>2, <3>3, FreshIsGood DEF CreateOps
  <2> QED
    BY <2>2, <2>3
<1>5. CASE FailNow(p, d)
  <2>1. PICK why \in FailureReason :
               FailFrom(p, [IdleFrame EXCEPT !.op = "fail", !.on = d, !.why = why])
    BY Zenon, <1>5 DEF FailNow
  <2> DEFINE f == [IdleFrame EXCEPT !.op = "fail", !.on = d, !.why = why]
  <2>2. f \in Frame /\ f.on = d
    BY Zenon, IdleFrameType DEF Frame, Ops
  <2>3. frame[p].at = "idle"
    BY <1>5 DEF FailNow, At
  <2> QED
    BY Zenon, <2>1, <2>2, <2>3, FailFromIsGood
<1>6. CASE BeginReturnToBase(p, d)
  BY <1>6, BeginReturnToBaseIsGood
<1>7. CASE CompleteReturnToBase(p, d)
  <2>1. frame'[p] = [IdleFrame EXCEPT !.op = "return", !.at = "release", !.on = d, !.ground = TRUE]
        /\ OthersStay(p)
    BY <1>0, <1>7, GotoIs DEF CompleteReturnToBase
  <2>2. frame'[p].at = "release" /\ frame'[p].on = d /\ frame'[p].cleanup = "none"
    BY <2>1 DEF IdleFrame
  <2>3. status[d] \in DeliveryStatus \ TERMINAL_STATUSES
    BY <1>7 DEF CompleteReturnToBase, DeliveryStatus, TERMINAL_STATUSES, CANCELABLE_STATUSES,
                FAILABLE_STATUSES
  <2>4. Settles(p, d, "RETURNED_TO_BASE")
    BY <1>7, <2>1, <2>2, <2>3 DEF Settles, CompleteReturnToBase, At, fleet
  <2> QED
    BY <1>t, <2>4, SettlesIsGood
<1>8. CASE WatchdogScan(p, d)
  <2> DEFINE why == IF reason[d] = None THEN "DRONE_FAULT" ELSE reason[d]
  <2>1. At(p, "idle") /\ UNCHANGED <<status, source, reason, active, refunded>>
    BY <1>8, <1>u DEF WatchdogScan
  <2>2. frame'[p] = [IdleFrame EXCEPT !.op = "watchdog", !.at = "fail", !.on = d, !.why = why]
        /\ OthersStay(p)
    BY Zenon, <1>0, <1>8, GotoIs DEF WatchdogScan
  <2> HIDE DEF why
  <2>3. frame'[p].op = "watchdog" /\ frame'[p].at = "fail" /\ frame'[p].cleanup = "none"
    BY <2>2 DEF IdleFrame
  <2> QED
    BY Zenon, <2>1, <2>2, <2>3, FreshIsGood DEF CreateOps
<1>9. CASE ConfirmHandoff(p, d)
  <2>1. At(p, "idle") /\ UNCHANGED <<status, source, reason, active, refunded>>
    BY <1>9, <1>u DEF ConfirmHandoff
  <2>2. PICK at \in {"fail", "confirm", "guess"} :
             Goto(p, [IdleFrame EXCEPT !.op = "handoff", !.at = at, !.on = d,
                                       !.why = "RECIPIENT_UNAVAILABLE"])
    BY Zenon, <1>9 DEF ConfirmHandoff
  <2>3. frame'[p] = [IdleFrame EXCEPT !.op = "handoff", !.at = at, !.on = d,
                                      !.why = "RECIPIENT_UNAVAILABLE"] /\ OthersStay(p)
    BY <1>0, <2>2, GotoIs
  <2>4. frame'[p].op = "handoff" /\ frame'[p].at = at /\ frame'[p].cleanup = "none"
    BY Zenon, <2>3 DEF IdleFrame
  <2> QED
    BY Zenon, <2>1, <2>3, <2>4, FreshIsGood DEF CreateOps
<1> QED
  BY <1>1, <1>2, <1>3, <1>4, <1>5, <1>6, <1>7, <1>8, <1>9 DEF Arrive, IngestException

----------------------------------------------------------------------------
(* The steps that no handler takes.                                        *)

\* A stage job or a telemetry phase moves one row that is under way.
LEMMA AdvanceIs ==
    ASSUME TypeOK, NEW d \in Deliveries, NEW target \in STAGES, Advance(d, target)
    PROVE  /\ status[d] \in DeliveryStatus \ (TERMINAL_STATUSES \cup {"RETURNING"})
           /\ status'[d] \in DeliveryStatus \ (TERMINAL_STATUSES \cup {"RETURNING"})
           /\ \A e \in Deliveries : e # d => status'[e] = status[e]
           /\ UNCHANGED <<source, reason, active, refunded, frame>>
<1>1. target \in DeliveryStatus \ (TERMINAL_STATUSES \cup {"RETURNING"})
  BY DEF STAGES, DeliveryStatus, FAILABLE_STATUSES, CANCELABLE_STATUSES, TERMINAL_STATUSES
<1>2. status[d] \in DeliveryStatus \ (TERMINAL_STATUSES \cup {"RETURNING"})
  <2>1. status[d] \in StatusesBefore(target)
    BY DEF Advance
  <2> QED
    BY <2>1, BeforeStage DEF DeliveryStatus, FAILABLE_STATUSES, CANCELABLE_STATUSES, TERMINAL_STATUSES
<1> QED
  BY <1>1, <1>2 DEF Advance, TypeOK, fleet

LEMMA AdvanceKeeps ==
    ASSUME OutcomeInv, TypeOK', NEW d \in Deliveries, NEW target \in STAGES, Advance(d, target)
    PROVE  /\ OutcomeInv'
           /\ OutcomeStep(None)
           /\ RefundInv => RefundInv'
           /\ LeakInv => LeakInv'
<1>1. /\ status[d] \in DeliveryStatus \ (TERMINAL_STATUSES \cup {"RETURNING"})
      /\ status'[d] \in DeliveryStatus \ (TERMINAL_STATUSES \cup {"RETURNING"})
      /\ \A e \in Deliveries : e # d => status'[e] = status[e]
      /\ UNCHANGED <<source, reason, active, refunded, frame>>
  BY Zenon, AdvanceIs DEF OutcomeInv
<1>3. /\ status[d] # "MINTED" /\ status[d] \notin Repayable
      /\ status'[d] \notin Repayable /\ status'[d] # "RETURNED_TO_BASE"
  BY <1>1 DEF DeliveryStatus, TERMINAL_STATUSES, CANCELABLE_STATUSES, FAILABLE_STATUSES, Repayable
<1>2. OutcomeStep(None)
  BY Zenon, <1>1, <1>3 DEF OutcomeStep, Progress
<1>4. ASSUME NEW q \in Procs PROVE OutcomeFrame(q)'
  <2>1. OutcomeFrame(q) /\ frame' = frame
    BY Zenon, <1>1 DEF OutcomeInv
  <2>2. frame[q].at # "idle" => frame[q].on \in Deliveries
    BY OnType DEF OutcomeInv, At
  <2> QED
    BY ZenonT(30), <1>1, <1>3, <2>1, <2>2 DEF OutcomeFrame, Creating
<1>5. CreatedOnce'
  BY Zenon, <1>1 DEF OutcomeInv, CreatedOnce, Creating
<1>6. \A e \in Deliveries : Owed(e)' => Owed(e)
  BY Zenon, <1>1, <1>3 DEF Owed, Repayable
<1>7. \A e \in Deliveries : Held(e)' = Held(e)
  BY <1>1 DEF Held
<1>8. \A e \in Deliveries : Flying(e) => Flying(e)'
  BY <1>1 DEF Flying
<1>9. RefundInv => RefundInv'
  BY Zenon, <1>1, <1>6 DEF RefundInv, Repaying
<1>10. LeakInv => LeakInv'
  <2>1. ASSUME NEW e \in Deliveries, LeakInv, Held(e)' # {}, ~Flying(e)'
        PROVE  \E p \in Procs : Holding(p, e)'
    <3>1. PICK p \in Procs : Holding(p, e)
      BY Zenon, <1>7, <1>8, <2>1 DEF LeakInv
    <3>2. frame' = frame
      BY Zenon, <1>1
    <3> QED
      BY Zenon, <3>1, <3>2 DEF Holding
  <2> QED
    BY Zenon, <2>1 DEF LeakInv
<1> QED
  BY Zenon, <1>2, <1>4, <1>5, <1>9, <1>10 DEF OutcomeInv

LEMMA StillKeeps ==
    ASSUME OutcomeInv, TypeOK', UNCHANGED <<status, source, reason, active, refunded, frame>>
    PROVE  /\ OutcomeInv'
           /\ OutcomeStep(None)
           /\ RefundInv => RefundInv'
           /\ LeakInv => LeakInv'
<1>1. \A q \in Procs : OutcomeFrame(q)'
  BY ZenonT(30) DEF OutcomeInv, OutcomeFrame, Creating
<1>2. CreatedOnce'
  BY Zenon DEF OutcomeInv, CreatedOnce, Creating
<1>3. \A e \in Deliveries : Held(e)' = Held(e) /\ Flying(e)' = Flying(e)
  BY DEF Held, Flying
<1>4. RefundInv => RefundInv'
  BY Zenon DEF RefundInv, Repaying, Owed
<1>5. LeakInv => LeakInv'
  BY Zenon, <1>3 DEF LeakInv, Holding
<1> QED
  BY <1>1, <1>2, <1>4, <1>5 DEF OutcomeInv, OutcomeStep

LEMMA CrashIsGood ==
    ASSUME OutcomeInv, NEW p \in Procs, Crash(p)
    PROVE  Good(p)
<1>1. OthersStay(p) /\ QuietFrame(p)
  BY Zenon, FinishIs DEF OutcomeInv, Crash, QuietFrame
<1>2. UNCHANGED <<status, refunded>> /\ ~Reliable
  BY DEF Crash, row, Reliable
<1> QED
  BY <1>1, <1>2, QuietIsTidy DEF Good

\* Every step of the core, in the customer's terms.
LEMMA NextKeepsOutcomes ==
    ASSUME OutcomeInv, [Next]_vars
    PROVE  /\ OutcomeInv'
           /\ \E p \in Procs \cup {None} : OutcomeStep(p)
           /\ Reliable /\ RefundInv => RefundInv'
           /\ Reliable /\ "insert" \notin Faults /\ LeakInv => LeakInv'
<1>0. TypeOK /\ TypeOK'
  BY NextType DEF OutcomeInv
<1>1. ASSUME NEW p \in Procs, Good(p)
      PROVE  /\ OutcomeInv'
             /\ OutcomeStep(p)
             /\ Reliable /\ RefundInv => RefundInv'
             /\ Reliable /\ "insert" \notin Faults /\ LeakInv => LeakInv'
  <2>1. Tidy(p) /\ OthersStay(p) /\ OutcomeStep(p)
    BY <1>1 DEF Good, Tidy
  <2> QED
    BY <1>0, <1>1, <2>1, TidyKeepsOutcomes, PaysOnKeeps, HandsBackKeeps DEF Good
<1>2. ASSUME NEW d \in Deliveries, NEW target \in STAGES, Advance(d, target)
      PROVE  /\ OutcomeInv'
             /\ OutcomeStep(None)
             /\ RefundInv => RefundInv'
             /\ LeakInv => LeakInv'
  BY <1>0, <1>2, AdvanceKeeps
<1>3. CASE UNCHANGED <<status, source, reason, active, refunded, frame>>
  BY <1>0, <1>3, StillKeeps
<1>4. ASSUME NEW x \in Drones, UpdateDrone(x)
      PROVE  UNCHANGED <<status, source, reason, active, refunded, frame>>
  BY Zenon, <1>4 DEF UpdateDrone, row
<1>5. CASE UNCHANGED vars
  BY <1>3, <1>5 DEF vars
<1>6. CASE \E p \in Procs : Continue(p)
  BY <1>1, <1>6, ContinueIsGood
<1>7. CASE \E p \in Procs, d \in Deliveries : Arrive(p, d)
  BY <1>1, <1>7, ArriveIsGood
<1>8. CASE \E d \in Deliveries, target \in STAGES : HandleStage(d, target) \/ IngestPhase(d, target)
  BY <1>2, <1>8 DEF HandleStage, IngestPhase
<1>9. CASE \E p \in Procs : Crash(p)
  BY <1>1, <1>9, CrashIsGood
<1> QED
  BY <1>3, <1>4, <1>5, <1>6, <1>7, <1>8, <1>9 DEF Next

LEMMA InitOutcomes == Init => OutcomeInv /\ RefundInv /\ LeakInv
<1> SUFFICES ASSUME Init PROVE OutcomeInv /\ RefundInv /\ LeakInv
  OBVIOUS
<1>1. TypeOK
  BY Zenon, InitClaims DEF ClaimInv
<1>2. ASSUME NEW p \in Procs
      PROVE  /\ frame[p].at = "idle" /\ frame[p].op = "none" /\ frame[p].on = None
             /\ frame[p].cleanup = "none"
  <2>1. frame[p] = IdleFrame
    BY Zenon DEF Init
  <2> QED
    BY <2>1 DEF IdleFrame
<1>3. OutcomeInv
  BY Zenon, <1>1, <1>2 DEF OutcomeInv, OutcomeFrame, CreatedOnce, Creating
<1>4. \A d \in Deliveries : status[d] = "FREE"
  BY DEF Init
<1>5. \A d \in Deliveries : Held(d) = {}
  BY FleetAssumption DEF Init, Held, FleetAssumption
<1> QED
  BY Zenon, <1>3, <1>4, <1>5 DEF RefundInv, Owed, LeakInv

----------------------------------------------------------------------------
(* The theorems.                                                           *)

\* A service fault is paid for: once the handlers of a canceled delivery, or of one that
\* failed or turned back through no fault of the recipient, are done, its refund has been
\* made.  It assumes that no process dies and no write rejects between the settlement and
\* the refund: deliveries.service.ts makes the refund best-effort and nothing retries it.
THEOREM FaultsAreRefunded ==
    ASSUME "crash" \notin Faults, "write" \notin Faults
    PROVE  Spec => []FaultIsRefunded
<1>1. OutcomeInv /\ RefundInv /\ [Next]_vars => (OutcomeInv /\ RefundInv)'
  BY NextKeepsOutcomes DEF Reliable
<1>2. RefundInv => FaultIsRefunded
  BY Zenon DEF RefundInv, FaultIsRefunded, Owed, Repaying, Busy
<1> QED
  BY <1>1, <1>2, InitOutcomes, PTL DEF Spec

\* No aircraft is leaked: once nobody works on a delivery that is not flying, no drone is
\* claimed for it.  It assumes a process that lives, writes that do not reject, and a
\* delivery transaction that does not reject after its commit; a kickoff job may run twice
\* at once.
THEOREM ClaimsComeBack ==
    ASSUME "crash" \notin Faults, "write" \notin Faults, "insert" \notin Faults
    PROVE  Spec => []NoLeakedClaim
<1>1. OutcomeInv /\ LeakInv /\ [Next]_vars => (OutcomeInv /\ LeakInv)'
  BY NextKeepsOutcomes DEF Reliable
<1>2. LeakInv => NoLeakedClaim
  BY Zenon DEF LeakInv, NoLeakedClaim, Holding, Busy
<1> QED
  BY <1>1, <1>2, InitOutcomes, PTL DEF Spec

----------------------------------------------------------------------------
(* The abstract specification.                                             *)

\* What the progress of one row is to the customer.
LEMMA ProgressIsSeen ==
    ASSUME NEW p, NEW e, Progress(p, e)
    PROVE  \/ OutcomeOf(status'[e]) = OutcomeOf(status[e])
           \/ OutcomeOf(status[e]) = "none" /\ OutcomeOf(status'[e]) = "open"
           \/ /\ OutcomeOf(status[e]) = "open"
              /\ OutcomeOf(status'[e]) \in {"homebound", "delivered", "canceled", "failed"}
           \/ OutcomeOf(status[e]) = "homebound" /\ OutcomeOf(status'[e]) \in {"canceled", "failed", "returned"}
BY DEF Progress, OutcomeOf, Repayable, DeliveryStatus, TERMINAL_STATUSES, CANCELABLE_STATUSES,
       FAILABLE_STATUSES

LEMMA RepayableIsSeen ==
    ASSUME NEW e, status[e] \in Repayable
    PROVE  OutcomeOf(status[e]) \in {"homebound", "canceled", "failed", "returned"}
BY Zenon DEF OutcomeOf, Repayable

LEMMA StepKeepsPromise ==
    ASSUME TypeOK, TypeOK', NEW p, OutcomeStep(p)
    PROVE  [Outcome!Next]_<<[d \in Deliveries |-> OutcomeOf(status[d])], refunded>>
<1> DEFINE view == [d \in Deliveries |-> OutcomeOf(status[d])]
<1>1. CASE UNCHANGED <<status, refunded>>
  BY Zenon, <1>1
<1>2. ASSUME NEW d \in Deliveries, UNCHANGED refunded, Progress(p, d),
             \A e \in Deliveries : e # d => status'[e] = status[e]
      PROVE  Outcome!Next \/ (view' = view /\ UNCHANGED refunded)
  <2>1. view' = [view EXCEPT ![d] = OutcomeOf(status'[d])] /\ view[d] = OutcomeOf(status[d])
    BY Zenon, <1>2
  <2>2. CASE OutcomeOf(status'[d]) = OutcomeOf(status[d])
    BY Zenon, <1>2, <2>1, <2>2
  <2>4. CASE OutcomeOf(status[d]) = "none" /\ OutcomeOf(status'[d]) = "open"
    <3>1. Outcome!Accept(d)
      BY <1>2, <2>1, <2>4 DEF Outcome!Accept, Outcome!Become
    <3> QED
      BY <3>1 DEF Outcome!Next
  <2>5. CASE OutcomeOf(status[d]) = "open" /\ OutcomeOf(status'[d]) = "homebound"
    <3>1. Outcome!TurnBack(d)
      BY Zenon, <1>2, <2>1, <2>5 DEF Outcome!TurnBack, Outcome!Become
    <3> QED
      BY Zenon, <3>1 DEF Outcome!Next
  <2>6. CASE OutcomeOf(status[d]) = "open" /\ OutcomeOf(status'[d]) = "delivered"
    <3>1. Outcome!Deliver(d)
      BY Zenon, <1>2, <2>1, <2>6 DEF Outcome!Deliver, Outcome!Become
    <3> QED
      BY Zenon, <3>1 DEF Outcome!Next
  <2>7. CASE /\ OutcomeOf(status[d]) \in {"open", "homebound"}
             /\ OutcomeOf(status'[d]) \in {"canceled", "failed"}
    <3>1. Outcome!CallOff(d)
      BY Zenon, <1>2, <2>1, <2>7 DEF Outcome!CallOff, Outcome!Become
    <3> QED
      BY Zenon, <3>1 DEF Outcome!Next
  <2>8. CASE OutcomeOf(status[d]) = "homebound" /\ OutcomeOf(status'[d]) = "returned"
    <3>1. Outcome!Land(d)
      BY <1>2, <2>1, <2>8 DEF Outcome!Land, Outcome!Become
    <3> QED
      BY Zenon, <3>1 DEF Outcome!Next
  <2> QED
    BY Zenon, <1>2, <2>2, <2>4, <2>5, <2>6, <2>7, <2>8, ProgressIsSeen
<1>3. ASSUME NEW d \in Deliveries, UNCHANGED status, status[d] \in Repayable, refunded'[d],
             \A e \in Deliveries : e # d => refunded'[e] = refunded[e]
      PROVE  Outcome!Next \/ (view' = view /\ UNCHANGED refunded)
  <2>1. refunded' = [refunded EXCEPT ![d] = TRUE] /\ refunded[d] \in BOOLEAN
    BY <1>3 DEF TypeOK
  <2>2. view' = view /\ view[d] \in {"homebound", "canceled", "failed", "returned"}
    BY <1>3, RepayableIsSeen
  <2>3. CASE refunded[d] = TRUE
    BY <2>1, <2>2, <2>3 DEF TypeOK
  <2>4. CASE refunded[d] = FALSE
    <3>1. Outcome!Repay(d)
      BY <2>1, <2>2, <2>4 DEF Outcome!Repay
    <3> QED
      BY Zenon, <3>1 DEF Outcome!Next
  <2> QED
    BY Zenon, <2>1, <2>3, <2>4
<1> QED
  BY <1>1, <1>2, <1>3 DEF OutcomeStep

\* The core implements the promise: under the map of each status to what the customer
\* sees, every behaviour of the handlers, with every fault the environment is allowed, is
\* one DeliveryOutcome allows.  An order is settled once and stays settled, one that has
\* turned for home no longer arrives, and money goes back once and only for an order that
\* did not arrive.
THEOREM PromiseIsKept == Spec => KeepsPromise
<1>1. Init => Outcome!Init
  BY Zenon DEF Init, Outcome!Init, OutcomeOf
<1>2. OutcomeInv /\ [Next]_vars =>
        OutcomeInv' /\ [Outcome!Next]_<<[d \in Deliveries |-> OutcomeOf(status[d])], refunded>>
  BY Zenon, NextKeepsOutcomes, StepKeepsPromise DEF OutcomeInv
<1> QED
  BY <1>1, <1>2, InitOutcomes, PTL DEF Spec, KeepsPromise, Outcome!Spec

----------------------------------------------------------------------------
(* What a step may not do.                                                 *)

\* The watchdog's own steps.
LEMMA WatchdogStep ==
    ASSUME OutcomeInv, NEW p \in Procs, Continue(p), frame[p].op = "watchdog",
           status[frame[p].on] = "AWAITING_HANDOFF"
    PROVE  status' = status
<1>1. frame[p].at \in {"fail", "release", "cleanup"}
  BY Zenon DEF OutcomeInv, OutcomeFrame
<1>2. FailExceptional(p) \/ Release(p) \/ Cleanup(p)
  BY Zenon, <1>1 DEF Continue, At, SelectAircraft, ClaimAircraft, ClaimLost, ClaimThrows, InsertDelivery,
              InsertThrows, Enqueue, KickoffStartSimulation, KickoffCas, KickoffLost, KickoffCasThrows,
              KickoffRecheck, ForceCancelAirborne, CountWrongCode, RereadAttempts, FinishHandoff
<1>3. ~FailFrom(p, frame[p])
  BY DEF FailFrom, AllowedStatuses, WATCHDOG_STUCK_STATUSES
<1> QED
  BY <1>2, <1>3 DEF FailExceptional, Release, Cleanup, row

\* A handler in progress is continued, or dies.
LEMMA FrameStep ==
    ASSUME OutcomeInv, [Next]_vars, NEW p \in Procs, ~At(p, "idle"), frame'[p] # frame[p]
    PROVE  Continue(p) \/ Crash(p)
<1>1. ASSUME NEW q \in Procs, Good(q) PROVE q = p
  BY <1>1 DEF Good, Tidy, OthersStay
<1>2. ASSUME NEW q \in Procs, NEW d \in Deliveries, Arrive(q, d) PROVE At(q, "idle")
  BY Zenon, <1>2 DEF Arrive, CreateBegin, Begin, KickoffBegin, Cancel, ForceCancelGrounded, IngestException, FailNow,
              BeginReturnToBase, CompleteReturnToBase, WatchdogScan, ConfirmHandoff
<1>3. ~\E q \in Procs, d \in Deliveries : Arrive(q, d)
  BY Zenon, <1>1, <1>2, ArriveIsGood
<1>4. ~\E d \in Deliveries, target \in STAGES : HandleStage(d, target) \/ IngestPhase(d, target)
  BY DEF HandleStage, IngestPhase, Advance
<1>5. ~\E x \in Drones : UpdateDrone(x)
  BY DEF UpdateDrone
<1>6. ~UNCHANGED vars
  BY Zenon DEF vars
<1>7. \A q \in Procs : Continue(q) \/ Crash(q) => q = p
  BY <1>1, ContinueIsGood, CrashIsGood
<1> QED
  BY Zenon, <1>3, <1>4, <1>5, <1>6, <1>7 DEF Next

\* The watchdog never fails a delivery waiting at the door, even one it picked while it was
\* still in transit: whatever the faults, a step of a watchdog run on such a delivery
\* leaves the row as it is.
THEOREM HandoffIsSpared == Spec => WatchdogSparesHandoff
<1>1. ASSUME OutcomeInv, [Next]_vars, NEW d \in Deliveries, NEW p \in Procs,
             status[d] = "AWAITING_HANDOFF", frame[p].op = "watchdog", frame[p].on = d,
             frame'[p] # frame[p]
      PROVE  status'[d] = "AWAITING_HANDOFF"
  <2>1. ~At(p, "idle")
    BY Zenon, <1>1 DEF OutcomeInv, OutcomeFrame, At
  <2>2. CASE Continue(p)
    BY Zenon, <1>1, <2>2, WatchdogStep
  <2>3. CASE Crash(p)
    BY Zenon, <1>1, <2>3 DEF Crash, row
  <2> QED
    BY <1>1, <2>1, <2>2, <2>3, FrameStep
<1>2. OutcomeInv /\ [Next]_vars =>
        OutcomeInv' /\ (\A d \in Deliveries, p \in Procs :
          status[d] = "AWAITING_HANDOFF" /\ frame[p].op = "watchdog" /\ frame[p].on = d
          /\ frame'[p] # frame[p] => status'[d] = "AWAITING_HANDOFF")
  BY Zenon, <1>1, NextKeepsOutcomes
<1> QED
  BY <1>2, InitOutcomes, PTL DEF Spec, WatchdogSparesHandoff

----------------------------------------------------------------------------
(* The aircraft whose mission ended in the air.                            *)

\* From these round trips a handler goes on to a release that does not ground.
Binding == {"dispatch", "claim", "insert", "startSim", "kickCas"}

MidairSafe(q, d) ==
    frame[q].on = d => frame[q].at \notin Binding /\ (frame[q].at = "release" => frame[q].ground)

MidairInv ==
    \A d \in midair : status[d] \in TERMINAL_STATUSES /\ \A q \in Procs : MidairSafe(q, d)

\* What a handler's step does about it.
MidairFrame(p) ==
    LET f == frame[p]
        g == frame'[p] IN
    \/ g.at \notin Binding \cup {"release"}
    \/ f.at \in Binding /\ g.on = f.on
    \/ g.on \notin midair'
    \/ g.at = "release" /\ g.ground

MidairStep(p) ==
    /\ OthersStay(p)
    /\ \A d \in midair' : d \in midair \/ (status[d] \in FAILABLE_STATUSES /\ status'[d] \in TERMINAL_STATUSES)
    /\ MidairFrame(p)
    /\ \A x \in Drones : active[x] \in midair /\ active'[x] # active[x] => ~airworthy'[x]

\* A settled row stays settled.
LEMMA TerminalStays ==
    ASSUME NEW p, OutcomeStep(p), NEW e \in Deliveries, status[e] \in TERMINAL_STATUSES
    PROVE  status'[e] = status[e]
<1>1. ~Progress(p, e)
  BY DEF Progress, TERMINAL_STATUSES
<1> QED
  BY Zenon, <1>1, RowsProgress

LEMMA MidairStepKeeps ==
    ASSUME ClaimInv, MidairInv, NEW p \in Procs, MidairStep(p), OutcomeStep(p), TypeOK'
    PROVE  MidairInv'
<1> SUFFICES ASSUME NEW d \in midair'
             PROVE  status'[d] \in TERMINAL_STATUSES /\ \A q \in Procs : MidairSafe(q, d)'
  BY Zenon DEF MidairInv
<1>0. d \in Deliveries
  BY Zenon DEF TypeOK
<1>1. status'[d] \in TERMINAL_STATUSES
  BY <1>0, TerminalStays DEF MidairStep, MidairInv
<1>2. ASSUME NEW q \in Procs, d \in midair PROVE MidairSafe(q, d)
  BY <1>2 DEF MidairInv
<1>3. ASSUME NEW q \in Procs, d \notin midair PROVE MidairSafe(q, d)
  <2>1. status[d] \in FAILABLE_STATUSES /\ FrameInv(q)
    BY <1>3 DEF MidairStep, ClaimInv, ClaimDiscipline
  <2>2. /\ status[d] \notin TERMINAL_STATUSES /\ status[d] \notin {"MINTED", "SCHEDULED"}
    BY <2>1 DEF FAILABLE_STATUSES, TERMINAL_STATUSES
  <2> QED
    BY Zenon, <2>1, <2>2 DEF FrameInv, MidairSafe, Binding, CreateOps
<1>4. ASSUME NEW q \in Procs, q # p PROVE MidairSafe(q, d)'
  <2>1. frame'[q] = frame[q]
    BY <1>4 DEF MidairStep, OthersStay
  <2> QED
    BY Zenon, <1>2, <1>3, <2>1 DEF MidairSafe
<1>5. MidairSafe(p, d)'
  BY Zenon, <1>2, <1>3 DEF MidairSafe, MidairStep, MidairFrame, Binding
<1> QED
  BY <1>1, <1>4, <1>5

LEMMA MidairSteady ==
    ASSUME NEW p \in Procs, OthersStay(p), MidairFrame(p), UNCHANGED <<midair, active>>
    PROVE  MidairStep(p)
BY Zenon DEF MidairStep

LEMMA MidairSettles ==
    ASSUME TypeOK, MidairInv, NEW p \in Procs, NEW d \in Deliveries, NEW to \in TERMINAL_STATUSES,
           Settle(d, to), status[d] \notin TERMINAL_STATUSES, UNCHANGED active,
           OthersStay(p), frame'[p].on = d, frame'[p].at = "release",
           status[d] \in FAILABLE_STATUSES /\ to # "DELIVERED" => frame'[p].ground
    PROVE  MidairStep(p)
<1>1. d \notin midair /\ status'[d] = to
  BY Zenon DEF MidairInv, Settle, TypeOK
<1>2. midair' = midair \/ (midair' = midair \cup {d} /\ status[d] \in FAILABLE_STATUSES /\ to # "DELIVERED")
  BY DEF Settle
<1>3. MidairFrame(p)
  BY Zenon, <1>1, <1>2 DEF MidairFrame
<1>4. \A e \in midair' : e \in midair \/ (status[e] \in FAILABLE_STATUSES /\ status'[e] \in TERMINAL_STATUSES)
  BY <1>1, <1>2
<1> QED
  BY Zenon, <1>3, <1>4 DEF MidairStep

LEMMA MidairFails ==
    ASSUME TypeOK, MidairInv, NEW p \in Procs, NEW f \in Frame, f.on \in Deliveries, FailFrom(p, f)
    PROVE  MidairStep(p)
<1> DEFINE ground == IsDroneFaultReason(f.why) \/ status[f.on] \in FAILABLE_STATUSES
           cleanup == IF IsDroneFaultReason(f.why) THEN "refund" ELSE "stop"
<1>1. frame'[p] = [f EXCEPT !.at = "release", !.ground = ground, !.cleanup = cleanup] /\ OthersStay(p)
  BY GotoIs DEF FailFrom
<1>2. frame'[p].on = f.on /\ frame'[p].at = "release" /\ (ground => frame'[p].ground)
  BY <1>1 DEF Frame
<1>3. status[f.on] \notin TERMINAL_STATUSES
  BY DEF FailFrom, AllowedStatuses, TERMINAL_STATUSES, FAILABLE_STATUSES, WATCHDOG_STUCK_STATUSES
<1>4. "DELIVERY_FAILED" \in TERMINAL_STATUSES
  BY DEF TERMINAL_STATUSES
<1>5. Settle(f.on, "DELIVERY_FAILED") /\ UNCHANGED active
  BY DEF FailFrom, fleet
<1> QED
  BY Zenon, <1>1, <1>2, <1>3, <1>4, <1>5, MidairSettles

LEMMA ContinueMidair ==
    ASSUME TypeOK, MidairInv, NEW p \in Procs, Continue(p)
    PROVE  MidairStep(p)
<1> DEFINE d == frame[p].on
<1>t. /\ FAILABLE_STATUSES \cap TERMINAL_STATUSES = {}
      /\ "AWAITING_HANDOFF" \in FAILABLE_STATUSES
      /\ {"CANCELED", "DELIVERED"} \subseteq TERMINAL_STATUSES
      /\ "SCHEDULED" \notin TERMINAL_STATUSES
  BY Zenon DEF FAILABLE_STATUSES, TERMINAL_STATUSES
<1>f. ASSUME Finish(p) PROVE OthersStay(p) /\ MidairFrame(p)
  <2>1. OthersStay(p) /\ frame'[p].at = "idle"
    BY Zenon, <1>f, FinishIs
  <2> QED
    BY <2>1 DEF MidairFrame, Binding
<1>b. ASSUME frame[p].at \in Binding, ReleaseClaimedAircraft(p) PROVE OthersStay(p) /\ MidairFrame(p)
  <2>1. CASE Finish(p)
    BY <1>f, <2>1
  <2>2. CASE ThenRelease(p, FALSE, "none")
    <3>1. ~At(p, "idle")
      BY Zenon, <1>b DEF At, Binding
    <3>2. OthersStay(p) /\ frame'[p].on = d
      BY Zenon, <2>2, <3>1, ThenReleaseIs
    <3> QED
      BY Zenon, <1>b, <3>2 DEF MidairFrame
  <2> QED
    BY Zenon, <1>b, <2>1, <2>2 DEF ReleaseClaimedAircraft
<1>s. ASSUME NEW at, ~At(p, "idle"), Step(p, at), frame[p].at \in Binding \/ at \notin Binding \cup {"release"}
      PROVE  OthersStay(p) /\ MidairFrame(p)
  <2>1. OthersStay(p) /\ frame'[p].at = at /\ frame'[p].on = d
    BY Zenon, <1>s, StepIs
  <2> QED
    BY Zenon, <1>s, <2>1 DEF MidairFrame
<1>d. ASSUME NEW x, frame[p].at \in Binding, Dispatched(p, x) PROVE OthersStay(p) /\ MidairFrame(p)
  <2>1. ~At(p, "idle")
    BY <1>d DEF At, Binding
  <2>2. OthersStay(p) /\ frame'[p].on = d
    BY Zenon, <1>d, <2>1, DispatchedIs
  <2> QED
    BY <1>d, <2>2 DEF MidairFrame
<1>h. ASSUME frame[p].at \in Binding, DispatchThrows(p) PROVE OthersStay(p) /\ MidairFrame(p)
  <2>1. ~At(p, "idle")
    BY <1>h DEF At, Binding
  <2>2. CASE Finish(p)
    BY <1>f, <2>2
  <2>3. CASE GiveUp(p)
    <3>1. OthersStay(p) /\ frame'[p].on = d
      BY Zenon, <2>1, <2>3, GiveUpIs
    <3> QED
      BY <1>h, <3>1 DEF MidairFrame
  <2> QED
    BY <1>h, <2>2, <2>3 DEF DispatchThrows, HandleDispatchRefusal
<1>q. ASSUME OthersStay(p), MidairFrame(p), UNCHANGED <<row, fleet, queued, refunded, midair>>
      PROVE  MidairStep(p)
  BY <1>q, MidairSteady DEF fleet
<1>1. CASE SelectAircraft(p)
  <2>1. frame[p].at \in Binding /\ frame[p] \in Frame
    BY Zenon, <1>1, OnType DEF SelectAircraft, At, Binding
  <2>2. ASSUME NEW feasible, Goto(p, [frame[p] EXCEPT !.at = "claim", !.cand = feasible])
        PROVE  OthersStay(p) /\ MidairFrame(p)
    <3>1. frame'[p] = [frame[p] EXCEPT !.at = "claim", !.cand = feasible] /\ OthersStay(p)
      BY Zenon, <2>2, GotoIs
    <3>2. frame'[p].on = d
      BY <2>1, <3>1 DEF Frame
    <3> QED
      BY <2>1, <3>1, <3>2 DEF MidairFrame
  <2>3. OthersStay(p) /\ MidairFrame(p)
    BY Zenon, <1>1, <1>d, <2>1, <2>2 DEF SelectAircraft
  <2> QED
    BY Zenon, <1>1, <1>q, <2>3 DEF SelectAircraft
<1>2. CASE ClaimAircraft(p)
  <2>1. frame[p].at \in Binding /\ midair' = midair
    BY <1>2 DEF ClaimAircraft, At, Binding
  <2>2. OthersStay(p) /\ MidairFrame(p)
    BY Zenon, <1>2, <1>d, <1>h, <2>1 DEF ClaimAircraft
  <2>3. \A x \in Drones : active'[x] # active[x] => active[x] = None
    BY Zenon, <1>2 DEF ClaimAircraft, Claimable, TypeOK
  <2>4. None \notin midair
    BY FleetAssumption DEF FleetAssumption, TypeOK
  <2> QED
    BY Zenon, <2>1, <2>2, <2>3, <2>4 DEF MidairStep
<1>3. CASE ClaimLost(p)
  <2>1. frame[p].at \in Binding /\ frame[p] \in Frame
    BY <1>3, OnType DEF ClaimLost, At, Binding
  <2>2. PICK x : Goto(p, [frame[p] EXCEPT !.cand = @ \ {x}])
    BY Zenon, <1>3 DEF ClaimLost
  <2>3. frame'[p] = [frame[p] EXCEPT !.cand = @ \ {x}] /\ OthersStay(p)
    BY <2>2, GotoIs
  <2>4. frame'[p].on = d
    BY <2>1, <2>3 DEF Frame
  <2>5. MidairFrame(p)
    BY Zenon, <2>1, <2>4 DEF MidairFrame
  <2> QED
    BY <1>3, <1>q, <2>3, <2>5 DEF ClaimLost
<1>4. CASE ClaimThrows(p)
  <2>1. OthersStay(p) /\ MidairFrame(p)
    BY Zenon, <1>4, <1>h DEF ClaimThrows, At, Binding
  <2> QED
    BY <1>4, <1>q, <2>1 DEF ClaimThrows
<1>5. CASE Release(p)
  <2>1. ~At(p, "idle") /\ midair' = midair /\ d \in Deliveries /\ frame[p].at = "release"
    BY Zenon, <1>5, OnType DEF Release, At
  <2>2. OthersStay(p) /\ MidairFrame(p)
    <3>1. CASE Finish(p)
      BY <1>f, <3>1
    <3>2. CASE Step(p, "cleanup")
      BY Zenon, <1>s, <2>1, <3>2 DEF Binding
    <3> QED
      BY Zenon, <1>5, <3>1, <3>2 DEF Release
  <2>3. ASSUME NEW x \in Drones, active[x] \in midair, active'[x] # active[x]
        PROVE  ~airworthy'[x]
    <3>1. active[x] = d /\ airworthy'[x] = (airworthy[x] /\ ~(active[x] = d /\ frame[p].ground))
      BY Zenon, <1>5, <2>3 DEF Release, fleet
    <3>2. frame[p].ground
      BY <2>1, <2>3, <3>1 DEF MidairInv, MidairSafe
    <3> QED
      BY Zenon, <3>1, <3>2
  <2> QED
    BY Zenon, <2>1, <2>2, <2>3 DEF MidairStep
<1>6. CASE Cleanup(p)
  BY <1>6, <1>f, MidairSteady DEF Cleanup, fleet
<1>7. CASE InsertDelivery(p)
  <2>1. frame[p].at \in Binding /\ ~At(p, "idle") /\ UNCHANGED <<midair, active>>
    BY Zenon, <1>7 DEF InsertDelivery, At, Binding, fleet
  <2>2. Finish(p) \/ Step(p, "enqueue") \/ ReleaseClaimedAircraft(p)
    BY <1>7 DEF InsertDelivery
  <2>3. OthersStay(p) /\ MidairFrame(p)
    BY Zenon, <1>f, <1>b, <1>s, <2>1, <2>2
  <2> QED
    BY Zenon, <2>1, <2>3, MidairSteady
<1>8. CASE InsertThrows(p)
  <2>1. OthersStay(p) /\ MidairFrame(p)
    BY Zenon, <1>8, <1>b DEF InsertThrows, At, Binding
  <2> QED
    BY Zenon, <1>8, <1>q, <2>1 DEF InsertThrows
<1>9. CASE Enqueue(p)
  BY <1>9, <1>f, MidairSteady DEF Enqueue, fleet
<1>10. CASE KickoffStartSimulation(p)
  <2>1. ~At(p, "idle") /\ frame[p].at \in Binding /\ UNCHANGED <<midair, active>>
    BY Zenon, <1>10 DEF KickoffStartSimulation, At, Binding, fleet
  <2>2. Finish(p) \/ Step(p, "kickCas")
    BY Zenon, <1>10 DEF KickoffStartSimulation
  <2>3. OthersStay(p) /\ MidairFrame(p)
    BY <1>f, <1>s, <2>1, <2>2
  <2> QED
    BY Zenon, <2>1, <2>3, MidairSteady
<1>11. CASE KickoffCas(p)
  BY Zenon, <1>11, <1>f, MidairSteady DEF KickoffCas, fleet
<1>12. CASE KickoffLost(p)
  <2>1. OthersStay(p) /\ MidairFrame(p)
    BY Zenon, <1>12, <1>b DEF KickoffLost, At, Binding
  <2> QED
    BY Zenon, <1>12, <1>q, <2>1 DEF KickoffLost
<1>13. CASE KickoffCasThrows(p)
  <2>1. ~At(p, "idle") /\ frame[p].at \in Binding /\ UNCHANGED <<midair, active>>
    BY Zenon, <1>13 DEF KickoffCasThrows, At, Binding, fleet
  <2>2. Finish(p) \/ Step(p, "recheck")
    BY Zenon, <1>13 DEF KickoffCasThrows
  <2>3. OthersStay(p) /\ MidairFrame(p)
    BY Zenon, <1>f, <1>s, <2>1, <2>2
  <2> QED
    BY <2>1, <2>3, MidairSteady
<1>14. CASE KickoffRecheck(p)
  <2>1. CASE Finish(p)
    BY <1>14, <1>f, <1>q, <2>1 DEF KickoffRecheck
  <2>2. CASE status[d] = "SCHEDULED" /\ ThenRelease(p, FALSE, "none")
    <3>1. ~At(p, "idle") /\ midair' = midair
      BY Zenon, <1>14 DEF KickoffRecheck, At
    <3>2. OthersStay(p) /\ frame'[p].on = d
      BY Zenon, <2>2, <3>1, ThenReleaseIs
    <3>3. d \notin midair
      BY <1>t, <2>2 DEF MidairInv
    <3>4. MidairFrame(p)
      BY <3>1, <3>2, <3>3 DEF MidairFrame
    <3> QED
      BY <1>14, <1>q, <3>2, <3>4 DEF KickoffRecheck
  <2> QED
    BY Zenon, <1>14, <2>1, <2>2 DEF KickoffRecheck
<1>15. CASE ForceCancelAirborne(p)
  <2>1. /\ ~At(p, "idle") /\ d \in Deliveries /\ UNCHANGED active /\ frame[p] \in Frame
    BY <1>15, OnType DEF ForceCancelAirborne, At, fleet
  <2>2. CASE status[d] \in FAILABLE_STATUSES /\ Settle(d, "CANCELED") /\ ThenRelease(p, TRUE, "refund")
    <3>1. frame'[p] = [frame[p] EXCEPT !.at = "release", !.ground = TRUE, !.cleanup = "refund"] /\ OthersStay(p)
      BY <2>2, GotoIs DEF ThenRelease
    <3>2. frame'[p].on = d /\ frame'[p].at = "release" /\ frame'[p].ground
      BY <2>1, <3>1 DEF Frame
    <3> QED
      BY Zenon, <1>t, <2>1, <2>2, <3>1, <3>2, MidairSettles
  <2>3. CASE Finish(p) /\ UNCHANGED <<status, midair>>
    BY <1>f, <2>1, <2>3, MidairSteady
  <2> QED
    BY Zenon, <1>15, <2>2, <2>3 DEF ForceCancelAirborne
<1>16. CASE FailExceptional(p)
  <2>1. CASE FailFrom(p, frame[p])
    BY <1>16, <2>1, OnType, MidairFails DEF FailExceptional, At
  <2>2. CASE Finish(p) /\ UNCHANGED <<row, fleet, queued, refunded, midair>>
    BY Zenon, <1>f, <1>q, <2>2
  <2> QED
    BY <1>16, <2>1, <2>2 DEF FailExceptional
<1>17. CASE CountWrongCode(p)
  <2>1. ~At(p, "idle") /\ UNCHANGED <<midair, active>>
    BY Zenon, <1>17 DEF CountWrongCode, At, fleet
  <2>2. PICK at \in {"guessed", "fail"} : Step(p, at)
    BY Zenon, <1>17 DEF CountWrongCode
  <2> QED
    BY Zenon, <1>s, <2>1, <2>2, MidairSteady DEF Binding
<1>18. CASE RereadAttempts(p)
  <2>1. ~At(p, "idle")
    BY Zenon, <1>18 DEF RereadAttempts, At
  <2>2. Finish(p) \/ Step(p, "fail")
    BY Zenon, <1>18 DEF RereadAttempts
  <2>3. OthersStay(p) /\ MidairFrame(p)
    BY <1>f, <1>s, <2>1, <2>2 DEF Binding
  <2> QED
    BY Zenon, <1>18, <1>q, <2>3 DEF RereadAttempts
<1>19. CASE FinishHandoff(p)
  <2>1. /\ ~At(p, "idle") /\ d \in Deliveries /\ UNCHANGED active
    BY Zenon, <1>19, OnType DEF FinishHandoff, At, fleet
  <2>2. CASE status[d] = "AWAITING_HANDOFF" /\ Settle(d, "DELIVERED") /\ ThenRelease(p, FALSE, "none")
    <3>1. OthersStay(p) /\ frame'[p].on = d /\ frame'[p].at = "release"
      BY Zenon, <2>1, <2>2, ThenReleaseIs
    <3> QED
      BY Zenon, <1>t, <2>1, <2>2, <3>1, MidairSettles
  <2>3. CASE Finish(p) /\ UNCHANGED <<status, midair>>
    BY Zenon, <1>f, <2>1, <2>3, MidairSteady
  <2> QED
    BY Zenon, <1>19, <2>2, <2>3 DEF FinishHandoff
<1> QED
  BY ZenonT(30), <1>1, <1>2, <1>3, <1>4, <1>5, <1>6, <1>7, <1>8, <1>9, <1>10, <1>11, <1>12, <1>13,
     <1>14, <1>15, <1>16, <1>17, <1>18, <1>19 DEF Continue

LEMMA ArriveMidair ==
    ASSUME TypeOK, MidairInv, NEW p \in Procs, NEW d \in Deliveries, Arrive(p, d)
    PROVE  MidairStep(p)
<1>t. /\ CANCELABLE_STATUSES \cap (FAILABLE_STATUSES \cup TERMINAL_STATUSES) = {}
      /\ {"CANCELED", "RETURNED_TO_BASE"} \subseteq TERMINAL_STATUSES
      /\ {"SCHEDULED", "FREE", "RETURNING"} \cap TERMINAL_STATUSES = {}
  BY Zenon DEF CANCELABLE_STATUSES, FAILABLE_STATUSES, TERMINAL_STATUSES
<1>q. ASSUME OthersStay(p), UNCHANGED <<midair, active>>,
             frame'[p].at \notin Binding \cup {"release"} \/ (frame'[p].on = d /\ d \notin midair)
      PROVE  MidairStep(p)
  <2>1. MidairFrame(p)
    BY <1>q DEF MidairFrame
  <2> QED
    BY Zenon, <1>q, <2>1, MidairSteady
<1>1. CASE CreateBegin(p, d)
  <2>1. PICK op, at : Begin(p, op, at, d)
    BY <1>1 DEF CreateBegin
  <2>2. frame'[p] = [IdleFrame EXCEPT !.op = op, !.at = at, !.on = d] /\ OthersStay(p)
    BY Zenon, <2>1, GotoIs DEF Begin
  <2>3. frame'[p].on = d
    BY Zenon, <2>2 DEF IdleFrame
  <2>4. d \notin midair /\ UNCHANGED <<midair, active>>
    BY <1>1, <1>t DEF CreateBegin, MidairInv, fleet
  <2> QED
    BY Zenon, <1>q, <2>2, <2>3, <2>4
<1>2. CASE KickoffBegin(p, d)
  <2>1. PICK at :
             Goto(p, [IdleFrame EXCEPT !.op = "kickoff", !.at = at, !.on = d, !.why = "DRONE_FAULT"])
    BY Zenon, <1>2 DEF KickoffBegin
  <2>2. frame'[p] = [IdleFrame EXCEPT !.op = "kickoff", !.at = at, !.on = d, !.why = "DRONE_FAULT"]
        /\ OthersStay(p)
    BY <2>1, GotoIs
  <2>3. frame'[p].on = d
    BY <2>2 DEF IdleFrame
  <2>4. d \notin midair /\ UNCHANGED <<midair, active>>
    BY <1>2, <1>t DEF KickoffBegin, MidairInv, fleet
  <2> QED
    BY <1>q, <2>2, <2>3, <2>4
<1>3. CASE Cancel(p, d)
  <2>1. frame'[p] = [IdleFrame EXCEPT !.op = "cancel", !.at = "release", !.on = d,
                                      !.cleanup = "refund"] /\ OthersStay(p)
    BY Zenon, <1>3, GotoIs DEF Cancel
  <2>2. frame'[p].at = "release" /\ frame'[p].on = d
    BY <2>1 DEF IdleFrame
  <2>3. Settle(d, "CANCELED") /\ UNCHANGED active /\ status[d] \in CANCELABLE_STATUSES
    BY <1>3 DEF Cancel, fleet
  <2> QED
    BY <1>t, <2>1, <2>2, <2>3, MidairSettles
<1>4. CASE ForceCancelGrounded(p, d)
  <2>1. UNCHANGED active
    BY <1>4 DEF ForceCancelGrounded, fleet
  <2>2. CASE status[d] \notin TERMINAL_STATUSES \cup FAILABLE_STATUSES
    <3>1. frame'[p] = [IdleFrame EXCEPT !.op = "forceCancel", !.at = "release", !.on = d,
                                        !.cleanup = "refund"] /\ OthersStay(p)
      BY Zenon, <1>4, <2>2, GotoIs DEF ForceCancelGrounded
    <3>2. frame'[p].at = "release" /\ frame'[p].on = d
      BY <3>1 DEF IdleFrame
    <3>3. Settle(d, "CANCELED")
      BY Zenon, <1>4, <2>2 DEF ForceCancelGrounded
    <3> QED
      BY <1>t, <2>1, <2>2, <3>1, <3>2, <3>3, MidairSettles
  <2>3. CASE ~(status[d] \notin TERMINAL_STATUSES \cup FAILABLE_STATUSES)
    <3>1. Begin(p, "forceCancel", "force", d) /\ UNCHANGED <<status, midair>>
      BY Zenon, <1>4, <2>3 DEF ForceCancelGrounded
    <3>2. frame'[p] = [IdleFrame EXCEPT !.op = "forceCancel", !.at = "force", !.on = d] /\ OthersStay(p)
      BY Zenon, <3>1, GotoIs DEF Begin
    <3>3. frame'[p].at = "force"
      BY <3>2 DEF IdleFrame
    <3> QED
      BY <1>q, <2>1, <3>1, <3>2, <3>3 DEF Binding
  <2> QED
    BY <2>2, <2>3
<1>5. CASE FailNow(p, d)
  <2>1. PICK why \in FailureReason :
               FailFrom(p, [IdleFrame EXCEPT !.op = "fail", !.on = d, !.why = why])
    BY Zenon, <1>5 DEF FailNow
  <2> DEFINE f == [IdleFrame EXCEPT !.op = "fail", !.on = d, !.why = why]
  <2>2. f \in Frame /\ f.on = d
    BY Zenon, IdleFrameType DEF Frame, Ops
  <2> QED
    BY Zenon, <2>1, <2>2, MidairFails
<1>6. CASE BeginReturnToBase(p, d)
  <2>1. PICK why, c :
           Goto(p, [IdleFrame EXCEPT !.op = "return", !.at = "cleanup", !.on = d, !.why = why, !.cleanup = c])
    BY Zenon, <1>6 DEF BeginReturnToBase
  <2>2. frame'[p] = [IdleFrame EXCEPT !.op = "return", !.at = "cleanup", !.on = d, !.why = why,
                         !.cleanup = c] /\ OthersStay(p)
    BY Zenon, <2>1, GotoIs
  <2>3. frame'[p].at = "cleanup"
    BY <2>2 DEF IdleFrame
  <2>4. UNCHANGED <<midair, active>>
    BY <1>6 DEF BeginReturnToBase, fleet
  <2> QED
    BY <1>q, <2>2, <2>3, <2>4 DEF Binding
<1>7. CASE CompleteReturnToBase(p, d)
  <2>1. frame'[p] = [IdleFrame EXCEPT !.op = "return", !.at = "release", !.on = d, !.ground = TRUE]
        /\ OthersStay(p)
    BY <1>7, GotoIs DEF CompleteReturnToBase
  <2>2. frame'[p].at = "release" /\ frame'[p].on = d /\ frame'[p].ground
    BY Zenon, <2>1 DEF IdleFrame
  <2>3. Settle(d, "RETURNED_TO_BASE") /\ UNCHANGED active /\ status[d] = "RETURNING"
    BY <1>7 DEF CompleteReturnToBase, fleet
  <2> QED
    BY <1>t, <2>1, <2>2, <2>3, MidairSettles
<1>8. CASE WatchdogScan(p, d)
  <2>1. PICK why : Goto(p, [IdleFrame EXCEPT !.op = "watchdog", !.at = "fail", !.on = d, !.why = why])
    BY Zenon, <1>8 DEF WatchdogScan
  <2>2. frame'[p] = [IdleFrame EXCEPT !.op = "watchdog", !.at = "fail", !.on = d, !.why = why]
        /\ OthersStay(p)
    BY Zenon, <2>1, GotoIs
  <2>3. frame'[p].at = "fail"
    BY <2>2 DEF IdleFrame
  <2>4. UNCHANGED <<midair, active>>
    BY <1>8 DEF WatchdogScan, fleet
  <2> QED
    BY <1>q, <2>2, <2>3, <2>4 DEF Binding
<1>9. CASE ConfirmHandoff(p, d)
  <2>1. PICK at \in {"fail", "confirm", "guess"} :
             Goto(p, [IdleFrame EXCEPT !.op = "handoff", !.at = at, !.on = d,
                                       !.why = "RECIPIENT_UNAVAILABLE"])
    BY Zenon, <1>9 DEF ConfirmHandoff
  <2>2. frame'[p] = [IdleFrame EXCEPT !.op = "handoff", !.at = at, !.on = d,
                                      !.why = "RECIPIENT_UNAVAILABLE"] /\ OthersStay(p)
    BY <2>1, GotoIs
  <2>3. frame'[p].at = at
    BY <2>2 DEF IdleFrame
  <2>4. UNCHANGED <<midair, active>>
    BY Zenon, <1>9 DEF ConfirmHandoff, fleet
  <2> QED
    BY <1>q, <2>2, <2>3, <2>4 DEF Binding
<1> QED
  BY <1>1, <1>2, <1>3, <1>4, <1>5, <1>6, <1>7, <1>8, <1>9 DEF Arrive, IngestException

LEMMA NextMidair ==
    ASSUME ClaimInv, OutcomeInv, MidairInv, [Next]_vars
    PROVE  /\ MidairInv'
           /\ \A x \in Drones : active[x] \in midair /\ active'[x] # active[x] => ~airworthy'[x]
<1>0. TypeOK /\ TypeOK'
  BY NextType DEF OutcomeInv
<1>1. ASSUME NEW p \in Procs, MidairStep(p), OutcomeStep(p)
      PROVE  /\ MidairInv'
             /\ \A x \in Drones : active[x] \in midair /\ active'[x] # active[x] => ~airworthy'[x]
  BY Zenon, <1>0, <1>1, MidairStepKeeps DEF MidairStep
<1>2. ASSUME OutcomeStep(None), UNCHANGED <<midair, active, frame>>
      PROVE  /\ MidairInv'
             /\ \A x \in Drones : active[x] \in midair /\ active'[x] # active[x] => ~airworthy'[x]
  <2>1. \A d \in midair : status'[d] = status[d]
    BY <1>0, <1>2, TerminalStays DEF MidairInv, TypeOK
  <2> QED
    BY Zenon, <1>2, <2>1 DEF MidairInv, MidairSafe
<1>3. CASE \E p \in Procs : Continue(p)
  BY Zenon, <1>0, <1>1, <1>3, ContinueMidair, ContinueIsGood DEF Good, Tidy
<1>4. CASE \E p \in Procs, d \in Deliveries : Arrive(p, d)
  BY Zenon, <1>0, <1>1, <1>4, ArriveMidair, ArriveIsGood DEF Good, Tidy
<1>5. ASSUME NEW d \in Deliveries, NEW target \in STAGES, Advance(d, target)
      PROVE  OutcomeStep(None) /\ UNCHANGED <<midair, active, frame>>
  BY Zenon, <1>0, <1>5, AdvanceKeeps DEF Advance, fleet
<1>6. CASE \E d \in Deliveries, target \in STAGES : HandleStage(d, target) \/ IngestPhase(d, target)
  BY Zenon, <1>2, <1>5, <1>6 DEF HandleStage, IngestPhase
<1>7. CASE \E x \in Drones : UpdateDrone(x)
  BY <1>2, <1>7 DEF UpdateDrone, row, OutcomeStep
<1>8. CASE \E p \in Procs : Crash(p)
  <2>1. PICK p \in Procs : Crash(p)
    BY Zenon, <1>8
  <2>2. OthersStay(p) /\ frame'[p].at = "idle" /\ UNCHANGED <<midair, active>>
    BY Zenon, <1>0, <2>1, FinishIs DEF Crash, fleet
  <2>3. MidairFrame(p)
    BY Zenon, <2>2 DEF MidairFrame, Binding
  <2> QED
    BY Zenon, <1>1, <2>1, <2>2, <2>3, MidairSteady, CrashIsGood DEF Good, Tidy
<1>9. CASE UNCHANGED vars
  BY <1>2, <1>9 DEF vars, OutcomeStep
<1> QED
  BY <1>3, <1>4, <1>6, <1>7, <1>8, <1>9 DEF Next

\* An aircraft whose mission ended in the air leaves its claim grounded, so nobody can
\* dispatch it before a person has looked, whichever of the racing terminal paths won, and
\* through crashes and rejecting writes.  The exclusions are those of ClaimIsHeld: a kickoff
\* run twice, or a create that rejects after its commit, releases an aircraft that flies.
THEOREM MidairIsGrounded ==
    ASSUME "insert" \notin Faults, "redeliver" \notin Faults
    PROVE  Spec => GroundedAfterMidair
<1>1. Init => ClaimInv /\ OutcomeInv /\ MidairInv
  <2>1. Init => MidairInv
    BY Zenon DEF Init, MidairInv
  <2> QED
    BY Zenon, <2>1, InitClaims, InitOutcomes
<1>2. ClaimInv /\ OutcomeInv /\ MidairInv /\ [Next]_vars =>
        /\ (ClaimInv /\ OutcomeInv /\ MidairInv)'
        /\ \A x \in Drones : active[x] \in midair /\ active'[x] # active[x] => ~airworthy'[x]
  <2> SUFFICES ASSUME ClaimInv, OutcomeInv, MidairInv, [Next]_vars
               PROVE  /\ (ClaimInv /\ OutcomeInv /\ MidairInv)'
                      /\ \A x \in Drones : active[x] \in midair /\ active'[x] # active[x] => ~airworthy'[x]
    OBVIOUS
  <2>1. ClaimInv'
    BY NextKeepsClaims
  <2>2. OutcomeInv'
    BY NextKeepsOutcomes
  <2> QED
    BY Zenon, <2>1, <2>2, NextMidair
<1> QED
  BY <1>1, <1>2, PTL DEF Spec, GroundedAfterMidair

=============================================================================
