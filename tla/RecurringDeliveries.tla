------------------------- MODULE RecurringDeliveries -------------------------
(***************************************************************************)
(* One recurring schedule: its rule, its cursor, the owner who pauses,     *)
(* resumes and deletes it, and the scans that turn due occurrences into    *)
(* deliveries, two of which may overlap.                                   *)
(*                                                                         *)
(* Time is counted in units of a day divided by DAY.  The service time     *)
(* zone is ahead of UTC by a fixed OFFSET, so an instant t falls on local  *)
(* day (t + OFFSET) \div DAY.                                              *)
(***************************************************************************)
EXTENDS Integers, FiniteSetsExt

CONSTANTS
    DAY,             \* units in a day
    OFFSET,          \* the service time zone is ahead of UTC by this much
    MAX_DAY_PROBE,   \* days computeNextOccurrence looks ahead
    LOOKAHEAD,       \* how far ahead of now an occurrence is materialized
    MISSED_GRACE,    \* how late it may still be materialized
    Rules,           \* [days, time, start, end] of the schedules that may be created
    Scans,           \* scans that may run at once
    MaxResumes,      \* resumes in one behaviour
    ClockStart, ClockEnd

NoRun == -1          \* SQL NULL
ALL_DAYS == 0..6

ASSUME RecurringAssumption ==
    /\ DAY \in Nat \ {0} /\ OFFSET \in 0..(DAY - 1)
    /\ MAX_DAY_PROBE \in Nat /\ LOOKAHEAD \in Nat /\ MISSED_GRACE \in Nat
    /\ ClockStart \in Nat /\ ClockEnd \in Nat /\ MaxResumes \in Nat /\ IsFiniteSet(Scans)
    /\ \A r \in Rules : /\ r.days \subseteq ALL_DAYS /\ r.time \in 0..(DAY - 1)
                        /\ r.start \in Nat /\ r.end \in Nat \cup {NoRun}

VARIABLES
    clock,      \* now
    schedule,   \* the RecurringDelivery row
    resuming,   \* the nextRunAt a resume() has computed and not written yet
    scan,       \* the scans in progress
    made,       \* deliveries created, by the instant they are scheduled for
    resumes,    \* resumes so far
    rewinds     \* ghost: those that set the cursor back

recurringVars == <<clock, schedule, resuming, scan, made, resumes, rewinds>>

----------------------------------------------------------------------------
(* recurrence.ts and delivery-schedule.ts.                                 *)

\* tzCalendarDate, as a day number.
LocalDay(t) == (t + OFFSET) \div DAY

\* zonedWallClockToUtc of a local day and a time of day.
WallClockToUtc(day, time) == day * DAY + time - OFFSET

Weekday(day) == day % 7

DayStartUtc(t) == WallClockToUtc(LocalDay(t), 0)
NextDayStartUtc(t) == WallClockToUtc(LocalDay(t) + 1, 0)

\* toCreateDto's pickupDate and pickupTime, read back by computeScheduledFor.
ScheduledFor(r, occurrence) == WallClockToUtc(LocalDay(occurrence), r.time)

\* The probe loop: the first day whose candidate is after floor decides.
ComputeNextOccurrence_Inclusive(r, after) ==
    LET floor == Max({after, DayStartUtc(r.start) - 1})
        base == LocalDay(floor)
        hits == {k \in 0..(MAX_DAY_PROBE - 1) :
                    /\ Weekday(base + k) \in r.days
                    /\ WallClockToUtc(base + k, r.time) >= floor}
    IN IF hits = {} THEN NoRun ELSE WallClockToUtc(base + Min(hits), r.time)

ComputeNextOccurrence(r, after) ==
    LET floor == Max({after, DayStartUtc(r.start) - 1})
        base == LocalDay(floor)
        hits == {k \in 0..(MAX_DAY_PROBE - 1) :
                    /\ Weekday(base + k) \in r.days
                    /\ WallClockToUtc(base + k, r.time) > floor}
        candidate == WallClockToUtc(base + Min(hits), r.time)
    IN IF \/ hits = {}
          \/ r.end # NoRun /\ candidate >= NextDayStartUtc(r.end)
       THEN NoRun ELSE candidate

\* The reference: t is an occurrence of the rule.
Occurs(r, t) ==
    /\ (t + OFFSET) % DAY = r.time
    /\ Weekday(LocalDay(t)) \in r.days
    /\ LocalDay(t) >= LocalDay(r.start)
    /\ r.end # NoRun => LocalDay(t) <= LocalDay(r.end)

----------------------------------------------------------------------------
(* RecurringDeliveriesService.                                             *)

NoRule == [days |-> {}, time |-> 0, start |-> 0, end |-> NoRun]
NoSchedule == [row |-> "none", active |-> FALSE, nextRunAt |-> NoRun, rule |-> NoRule]
IdleScan == [at |-> "idle", cursor |-> NoRun, now |-> 0]

RecurringInit ==
    /\ clock = ClockStart
    /\ schedule = NoSchedule
    /\ resuming = NoRun
    /\ scan = [s \in Scans |-> IdleScan]
    /\ made = [t \in {} |-> 0]
    /\ resumes = 0 /\ rewinds = 0

\* One more delivery scheduled for instant t.
Made(t) == made' = [u \in DOMAIN made \cup {t} |->
                      IF u \notin DOMAIN made THEN 1 ELSE IF u = t THEN made[u] + 1 ELSE made[u]]

\* create: an end before the start, no weekday, or nothing left to run is refused.
CreateSchedule(r) ==
    /\ schedule.row = "none"
    /\ r.end = NoRun \/ r.end >= r.start
    /\ r.days # {}
    /\ ComputeNextOccurrence(r, clock) # NoRun
    /\ schedule' = [row |-> "kept", active |-> TRUE, rule |-> r,
                    nextRunAt |-> ComputeNextOccurrence(r, clock)]
    /\ UNCHANGED <<clock, resuming, scan, made, resumes, rewinds>>

Pause ==
    /\ schedule.row = "kept" /\ schedule.active
    /\ schedule' = [schedule EXCEPT !.active = FALSE]
    /\ UNCHANGED <<clock, resuming, scan, made, resumes, rewinds>>

\* resume reads the row and computes the cursor from now, paused or not.
ResumeRead ==
    /\ schedule.row = "kept" /\ resuming = NoRun /\ resumes < MaxResumes
    /\ resumes' = resumes + 1
    /\ resuming' = ComputeNextOccurrence(schedule.rule, clock)
    /\ resuming' # NoRun
    /\ UNCHANGED <<clock, schedule, scan, made, rewinds>>

\* The write, whatever the cursor is by now.
ResumeWrite ==
    /\ resuming # NoRun
    /\ resuming' = NoRun
    /\ IF schedule.row = "kept"
       THEN /\ schedule' = [schedule EXCEPT !.active = TRUE, !.nextRunAt = resuming]
            /\ rewinds' = IF schedule.nextRunAt = NoRun \/ resuming < schedule.nextRunAt
                          THEN rewinds + 1 ELSE rewinds
       ELSE UNCHANGED <<schedule, rewinds>>
    /\ UNCHANGED <<clock, scan, made, resumes>>

RemoveSchedule ==
    /\ schedule.row = "kept"
    /\ schedule' = [schedule EXCEPT !.row = "removed"]
    /\ UNCHANGED <<clock, resuming, scan, made, resumes, rewinds>>

----------------------------------------------------------------------------
(* RecurringMaterializer.                                                  *)

\* scanAndMaterialize's read: active, and due within the horizon.
ScanRead(s) ==
    /\ scan[s].at = "idle"
    /\ schedule.row = "kept" /\ schedule.active
    /\ schedule.nextRunAt # NoRun /\ schedule.nextRunAt <= clock + LOOKAHEAD
    /\ scan' = [scan EXCEPT ![s] = [at |-> "claim", cursor |-> schedule.nextRunAt, now |-> clock]]
    /\ UNCHANGED <<clock, schedule, resuming, made, resumes, rewinds>>

Missed(s) == scan[s].cursor < scan[s].now - MISSED_GRACE

\* Where the loop goes with its cursor at c: on, or out of the horizon.
LoopAt(s, c) == IF c = NoRun \/ c > scan[s].now + LOOKAHEAD THEN IdleScan
                ELSE [scan[s] EXCEPT !.at = "claim", !.cursor = c]

\* A missed occurrence jumps to the next future one.
AdvanceTo(s) == ComputeNextOccurrence(schedule.rule,
                                      IF Missed(s) THEN scan[s].now ELSE scan[s].cursor)

\* The claim, and then the delivery unless the occurrence was missed.
Claimed(s) ==
    scan' = [scan EXCEPT ![s] = IF Missed(s) THEN LoopAt(s, AdvanceTo(s))
                                ELSE [scan[s] EXCEPT !.at = "create"]]

ScanClaim_Unconditional(s) ==
    /\ scan[s].at = "claim"
    /\ schedule' = [schedule EXCEPT !.nextRunAt = AdvanceTo(s)]
    /\ Claimed(s)
    /\ UNCHANGED <<clock, resuming, made, resumes, rewinds>>

\* The compare-and-set on the cursor; the scan that does not match stops.
ScanClaim(s) ==
    /\ scan[s].at = "claim"
    /\ IF schedule.row = "kept" /\ schedule.active /\ schedule.nextRunAt = scan[s].cursor
       THEN schedule' = [schedule EXCEPT !.nextRunAt = AdvanceTo(s)] /\ Claimed(s)
       ELSE scan' = [scan EXCEPT ![s] = IdleScan] /\ UNCHANGED schedule
    /\ UNCHANGED <<clock, resuming, made, resumes, rewinds>>

\* createInstance: the delivery, or a refusal that is logged; the loop goes on from the
\* occurrence that was written at the claim.
ScanCreate(s) ==
    /\ scan[s].at = "create"
    /\ \/ Made(ScheduledFor(schedule.rule, scan[s].cursor))
       \/ UNCHANGED made
    /\ scan' = [scan EXCEPT ![s] =
                  LoopAt(s, ComputeNextOccurrence(schedule.rule, scan[s].cursor))]
    /\ UNCHANGED <<clock, schedule, resuming, resumes, rewinds>>

\* The worker dies.
ScanDies(s) ==
    /\ scan[s].at # "idle"
    /\ scan' = [scan EXCEPT ![s] = IdleScan]
    /\ UNCHANGED <<clock, schedule, resuming, made, resumes, rewinds>>

ClockTicks ==
    /\ clock < ClockEnd
    /\ clock' = clock + 1
    /\ UNCHANGED <<schedule, resuming, scan, made, resumes, rewinds>>

----------------------------------------------------------------------------

RecurringNext ==
    \/ \E r \in Rules : CreateSchedule(r)
    \/ Pause \/ ResumeRead \/ ResumeWrite \/ RemoveSchedule
    \/ \E s \in Scans : ScanRead(s) \/ ScanClaim(s) \/ ScanCreate(s) \/ ScanDies(s)
    \/ ClockTicks

RecurringSpec == RecurringInit /\ [][RecurringNext]_recurringVars

----------------------------------------------------------------------------
(* Properties.                                                             *)

\* computeNextOccurrence finds the first occurrence strictly after an instant, through the
\* time zone, the weekday filter and the inclusive end date, and null when there is none.
NextOccurrenceIsFirst ==
    schedule.row = "kept" =>
        LET r == schedule.rule
            later == {t \in (clock + 1)..(clock + 8 * DAY) : Occurs(r, t)}
        IN IF later = {} THEN ComputeNextOccurrence(r, clock) \notin (clock + 1)..(clock + 8 * DAY)
           ELSE ComputeNextOccurrence(r, clock) = Min(later)

\* Overlapping scans, a worker that dies and one that comes late create each occurrence once,
\* plus once for each resume that put the cursor back, and what they create is an occurrence of
\* the rule (materializeSchedule's claim on nextRunAt, toCreateDto's round trip).
MaterializedOncePerResume ==
    \A t \in DOMAIN made : Occurs(schedule.rule, t) /\ made[t] <= 1 + rewinds
=============================================================================
