----------------------------- MODULE Schedules ------------------------------
(***************************************************************************)
(* The two clocks of the worker: DailyDigestWorkflow, that sends the       *)
(* digest of the local day at a local hour for ever, and                   *)
(* ProviderCanaryWorkflow, that probes the providers and sleeps.  An hour  *)
(* is the unit; the local clock changes once, as a daylight saving time    *)
(* does, by one hour.  An activity that fails all its attempts fails the   *)
(* workflow, that nothing but the command line starts again.               *)
(***************************************************************************)
EXTENDS Integers, Sequences, FiniteSets

CONSTANTS
    Jobs,          \* the jobs that succeed
    DayHours,      \* hours of a day
    TargetHour,    \* local_hour, below DayHours
    Offsets,       \* the zones: pairs of UTC offsets, before and after the change
    ChangeAt,      \* the hour of the change, UTC
    Horizon,       \* bound: the last hour
    Starts         \* bound: workflows started

Shifts == (1 - DayHours)..(DayHours - 1)

\* local_hour is clamped to the day; an offset is less than a day, and the change is of
\* an hour at most.
ASSUME ScheduleAssumption ==
    /\ DayHours \in Nat \ {0} /\ TargetHour \in 0..(DayHours - 1)
    /\ ChangeAt \in Nat /\ Horizon \in Nat /\ Starts \in Nat
    /\ \A z \in Offsets : z \in Shifts \X Shifts /\ z[2] - z[1] \in -1..1

VARIABLES
    hour,     \* the clock, UTC
    zone,     \* the local zone
    loop,     \* the digest workflow
    digests,  \* by local day: the daily digest row
    doneAt,   \* by job: when it succeeded
    late,     \* a timer fired late: the worker was away
    starts,
    canary,   \* the canary workflow
    checks    \* the last round of provider_health_checks

scheduleVars == <<hour, zone, loop, digests, doneAt, late, starts>>
canaryVars == <<canary, checks>>

Never == -1
Days == 0..((Horizon + DayHours) \div DayHours)
NoDigest == [at |-> Never, jobs |-> {}]
CheckKinds == <<"rsshub", "youtube_data_api", "gemini", "resend">>
NoLoop == [pc |-> "none", once |-> FALSE, date |-> 0, wake |-> 0, after |-> 0, left |-> 2,
           since |-> 0]
NoCanary == [pc |-> "none", found |-> <<>>]

ScheduleInit ==
    /\ hour = DayHours /\ zone = [before |-> 0, after |-> 0]
    /\ loop = NoLoop /\ digests = [d \in Days |-> NoDigest]
    /\ doneAt = [j \in Jobs |-> Never]
    /\ late = FALSE /\ starts = 0

-----------------------------------------------------------------------------
(***************************************************************************)
(* The local clock.  A wall time is turned into UTC by the offset in force *)
(* before the change when it is one of that time.                          *)
(***************************************************************************)
Wall(t) == t + (IF t >= ChangeAt THEN zone.after ELSE zone.before)
UtcOf(wall) == IF wall - zone.before < ChangeAt \/ wall - zone.after < ChangeAt
                 THEN wall - zone.before ELSE wall - zone.after
DayOf(wall) == wall \div DayHours

\* [00:00, 00:00 of the next day), as wall times turned into UTC.
Window(day) == UtcOf(day * DayHours)..(UtcOf((day + 1) * DayHours) - 1)

(***************************************************************************)
(* resolve_daily_digest_timing: the day and the waits.  The wait before is *)
(* the difference of two wall times; the wait after counts from the hour   *)
(* the digest is due, in UTC.                                              *)
(***************************************************************************)
\* Mutant: the day is that of the next due hour, past it the next day's.
resolve_timing_Next(once) ==
    LET now == Wall(hour)
        scheduled == DayOf(now) * DayHours + TargetHour
        run == IF now > scheduled /\ ~once THEN scheduled + DayHours ELSE scheduled
        next == UtcOf((DayOf(run) + 1) * DayHours + TargetHour)
    IN  [date |-> DayOf(run), wait |-> IF run > now THEN run - now ELSE 0,
         after |-> next - UtcOf(run)]

resolve_timing(once) ==
    LET now == Wall(hour)
        scheduled == DayOf(now) * DayHours + TargetHour
        early == now < scheduled /\ ~once
        run == IF early THEN scheduled ELSE now
        next == UtcOf((DayOf(run) + 1) * DayHours + TargetHour)
        after == next - (IF early THEN UtcOf(run) ELSE hour)
    IN  [date |-> DayOf(run), wait |-> IF early THEN scheduled - now ELSE 0,
         after |-> IF after < 1 THEN 1 ELSE after]

-----------------------------------------------------------------------------
(***************************************************************************)
(* DailyDigestWorkflow.  A loop has a fixed id, so one is running at most; *)
(* a run_once has its own, and is modelled while no loop runs.             *)
(***************************************************************************)
StartDigests(once, offsets) ==
    /\ loop.pc \in {"none", "failed", "done"} /\ starts < Starts
    /\ starts' = starts + 1
    /\ zone' = IF starts = 0 THEN offsets ELSE zone
    /\ loop' = [NoLoop EXCEPT !.pc = "timing", !.once = once, !.since = hour]
    /\ UNCHANGED <<hour, digests, doneAt, late>>

ResolveTiming ==
    /\ loop.pc = "timing"
    /\ LET timing == resolve_timing(loop.once)
       IN  loop' = [loop EXCEPT !.pc = IF timing.wait > 0 THEN "before" ELSE "send", !.left = 2,
                                !.date = timing.date, !.wake = hour + timing.wait,
                                !.after = timing.after]
    /\ UNCHANGED <<hour, zone, digests, doneAt, late, starts>>

Wake ==
    /\ loop.pc \in {"before", "after"} /\ hour >= loop.wake
    /\ loop' = [loop EXCEPT !.pc = IF @ = "before" THEN "send" ELSE "timing", !.left = 2]
    /\ UNCHANGED <<hour, zone, digests, doneAt, late, starts>>

Sent == [loop EXCEPT !.pc = IF loop.once THEN "done" ELSE "after", !.wake = hour + loop.after]

\* An attempt is lost; the second loss ends the workflow.
Lost == [loop EXCEPT !.left = @ - 1, !.pc = IF loop.left = 1 THEN "failed" ELSE @]

TimingLost ==
    /\ loop.pc = "timing"
    /\ loop' = Lost
    /\ UNCHANGED <<hour, zone, digests, doneAt, late, starts>>

(***************************************************************************)
(* send_daily_digest: the row of the day, once, with the jobs of its       *)
(* window that have succeeded by now.  The activity may fail before the    *)
(* row is there or after it, and then a later attempt finds it.            *)
(***************************************************************************)
JobsOf(day) == {j \in Jobs : doneAt[j] # Never /\ doneAt[j] \in Window(day)}

DigestOf(day) ==
    IF digests[day] # NoDigest THEN digests[day] ELSE [at |-> hour, jobs |-> JobsOf(day)]

SendDigest ==
    /\ loop.pc = "send"
    /\ digests' = [digests EXCEPT ![loop.date] = DigestOf(loop.date)]
    /\ loop' \in {Sent, Lost}
    /\ UNCHANGED <<hour, zone, doneAt, late, starts>>

SendLost ==
    /\ loop.pc = "send"
    /\ loop' = Lost
    /\ UNCHANGED <<hour, zone, digests, doneAt, late, starts>>

Succeed(j) ==
    /\ doneAt[j] = Never
    /\ doneAt' = [doneAt EXCEPT ![j] = hour]
    /\ UNCHANGED <<hour, zone, loop, digests, late, starts>>

-----------------------------------------------------------------------------
(***************************************************************************)
(* ProviderCanaryWorkflow: one attempt per round.  A provider that is not  *)
(* configured warns; an HTTP error fails, or warns when it is a rate       *)
(* limit; a lost connection fails.  A time out while the answer is read is *)
(* none of the errors the probe catches: it fails the round, no row of     *)
(* which is written, and with it the workflow.                             *)
(***************************************************************************)
CanaryInit == canary = NoCanary /\ checks = <<>>

\* Started by hand, or awake after interval_hours.
StartCanary ==
    /\ canary.pc # "probe"
    /\ canary' = [NoCanary EXCEPT !.pc = "probe"]
    /\ UNCHANGED checks

http_probe == {"ok", "warn", "fail"}

Probed(kind) == IF kind = "rsshub" THEN http_probe ELSE http_probe \cup {"unconfigured"}

ProbeNext ==
    /\ canary.pc = "probe" /\ Len(canary.found) < Len(CheckKinds)
    /\ \E s \in Probed(CheckKinds[Len(canary.found) + 1]) :
          canary' = [canary EXCEPT !.found = Append(@, IF s = "unconfigured" THEN "warn" ELSE s)]
    /\ UNCHANGED checks

ProbeTimesOut ==
    /\ canary.pc = "probe" /\ Len(canary.found) < Len(CheckKinds)
    /\ canary' = [NoCanary EXCEPT !.pc = "failed"]
    /\ UNCHANGED checks

RecordChecks ==
    /\ canary.pc = "probe" /\ Len(canary.found) = Len(CheckKinds)
    /\ checks' = canary.found
    /\ canary' = [NoCanary EXCEPT !.pc = "sleep"]

CanaryNext == StartCanary \/ ProbeNext \/ ProbeTimesOut \/ RecordChecks

-----------------------------------------------------------------------------
(***************************************************************************)
(* The clock.  Time passes over work that is due only when the worker is   *)
(* away.                                                                   *)
(***************************************************************************)
Due == \/ loop.pc \in {"timing", "send"}
       \/ loop.pc \in {"before", "after"} /\ hour >= loop.wake

Tick ==
    /\ hour < Horizon
    /\ hour' = hour + 1
    /\ late' = (late \/ Due)
    /\ UNCHANGED <<zone, loop, digests, doneAt, starts>>

ScheduleNext ==
    \/ \E once \in BOOLEAN, z \in Offsets : StartDigests(once, [before |-> z[1], after |-> z[2]])
    \/ ResolveTiming \/ TimingLost \/ Wake
    \/ SendDigest \/ SendLost
    \/ \E j \in Jobs : Succeed(j)
    \/ Tick

ScheduleSpec == ScheduleInit /\ CanaryInit /\ [][ScheduleNext /\ UNCHANGED canaryVars]_<<scheduleVars, canaryVars>>

-----------------------------------------------------------------------------
(***************************************************************************)
(* While the digest loop runs and its timers fire when they are due, every *)
(* local day since it started has its digest within an hour of the due     *)
(* hour, sent on that day and holding every job that succeeded on it       *)
(* before, and no other.  The clock's change, by an hour either way,       *)
(* neither skips a day nor moves a digest to another one, unless the due   *)
(* hour is the last of the day: the wait is a difference of wall times.    *)
(***************************************************************************)
DigestEveryDay ==
    /\ (loop.pc \in {"timing", "before", "send", "after"} /\ ~loop.once /\ ~late) =>
          \A d \in DayOf(Wall(loop.since))..DayOf(Wall(hour)) :
             Wall(hour) > d * DayHours + TargetHour + 1 /\ hour > loop.since
                => digests[d] # NoDigest
    /\ ~late => \A d \in Days : digests[d] # NoDigest =>
          /\ digests[d].at \in Window(d)
          /\ digests[d].jobs \subseteq JobsOf(d)
          /\ {j \in JobsOf(d) : doneAt[j] < digests[d].at} \subseteq digests[d].jobs

=============================================================================
