------------------------------ MODULE Schedule ------------------------------
(***************************************************************************)
(* Schedule evaluation (internal/scheduler/schedule.go) as operators over   *)
(* times in milliseconds.  A Go (time.Time, error) result is an integer    *)
(* time, ZeroTime for the zero Time or Err.  A cron expression is the      *)
(* period it fires at, aligned to its time zone's midnight; a time zone is *)
(* a fixed offset; parsing that fails yields Invalid.  rand.Int63n is      *)
(* the set of values it may return.                                        *)
(***************************************************************************)
EXTENDS Integers

CONSTANTS
  Invalid, ZeroTime, Err, Never,  \* model values: parse failure, results, no LastRunTime
  CronPeriod,  \* cron expression -> period in ms, or Invalid
  IntervalOf,  \* interval string -> time.ParseDuration in ms, or Invalid
  TZOffset,    \* IANA name -> UTC offset in ms, or Invalid
  Schedules    \* agents: [paused, cron, interval, tz, last: a time or Never]

Second == 1000
Minute == 60 * Second

\* loadTimezone: "" and "UTC" are UTC, anything else time.LoadLocation
LoadTimezone(tz) == IF tz \in {"", "UTC"} THEN 0 ELSE TZOffset[tz]

\* nextCronRun: the parser rejects the expression, or Next(now) is the
\* first fire time strictly after now in the zone
NextCronRun(expr, now, off) ==
  IF CronPeriod[expr] = Invalid THEN Err
  ELSE LET p == CronPeriod[expr] IN ((now + off) \div p + 1) * p - off

\* nextRunAfter: the next fire time after a reference time
NextRunAfter(ag, after) ==
  LET off == LoadTimezone(ag.tz) IN
  CASE off = Invalid -> Err
    [] ag.cron # "" -> NextCronRun(ag.cron, after, off)
    [] ag.interval # "" ->
         IF IntervalOf[ag.interval] = Invalid THEN Err
         ELSE after + IntervalOf[ag.interval]
    [] OTHER -> ZeroTime

\* nextIntervalRun: due now if never run, else LastRunTime + interval
NextIntervalRun(interval, ag, now) ==
  CASE IntervalOf[interval] = Invalid -> Err
    [] ag.last = Never -> now
    [] OTHER -> ag.last + IntervalOf[interval]

\* NextRun: paused and trigger-only agents have the zero time; cron takes
\* priority over interval
NextRun(ag, now) ==
  LET off == LoadTimezone(ag.tz) IN
  CASE ag.paused -> ZeroTime
    [] off = Invalid -> Err
    [] ag.cron # "" -> NextCronRun(ag.cron, now, off)
    [] ag.interval # "" -> NextIntervalRun(ag.interval, ag, now)
    [] OTHER -> ZeroTime

IsDueAfterGE(ag, now) == \* mutant: now.After replaced by !now.Before
  CASE ag.paused -> FALSE
    [] ag.cron = "" /\ ag.interval = "" -> FALSE
    [] ag.last = Never -> TRUE
    [] NextRunAfter(ag, ag.last) \in {Err, ZeroTime} -> FALSE
    [] OTHER -> now >= NextRunAfter(ag, ag.last)

\* IsDue: not paused, has a schedule, and never run or past the next fire
\* time after the last run (an error reads as not due)
IsDue(ag, now) ==
  CASE ag.paused -> FALSE
    [] ag.cron = "" /\ ag.interval = "" -> FALSE
    [] ag.last = Never -> TRUE
    [] NextRunAfter(ag, ag.last) \in {Err, ZeroTime} -> FALSE
    [] OTHER -> now > NextRunAfter(ag, ag.last)

ApplyJitterNoCap(scheduled, interval, pct) == \* mutant: the 30s cap dropped
  LET p == IF pct <= 0 THEN 10 ELSE pct
      maxJitter == (interval * p) \div 100
  IN IF maxJitter < 100 THEN {scheduled}
     ELSE {scheduled + r - maxJitter \div 2 : r \in 0..(maxJitter - 1)}

\* ApplyJitter: every time it may return; the percentage defaults to 10,
\* the spread is capped at 30s and below 100ms nothing is added
ApplyJitter(scheduled, interval, pct) ==
  LET p == IF pct <= 0 THEN 10 ELSE pct
      raw == (interval * p) \div 100
      maxJitter == IF raw > 30 * Second THEN 30 * Second ELSE raw
  IN IF maxJitter < 100 THEN {scheduled}
     ELSE {scheduled + r - maxJitter \div 2 : r \in 0..(maxJitter - 1)}

\* ComputeInterval: a parsable interval, else the gap between the next two
\* cron fire times after now, else five minutes
ComputeInterval(ag, now) ==
  LET n1 == NextCronRun(ag.cron, now, 0) IN
  CASE ag.interval # "" /\ IntervalOf[ag.interval] # Invalid -> IntervalOf[ag.interval]
    [] ag.cron # "" /\ n1 # Err -> NextCronRun(ag.cron, n1, 0) - n1
    [] OTHER -> 5 * Minute
----------------------------------------------------------------------------
(* The spec's definitions (spec 4.1), for comparison                        *)

\* a schedule that validates: a known zone, and a selected cron expression
\* or interval that parses
ValidSchedule(ag) ==
  /\ LoadTimezone(ag.tz) # Invalid
  /\ ag.cron # "" => CronPeriod[ag.cron] # Invalid
  /\ ag.cron = "" /\ ag.interval # "" => IntervalOf[ag.interval] # Invalid

\* next_cron_fire_after(t): the least fire time of the zone after t
SpecCronFire(p, off, t) ==
  LET F == {k * p - off : k \in ((t + off) \div p - 1)..((t + off) \div p + 2)}
  IN CHOOSE f \in F : f > t /\ \A g \in F : g > t => f <= g

\* the next fire time after a reference time, per the selected schedule
SpecAfter(ag, t) ==
  IF ag.cron # "" THEN SpecCronFire(CronPeriod[ag.cron], LoadTimezone(ag.tz), t)
  ELSE t + IntervalOf[ag.interval]

SpecNextRun(ag, now) ==
  CASE ag.paused \/ (ag.cron = "" /\ ag.interval = "") -> ZeroTime
    [] ag.cron = "" /\ ag.last = Never -> now
    [] ag.cron = "" -> SpecAfter(ag, ag.last)
    [] OTHER -> SpecAfter(ag, now)

SpecDue(ag, now) ==
  /\ ~ag.paused /\ (ag.cron # "" \/ ag.interval # "")
  /\ ag.last = Never \/ now > SpecAfter(ag, ag.last)

\* the interval jitter is taken from: the schedule's interval or period
SpecInterval(ag) ==
  CASE ag.interval # "" /\ IntervalOf[ag.interval] # Invalid -> IntervalOf[ag.interval]
    [] ag.cron # "" /\ CronPeriod[ag.cron] # Invalid -> CronPeriod[ag.cron]
    [] OTHER -> 5 * Minute

\* probe times around the boundary of the next fire after the last run
Probes(ag) ==
  IF ag.last = Never \/ (ag.cron = "" /\ ag.interval = "") THEN {0}
  ELSE {ag.last} \cup {SpecAfter(ag, ag.last) + e : e \in {-1, 0, 1}}

----------------------------------------------------------------------------
\* Spec 4.1 schedule evaluation: for every schedule that validates, at
\* every probe time, NextRun is the spec's next-run time (cron in the
\* agent's zone taking priority, last run plus interval, due now if never
\* run, the sentinel when paused or trigger-only) and IsDue holds exactly
\* when the agent is not paused, has a schedule, and never ran or now is
\* strictly after the next fire time following its last run.
EvaluatorMatchesSpec ==
  \A ag \in Schedules : ValidSchedule(ag) =>
    \A now \in Probes(ag) :
      /\ NextRun(ag, now) = SpecNextRun(ag, now)
      /\ IsDue(ag, now) = SpecDue(ag, now)

\* Spec 4.1 jitter: with the default percentage, the dispatch time is
\* moved by at most j/2 either way, j = min(30s, interval / 10), and not at
\* all when j is below 100ms, for the interval ComputeInterval derives.
JitterWithinSpec ==
  \A ag \in Schedules :
    LET i == SpecInterval(ag)
        j == IF i \div 10 > 30 * Second THEN 30 * Second ELSE i \div 10
        t == 10 * Minute
    IN /\ ComputeInterval(ag, t) = i
       /\ IF j < 100 THEN ApplyJitter(t, i, 0) = {t}
          ELSE ApplyJitter(t, i, 0) \subseteq (t - j \div 2)..(t + j \div 2)
=============================================================================
