---------------------------- MODULE MC_Scheduler ----------------------------
(* Small instance of Scheduler: two agents, one of them on a schedule, two  *)
(* webhook sources (one mapping both agents, one with none until an agent  *)
(* registers; one registration change, which may also add a duplicate to  *)
(* the first), and three run names so that a second and third admission   *)
(* of the same agent can overlap a run still in cleanup.                   *)
EXTENDS Scheduler, TLC

CONSTANTS a1, a2, r1, r2, r3, s1, s2, Invalid, ZeroTime, Err, Never

MCAgents == {a1, a2}
MCSources == {s1, s2}
MCRunIds == {r1, r2, r3}
MCSourceAgents == (s1 :> <<a1, a2>>) @@ (s2 :> <<>>)
MCScheduled == {a1}
MCSymmetry == Permutations(MCRunIds)

(* Schedule evaluation inputs, in ms: two cron expressions (every five    *)
(* minutes, hourly) and one that does not parse; intervals of five        *)
(* minutes, one hour, 500ms (below the jitter floor) and one that does    *)
(* not parse; UTC, a zone 5h30 ahead (so an hourly expression fires at   *)
(* half past in UTC) and an unknown zone; an agent that never ran and one *)
(* that last ran off a minute boundary.                                   *)
MCCronPeriod == ("*/5 * * * *" :> 300000) @@ ("0 * * * *" :> 3600000) @@ ("61 * * * *" :> Invalid)
MCIntervalOf == ("5m" :> 300000) @@ ("1h" :> 3600000) @@ ("500ms" :> 500) @@ ("5 minutes" :> Invalid)
MCTZOffset == ("Asia/Kolkata" :> 19800000) @@ ("Mars/Olympus" :> Invalid)
MCSchedules ==
  [paused : BOOLEAN, cron : {"", "*/5 * * * *", "0 * * * *", "61 * * * *"},
   interval : {"", "5m", "1h", "500ms", "5 minutes"},
   tz : {"", "UTC", "Asia/Kolkata", "Mars/Olympus"}, last : {Never, 187000}]

Sch == INSTANCE Schedule WITH CronPeriod <- MCCronPeriod, IntervalOf <- MCIntervalOf,
                              TZOffset <- MCTZOffset, Schedules <- MCSchedules

\* The schedule evaluator is a pure function of the agent's schedule and
\* the time, so its properties are checked once, in the state the
\* scheduler starts in, before any agent has run.
Unstarted == lastRun = [a \in Agents |-> NeverRun] /\ run = [r \in RunIds |-> FreeRun] /\ last = <<>>

\* Spec 4.1: NextRun and IsDue agree with the spec's definitions for every
\* schedule that validates (Schedule!EvaluatorMatchesSpec).
EvaluatorMatchesSpec == Unstarted => Sch!EvaluatorMatchesSpec

\* Spec 4.1: ApplyJitter stays within +-j/2 of the scheduled time for the
\* interval ComputeInterval derives (Schedule!JitterWithinSpec).
JitterWithinSpec == Unstarted => Sch!JitterWithinSpec
=============================================================================
