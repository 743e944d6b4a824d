----------------------------- MODULE Scheduler -----------------------------
(***************************************************************************)
(* Admission of agent runs: the per-agent RunTracker (concurrency gate),   *)
(* the interval due-check, the webhook handler with its debouncer and      *)
(* bounded trigger channel, the life of an admitted run up to the point    *)
(* where it releases its tracker entry, and the graceful-shutdown drain.   *)
(*                                                                         *)
(* Time is discrete.  Instead of timestamps every timer keeps an age in    *)
(* ticks that saturates one past the largest threshold it is compared      *)
(* with, so the state space stays finite without bounding the clock.       *)
(***************************************************************************)
EXTENDS Integers, FiniteSets, Sequences, SequencesExt

CONSTANTS
  Agents,         \* agent keys (namespace/name)
  Sources,        \* webhook source names
  RunIds,         \* run names; a name is reused only after its runner exited
  SourceAgents,   \* the initial WebhookHandler.agentMap: [Sources -> Seq(Agents)]
  MaxRegistered,  \* bound on the agents registered for one source
  MaxRegChanges,  \* bound on RegisterAgent and UnregisterAgent calls
  Scheduled,      \* agents with an interval schedule; the rest are trigger-only
  Interval,       \* schedule interval, in ticks
  Window,         \* Debouncer.window, in ticks
  MaxAge,         \* maxAge passed to RunTracker.CleanStale, in ticks
  PreRunTimeout,  \* bound on spec 4.2 steps 1-4, from admission to Running, in ticks
  RunTimeout,     \* wall-clock deadline of a run from Running on (model.timeout), in ticks
  CleanupTimeout, \* bound on the post-run cleanup chain (HTTP client timeouts)
  DrainTimeout,   \* ShutdownManager.drainTimeout, in ticks
  TriggerCap,     \* capacity of the WebhookHandler.triggers channel
  NeverRun,       \* model value: Status.LastRunTime == nil
  NoAgent         \* model value: the agent of a run name not in use

ASSUME Scheduled \subseteq Agents /\ NoAgent \notin Agents
ASSUME SourceAgents \in [Sources -> Seq(Agents)]
ASSUME \A n \in {Interval, Window, MaxAge, PreRunTimeout, RunTimeout, CleanupTimeout,
                 DrainTimeout, TriggerCap} : n \in Nat \ {0}

VARIABLES
  inflight,  \* RunTracker.inflight: agent -> [run, age]; DOMAIN = tracked agents
  last,      \* Debouncer.last: key -> age of the last fire; DOMAIN = known keys
  triggers,  \* WebhookHandler.triggers channel, oldest first
  lastRun,   \* agent -> age of Status.LastRunTime, or NeverRun
  run,       \* run name -> state of the runner goroutine using it
  cancels,   \* ShutdownManager.cancels: runs whose cancel func is registered
  drain,     \* WaitForDrain: [st, left (ticks to deadline), forced (return value)]
  sinceFire, \* history: key -> ticks since ShouldFire last returned true (capped)
  fired,     \* history: keys for which ShouldFire returned true in the last step
  agentMap,  \* WebhookHandler.agentMap: source -> agents (<<>>: no entry)
  regChanges \* RegisterAgent and UnregisterAgent calls so far

vars == <<inflight, last, triggers, lastRun, run, cancels, drain, sinceFire, fired,
          agentMap, regChanges>>

Keys == Sources \X Agents          \* debounceKey = source/namespace/name
Live == {"admitted", "running"}    \* non-terminal runs

Older(n, cap) == IF n >= cap THEN cap ELSE n + 1   \* one tick later, saturating

RunState == [st : {"free", "admitted", "running", "cleanup"},
             agent : Agents \cup {NoAgent}, age : 0..(PreRunTimeout + RunTimeout + CleanupTimeout),
             cancelled : BOOLEAN]

FreeRun == [st |-> "free", agent |-> NoAgent, age |-> 0, cancelled |-> FALSE]

----------------------------------------------------------------------------
(* RunTracker (internal/scheduler/concurrency.go)                          *)

\* InFlightCount: how many agents currently hold an entry.
InFlightCount == Cardinality(DOMAIN inflight)

\* TryStart succeeds iff the agent has no entry; on success it records the
\* run name and StartedAt (age 0).
TryStart(a) == a \notin DOMAIN inflight

Started(a, r) == (a :> [run |-> r, age |-> 0]) @@ inflight

\* Complete deletes the agent's entry, whichever run it names.
Complete(a) == [b \in DOMAIN inflight \ {a} |-> inflight[b]]

\* CleanStale drops every entry older than maxAge (now.Sub(StartedAt) > maxAge).
Stale == {a \in DOMAIN inflight : inflight[a].age > MaxAge}

CleanStaleGE == \* mutant: `>=` instead of `>`
  /\ drain.st # "returned"
  /\ \E a \in DOMAIN inflight : inflight[a].age >= MaxAge
  /\ inflight' = [a \in {b \in DOMAIN inflight : inflight[b].age < MaxAge} |-> inflight[a]]
  /\ fired' = {}
  /\ UNCHANGED <<last, triggers, lastRun, run, cancels, drain, sinceFire, agentMap, regChanges>>

CleanStale ==
  /\ drain.st # "returned"
  /\ Stale # {}
  /\ inflight' = [a \in DOMAIN inflight \ Stale |-> inflight[a]]
  /\ fired' = {}
  /\ UNCHANGED <<last, triggers, lastRun, run, cancels, drain, sinceFire, agentMap, regChanges>>

----------------------------------------------------------------------------
(* Schedule evaluation (internal/scheduler/schedule.go)                    *)

\* IsDue for an interval schedule: never run, or now.After(lastRun + interval).
\* Paused agents and cron expressions are not modelled here.
IsDue(a) ==
  /\ a \in Scheduled
  /\ lastRun[a] \notin 0..Interval   \* NeverRun, or older than Interval

----------------------------------------------------------------------------
(* Debouncer and WebhookHandler.ServeHTTP (scheduler/webhook.go)           *)

ShouldFireInverted(dl, k) == \* mutant: the window comparison reversed
  k \notin DOMAIN dl \/ dl[k] <= Window

\* ShouldFire(k): false within the window of the last fire, else fire now.
ShouldFire(dl, k) == k \notin DOMAIN dl \/ dl[k] >= Window

DeliverUnbounded(s) == \* mutant: the send ignores the channel's capacity
  LET Step(acc, a) ==
        LET k == <<s, a>> IN
        IF ShouldFire(acc[1], k)
        THEN <<(k :> 0) @@ acc[1], Append(acc[2], a), acc[3] \cup {k}>>
        ELSE acc
  IN FoldLeft(Step, <<last, triggers, {}>>, agentMap[s])

\* One iteration of the ServeHTTP loop for agent a of source s, threading
\* <<Debouncer.last, trigger channel, keys fired>>.  A fired trigger is sent
\* with a non-blocking select: dropped when the channel is full.
Deliver(s) ==
  LET Step(acc, a) ==
        LET k == <<s, a>> IN
        IF ShouldFire(acc[1], k)
        THEN << (k :> 0) @@ acc[1],
                IF Len(acc[2]) < TriggerCap THEN Append(acc[2], a) ELSE acc[2],
                acc[3] \cup {k} >>
        ELSE acc
  IN FoldLeft(Step, <<last, triggers, {}>>, agentMap[s])

\* POST /webhook/{s} for a source with registered agents.  A source without
\* agents is answered 202 and changes nothing.
ServeHTTP(s) ==
  /\ drain.st = "idle"
  /\ Len(agentMap[s]) > 0
  /\ LET res == Deliver(s) IN
       /\ last' = res[1]
       /\ triggers' = res[2]
       /\ fired' = res[3]
       /\ sinceFire' = [k \in Keys |-> IF k \in res[3] THEN 0 ELSE sinceFire[k]]
  /\ UNCHANGED <<inflight, lastRun, run, cancels, drain, agentMap, regChanges>>

\* RegisterAgent appends the agent to the source's list, even when it is
\* already there.
RegisterAgent(s, a) ==
  /\ drain.st # "returned"
  /\ regChanges < MaxRegChanges
  /\ regChanges' = regChanges + 1
  /\ Len(agentMap[s]) < MaxRegistered
  /\ agentMap' = [agentMap EXCEPT ![s] = Append(@, a)]
  /\ fired' = {}
  /\ UNCHANGED <<inflight, last, triggers, lastRun, run, cancels, drain, sinceFire>>

\* UnregisterAgent filters the agent out of every source's list and
\* deletes the lists left empty.
UnregisterAgent(a) ==
  /\ drain.st # "returned"
  /\ regChanges < MaxRegChanges
  /\ regChanges' = regChanges + 1
  /\ \E s \in Sources : a \in ToSet(agentMap[s])
  /\ agentMap' = [s \in Sources |-> SelectSeq(agentMap[s], LAMBDA b : b # a)]
  /\ fired' = {}
  /\ UNCHANGED <<inflight, last, triggers, lastRun, run, cancels, drain, sinceFire>>

\* Debouncer.Clean removes entries older than 2x the window.
CleanableKeys == {k \in DOMAIN last : last[k] > 2 * Window}

Clean ==
  /\ drain.st # "returned"
  /\ CleanableKeys # {}
  /\ last' = [k \in DOMAIN last \ CleanableKeys |-> last[k]]
  /\ fired' = {}
  /\ UNCHANGED <<inflight, triggers, lastRun, run, cancels, drain, sinceFire, agentMap, regChanges>>

----------------------------------------------------------------------------
(* Admission and the runner, as the scheduler drives them (spec 4.1, 4.2)  *)

\* Admit agent a under run name r: TryStart succeeded, the run record is
\* created and Status.LastRunTime is set.  When TryStart fails (Skip policy)
\* nothing changes, so that outcome is no step at all.
Admit(a, r) ==
  /\ TryStart(a)
  /\ run[r].st = "free"
  /\ inflight' = Started(a, r)
  /\ run' = [run EXCEPT ![r] = [st |-> "admitted", agent |-> a, age |-> 0,
                                cancelled |-> FALSE]]
  /\ lastRun' = [lastRun EXCEPT ![a] = 0]

\* Scheduler tick: a due agent is admitted.
ScheduleRun(a, r) ==
  /\ drain.st = "idle"
  /\ IsDue(a)
  /\ Admit(a, r)
  /\ fired' = {}
  /\ UNCHANGED <<last, triggers, cancels, drain, sinceFire, agentMap, regChanges>>

\* Scheduler reads a webhook trigger and admits its agent ...
ConsumeTrigger(r) ==
  /\ drain.st = "idle"
  /\ triggers # <<>>
  /\ Admit(Head(triggers), r)
  /\ triggers' = Tail(triggers)
  /\ fired' = {}
  /\ UNCHANGED <<last, cancels, drain, sinceFire, agentMap, regChanges>>

\* ... or drops it because the agent already has a run in flight.
SkipTrigger ==
  /\ drain.st = "idle"
  /\ triggers # <<>>
  /\ ~TryStart(Head(triggers))
  /\ triggers' = Tail(triggers)
  /\ fired' = {}
  /\ UNCHANGED <<inflight, last, lastRun, run, cancels, drain, sinceFire, agentMap, regChanges>>

\* ShutdownManager.RegisterRun: the run's cancel func is recorded, the run
\* enters Running and its wall-clock deadline starts (spec 4.2 step 5).
RegisterRun(r) ==
  /\ drain.st # "returned"
  /\ run[r].st = "admitted"
  /\ run' = [run EXCEPT ![r].st = "running", ![r].age = 0]
  /\ cancels' = cancels \cup {r}
  /\ fired' = {}
  /\ UNCHANGED <<inflight, last, triggers, lastRun, drain, sinceFire, agentMap, regChanges>>

\* The reasoning loop ends (final answer, error, deadline or cancellation):
\* the terminal phase is written and the cleanup chain starts.
Finish(r) ==
  /\ drain.st # "returned"
  /\ run[r].st = "running"
  /\ run' = [run EXCEPT ![r].st = "cleanup", ![r].age = 0]
  /\ fired' = {}
  /\ UNCHANGED <<inflight, last, triggers, lastRun, cancels, drain, sinceFire, agentMap, regChanges>>

\* Cleanup done: RunTracker.Complete(agent) and ShutdownManager.DeregisterRun.
Release(r) ==
  /\ drain.st # "returned"
  /\ run[r].st = "cleanup"
  /\ inflight' = Complete(run[r].agent)
  /\ cancels' = cancels \ {r}
  /\ run' = [run EXCEPT ![r] = FreeRun]
  /\ fired' = {}
  /\ UNCHANGED <<last, triggers, lastRun, drain, sinceFire, agentMap, regChanges>>

\* The runner dies without calling Complete or DeregisterRun (the case
\* CleanStale exists for).
Abandon(r) ==
  /\ drain.st # "returned"
  /\ run[r].st = "running"
  /\ run' = [run EXCEPT ![r] = FreeRun]
  /\ fired' = {}
  /\ UNCHANGED <<inflight, last, triggers, lastRun, cancels, drain, sinceFire, agentMap, regChanges>>

----------------------------------------------------------------------------
(* ShutdownManager.WaitForDrain (internal/lifecycle/shutdown.go)           *)

Shutdown ==
  /\ drain.st = "idle"
  /\ drain' = IF InFlightCount = 0
              THEN [st |-> "returned", left |-> 0, forced |-> 0]
              ELSE [st |-> "waiting", left |-> DrainTimeout, forced |-> 0]
  /\ fired' = {}
  /\ UNCHANGED <<inflight, last, triggers, lastRun, run, cancels, sinceFire, agentMap, regChanges>>

\* ticker case: the in-flight count reached zero.
DrainPoll ==
  /\ drain.st = "waiting"
  /\ InFlightCount = 0
  /\ drain' = [drain EXCEPT !.st = "returned", !.forced = 0]
  /\ fired' = {}
  /\ UNCHANGED <<inflight, last, triggers, lastRun, run, cancels, sinceFire, agentMap, regChanges>>

\* deadline case: if runs remain, cancelAll cancels every registered run and
\* clears the map; the tracker's count is returned.
DrainDeadline ==
  /\ drain.st = "waiting"
  /\ drain.left = 0
  /\ drain' = [st |-> "returned", left |-> 0, forced |-> InFlightCount]
  /\ IF InFlightCount > 0
     THEN /\ run' = [r \in RunIds |->
                       IF r \in cancels THEN [run[r] EXCEPT !.cancelled = TRUE]
                       ELSE run[r]]
          /\ cancels' = {}
     ELSE UNCHANGED <<run, cancels>>
  /\ fired' = {}
  /\ UNCHANGED <<inflight, last, triggers, lastRun, sinceFire, agentMap, regChanges>>

\* WaitForDrain has returned; the process exits.
Exited ==
  /\ drain.st = "returned"
  /\ UNCHANGED vars

----------------------------------------------------------------------------
(* Time                                                                    *)

\* One tick.  The steps before Running cannot outlast the timeouts of the
\* calls they make (the connectivity dials, the Vault client's timeout and
\* the runner's reads of the Environment), a run its deadline, a cleanup
\* chain its HTTP timeouts, and WaitForDrain its drain deadline: at those
\* bounds the pending step must happen before time moves on.
Tick ==
  /\ drain.st # "returned"
  /\ \A r \in RunIds : /\ run[r].st = "admitted" => run[r].age < PreRunTimeout
                       /\ run[r].st = "running" => run[r].age < RunTimeout
                       /\ run[r].st = "cleanup" => run[r].age < CleanupTimeout
  /\ drain.st = "waiting" => drain.left > 0
  /\ inflight' = [a \in DOMAIN inflight |->
                    [inflight[a] EXCEPT !.age = Older(@, MaxAge + 1)]]
  /\ last' = [k \in DOMAIN last |-> Older(last[k], 2 * Window + 1)]
  /\ lastRun' = [a \in Agents |->
                   IF lastRun[a] = NeverRun THEN NeverRun
                   ELSE Older(lastRun[a], Interval + 1)]
  /\ run' = [r \in RunIds |->
               IF run[r].st = "free" THEN run[r] ELSE [run[r] EXCEPT !.age = @ + 1]]
  /\ drain' = IF drain.st = "waiting" THEN [drain EXCEPT !.left = @ - 1] ELSE drain
  /\ sinceFire' = [k \in Keys |-> Older(sinceFire[k], Window)]
  /\ fired' = {}
  /\ UNCHANGED <<triggers, cancels, agentMap, regChanges>>

----------------------------------------------------------------------------
Init ==
  /\ inflight = <<>>
  /\ last = <<>>
  /\ triggers = <<>>
  /\ lastRun = [a \in Agents |-> NeverRun]
  /\ run = [r \in RunIds |-> FreeRun]
  /\ cancels = {}
  /\ drain = [st |-> "idle", left |-> 0, forced |-> 0]
  /\ sinceFire = [k \in Keys |-> Window]
  /\ fired = {}
  /\ agentMap = SourceAgents
  /\ regChanges = 0

Next ==
  \/ \E a \in Agents, r \in RunIds : ScheduleRun(a, r)
  \/ \E s \in Sources : ServeHTTP(s)
  \/ \E s \in Sources, a \in Agents : RegisterAgent(s, a)
  \/ \E a \in Agents : UnregisterAgent(a)
  \/ \E r \in RunIds : ConsumeTrigger(r)
  \/ SkipTrigger
  \/ \E r \in RunIds : RegisterRun(r) \/ Finish(r) \/ Release(r) \/ Abandon(r)
  \/ CleanStale
  \/ Clean
  \/ Shutdown
  \/ DrainPoll
  \/ DrainDeadline
  \/ Tick
  \/ Exited

Spec == Init /\ [][Next]_vars

----------------------------------------------------------------------------
\* RunInfo: the run's name and its StartedAt, as an age in ticks
RunInfo == [run : RunIds, age : 0..(MaxAge + 1)]

TypeOK ==
  /\ DOMAIN inflight \subseteq Agents
  /\ \A a \in DOMAIN inflight : inflight[a] \in RunInfo
  /\ DOMAIN last \subseteq Keys
  /\ \A k \in DOMAIN last : last[k] \in 0..(2 * Window + 1)
  /\ triggers \in Seq(Agents) /\ Len(triggers) <= TriggerCap
  /\ lastRun \in [Agents -> 0..(Interval + 1) \cup {NeverRun}]
  /\ run \in [RunIds -> RunState]
  /\ cancels \subseteq RunIds
  /\ drain \in [st : {"idle", "waiting", "returned"}, left : 0..DrainTimeout,
                forced : 0..Cardinality(Agents)]
  /\ sinceFire \in [Keys -> 0..Window]
  /\ fired \subseteq Keys
  /\ agentMap \in [Sources -> Seq(Agents)] /\ regChanges \in 0..MaxRegChanges

\* Spec 3/8: at most one non-terminal run per agent.  Breaking it takes the
\* stale sweep evicting a run that is still alive, a second admission, and
\* the first run's Complete deleting the second run's entry.
AtMostOneLiveRun ==
  \A a \in Agents : Cardinality({r \in RunIds : run[r].st \in Live /\ run[r].agent = a}) <= 1

\* Spec 4.1/8: within one debounce window ShouldFire returns true at most
\* once per (source, agent) key, even though Debouncer.Clean forgets keys.
DebounceOncePerWindow ==
  [][\A k \in fired' : sinceFire[k] = Window]_vars

\* Spec 4.8/8: once WaitForDrain has returned, either nothing was in flight
\* or every run still in flight has had its context cancelled.
DrainCancelsInFlight ==
  drain.st = "returned" /\ drain.forced > 0 =>
    \A r \in RunIds : run[r].st \in Live => run[r].cancelled
=============================================================================
