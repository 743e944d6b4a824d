----------------------------- MODULE Retention -----------------------------
(***************************************************************************)
(* The retention controller (internal/retention): every scan lists all      *)
(* AgentRuns, groups them by agent, sorts each group newest first, keeps    *)
(* the first PreserveMinPerAgent of each group, selects terminal runs whose *)
(* completion (or creation) time is before now - TTL, cuts the list to      *)
(* MaxDeleteBatch and deletes one run at a time, counting errors.           *)
(*                                                                         *)
(* Go's map iteration order and sort.Slice's order among equal creation     *)
(* timestamps (one-second resolution) are unspecified, so a scan chooses    *)
(* them nondeterministically.  Runs are created and finished concurrently.  *)
(***************************************************************************)
EXTENDS Integers, FiniteSets, Sequences, SequencesExt

CONSTANTS
  Agents,              \* agent keys (namespace/agentRef)
  RunIds,              \* AgentRun names
  Scanners,            \* processes running the scan loop
  PreserveMinPerAgent, \* Config.PreserveMinPerAgent
  MaxDeleteBatch,      \* Config.MaxDeleteBatch
  TTL,                 \* Config.TTL, in clock units
  MaxTime,             \* last instant of the bounded clock
  Outcomes,            \* terminal phases a runner may write
  NoTime               \* model value: Status.CompletionTime == nil

Phases == {"Pending", "Running", "Succeeded", "Failed", "Escalated", "Blocked"}

ASSUME Outcomes \subseteq Phases
ASSUME PreserveMinPerAgent \in Nat /\ MaxDeleteBatch \in Nat \ {0}
ASSUME TTL \in Nat /\ MaxTime \in Nat

VARIABLES
  store,   \* AgentRuns in the object store: name -> record
  made,    \* history: name -> agent of every run ever created
  now,     \* the clock
  scan     \* scanner -> [st, todo]: the delete loop of its current doScan

vars == <<store, made, now, scan>>

Time == 0..MaxTime

----------------------------------------------------------------------------
(* isTerminal                                                              *)
isTerminal(phase) == phase \in {"Succeeded", "Failed", "Escalated", "Blocked"}

\* completionTime, falling back to the creation timestamp.
Completion(r) ==
  IF store[r].completed = NoTime THEN store[r].created ELSE store[r].completed

\* runs grouped by agent: byAgent[agentKey]
Group(a) == {r \in DOMAIN store : store[r].agent = a}

\* sort.Slice's comparator, After on creation timestamps, holds nowhere
\* backwards: o lists newest first, ties in any order
IsNewestFirst(o) ==
  \A i \in 1..(Len(o) - 1) : store[o[i]].created >= store[o[i + 1]].created

\* the orders sort.Slice may leave a group in
NewestFirst(a) == {o \in SetToSeqs(Group(a)) : IsNewestFirst(o)}

EligibleNoTerminal(o, i) == \* mutant: the isTerminal check is missing
  /\ i > PreserveMinPerAgent
  /\ Completion(o[i]) < now - TTL

\* The run at 1-based position i of a sorted group is selected: terminal,
\* not among the first PreserveMinPerAgent, and completed before the cutoff.
Eligible(o, i) ==
  /\ isTerminal(store[o[i]].phase)
  /\ i > PreserveMinPerAgent
  /\ Completion(o[i]) < now - TTL

\* the eligible runs of one sorted group, in group order
EligibleOf(o) ==
  LET idx == SelectSeq([i \in 1..Len(o) |-> i], LAMBDA i : Eligible(o, i))
  IN [j \in 1..Len(idx) |-> o[idx[j]]]

\* toDelete for one map iteration order and one sorting of every group
ToDelete(order, sorted) ==
  FoldLeft(LAMBDA acc, a : acc \o EligibleOf(sorted[a]), <<>>, order)

BatchCutOver(list) == \* mutant: the slice bound is one too high
  IF Len(list) > MaxDeleteBatch THEN SubSeq(list, 1, MaxDeleteBatch + 1) ELSE list

\* the batch limit
BatchCut(list) ==
  IF Len(list) > MaxDeleteBatch THEN SubSeq(list, 1, MaxDeleteBatch) ELSE list

----------------------------------------------------------------------------
(* The runs' side: created by the scheduler, finished by the runner.       *)

\* A run is created for an agent with no non-terminal run (the scheduler's
\* concurrency gate), with creationTimestamp = now.
CreateRun(a, r) ==
  /\ r \notin DOMAIN made
  /\ \A q \in Group(a) : isTerminal(store[q].phase)
  /\ store' = (r :> [agent |-> a, created |-> now, phase |-> "Running",
                     completed |-> NoTime]) @@ store
  /\ made' = (r :> a) @@ made
  /\ UNCHANGED <<now, scan>>

\* The runner writes a terminal phase, with or without a completion time.
FinishRun(r) ==
  /\ r \in DOMAIN store
  /\ ~isTerminal(store[r].phase)
  /\ \E ph \in Outcomes, c \in {now, NoTime} :
       store' = [store EXCEPT ![r].phase = ph, ![r].completed = c]
  /\ UNCHANGED <<made, now, scan>>

Tick ==
  /\ now < MaxTime
  /\ now' = now + 1
  /\ UNCHANGED <<store, made, scan>>

----------------------------------------------------------------------------
(* Controller.doScan                                                       *)

\* List succeeds; the eligible runs are selected from this snapshot.  A
\* failed List only counts an error, so it is no step.
DoScan(s) ==
  /\ scan[s].st = "idle"
  /\ LET present == {store[r].agent : r \in DOMAIN store} IN
     \E order \in SetToSeqs(present),
        sorted \in {f \in [present -> UNION {NewestFirst(a) : a \in present}] :
                      \A a \in present : f[a] \in NewestFirst(a)} :
       scan' = [scan EXCEPT ![s] = [st |-> "deleting",
                                    todo |-> BatchCut(ToDelete(order, sorted))]]
  /\ UNCHANGED <<store, made, now>>

\* client.Delete succeeds ...
DeleteRun(s) ==
  /\ scan[s].st = "deleting"
  /\ scan[s].todo # <<>>
  /\ Head(scan[s].todo) \in DOMAIN store
  /\ store' = [r \in DOMAIN store \ {Head(scan[s].todo)} |-> store[r]]
  /\ scan' = [scan EXCEPT ![s].todo = Tail(@)]
  /\ UNCHANGED <<made, now>>

\* ... or fails (including NotFound); the error is counted and the loop goes on.
DeleteFails(s) ==
  /\ scan[s].st = "deleting"
  /\ scan[s].todo # <<>>
  /\ scan' = [scan EXCEPT ![s].todo = Tail(@)]
  /\ UNCHANGED <<store, made, now>>

\* doScan returns; the loop waits for the next ticker event.
ScanDone(s) ==
  /\ scan[s].st = "deleting"
  /\ scan[s].todo = <<>>
  /\ scan' = [scan EXCEPT ![s].st = "idle"]
  /\ UNCHANGED <<store, made, now>>

----------------------------------------------------------------------------
Init ==
  /\ store = <<>>
  /\ made = <<>>
  /\ now = 0
  /\ scan = [s \in Scanners |-> [st |-> "idle", todo |-> <<>>]]

Next ==
  \/ \E a \in Agents, r \in RunIds : CreateRun(a, r)
  \/ \E r \in RunIds : FinishRun(r)
  \/ Tick
  \/ \E s \in Scanners : DoScan(s) \/ DeleteRun(s) \/ DeleteFails(s) \/ ScanDone(s)

Spec == Init /\ [][Next]_vars

----------------------------------------------------------------------------
RunRecord == [agent : Agents, created : Time, phase : Phases,
              completed : Time \cup {NoTime}]

TypeOK ==
  /\ DOMAIN store \subseteq DOMAIN made /\ made \in [DOMAIN made -> Agents]
  /\ DOMAIN made \subseteq RunIds
  /\ \A r \in DOMAIN store : store[r] \in RunRecord
  /\ now \in Time
  /\ \A s \in Scanners : /\ scan[s].st \in {"idle", "deleting"}
                         /\ scan[s].todo \in Seq(RunIds)
                         /\ Len(scan[s].todo) <= MaxDeleteBatch

Deleted == DOMAIN store \ DOMAIN store'

\* Spec 4.7: a scan deletes only terminal runs whose completion time (or
\* creation time, when it has none) is older than the TTL, even though the
\* delete happens after the List snapshot it was selected from.
DeletesOnlyExpiredTerminal ==
  [][\A r \in Deleted : isTerminal(store[r].phase) /\ Completion(r) < now - TTL]_vars

\* Spec 8: every agent keeps at least PreserveMinPerAgent runs (or all of
\* its runs, when it has had fewer).
RetainsMinPerAgent ==
  \A a \in Agents :
    LET ever == Cardinality({r \in DOMAIN made : made[r] = a}) IN
    Cardinality(Group(a)) >= IF ever < PreserveMinPerAgent THEN ever ELSE PreserveMinPerAgent
=============================================================================
