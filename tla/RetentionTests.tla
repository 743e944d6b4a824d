--------------------------- MODULE RetentionTests ---------------------------
(***************************************************************************)
(* The retention package's unit tests as reference cases for the Retention *)
(* model.  Each test builds a store with makeRun, a Config and a fixed     *)
(* clock, calls doScan once against a fake client (every Delete succeeds)  *)
(* and checks some of the ScanResult counts.  Here the store is handed to  *)
(* an instance of Retention, whose selection operators compute the scan;   *)
(* time is counted in hours.                                               *)
(***************************************************************************)
EXTENDS Integers, Sequences, SequencesExt, FiniteSets

CONSTANT NoTime  \* model value: Status.CompletionTime == nil

Hour == 1
Day == 24 * Hour

\* ctrl.now in every test: a clock late enough for the oldest run
Now == 1000 * Hour

\* makeRun: a run of `agent` in `phase` created `age` before now, with the
\* completion time equal to the creation time, or none
MakeRun(agent, phase, age, completed) ==
  [agent |-> agent, created |-> Now - age, phase |-> phase,
   completed |-> IF completed THEN Now - age ELSE NoTime]

\* DefaultConfig: TTL 7 days, MaxDeleteBatch 100, PreserveMinPerAgent 5
DefaultConfig == [ttl |-> 7 * Day, batch |-> 100, preserve |-> 5]

\* The Retention model applied to one test's store and Config at Now.
Scan(st, cfg) ==
  INSTANCE Retention WITH
    store <- st, made <- [r \in DOMAIN st |-> st[r].agent], now <- Now,
    scan <- <<>>, Agents <- {st[r].agent : r \in DOMAIN st}, RunIds <- DOMAIN st,
    Scanners <- {}, PreserveMinPerAgent <- cfg.preserve,
    MaxDeleteBatch <- cfg.batch, TTL <- cfg.ttl, MaxTime <- Now, Outcomes <- {}

\* the agents the store holds runs of (byAgent's keys)
Present(st) == {st[r].agent : r \in DOMAIN st}

\* creation times are distinct within every group of the store
NoTies(st) ==
  \A r, q \in DOMAIN st : r # q /\ st[r].agent = st[q].agent => st[r].created # st[q].created

\* the runs of S newest first: the newest of them, then the rest
RECURSIVE NewestFirstSeq(_, _)
NewestFirstSeq(st, S) ==
  IF S = {} THEN <<>>
  ELSE LET r == CHOOSE r \in S : \A q \in S : st[r].created >= st[q].created
       IN <<r>> \o NewestFirstSeq(st, S \ {r})

\* the newest-first order of one agent's group when creation times differ
Sorted(st, a) == NewestFirstSeq(st, {r \in DOMAIN st : st[r].agent = a})

\* the sortings of every group sort.Slice may produce: the one order when
\* there are no ties (the model's NewestFirst would enumerate the
\* permutations of a 20-run group), else every order NewestFirst allows
Sortings(st, cfg) ==
  IF NoTies(st) THEN {[a \in Present(st) |-> Sorted(st, a)]}
  ELSE {f \in [Present(st) -> UNION {Scan(st, cfg)!NewestFirst(a) : a \in Present(st)}] :
          \A a \in Present(st) : f[a] \in Scan(st, cfg)!NewestFirst(a)}

ScanCountsAfterCut(st, cfg, order, sorted) == \* mutant: Eligible counted after the batch cut
  LET toDelete == Scan(st, cfg)!BatchCut(Scan(st, cfg)!ToDelete(order, sorted))
  IN [scanned |-> Cardinality(DOMAIN st), eligible |-> Len(toDelete),
      deleted |-> Len(toDelete), remaining |-> Cardinality(DOMAIN st) - Len(toDelete)]

\* ScanResult for one map iteration order and one sorting, every Delete
\* succeeding
ScanCounts(st, cfg, order, sorted) ==
  LET toDelete == Scan(st, cfg)!ToDelete(order, sorted)
      deleted == Len(Scan(st, cfg)!BatchCut(toDelete))
  IN [scanned |-> Cardinality(DOMAIN st), eligible |-> Len(toDelete),
      deleted |-> deleted, remaining |-> Cardinality(DOMAIN st) - deleted]

----------------------------------------------------------------------------
(* The tests: a store, a Config and the counts the test checks             *)

TestRetention_NoRuns ==
  [store |-> <<>>, cfg |-> DefaultConfig, want |-> [scanned |-> 0, deleted |-> 0]]

TestRetention_NothingExpired ==
  [store |-> ("run-1" :> MakeRun("watchman", "Succeeded", 1 * Hour, TRUE)) @@
             ("run-2" :> MakeRun("watchman", "Succeeded", 2 * Hour, TRUE)),
   cfg |-> [DefaultConfig EXCEPT !.ttl = 24 * Hour],
   want |-> [scanned |-> 2, deleted |-> 0]]

TestRetention_DeletesExpired ==
  [store |-> ("run-recent" :> MakeRun("watchman", "Succeeded", 1 * Hour, TRUE)) @@
             ("run-old-1" :> MakeRun("watchman", "Succeeded", 8 * Day, TRUE)) @@
             ("run-old-2" :> MakeRun("watchman", "Failed", 10 * Day, TRUE)) @@
             ("run-old-3" :> MakeRun("watchman", "Succeeded", 12 * Day, TRUE)) @@
             ("run-old-4" :> MakeRun("watchman", "Succeeded", 14 * Day, TRUE)) @@
             ("run-old-5" :> MakeRun("watchman", "Escalated", 16 * Day, TRUE)) @@
             ("run-old-6" :> MakeRun("watchman", "Blocked", 20 * Day, TRUE)),
   cfg |-> [ttl |-> 7 * Day, batch |-> 100, preserve |-> 3],
   want |-> [eligible |-> 4, deleted |-> 4, remaining |-> 3]]

TestRetention_SkipsNonTerminal ==
  [store |-> ("run-pending" :> MakeRun("forge", "Pending", 30 * Day, FALSE)) @@
             ("run-running" :> MakeRun("forge", "Running", 30 * Day, FALSE)),
   cfg |-> [DefaultConfig EXCEPT !.preserve = 0],
   want |-> [deleted |-> 0]]

TestRetention_BatchLimit ==
  [store |-> [i \in 0..19 |-> MakeRun("bulk-agent", "Succeeded", (30 + i) * Day, TRUE)],
   cfg |-> [ttl |-> 7 * Day, batch |-> 5, preserve |-> 0],
   want |-> [eligible |-> 20, deleted |-> 5]]

TestRetention_MultipleAgents ==
  [store |-> ("a-1" :> MakeRun("agent-a", "Succeeded", 1 * Hour, TRUE)) @@
             ("a-2" :> MakeRun("agent-a", "Succeeded", 10 * Day, TRUE)) @@
             ("a-3" :> MakeRun("agent-a", "Succeeded", 20 * Day, TRUE)) @@
             ("b-1" :> MakeRun("agent-b", "Succeeded", 2 * Hour, TRUE)) @@
             ("b-2" :> MakeRun("agent-b", "Succeeded", 15 * Day, TRUE)),
   cfg |-> [ttl |-> 7 * Day, batch |-> 100, preserve |-> 1],
   want |-> [eligible |-> 3, deleted |-> 3]]

RetentionTestCases ==
  <<TestRetention_NoRuns, TestRetention_NothingExpired, TestRetention_DeletesExpired,
    TestRetention_SkipsNonTerminal, TestRetention_BatchLimit, TestRetention_MultipleAgents>>

\* The Retention model passes every test: for every order the Go map may
\* iterate the agents in and every order sort.Slice may leave each group
\* in, the counts the test checks are the ones it wants.  Where a test has
\* no creation-time ties the one sorting used is checked to be an order
\* the model's NewestFirst allows.
RetentionMatchesTests ==
  \A i \in DOMAIN RetentionTestCases :
    LET t == RetentionTestCases[i] IN
    /\ NoTies(t.store) =>
         \A a \in Present(t.store) :
           /\ Range(Sorted(t.store, a)) = Scan(t.store, t.cfg)!Group(a)
           /\ Scan(t.store, t.cfg)!IsNewestFirst(Sorted(t.store, a))
    /\ \A order \in SetToSeqs(Present(t.store)), sorted \in Sortings(t.store, t.cfg) :
         LET got == ScanCounts(t.store, t.cfg, order, sorted)
         IN \A f \in DOMAIN t.want : got[f] = t.want[f]
=============================================================================
