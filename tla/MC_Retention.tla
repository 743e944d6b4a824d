---------------------------- MODULE MC_Retention ----------------------------
(* Two agents and three run names, so that one agent can have two runs     *)
(* eligible at once (more than the batch of one) and two of its runs can   *)
(* share a creation second; one clock unit of TTL and a clock of three.    *)
EXTENDS Retention

CONSTANTS a1, a2, r1, r2, r3, s1, s2

MCAgents == {a1, a2}
MCRunIds == {r1, r2, r3}
MCOneScanner == {s1}
MCTwoScanners == {s1, s2}
MCOutcomes == {"Succeeded", "Failed"}

RT == INSTANCE RetentionTests

\* the package's tests are a constant check, stated in the initial state
Unstarted == store = <<>> /\ made = <<>> /\ now = 0

\* The retention package's unit tests: from each test's store and Config,
\* a scan selects, counts and deletes what the test expects
\* (RetentionTests!RetentionMatchesTests).
RetentionMatchesTests == Unstarted => RT!RetentionMatchesTests
=============================================================================
