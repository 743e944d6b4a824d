CONSTANTS
  a1 = a1  a2 = a2  r1 = r1  r2 = r2  r3 = r3  s1 = s1  s2 = s2
  NoTime = NoTime
  Agents <- MCAgents
  RunIds <- MCRunIds
  Scanners <- MCOneScanner
  Outcomes <- MCOutcomes
  PreserveMinPerAgent = 1
  MaxDeleteBatch = 1
  TTL = 1
  MaxTime = 3
SPECIFICATION Spec
INVARIANTS TypeOK RetentionMatchesTests
PROPERTIES DeletesOnlyExpiredTerminal
