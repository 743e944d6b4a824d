CONSTANTS
  a1 = a1  a2 = a2  r1 = r1  r2 = r2  r3 = r3  s1 = s1  s2 = s2
  NeverRun = NeverRun
  Invalid = Invalid  ZeroTime = ZeroTime  Err = Err  Never = Never  NoAgent = NoAgent
  Agents <- MCAgents
  Sources <- MCSources
  RunIds <- MCRunIds
  SourceAgents <- MCSourceAgents
  Scheduled <- MCScheduled
  Interval = 2
  Window = 2
  PreRunTimeout = 1
  RunTimeout = 2
  CleanupTimeout = 1
  MaxAge = 4
  DrainTimeout = 2
  TriggerCap = 1
  MaxRegistered = 3
  MaxRegChanges = 1
SPECIFICATION Spec
SYMMETRY MCSymmetry
INVARIANTS TypeOK AtMostOneLiveRun EvaluatorMatchesSpec JitterWithinSpec
PROPERTIES DebounceOncePerWindow
