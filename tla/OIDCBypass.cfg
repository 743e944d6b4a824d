CONSTANTS
  Actors <- MCActors
  Honest <- MCHonest
  Tokens <- MCTokens
  StateTTL = 1
  SessionTTL = 2
  MaxTime = 3
SPECIFICATION Spec
INVARIANTS OnlyAuthenticated
