SPECIFICATION AttemptsSpec
CONSTANTS
  Workers = {w1, w2}
  Redialler = w1
  TokenCap = 1
  MaxOffered = 3
INVARIANT ClosedByServer
CHECK_DEADLOCK FALSE
