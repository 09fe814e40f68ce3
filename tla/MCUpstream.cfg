SPECIFICATION MCSpec
CONSTANTS
  Servers = 3
  Timeout = 2
  Grace = 1
  Span = 4
  Attempts = 2
  Strategies = {"race", "round_robin"}
  FAILURE_THRESHOLD = 3
  Exchanges = {e1, e2, e3}
  HasBootstrap = TRUE
  q1 = q1
  q2 = q2
  q3 = q3
  k1 = k1
  k2 = k2
  NoConn = NoConn
  Callers = {q1, q2, q3}
  Conns = {k1, k2}
  Limit = 1
INVARIANTS WaitBounded FairTurns BestReplyStands ParkedInTime NobodyStranded RefsHeld
PROPERTY FailureNeverRevives
