SPECIFICATION MCSpec
CONSTANTS
  r1 = r1
  r2 = r2
  old = old
  new = new
  c1 = c1
  c2 = c2
  c3 = c3
  j1 = j1
  j2 = j2
  reader = reader
  accepter = accepter
  Refresh = Refresh
  Clients <- MCClients
  Jobs <- MCJobs
  client_prefix <- MCPrefix
  limit = 2
  prefix_limit = 1
  max_pending = 2
  Requests <- MCRequests
  Parts <- MCParts
  Rules <- MCRules
  STRIPES = 2
  MaxGen = 3
  MaxRacers = 1
  MaxDepth = 2
SYMMETRY Symmetry
CHECK_DEADLOCK FALSE
INVARIANTS PartsSound JudgedByOwnRules TableSound NothingClosedUnder
