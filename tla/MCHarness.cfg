SPECIFICATION HarnessSpec
CONSTANTS
  Clients = {c1, c2}
  DohClients = {c1}
  Sockets = {s1, s2}
  Workers = {w1, w2}
  Redialler = w1
  Conns = {c1, c2}
  Datagrams = {d1}
  RowClients = {c1, c2, c3}
  MaxAsks = 2
  MaxSent = 2
  MaxOffered = 3
  TokenCap = 1
  MaxArms = 2
  DialTokens = 2
  Filters <- MCFilters
  Ticks = 4
  DownAt = 1
  UpAt = 3
  FieldLists <- MCFieldLists
  Inherited <- MCInherited
  MaxLines = 4
  Octets = {0, 1, 2, 192}
  MaxBody = 7
  Labels <- MCLabels
  MaxLabels = 2
INVARIANTS LoadCounted ServersOwn FiguresSettled OutageWasOne ArmLeavesNothing
  HeldWhileRead SectionsSound SeriesRight EnvAsShipped WalksAgree
PROPERTY HarnessEnds
CHECK_DEADLOCK FALSE
