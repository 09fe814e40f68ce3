SPECIFICATION SyncSpec
CONSTANTS
  t1 = t1
  t2 = t2
  t3 = t3
  Threads <- MCThreads
  STRIPES = 2
  NoThread = NoThread
  f1 = f1
  f2 = f2
  f3 = f3
  f4 = f4
  SemaFibers <- MCSemaFibers
  LockFibers <- MCLockFibers
  MaxPosts = 4
  c1 = c1
  c2 = c2
  k1 = k1
  k2 = k2
  x1 = x1
  x2 = x2
  Clients <- MCClients
  Keys <- MCKeys
  Refreshes <- MCRefreshes
  None = None
  Ceiling = 2
  MaxPending = 2
  MaxOthers = 1
INVARIANTS LockSound PostsConserved NoLostWake RefsExact StaleOnlyForCause
PROPERTY WaitersServed
