SPECIFICATION ForwardingSpec
CONSTANTS
  q1 = q1
  q2 = q2
  q3 = q3
  k1 = k1
  k2 = k2
  None = None
  Queries <- MCQueries
  Keys <- MCKeys
  CountedQueries <- MCCounted
  Ceiling = 1
  INFLIGHT_SLOTS = 3
  INFLIGHT_PROBE = 2
  u1 = u1
  u2 = u2
  u3 = u3
  Limit = 4
  RaceQueries <- MCRaceQueries
  Members <- MCMembers
  NoMember = NoMember
INVARIANTS FrameOutlivesFollowers FlightSound LegsCounted ErrorMeansAllFailed
PROPERTY WaitsEnd
