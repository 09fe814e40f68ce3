SPECIFICATION SeriesSpec
CONSTANTS
  Ticks = 4
  DownAt = 1
  UpAt = 3
INVARIANT MissedIsNoBaseline
CHECK_DEADLOCK FALSE
