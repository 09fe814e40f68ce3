SPECIFICATION FairSpec
CONSTANTS
  r1 = r1
  r2 = r2
  old = old
  new = new
  Requests <- MCOne
  Parts <- MCParts
  Rules <- MCRules
  STRIPES = 2
  MaxGen = 3
  MaxRacers = 1
  MaxDepth = 2
CHECK_DEADLOCK FALSE
PROPERTIES RetiredReleased
