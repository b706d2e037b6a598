\* A tile and three loads of the chart share two slots.
SPECIFICATION FairSpec
CONSTANTS
  s1 = s1
  s2 = s2
  Servers <- MCServers
  Tiles <- MCTiles
  LIMIT = 2
  MaxHistory = 3
  MaxLoads = 3
INVARIANTS
  TypeOK SlotsAreHeld ShownIsCurrent
PROPERTIES
  RefreshNeverGoesBack LoadsSettle
\* A page nobody touches stops when all its loads have ended.
CHECK_DEADLOCK FALSE
