SPECIFICATION Spec
CONSTANTS
  home = home  other = other
  r1 = r1  r2 = r2
  words = words
  Sites = {home, other}
  Rows = {r1, r2}
  Cols = {words}
  Order <- MCOrder
  Limit = 2
  MaxCommits <- MCCommits
  MaxStops = 1
  MaxSwitches = 1
  Sentinel = Sentinel
  NoSite = NoSite
INVARIANTS
  CursorIsTrue
  NeverStuck
PROPERTIES
  WholeWhenFinished
  CatchesUp
CHECK_DEADLOCK FALSE
