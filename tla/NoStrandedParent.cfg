CONSTANTS
  h1 = h1
  h2 = h2
  w1 = w1
  w2 = w2
  i1 = i1
  r1 = r1
  r2 = r2
  r3 = r3
  c1 = c1
  c2 = c2
  c3 = c3
  Humans = {h1, h2}
  Workers = {}
  Assigners = {h1}
  Items = {i1}
  Rosters <- NoRosters
  RunIds = {}
  Claims = {}
  MaxTasks = 3
  MaxRevision = 4
  MaxDeps = 0
  MaxChildren = 2
  MaxFailures = 1
  NoUser = NoUser
  NoItem = NoItem
  NoRun = NoRun
  NoClaim = NoClaim
  MaxEdits = 7
  MaxDirect = 0
SPECIFICATION Spec
CONSTRAINT WithinBounds
INVARIANT NoStrandedParent
CHECK_DEADLOCK FALSE
