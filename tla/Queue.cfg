CONSTANTS
  h1 = h1
  h2 = h2
  w1 = w1
  w2 = w2
  i1 = i1
  r1 = r1
  r2 = r2
  r3 = r3
  c1 = c1
  c2 = c2
  c3 = c3
  Humans = {h1}
  Workers = {w1}
  Assigners = {h1}
  Items = {i1}
  Rosters <- NoRosters
  RunIds = {r1, r2, r3}
  Claims = {c1, c2}
  MaxTasks = 2
  MaxRevision = 2
  MaxDeps = 1
  MaxChildren = 0
  MaxFailures = 1
  NoUser = NoUser
  NoItem = NoItem
  NoRun = NoRun
  NoClaim = NoClaim
  MaxEdits = 3
  MaxDirect = 1
SPECIFICATION Spec
CONSTRAINT WithinBounds
SYMMETRY RunSymmetry
INVARIANTS OneClaimPerWorker ClaimedRunIsCurrent
CHECK_DEADLOCK FALSE
