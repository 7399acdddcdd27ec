SPECIFICATION Spec
CONSTANTS
  r1 = r1
  r2 = r2
  Runs = {r1, r2}
  MaxClaims = 2
  MaxTries = 3
  MaxFailures = 2
  MaxFaults = 2
  NoRun = NoRun
  NoClaim = NoClaim
INVARIANTS
  TypeOK
  AnsweredMeansDone
  FailuresCounted
PROPERTIES
  ResultsStand
  SessionKeepsNewest
  ImplementsLeasedWork
CHECK_DEADLOCK FALSE
