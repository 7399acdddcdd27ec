SPECIFICATION FairSpec
CONSTANTS
  r1 = r1
  r2 = r2
  Runs = {r1}
  MaxClaims = 4
  MaxTries = 2
  MaxFailures = 2
  MaxFaults = 2
  NoRun = NoRun
  NoClaim = NoClaim
PROPERTY RunsEnd
CHECK_DEADLOCK FALSE
