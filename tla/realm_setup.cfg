SPECIFICATION FairSpec
CONSTANTS
  r1 = r1
  r2 = r2
  Runs <- TwoRuns
  MaxTries = 2
  MaxStarts = 3
  MaxFaults = 2
INVARIANT TypeOK
INVARIANT TokensFitTheirTool
INVARIANT CeilingHolds
INVARIANT DoneIsUsable
PROPERTY RerunCompletes
CHECK_DEADLOCK FALSE
