SPECIFICATION FairSpec
CONSTANTS
  Configs <- DefaultConfig
  EarlyReturn = TRUE
  MaxOps = 2
  MaxServed = 1
  MaxRuns = 1
PROPERTY SigintEndsRun
