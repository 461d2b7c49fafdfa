SPECIFICATION Spec
CONSTANTS
  Configs <- DefaultConfig
  EarlyReturn = FALSE
  MaxOps = 2
  MaxServed = 1
  MaxRuns = 1
PROPERTY NoRequestBeforeStartup
