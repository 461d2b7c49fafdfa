SPECIFICATION FairSpec
CONSTANTS
  Configs <- AllConfigs
  EarlyReturn = TRUE
  MaxOps = 2
  MaxServed = 1
  MaxRuns = 2
INVARIANTS TypeOK UniLoopScheduledOnce CompletedAppsAreShutDown FailedStartupAborts FuturesResolveOnce
PROPERTIES ShutdownIsWaitedFor StartupEnds SigintEndsRunOfStayers
