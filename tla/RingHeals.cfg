SPECIFICATION FairSpec
CONSTANTS
  N = 3
  Limit <- Survivable
  Timely = FALSE
INVARIANT TypeOK
INVARIANT LeaderIsLowestAlive
INVARIANT LeaderHasNoElection
INVARIANT OneMonitor
PROPERTY EveryServerServed
