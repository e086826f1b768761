\* Two apps, one of which is updated, and one new generation or cleared cache; every
\* bound is met.
SPECIFICATION FairSpec
CONSTANTS
  Keys <- TwoAppsOneUpdated
  p1 = p1
  p2 = p2
  MaxPending = 2
  MaxActive = 1
  MaxCache = 1
  MaxDisk = 1
  MaxGeneration = 1
  MaxChecks = 1
INVARIANTS ClearedStaysClear WorkIsReported
PROPERTIES RequestsSettle
\* Nothing is left to do once every icon is there or failed.
CHECK_DEADLOCK FALSE
