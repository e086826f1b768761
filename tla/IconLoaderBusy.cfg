\* The busy state once all icon work is over: BusySettles does not hold.
SPECIFICATION FairSpec
CONSTANTS
  Keys <- TwoAppsOneUpdated
  p1 = p1
  p2 = p2
  MaxPending = 2
  MaxActive = 1
  MaxCache = 1
  MaxDisk = 1
  MaxGeneration = 1
  MaxChecks = 1
PROPERTIES BusySettles
\* Nothing is left to do once every icon is there or failed.
CHECK_DEADLOCK FALSE
