\* Two audits, the second of which may be a targeted recheck of some rows of the
\* first, under fairness.
SPECIFICATION FairSpec
CONSTANTS
  NApps = 2
  FirstSource = "device"
  MaxSession = 2
  MaxRechecks = 1
  MaxPauses = 1
  Faults = {"before rows", "after rows"}
INVARIANTS RunInv
PROPERTIES ImplementsRuns RechecksHold StopEnds NeverStuck
