\* A full audit and a targeted recheck: OnlySuccessIsSaved does not hold.
SPECIFICATION Spec
CONSTANTS
  NApps = 2
  FirstSource = "device"
  MaxSession = 2
  MaxRechecks = 1
  MaxPauses = 0
  Faults = {}
INVARIANTS OnlySuccessIsSaved
