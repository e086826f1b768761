\* A full audit and a targeted recheck: StopIsAuthoritative does not hold.
SPECIFICATION Spec
CONSTANTS
  NApps = 2
  FirstSource = "device"
  MaxSession = 2
  MaxRechecks = 1
  MaxPauses = 0
  Faults = {}
INVARIANTS StopIsAuthoritative
