\* A slow pass that may hang, a quick job, two stops, a crash and a fault.
CONSTANTS
  backup = backup
  sentinel = sentinel
  Jobs = {backup, sentinel}
  Slow = {backup}
  MaxStops = 2
  MaxCrashes = 1
  MaxFaults = 1
SPECIFICATION FairSpec
CHECK_DEADLOCK FALSE
INVARIANTS OnePassPerJob AtMostOneExtraPass
PROPERTIES DueUntilRun DueJobsRun StopEnds
