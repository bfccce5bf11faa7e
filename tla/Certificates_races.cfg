\* An operator and the renewal pass issue for one site, with a crash.
CONSTANTS
  s1 = s1
  admin = admin
  sched = sched
  Sites = {s1}
  Operators = {admin}
  Scheduler = sched
  MayWildcard = TRUE
  Certified = TRUE
  MaxRows = 3
  MaxCrashes = 1
SPECIFICATION Spec
CHECK_DEADLOCK FALSE
INVARIANTS OneActive NeverForgotten RehearsalNotServed
PROPERTIES HeldRowsWait
