\* Two tasks, retries and agent restarts; no output is written.
CONSTANTS
  t1 = t1
  t2 = t2
  c1 = c1
  plan = plan
  mta = mta
  None = None
  Tasks = {t1, t2}
  Conns = {c1}
  Ops = {plan, mta}
  Cancellable = {plan}
  MtaInstall = mta
  BusCapacity = 1
  MaxLines = 0
  MaxCrashes = 1
  MaxFaults = 0
SPECIFICATION Spec
SYMMETRY Symmetry
CHECK_DEADLOCK FALSE
INVARIANTS OneAutoMigration
