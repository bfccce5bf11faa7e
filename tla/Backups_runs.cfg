\* One repository, a schedule, one backup.run and the pass.
CONSTANTS
  k1 = k1
  panel = panel
  tenant = tenant
  c1 = c1
  Pass = Pass
  None = None
  Repos = {k1}
  MaxScheds = 1
  Scopes = {panel, tenant}
  Callers = {c1}
  MaxSlots = 2
  MaxManual = 1
  MaxMishaps = 1
SPECIFICATION FairSpec
CHECK_DEADLOCK FALSE
INVARIANTS TypeOK SnapshotsAccounted ScopeRestorable OneRunPerSlot
PROPERTIES SlotServed
