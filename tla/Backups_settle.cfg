\* One repository and one backup.run; the agent dies at most once.
CONSTANTS
  k1 = k1
  panel = panel
  tenant = tenant
  c1 = c1
  Pass = Pass
  None = None
  Repos = {k1}
  MaxScheds = 1
  Scopes = {panel, tenant}
  Callers = {c1}
  MaxSlots = 1
  MaxManual = 1
  MaxMishaps = 1
SPECIFICATION FairSpec
CHECK_DEADLOCK FALSE
PROPERTIES RunsSettle
