\* Two calls and the Sentinel pass around one address and two ports.
CONSTANTS
  a1 = a1
  ssh = ssh
  panel = panel
  c1 = c1
  c2 = c2
  Tick = Tick
  None = None
  Addrs = {a1}
  Protected = {}
  Ports = {ssh, panel}
  Ssh = ssh
  Web = {}
  Panel = panel
  Refused = {}
  Own <- MCOwn
  Callers = {c1, c2}
  MaxBans = 2
  MaxRules = 4
  MaxCalls = 3
  MaxMishaps = 1
SPECIFICATION FairSpec
CHECK_DEADLOCK FALSE
INVARIANTS TypeOK OneSentence PanelReachable
PROPERTIES BansEnd
