\* Two calls at a time on two files; ordinary failures only.
CONSTANTS
  w1 = w1
  w2 = w2
  f1 = f1
  f2 = f2
  plain = plain
  default = default
  broken = broken
  None = None
  Workers = {w1, w2}
  Files = {f1, f2}
  Bodies = {plain, default, broken}
  ValidTrees <- Accepted
  Mishaps = {}
  MaxMishaps = 0
SPECIFICATION Spec
SYMMETRY Symmetry
INVARIANTS NeverReloadsBroken
PROPERTIES FailedLeavesNoTrace OkMeansLive ImplementsStore
