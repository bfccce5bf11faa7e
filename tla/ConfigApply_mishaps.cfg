\* Everything else that may go wrong, twice, around two calls on one file.
CONSTANTS
  w1 = w1
  w2 = w2
  f1 = f1
  f2 = f2
  plain = plain
  default = default
  broken = broken
  None = None
  Workers = {w1, w2}
  Files = {f1}
  Bodies = {plain}
  ValidTrees <- Accepted
  Mishaps = {"crash", "edit", "lost", "half", "record", "outside"}
  MaxMishaps = 2
SPECIFICATION FairSpec
PROPERTIES DriftNeedsConsent EveryCallReturns
