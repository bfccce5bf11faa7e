\* Two rows of one hook in one batch, with operators, a crash and a failed write.
CONSTANTS
  h1 = h1
  e1 = e1
  None = None
  Hooks = {h1}
  Emitters = {e1}
  MaxAttempts = 2
  Threshold = 3
  Batch = 2
  MaxRows = 2
  MaxEdits = 1
  MaxMishaps = 1
SPECIFICATION FairSpec
CHECK_DEADLOCK FALSE
INVARIANTS AttemptsBounded DeadEndpointRests
PROPERTIES FinishedStaysFinished QueueDrains
