\* Two callers, of any kind, over an agent that dies once, or a connection
\* that one of its ends gives up once; any connection may be read from no more.
CONSTANTS
  c1 = c1
  c2 = c2
  None = None
  Callers = {c1, c2}
  Idempotent = {c1, c2}
  OutboxCap = 1
  MaxMishaps = 1
SPECIFICATION FairSpec
CHECK_DEADLOCK FALSE
INVARIANTS OneRunPerLife WaitersAreKnown EntriesOwned
PROPERTIES CallReturns
