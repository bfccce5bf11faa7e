\* One task watched by one viewer, with a crash and a failed write.
CONSTANTS
  t1 = t1
  c1 = c1
  plan = plan
  mta = mta
  None = None
  Tasks = {t1}
  Conns = {c1}
  Ops = {plan, mta}
  Cancellable = {plan}
  MtaInstall = mta
  BusCapacity = 2
  MaxLines = 2
  MaxCrashes = 1
  MaxFaults = 1
SPECIFICATION FairSpec
CHECK_DEADLOCK FALSE
INVARIANTS NoOrphanRow RecordComplete StreamBehindRecord
PROPERTIES TerminalIsFinal LogSealed TaskTerminates ImplementsLedger
