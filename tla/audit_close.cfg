\* Two callers record two events each through a queue of two while the
\* application is closed; the sink raises or the process dies, once or twice.
SPECIFICATION FairSpec
CONSTANTS
  Callers = {a, b}
  MaxRecords = 2
  MaxQueue = 2
  None = None
  MaxFaults = 2
INVARIANTS
  TypeOK
  CloseFlushes
  NothingVanishes
PROPERTY CloseReturns
CHECK_DEADLOCK FALSE
