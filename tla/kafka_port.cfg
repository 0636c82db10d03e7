SPECIFICATION FairSpec
CONSTANTS
  Last = 3
  Binding = "kafka"
  MaxFaults = 3
CHECK_DEADLOCK FALSE
INVARIANTS
  TypeOK
PROPERTIES
  ImplementsPort
  EveryRecordSettles
