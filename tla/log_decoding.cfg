SPECIFICATION Spec
CONSTANTS
  Last = 2
  Binding = "kafka"
  MaxFaults = 0
CHECK_DEADLOCK FALSE
INVARIANTS
  ValidNotDeadLettered
