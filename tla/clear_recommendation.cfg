SPECIFICATION Spec
CONSTANTS
  c1 = c1
  q1 = q1
  r1 = r1
  w1 = w1
  Cases = {c1}
  Workers = {w1}
  Requests = {q1}
  Replicas = {r1}
  MaxAttempts = 2
  MaxCopies = 2
  MaxFaults = 0
  FaultKinds = {}
  GrantedPublisher = TRUE
  Malformed = {}
  DurableLedger = TRUE
  CommitBeforeDelivery = TRUE
SYMMETRY Symmetry
CHECK_DEADLOCK FALSE
INVARIANTS
  ReviewedNotDeadLettered
