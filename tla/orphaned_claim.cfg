SPECIFICATION Spec
CONSTANTS
  c1 = c1
  r1 = r1
  w1 = w1
  Cases = {c1}
  Workers = {w1}
  Requests = {}
  Replicas = {r1}
  MaxAttempts = 2
  MaxCopies = 1
  MaxFaults = 1
  FaultKinds = {"crash"}
  GrantedPublisher = TRUE
  Malformed = {}
  DurableLedger = TRUE
  CommitBeforeDelivery = FALSE
SYMMETRY Symmetry
CHECK_DEADLOCK FALSE
PROPERTIES
  AckAfterEffect
