SPECIFICATION Spec
CONSTANTS
  c1 = c1
  c2 = c2
  q1 = q1
  q2 = q2
  r1 = r1
  r2 = r2
  w1 = w1
  Cases = {c1, c2}
  Workers = {w1}
  Requests = {q1, q2}
  Replicas = {r1, r2}
  MaxAttempts = 2
  MaxCopies = 2
  MaxFaults = 1
  FaultKinds = {"clean", "redelivery", "ambiguous", "timeout", "crash"}
  GrantedPublisher = TRUE
  Malformed = {c2}
  DurableLedger = FALSE
  CommitBeforeDelivery = FALSE
SYMMETRY Symmetry
CHECK_DEADLOCK FALSE
INVARIANTS
  TypeOK
  CompletedHasEffect
  ExecutionAuthorised
  ExecutionMatchesReview
  StatusHonest
PROPERTIES
  ImplementsProtocol
