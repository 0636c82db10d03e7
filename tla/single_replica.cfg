SPECIFICATION Spec
CONSTANTS
  c1 = c1
  q1 = q1
  q2 = q2
  r1 = r1
  w1 = w1
  w2 = w2
  Cases = {c1}
  Workers = {w1, w2}
  Requests = {q1, q2}
  Replicas = {r1}
  MaxAttempts = 2
  MaxCopies = 2
  MaxFaults = 1
  FaultKinds = {"clean", "redelivery", "ambiguous", "timeout", "crash"}
  GrantedPublisher = TRUE
  Malformed = {}
  DurableLedger = TRUE
  CommitBeforeDelivery = FALSE
SYMMETRY Symmetry
CHECK_DEADLOCK FALSE
INVARIANTS
  RejectedNotExecuted
  OneActionOrdered
  ClaimExclusive
  NoEventLost
PROPERTIES
  TakenCaseAdvances
