SPECIFICATION FairSpec
CONSTANTS
  c1 = c1
  q1 = q1
  q2 = q2
  r1 = r1
  w1 = w1
  w2 = w2
  Cases = {c1}
  Workers = {w1, w2}
  Requests = {q1, q2}
  Replicas = {r1}
  MaxAttempts = 2
  MaxCopies = 2
  MaxFaults = 2
  FaultKinds = {"clean"}
  GrantedPublisher = TRUE
  Malformed = {}
  DurableLedger = TRUE
  CommitBeforeDelivery = TRUE
CHECK_DEADLOCK FALSE
PROPERTIES
  AlertsSettle
  RequestsEnd
