\* Every pool of up to four chunks, every golden set, scores with ties and
\* with the threshold between them.
SPECIFICATION Spec
CONSTANTS
  c1 = c1
  c2 = c2
  c3 = c3
  c4 = c4
  f1 = f1
  f2 = f2
  f3 = f3
  Chunks = {c1, c2, c3, c4}
  Names = {f1, f2, f3}
  NameOf <- NamesOf
  K = 3
  FetchK = 4
  Scores = {1, 2, 3}
  Threshold = 2
  Discount <- LogDiscount
INVARIANTS
  TypeOK
  ScoresConsistent
  PerfectIsFirst
  RerankKeepsBest
CHECK_DEADLOCK FALSE
