\* Two clients share the memory of one key; three versions are put while the
\* clock runs, over a page of one record each.
SPECIFICATION Spec
CONSTANTS
  Keys = {k}
  Clients = {c1, c2}
  NoRecord = NoRecord
  PageSize = 1
  Retentions = {1, 2}
  MaxRecords = 3
  MaxTime = 2
SYMMETRY Symmetry
INVARIANTS
  TypeOK
  VersionsDistinct
  FoundIsNewest
  ForgetErases
PROPERTY KeptUntilDue
CHECK_DEADLOCK FALSE
