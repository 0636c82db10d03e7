\* Two processes ingest the changing documents of two files; any call may
\* fail, and a source may be deleted, at every moment.
SPECIFICATION Spec
CONSTANTS
  a = a
  b = b
  Sources = {s1, s2}
  Chunks = {a, b}
  Documents <- SomeDocuments
  Processes = {p1, p2}
SYMMETRY Symmetry
INVARIANTS
  TypeOK
  SyncedIsRecorded
  StoresAgree
PROPERTY NeverEmptied
CHECK_DEADLOCK FALSE
