\* Two turns of one conversation, overlapping or not, beside another process
\* that appends to the same journal; one call raises or the process dies.
SPECIFICATION Spec
CONSTANTS
  Turns = {t1, t2}
  Threads = {conversation}
  NoTurn = NoTurn
  Foreign = Foreign
  MaxMessages = 4
  TriggerMessages = 2
  KeepMessages = 1
  Profile = "cloud"
  MaxFaults = 1
SYMMETRY Symmetry
INVARIANTS
  TypeOK
  GeneratorSeesGuarded
  ContextErased
  ThreadsReopen
  JournalVerifies
PROPERTIES
  ImplementsAnswers
  NothingForgotten
CHECK_DEADLOCK FALSE
