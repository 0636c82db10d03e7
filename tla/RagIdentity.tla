---------------------------- MODULE RagIdentity ----------------------------
(***************************************************************************)
(* Who takes part in the question-answering application: the turns         *)
(* (RAGAgent.invoke, one per request id) and the checkpointed threads they *)
(* belong to (src/graph/thread_identity.py hashes tenant, subject and      *)
(* thread id into one, so that two scopes never share a thread).           *)
(***************************************************************************)
CONSTANTS
  Turns,
  Threads,
  NoTurn,    \* "none" where a turn is expected: no handle, no predecessor
  Foreign    \* a writer of the evidence journal in another process

ASSUME IdentityAssumption ==
  /\ NoTurn \notin Turns
  /\ Foreign \notin Turns
  /\ Foreign # NoTurn
  /\ NoTurn \notin Threads

=============================================================================
