---------------------------- MODULE ContextCache ----------------------------
(***************************************************************************)
(* The cache of retrieved documents, src/memory/cache.py: bodies live      *)
(* under a random handle, in the scope of a thread, until they are deleted *)
(* or their time to live ends.  A turn stores once, so its handle is the   *)
(* turn itself.                                                            *)
(***************************************************************************)
EXTENDS RagIdentity

VARIABLE cache   \* what is stored under each handle

(* What the retriever found: nothing, documents, or documents of which     *)
(* one carries an attack.                                                  *)
Contexts == {"none", "clean", "poisoned"}

NoEntry == [thread |-> NoTurn, docs |-> "none"]
Entries == [thread: Threads, docs: Contexts]

CacheTypeOK == cache \in [Turns -> Entries \cup {NoEntry}]
CacheInit == cache = [t \in Turns |-> NoEntry]

(* get: present, unexpired, and stored for this thread.                    *)
Holds(h, th) == h # NoTurn /\ cache[h] # NoEntry /\ cache[h].thread = th

(* Mutant: thread and handle are swapped in the entry.                     *)
PutSwapped(t, th, docs) == cache' = [cache EXCEPT ![t] = [thread |-> t, docs |-> docs]]

(* Mutant: one entry per thread, shared by all its turns.                  *)
PutPerThread(t, th, docs) ==
  cache' = [u \in Turns |-> IF u = t \/ cache[u].thread = th
                            THEN [thread |-> th, docs |-> docs] ELSE cache[u]]

Put(t, th, docs) == cache' = [cache EXCEPT ![t] = [thread |-> th, docs |-> docs]]

(* delete: in Redis of a key that may be gone; in memory it raises         *)
(* ContextUnavailable then, which cleanup_context suppresses.              *)
Delete(h, th) == cache' = IF Holds(h, th) THEN [cache EXCEPT ![h] = NoEntry] ELSE cache

Expire(h) ==
  /\ cache[h] # NoEntry
  /\ cache' = [cache EXCEPT ![h] = NoEntry]

=============================================================================
