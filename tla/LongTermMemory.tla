--------------------------- MODULE LongTermMemory ---------------------------
(***************************************************************************)
(* MemoryManager of src/memory/store.py on a store of records              *)
(* (src/memory/cosmos.py, or PostgresStore), within one namespace: the     *)
(* memories of one kind of one subject.  A commit reads the newest version *)
(* of its key page by page and puts the next one; nothing makes the two    *)
(* one step.  Readers page in the same way.  forget and purge_expired      *)
(* search for a batch and delete it record by record until a search finds  *)
(* nothing.  A call that raises stays as far as it was.                    *)
(*                                                                         *)
(* written, opened and raced are history: no code keeps them.              *)
(***************************************************************************)
EXTENDS Naturals, FiniteSets

CONSTANTS
  Keys,         \* logical keys
  Clients,      \* each makes one call at a time
  NoRecord,     \* None
  PageSize,     \* the limit of a search
  Retentions,   \* retention periods of a write
  MaxRecords,   \* bound on the records ever put
  MaxTime       \* bound on the clock

ASSUME LimitsAssumption ==
  /\ PageSize \in Nat \ {0}
  /\ Retentions \subseteq Nat \ {0}
  /\ MaxRecords \in Nat
  /\ MaxTime \in Nat

VARIABLES
  store,     \* the records
  now,       \* the clock
  call,      \* what each client is doing
  written,   \* every record ever put
  raced      \* keys on which two commits overlapped, or a delete met a paging

vars == <<store, now, call, written, raced>>

-----------------------------------------------------------------------------
Records ==
  [id: 1..MaxRecords, key: Keys, version: 1..MaxRecords, supersedes: 0..MaxRecords,
   expires: Nat]

ASSUME NoRecordAssumption == NoRecord \notin Records

Calls == {"none", "commit", "recall", "forget", "purge"}
Places == {"resting", "paging", "read", "deleting", "found", "forgotten"}

(* at: "paging" and "read" belong to _latest_version, "deleting" to forget *)
(* and purge_expired; "found" and "forgotten" are what a caller has been   *)
(* told.  since is when a recall or a purge began, opened what had been    *)
(* put when a recall or a forget began.                                    *)
CallStates ==
  [op: Calls, key: Keys \cup {NoRecord}, at: Places, offset: Nat,
   latest: Records \cup {NoRecord}, batch: SUBSET Records,
   opened: SUBSET Records, since: 0..MaxTime]

Resting ==
  [op |-> "none", key |-> NoRecord, at |-> "resting", offset |-> 0,
   latest |-> NoRecord, batch |-> {}, opened |-> {}, since |-> 0]

TypeOK ==
  /\ store \subseteq Records
  /\ written \subseteq Records
  /\ now \in 0..MaxTime
  /\ call \in [Clients -> CallStates]
  /\ raced \subseteq Keys

Init ==
  /\ store = {} /\ written = {} /\ raced = {}
  /\ now = 0
  /\ call = [c \in Clients |-> Resting]

-----------------------------------------------------------------------------
Expired(r) == r.expires <= now
Of(key) == {r \in store: r.key = key}

At(c, where) == call[c].at = where
Pages(c) == At(c, "paging") \/ At(c, "read")

(* A page of a search: the store lists records in the order of their       *)
(* creation, and an offset counts what is there now.                       *)
Rank(r) == Cardinality({s \in Of(r.key): s.id <= r.id})
Page(key, offset) == {r \in Of(key): offset < Rank(r) /\ Rank(r) <= offset + PageSize}

(* What _latest_version holds after a page: a later record replaces it     *)
(* only with a greater version.                                            *)
Newest(latest, page) ==
  LET seen == page \cup ({latest} \ {NoRecord})
  IN IF seen = {} THEN NoRecord
     ELSE CHOOSE r \in seen:
            \A s \in seen: s.version < r.version \/ (s.version = r.version /\ r.id <= s.id)

Start(c, op, key, where) ==
  call' = [call EXCEPT ![c] =
             [op |-> op, key |-> key, at |-> where, offset |-> 0, latest |-> NoRecord,
              batch |-> {},
              opened |-> IF op \in {"recall", "forget"} THEN written ELSE {},
              since |-> IF op \in {"recall", "purge"} THEN now ELSE 0]]

End(c) == call' = [call EXCEPT ![c] = Resting]
Tell(c, what) == call' = [call EXCEPT ![c].at = what]

Overlaps(key) ==
  \E d \in Clients: Pages(d) /\ call[d].op = "commit" /\ call[d].key = key

-----------------------------------------------------------------------------
(* commit, after the checks of the write.                                  *)
BeginCommit(c, key) ==
  /\ At(c, "resting")
  /\ Start(c, "commit", key, "paging")
  /\ raced' = IF Overlaps(key) THEN raced \cup {key} ELSE raced
  /\ UNCHANGED <<store, now, written>>

(* recall: a search by meaning hits some records; one that has not expired *)
(* makes it read the newest version of its key.                            *)
BeginRecall(c, key) ==
  /\ At(c, "resting")
  /\ \E hit \in Of(key): ~Expired(hit)
  /\ Start(c, "recall", key, "paging")
  /\ UNCHANGED <<store, now, written, raced>>

(* presentation_preferences, of one of its keys.                           *)
BeginPreference(c, key) ==
  /\ At(c, "resting")
  /\ Start(c, "recall", key, "paging")
  /\ UNCHANGED <<store, now, written, raced>>

(* Mutant: the first page is taken for the whole.                          *)
FirstPageOnly(c) ==
  /\ At(c, "paging")
  /\ call' = [call EXCEPT ![c].latest = Newest(@, Page(call[c].key, 0)),
                          ![c].at = "read"]
  /\ UNCHANGED <<store, now, written, raced>>

(* _latest_version: one search, until one finds nothing.                   *)
ReadPage(c) ==
  /\ At(c, "paging")
  /\ LET page == Page(call[c].key, call[c].offset)
     IN call' = [call EXCEPT
                   ![c].latest = Newest(@, page),
                   ![c].offset = @ + Cardinality(page),
                   ![c].at = IF page = {} THEN "read" ELSE "paging"]
  /\ UNCHANGED <<store, now, written, raced>>

(* Mutant: the first version of a key is 0.                                *)
NextRecordFromZero(c, retention) ==
  [id |-> Cardinality(written) + 1,
   key |-> call[c].key,
   version |-> IF call[c].latest = NoRecord THEN 0 ELSE call[c].latest.version + 1,
   supersedes |-> IF call[c].latest = NoRecord THEN 0 ELSE call[c].latest.id,
   expires |-> now + retention]

NextRecord(c, retention) ==
  LET latest == call[c].latest
  IN [id |-> Cardinality(written) + 1,
      key |-> call[c].key,
      version |-> IF latest = NoRecord THEN 1 ELSE latest.version + 1,
      supersedes |-> IF latest = NoRecord THEN 0 ELSE latest.id,
      expires |-> now + retention]

PutRecord(c) ==
  /\ At(c, "read") /\ call[c].op = "commit"
  /\ Cardinality(written) < MaxRecords
  /\ \E retention \in Retentions:
       /\ store' = store \cup {NextRecord(c, retention)}
       /\ written' = written \cup {NextRecord(c, retention)}
  /\ End(c)
  /\ UNCHANGED <<now, raced>>

(* Mutant: a reader does not look at the expiry of what it returns.        *)
ReturnUnchecked(c) ==
  /\ At(c, "read") /\ call[c].op = "recall"
  /\ IF call[c].latest = NoRecord THEN End(c) ELSE Tell(c, "found")
  /\ UNCHANGED <<store, now, written, raced>>

(* A reader returns the newest version, or nothing when that has expired.  *)
Return(c) ==
  /\ At(c, "read") /\ call[c].op = "recall"
  /\ LET latest == call[c].latest
     IN IF latest = NoRecord \/ Expired(latest) THEN End(c) ELSE Tell(c, "found")
  /\ UNCHANGED <<store, now, written, raced>>

-----------------------------------------------------------------------------
BeginForget(c, key) ==
  /\ At(c, "resting")
  /\ Start(c, "forget", key, "deleting")
  /\ UNCHANGED <<store, now, written, raced>>

BeginPurge(c) ==
  /\ At(c, "resting")
  /\ Start(c, "purge", NoRecord, "deleting")
  /\ UNCHANGED <<store, now, written, raced>>

(* Mutant: purge deletes every version of a key of which one has expired.  *)
DueWithKey(c) ==
  IF call[c].op = "forget" THEN Of(call[c].key)
  ELSE {r \in store: \E s \in Of(r.key): s.expires <= call[c].since}

(* What the filter of a delete loop matches: a key, or an expiry before    *)
(* the call.                                                               *)
Due(c) ==
  IF call[c].op = "forget" THEN Of(call[c].key)
  ELSE {r \in store: r.expires <= call[c].since}

DeletionDone(c) == IF call[c].op = "forget" THEN Tell(c, "forgotten") ELSE End(c)

(* Mutant: one batch is searched.                                          *)
SearchOnce(c) ==
  /\ At(c, "deleting") /\ call[c].batch = {}
  /\ IF call[c].offset = 1 \/ Due(c) = {} THEN DeletionDone(c)
     ELSE \E batch \in (SUBSET Due(c)) \ {{}}:
            /\ Cardinality(batch) <= PageSize
            /\ call' = [call EXCEPT ![c].batch = batch, ![c].offset = 1]
  /\ UNCHANGED <<store, now, written, raced>>

(* The next batch, in any order; an empty one ends the call.               *)
SearchDue(c) ==
  /\ At(c, "deleting") /\ call[c].batch = {}
  /\ \/ Due(c) = {} /\ DeletionDone(c)
     \/ \E batch \in (SUBSET Due(c)) \ {{}}:
          /\ Cardinality(batch) <= PageSize
          /\ call' = [call EXCEPT ![c].batch = batch]
  /\ UNCHANGED <<store, now, written, raced>>

(* A record that is gone already is no error.                              *)
DeleteNext(c) ==
  /\ At(c, "deleting")
  /\ \E r \in call[c].batch:
       /\ store' = store \ {r}
       /\ call' = [call EXCEPT ![c].batch = @ \ {r}]
       /\ raced' = IF r \in store /\ \E d \in Clients: Pages(d) /\ call[d].key = r.key
                   THEN raced \cup {r.key} ELSE raced
  /\ UNCHANGED <<now, written>>

-----------------------------------------------------------------------------
(* The store raises; what was deleted stays deleted.                       *)
CallRaises(c) ==
  /\ Pages(c) \/ At(c, "deleting")
  /\ End(c)
  /\ UNCHANGED <<store, now, written, raced>>

Rest(c) ==
  /\ At(c, "found") \/ At(c, "forgotten")
  /\ End(c)
  /\ UNCHANGED <<store, now, written, raced>>

Tick ==
  /\ now < MaxTime
  /\ now' = now + 1
  /\ UNCHANGED <<store, call, written, raced>>

Next ==
  \/ \E c \in Clients, key \in Keys:
       BeginCommit(c, key) \/ BeginRecall(c, key) \/ BeginPreference(c, key)
       \/ BeginForget(c, key)
  \/ \E c \in Clients:
       \/ ReadPage(c) \/ PutRecord(c) \/ Return(c) \/ BeginPurge(c)
       \/ SearchDue(c) \/ DeleteNext(c) \/ CallRaises(c) \/ Rest(c)
  \/ Tick

Spec == Init /\ [][Next]_vars

-----------------------------------------------------------------------------
(* Two versions of a key in the store have different numbers, unless two   *)
(* commits overlapped or a delete shifted the pages of one: the store      *)
(* itself excludes neither.                                                *)
VersionsDistinct ==
  \A r, s \in store:
    r.key = s.key /\ r.version = s.version /\ r.key \notin raced => r = s

(* What a reader found was valid after it asked, and nothing newer that    *)
(* had been put before it asked is still stored: superseded text comes     *)
(* back only when the text that superseded it was purged or forgotten.     *)
FoundIsNewest ==
  \A c \in Clients: At(c, "found") =>
    LET found == call[c].latest
    IN /\ found.expires > call[c].since
       /\ found.key \notin raced =>
            \A r \in call[c].opened:
              r.key = found.key /\ r.id > found.id => r \notin store

(* When forget has returned, nothing that had been put before it began is  *)
(* left of its key, whatever was committed or purged meanwhile.            *)
ForgetErases ==
  \A c \in Clients: At(c, "forgotten") =>
    \A r \in call[c].opened: r.key = call[c].key => r \notin store

(* A record leaves the store when it has expired or its key is being       *)
(* forgotten, never because a newer version was put.                       *)
KeptUntilDue ==
  [][\A r \in store \ store':
       Expired(r) \/ \E c \in Clients: At(c, "deleting") /\ call[c].op = "forget"
                                       /\ call[c].key = r.key]_vars

=============================================================================
