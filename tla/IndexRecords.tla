---------------------------- MODULE IndexRecords ----------------------------
(***************************************************************************)
(* Ingestion of documents: scripts/ingest.py over HybridIndexer of         *)
(* src/rag/indexers.py.  A file is loaded, cut into chunks, and synced     *)
(* batch by batch by LangChain's index(cleanup="incremental"), which keeps *)
(* two stores: the rows that a search can find, and the records of a       *)
(* record manager, which decide what is embedded and what is deleted.  The *)
(* stores share no transaction.                                            *)
(*                                                                         *)
(* A chunk stands for its text with its metadata, of which the record's    *)
(* key is the hash.  A document is the sequence of its batches.  torn and  *)
(* raced are history: no code keeps them.                                  *)
(***************************************************************************)
EXTENDS Naturals, Sequences

CONSTANTS
  Sources,     \* the files, by the path they are ingested under
  Chunks,
  Documents,   \* what loading and chunking a file may produce
  Processes    \* each runs the ingestion script

ASSUME DocumentsAssumption == Documents \subseteq Seq((SUBSET Chunks) \ {{}})

VARIABLES
  rows,      \* the table of chunks with their vectors
  records,   \* the keys of the record manager
  ingest,    \* the file each process is at
  torn,      \* entries on which an interrupted call left the two apart
  raced      \* sources that two calls changed at a time

vars == <<rows, records, ingest, torn, raced>>

-----------------------------------------------------------------------------
Entries == Sources \X Chunks
EntriesOf(s) == {s} \X Chunks

Places == {"checking", "adding", "recording", "cleaning", "forgetting", "synced"}

(* missing: the chunks of the batch to embed and add.  stale: the records  *)
(* of the source whose time is before the start of the call.  victims: the *)
(* records whose rows have just been deleted.                              *)
Ingests ==
  [at: Places, source: Sources, doc: Documents, batch: Nat \ {0},
   missing: SUBSET Entries, stale: SUBSET Entries, victims: SUBSET Entries]
Resting == [at |-> "resting"]

TypeOK ==
  /\ rows \subseteq Entries
  /\ records \subseteq Entries
  /\ ingest \in [Processes -> Ingests \cup {Resting}]
  /\ torn \subseteq Entries
  /\ raced \subseteq Sources
  /\ \A p \in Processes:
       ingest[p].at # "resting" => ingest[p].batch \in DOMAIN ingest[p].doc

Init ==
  /\ rows = {} /\ records = {} /\ torn = {} /\ raced = {}
  /\ ingest = [p \in Processes |-> Resting]

-----------------------------------------------------------------------------
Running(p) == ingest[p].at # "resting"
At(p, where) == ingest[p].at = where
Works(p, s) == Running(p) /\ ingest[p].source = s

(* Mutant: a file without content is not skipped.                          *)
LoadedAny == Documents

(* A file without content is skipped, with the chunks it had in the index. *)
Loaded == Documents \ {<<>>}

Chunked(doc) == UNION {doc[i]: i \in DOMAIN doc}
Batch(p) == {ingest[p].source} \X ingest[p].doc[ingest[p].batch]

Goes(p, where) == [ingest EXCEPT ![p].at = where]

(* The time of a record that is written is no longer before any call.      *)
Refreshed(next, entries) ==
  [q \in Processes |-> IF next[q].at = "resting" THEN next[q]
                       ELSE [next[q] EXCEPT !.stale = @ \ entries]]

(* Mutant: cleanup=None.                                                   *)
CleanableNone(s) == {}

(* Mutant: the cleanup is not limited to a source.                         *)
CleanableAll(s) == Entries

(* cleanup="incremental" with the source of the chunks as its scope: what  *)
(* a sync of s may take from the index.                                    *)
Cleanable(s) == EntriesOf(s)

(* Mutant: a request that meets the rate limit at every attempt yields no  *)
(* vectors.                                                                *)
EmbeddedInPart(p) == IF ingest[p].batch = 1 THEN ingest[p].missing ELSE {}

(* RateLimitedEmbeddings: a vector for every text, or an exception.        *)
Embedded(p) == ingest[p].missing

-----------------------------------------------------------------------------
(* ingest_file, up to the call of add_documents.                           *)
BeginIngest(p, s) ==
  /\ ~Running(p)
  /\ \E doc \in Loaded:
       ingest' = [ingest EXCEPT ![p] =
                    [at |-> "checking", source |-> s, doc |-> doc, batch |-> 1,
                     missing |-> {}, stale |-> records \cap Cleanable(s), victims |-> {}]]
  /\ raced' = IF \E q \in Processes: Works(q, s) THEN raced \cup {s} ELSE raced
  /\ UNCHANGED <<rows, records, torn>>

(* index: chunks whose keys the record manager has are not embedded again, *)
(* their time is refreshed.                                                *)
CheckBatch(p) ==
  /\ At(p, "checking")
  /\ ingest' = Refreshed([ingest EXCEPT ![p].at = "adding",
                                        ![p].missing = Batch(p) \ records],
                         Batch(p) \cap records)
  /\ UNCHANGED <<rows, records, torn, raced>>

(* Rows first: a write that fails leaves no key behind ...                 *)
AddRows(p) ==
  /\ At(p, "adding")
  /\ rows' = rows \cup Embedded(p)
  /\ ingest' = Goes(p, "recording")
  /\ UNCHANGED <<records, torn, raced>>

(* ... and only then the records, all of the batch.                        *)
RecordBatch(p) ==
  /\ At(p, "recording")
  /\ records' = records \cup Batch(p)
  /\ ingest' = Refreshed([ingest EXCEPT ![p].at = "cleaning", ![p].missing = {}], Batch(p))
  /\ torn' = torn \ ingest[p].missing
  /\ UNCHANGED <<rows, raced>>

(* The records of the source that this call has not refreshed.             *)
Outdated(p) == records \cap ingest[p].stale

More(p) == ingest[p].batch < Len(ingest[p].doc)

(* The cleanup after a batch: rows of outdated records are deleted ...     *)
CleanRows(p) ==
  /\ At(p, "cleaning")
  /\ Outdated(p) # {}
  /\ rows' = rows \ Outdated(p)
  /\ ingest' = [ingest EXCEPT ![p].at = "forgetting", ![p].victims = Outdated(p)]
  /\ UNCHANGED <<records, torn, raced>>

(* ... then the records, until there are none.                             *)
ForgetRecords(p) ==
  /\ At(p, "forgetting")
  /\ records' = records \ ingest[p].victims
  /\ torn' = torn \ ingest[p].victims
  /\ ingest' = [ingest EXCEPT ![p].at = "cleaning", ![p].victims = {}]
  /\ UNCHANGED <<rows, raced>>

NextBatch(p) ==
  /\ At(p, "cleaning")
  /\ Outdated(p) = {}
  /\ ingest' = IF More(p)
               THEN [ingest EXCEPT ![p].at = "checking", ![p].batch = @ + 1]
               ELSE Goes(p, "synced")
  /\ UNCHANGED <<rows, records, torn, raced>>

EndIngest(p) ==
  /\ At(p, "synced")
  /\ ingest' = [ingest EXCEPT ![p] = Resting]
  /\ UNCHANGED <<rows, records, torn, raced>>

-----------------------------------------------------------------------------
(* A call of the sync raises, or the process dies: run_ingestion goes on   *)
(* with the next file, what was written stays.                             *)
IngestFails(p) ==
  /\ Running(p) /\ ~At(p, "synced")
  /\ \E part \in SUBSET ingest[p].missing:
       /\ rows' = IF At(p, "adding") THEN rows \cup part ELSE rows
       /\ torn' = torn \cup (CASE At(p, "adding") -> part
                               [] At(p, "recording") -> ingest[p].missing
                               [] At(p, "forgetting") -> ingest[p].victims
                               [] OTHER -> {})
  /\ ingest' = [ingest EXCEPT ![p] = Resting]
  /\ UNCHANGED <<records, raced>>

(* delete_by_source: of the rows, not of the records.                      *)
DeleteBySource(s) ==
  /\ rows' = rows \ EntriesOf(s)
  /\ torn' = (torn \ EntriesOf(s)) \cup (records \cap EntriesOf(s))
  /\ raced' = IF \E p \in Processes: Works(p, s) THEN raced \cup {s} ELSE raced
  /\ UNCHANGED <<records, ingest>>

Next ==
  \/ \E p \in Processes, s \in Sources: BeginIngest(p, s)
  \/ \E p \in Processes:
       \/ CheckBatch(p) \/ AddRows(p) \/ RecordBatch(p) \/ CleanRows(p)
       \/ ForgetRecords(p) \/ NextBatch(p) \/ EndIngest(p) \/ IngestFails(p)
  \/ \E s \in Sources: DeleteBySource(s)

Spec == Init /\ [][Next]_vars

-----------------------------------------------------------------------------
(* When a file has been synced, the record manager holds the chunks of     *)
(* this document and no others, whatever failed calls left before and      *)
(* whatever happens to other files meanwhile.                              *)
SyncedIsRecorded ==
  \A p \in Processes: At(p, "synced") /\ ingest[p].source \notin raced =>
    records \cap EntriesOf(ingest[p].source) = {ingest[p].source} \X Chunked(ingest[p].doc)

(* A chunk can be found exactly when it is recorded, but for what a call   *)
(* is just writing, what an interrupted call left, and what                *)
(* delete_by_source took: such a chunk is skipped by every later ingest,   *)
(* or stays in the index after it has left its document.                   *)
InFlight(e) ==
  \E p \in Processes:
    \/ At(p, "recording") /\ e \in ingest[p].missing
    \/ At(p, "forgetting") /\ e \in ingest[p].victims
StoresAgree ==
  \A e \in Entries: e[1] \notin raced /\ e \notin torn /\ ~InFlight(e) =>
    (e \in rows <=> e \in records)

(* A document never disappears from the search while it, or another, is    *)
(* being updated, unless it is deleted or a call was interrupted: the      *)
(* cleanup takes what this call has not refreshed, of its own source.      *)
Torn(s) == torn \cap EntriesOf(s) # {}
NeverEmptied ==
  [][\A s \in Sources \ raced':
       rows \cap EntriesOf(s) # {} /\ ~Torn(s) /\ ~Torn(s)' => rows' \cap EntriesOf(s) # {}]_vars

=============================================================================
