------------------------- MODULE IndexRecords_proofs -------------------------
(***************************************************************************)
(* The ingestion of documents, for every set of files, documents and       *)
(* processes: what is recorded when a file has been synced, when the two   *)
(* stores agree, and that an update never empties a file.                  *)
(***************************************************************************)
EXTENDS IndexRecords, TLAPS

-----------------------------------------------------------------------------
(* Which batches a process has behind it.                                  *)
Passed == {"cleaning", "forgetting", "synced"}
Behind(p, k) ==
  k < ingest[p].batch \/ (k = ingest[p].batch /\ ingest[p].at \in Passed)

Own(p, e) == e[1] = ingest[p].source
InBatch(p, e) == Own(p, e) /\ e[2] \in ingest[p].doc[ingest[p].batch]
Covered(p, e) ==
  Own(p, e) /\ \E k \in DOMAIN ingest[p].doc: Behind(p, k) /\ e[2] \in ingest[p].doc[k]

(* A call only ever handles entries of its own source.                     *)
Owned(p) ==
  \A e \in Entries:
    e \in ingest[p].missing \/ e \in ingest[p].stale \/ e \in ingest[p].victims => Own(p, e)

(* What is known of an entry of the source, as long as no other call       *)
(* changes it: what is behind is recorded for good; what is recorded is    *)
(* outdated, behind or being checked; the two stores differ only where     *)
(* this call is between the two.                                           *)
EntryFits(p, e) ==
  LET i == ingest[p]
  IN /\ Covered(p, e) => e \in records /\ e \notin i.stale
     /\ e \in records => \/ e \in i.stale \/ Covered(p, e)
                         \/ i.at \in {"adding", "recording"} /\ InBatch(p, e)
     /\ i.at \in {"adding", "recording"} =>
          (e \in i.missing <=> InBatch(p, e) /\ e \notin records)
     /\ i.at = "recording" /\ e \in i.missing => e \in rows
     /\ i.at = "forgetting" /\ e \in i.victims => e \notin rows /\ e \in i.stale
     /\ i.at = "synced" => ~(e \in records /\ e \in i.stale)

CallFits(p) ==
  Running(p) =>
    /\ Owned(p)
    /\ ingest[p].source \notin raced =>
         /\ \A e \in Entries: Own(p, e) => EntryFits(p, e)
         /\ \A q \in Processes: Works(q, ingest[p].source) => q = p
    /\ At(p, "synced") => ingest[p].batch = Len(ingest[p].doc)

IndexInv == TypeOK /\ (\A p \in Processes: CallFits(p)) /\ StoresAgree

-----------------------------------------------------------------------------
LEMMA CallType ==
  ASSUME TypeOK, NEW p \in Processes, Running(p)
  PROVE  LET i == ingest[p]
         IN /\ i \in Ingests /\ i.source \in Sources /\ i.doc \in Documents
            /\ i.at \in Places
            /\ i.doc \in Seq((SUBSET Chunks) \ {{}})
            /\ i.batch \in 1..Len(i.doc) /\ i.batch \in Nat /\ Len(i.doc) \in Nat
            /\ i.doc[i.batch] \in SUBSET Chunks /\ i.doc[i.batch] # {}
            /\ i.missing \subseteq Entries /\ i.stale \subseteq Entries
            /\ i.victims \subseteq Entries
PROOF
  <1>. DEFINE i == ingest[p]
  <1>1. i \in Ingests
    BY DEF TypeOK, Running, Resting
  <1>2. i.doc \in Seq((SUBSET Chunks) \ {{}}) /\ i.batch \in DOMAIN i.doc
    BY <1>1, DocumentsAssumption DEF TypeOK, Running, Ingests
  <1>3. DOMAIN i.doc = 1..Len(i.doc) /\ Len(i.doc) \in Nat
    BY <1>2
  <1>4. i.doc[i.batch] \in (SUBSET Chunks) \ {{}}
    BY <1>2, <1>3
  <1>. QED
    BY <1>1, <1>2, <1>3, <1>4 DEF Ingests

LEMMA BatchEntries ==
  ASSUME TypeOK, NEW p \in Processes, Running(p)
  PROVE  /\ Batch(p) \subseteq Entries
         /\ \A e \in Entries: e \in Batch(p) <=> InBatch(p, e)
         /\ \A e \in Entries: e \in EntriesOf(ingest[p].source) <=> Own(p, e)
         /\ EntriesOf(ingest[p].source) \subseteq Entries
PROOF
  <1>. DEFINE s == ingest[p].source
              D == ingest[p].doc[ingest[p].batch]
  <1>1. s \in Sources /\ D \in SUBSET Chunks
    BY CallType
  <1>. HIDE DEF s, D
  <1>2. /\ {s} \X D \subseteq Entries
        /\ \A e \in Entries: e \in {s} \X D <=> e[1] = s /\ e[2] \in D
    BY <1>1 DEF Entries
  <1>3. /\ {s} \X Chunks \subseteq Entries
        /\ \A e \in Entries: e \in {s} \X Chunks <=> e[1] = s
    BY <1>1 DEF Entries
  <1>. QED
    BY <1>2, <1>3 DEF Batch, InBatch, Own, EntriesOf, s, D

-----------------------------------------------------------------------------
(* What a step of one call leaves alone: entries of other sources, and     *)
(* other calls, but for the times of entries of its source.                *)
Unmoved(q, s) ==
  LET i == ingest[q]
      j == ingest'[q]
  IN /\ j.at = i.at
     /\ i.at # "resting" =>
          /\ j.source = i.source /\ j.doc = i.doc /\ j.batch = i.batch
          /\ j.missing = i.missing /\ j.victims = i.victims /\ j.stale \subseteq i.stale
          /\ \A e \in Entries: e[1] # s => (e \in j.stale <=> e \in i.stale)

CallSteps(p) ==
  LET s == ingest[p].source
  IN /\ Running(p) /\ TypeOK' /\ raced' = raced
     /\ \A q \in Processes \ {p}: Unmoved(q, s)
     /\ \A e \in Entries: e[1] # s =>
          /\ e \in rows' <=> e \in rows
          /\ e \in records' <=> e \in records
          /\ e \in torn' <=> e \in torn
     /\ Running(p)' => ingest'[p].source = s /\ Owned(p)'

Flying(p, e) ==
  \/ At(p, "recording") /\ e \in ingest[p].missing
  \/ At(p, "forgetting") /\ e \in ingest[p].victims

OwnAgree(p) ==
  \A e \in Entries:
    Own(p, e) /\ ingest[p].source \notin raced /\ e \notin torn' /\ ~Flying(p, e)'
      => (e \in rows' <=> e \in records')

(* A call whose source no other touches keeps what is known of it.         *)
LEMMA OtherFits ==
  ASSUME NEW q \in Processes, NEW s, CallFits(q), Running(q), Unmoved(q, s),
         ingest[q].source \notin raced' =>
           ingest[q].source \notin raced \cup {s},
         \A e \in Entries: e[1] # s =>
           (e \in rows' <=> e \in rows) /\ (e \in records' <=> e \in records),
         ingest[q].source \notin raced' =>
           \A r \in Processes: Works(r, ingest[q].source)' => r = q
  PROVE  CallFits(q)'
PROOF
  <1>1. /\ ingest'[q].source = ingest[q].source /\ ingest'[q].doc = ingest[q].doc
        /\ ingest'[q].batch = ingest[q].batch /\ ingest'[q].at = ingest[q].at
        /\ ingest'[q].missing = ingest[q].missing /\ ingest'[q].victims = ingest[q].victims
    BY DEF Unmoved, Running
  <1>2. /\ \A e: Own(q, e)' <=> Own(q, e)
        /\ \A e: InBatch(q, e)' <=> InBatch(q, e)
        /\ \A e: Covered(q, e)' <=> Covered(q, e)
    BY <1>1 DEF Own, InBatch, Covered, Behind
  <1>3. Owned(q)'
    BY <1>1, <1>2 DEF Owned, CallFits, Unmoved, Running
  <1>4. ASSUME ingest[q].source \notin raced', NEW e \in Entries, Own(q, e)
        PROVE  EntryFits(q, e)'
    <2>1. e[1] # s /\ EntryFits(q, e)
      BY <1>4 DEF CallFits, Own
    <2>2. e \in ingest'[q].stale <=> e \in ingest[q].stale
      BY <2>1 DEF Unmoved, Running
    <2>. QED
      BY <1>1, <1>2, <2>1, <2>2 DEF EntryFits
  <1>. QED
    BY <1>1, <1>2, <1>3, <1>4 DEF CallFits, Running, At

(* A step of one call keeps the invariant, if it keeps its own part of it. *)
LEMMA StepKept ==
  ASSUME IndexInv, NEW p \in Processes, CallSteps(p), CallFits(p)', OwnAgree(p)
  PROVE  IndexInv'
PROOF
  <1>. DEFINE s == ingest[p].source
  <1>1. ASSUME NEW q \in Processes
        PROVE  CallFits(q)'
    <2>1. CASE q = p
      BY <2>1
    <2>2. CASE q # p /\ Running(q)
      <3>1. CallFits(q) /\ Unmoved(q, s) /\ Running(p)
        BY <2>2 DEF IndexInv, CallSteps
      <3>2. ingest[q].source \notin raced => ingest[q].source # s
        BY <2>2, <3>1 DEF CallFits, Works
      <3>3. ASSUME ingest[q].source \notin raced, NEW r \in Processes,
                   Works(r, ingest[q].source)'
            PROVE  r = q
        <4>0. ingest'[q].source = ingest[q].source
          BY <2>2, <3>1 DEF Unmoved, Running
        <4>1. r # p
          BY <3>2, <3>3, <4>0 DEF Works, CallSteps
        <4>2. Unmoved(r, s)
          BY <4>1 DEF CallSteps
        <4>3. Works(r, ingest[q].source)
          BY <3>3, <4>0, <4>2 DEF Works, Unmoved, Running
        <4>. QED
          BY <2>2, <3>1, <3>3, <4>3 DEF CallFits
      <3>4. raced' = raced
            /\ \A e \in Entries: e[1] # s =>
                 (e \in rows' <=> e \in rows) /\ (e \in records' <=> e \in records)
        BY DEF CallSteps
      <3>. QED
        BY <2>2, <3>1, <3>2, <3>3, <3>4, OtherFits
    <2>3. CASE q # p /\ ~Running(q)
      BY <2>3 DEF CallSteps, Unmoved, CallFits, Running
    <2>. QED
      BY <2>1, <2>2, <2>3
  <1>2. ASSUME NEW e \in Entries, e[1] \notin raced', e \notin torn', ~InFlight(e)'
        PROVE  e \in rows' <=> e \in records'
    <2>1. CASE Own(p, e)
      BY <1>2, <2>1 DEF OwnAgree, Own, CallSteps, InFlight, Flying
    <2>2. CASE ~Own(p, e)
      <3>1. ASSUME NEW q \in Processes, Flying(q, e)
            PROVE  Flying(q, e)'
        <4>1. q # p
          BY <2>2, <3>1 DEF IndexInv, CallFits, CallSteps, Owned, Flying, At
        <4>. QED
          BY <3>1, <4>1 DEF CallSteps, Unmoved, Flying, At
      <3>2. ~InFlight(e)
        BY <1>2, <3>1 DEF InFlight, Flying
      <3>. QED
        BY <1>2, <2>2, <3>2 DEF IndexInv, StoresAgree, CallSteps, Own
    <2>. QED
      BY <2>1, <2>2
  <1>3. StoresAgree'
    BY <1>2 DEF StoresAgree, Entries
  <1>. QED
    BY <1>1, <1>3 DEF IndexInv, CallSteps

(* The only call on a source is the one that may be between its stores.    *)
LEMMA OwnStores ==
  ASSUME IndexInv, NEW p \in Processes, Running(p), ingest[p].source \notin raced,
         NEW e \in Entries, Own(p, e)
  PROVE  /\ EntryFits(p, e)
         /\ e \notin torn /\ ~Flying(p, e) => (e \in rows <=> e \in records)
PROOF
  <1>1. \A q \in Processes: Flying(q, e) => q = p
    BY DEF IndexInv, CallFits, Owned, Flying, At, Running, Works, Own
  <1>2. InFlight(e) => Flying(p, e)
    BY <1>1 DEF InFlight, Flying
  <1>. QED
    BY <1>2 DEF IndexInv, CallFits, StoresAgree, Own

-----------------------------------------------------------------------------
(* What is to be shown of a step is about the entries of its own source.   *)
LEMMA StepFits ==
  ASSUME IndexInv, NEW p \in Processes, CallSteps(p),
         Running(p)' => (At(p, "synced")' => ingest'[p].batch = Len(ingest'[p].doc)),
         \A e \in Entries:
           Own(p, e) /\ ingest[p].source \notin raced =>
             /\ Running(p)' => EntryFits(p, e)'
             /\ e \notin torn' /\ ~Flying(p, e)' => (e \in rows' <=> e \in records')
  PROVE  IndexInv'
PROOF
  <1>1. OwnAgree(p)
    BY DEF OwnAgree
  <1>2. CASE Running(p)'
    <2>1. ASSUME ingest[p].source \notin raced, NEW q \in Processes, Running(q)',
                 ingest'[q].source = ingest[p].source
          PROVE  q = p
      BY <2>1 DEF IndexInv, CallFits, CallSteps, Unmoved, Works, Running
    <2>2. ingest'[p].source = ingest[p].source /\ Owned(p)' /\ raced' = raced
      BY <1>2 DEF CallSteps
    <2>3. CallFits(p)'
      BY <1>2, <2>1, <2>2 DEF CallFits, Works, Own
    <2>. QED
      BY <1>1, <2>3, StepKept
  <1>3. CASE ~Running(p)'
    BY <1>1, <1>3, StepKept DEF CallFits, Running
  <1>. QED
    BY <1>2, <1>3

(* A step that writes the state of its own call only.                      *)
LEMMA PlainSteps ==
  ASSUME IndexInv, NEW p \in Processes, Running(p), NEW new \in Ingests \cup {Resting},
         ingest' = [ingest EXCEPT ![p] = new], raced' = raced,
         rows' \subseteq Entries, records' \subseteq Entries, torn' \subseteq Entries,
         \A e \in Entries: e[1] # ingest[p].source =>
           /\ e \in rows' <=> e \in rows
           /\ e \in records' <=> e \in records
           /\ e \in torn' <=> e \in torn,
         new.at # "resting" =>
           /\ new.source = ingest[p].source /\ new.batch \in DOMAIN new.doc
           /\ \A e \in Entries: e \in new.missing \/ e \in new.stale \/ e \in new.victims
                => e[1] = ingest[p].source
  PROVE  CallSteps(p) /\ ingest'[p] = new
PROOF
  <1>1. ingest'[p] = new /\ \A q \in Processes \ {p}: ingest'[q] = ingest[q]
    BY DEF IndexInv, TypeOK
  <1>2. TypeOK'
    BY <1>1 DEF IndexInv, TypeOK
  <1>3. \A q \in Processes \ {p}: Unmoved(q, ingest[p].source)
    BY <1>1 DEF Unmoved
  <1>. QED
    BY <1>1, <1>2, <1>3 DEF CallSteps, Owned, Own, Running

(* A step that refreshes times of its own source as well.                  *)
LEMMA RefreshSteps ==
  ASSUME IndexInv, NEW p \in Processes, Running(p), NEW new \in Ingests,
         new.at # "resting", NEW entries,
         \A e \in entries: e \in Entries /\ e[1] = ingest[p].source,
         ingest' = Refreshed([ingest EXCEPT ![p] = new], entries),
         raced' = raced,
         rows' \subseteq Entries, records' \subseteq Entries, torn' \subseteq Entries,
         \A e \in Entries: e[1] # ingest[p].source =>
           /\ e \in rows' <=> e \in rows
           /\ e \in records' <=> e \in records
           /\ e \in torn' <=> e \in torn,
         new.source = ingest[p].source, new.batch \in DOMAIN new.doc,
         \A e \in Entries: e \in new.missing \/ e \in new.stale \/ e \in new.victims
           => e[1] = ingest[p].source
  PROVE  /\ CallSteps(p)
         /\ LET j == ingest'[p]
            IN /\ j.at = new.at /\ j.source = new.source /\ j.doc = new.doc
               /\ j.batch = new.batch /\ j.missing = new.missing
               /\ j.victims = new.victims /\ j.stale = new.stale \ entries
PROOF
  <1>. DEFINE next == [ingest EXCEPT ![p] = new]
              fresh(i) == [i EXCEPT !.stale = i.stale \ entries]
  <1>1. next \in [Processes -> Ingests \cup {Resting}] /\ next[p] = new
        /\ \A q \in Processes \ {p}: next[q] = ingest[q]
    BY DEF IndexInv, TypeOK
  <1>2. \A i \in Ingests: /\ fresh(i) \in Ingests /\ fresh(i).at = i.at
                          /\ fresh(i).source = i.source /\ fresh(i).doc = i.doc
                          /\ fresh(i).batch = i.batch /\ fresh(i).missing = i.missing
                          /\ fresh(i).victims = i.victims
                          /\ fresh(i).stale = i.stale \ entries
    BY DEF Ingests
  <1>3. \A q \in Processes:
          ingest'[q] = IF next[q].at = "resting" THEN next[q] ELSE fresh(next[q])
    BY DEF Refreshed
  <1>. HIDE DEF next, fresh
  <1>4. \A q \in Processes: next[q].at # "resting" => next[q] \in Ingests
    BY <1>1 DEF Resting
  <1>5. ingest'[p] = fresh(new) /\ fresh(new) \in Ingests
    BY <1>1, <1>2, <1>3
  <1>6. ASSUME NEW q \in Processes \ {p}
        PROVE  /\ ingest'[q] \in Ingests \cup {Resting} /\ Unmoved(q, ingest[p].source)
               /\ ingest'[q].at # "resting" => ingest'[q].batch \in DOMAIN ingest'[q].doc
    <2>1. CASE ingest[q].at = "resting"
      <3>1. ingest'[q] = ingest[q]
        BY <1>1, <1>3, <2>1
      <3>. QED
        BY <2>1, <3>1 DEF Unmoved, IndexInv, TypeOK
    <2>2. CASE ingest[q].at # "resting"
      <3>1. ingest[q] \in Ingests /\ ingest'[q] = fresh(ingest[q])
        BY <1>1, <1>3, <1>4, <2>2
      <3>2. ingest[q].batch \in DOMAIN ingest[q].doc
        BY <2>2 DEF IndexInv, TypeOK
      <3>. DEFINE j == ingest'[q]
      <3>3. /\ j \in Ingests /\ j.at = ingest[q].at
            /\ j.source = ingest[q].source /\ j.doc = ingest[q].doc
            /\ j.batch = ingest[q].batch /\ j.missing = ingest[q].missing
            /\ j.victims = ingest[q].victims /\ j.stale = ingest[q].stale \ entries
        BY <1>2, <3>1
      <3>4. \A e \in Entries: e[1] # ingest[p].source => e \notin entries
        OBVIOUS
      <3>. HIDE DEF j
      <3>5. j.batch \in DOMAIN j.doc
        BY <3>2, <3>3
      <3>6. \A e \in Entries: e[1] # ingest[p].source => (e \in j.stale <=> e \in ingest[q].stale)
        BY <3>3, <3>4
      <3>. QED
        BY <3>3, <3>5, <3>6 DEF Unmoved, j
    <2>. QED
      BY <2>1, <2>2
  <1>7. ingest' \in [Processes -> Ingests \cup {Resting}]
    <2>1. ingest' = [q \in Processes |-> ingest'[q]]
      BY DEF Refreshed
    <2>. QED
      BY <1>5, <1>6, <2>1
  <1>8. TypeOK'
    <2>0. ingest'[p].batch = new.batch /\ ingest'[p].doc = new.doc
      BY <1>2, <1>5
    <2>1. ASSUME NEW q \in Processes, ingest'[q].at # "resting"
          PROVE  ingest'[q].batch \in DOMAIN ingest'[q].doc
      <3>1. CASE q = p
        BY <2>0, <3>1
      <3>2. CASE q # p
        BY <1>6, <2>1, <3>2
      <3>. QED
        BY <3>1, <3>2
    <2>. QED
      BY <1>7, <2>1 DEF IndexInv, TypeOK
  <1>. QED
    BY <1>2, <1>5, <1>6, <1>8 DEF CallSteps, Owned, Own, Running

(* What EntryFits depends on, in the next state.                           *)
LEMMA SameDocument ==
  ASSUME NEW p \in Processes, ingest'[p].source = ingest[p].source,
         ingest'[p].doc = ingest[p].doc, ingest'[p].batch = ingest[p].batch
  PROVE  /\ \A e: Own(p, e)' <=> Own(p, e)
         /\ \A e: InBatch(p, e)' <=> InBatch(p, e)
         /\ ingest[p].at \notin Passed /\ ingest'[p].at \notin Passed
              => \A e: Covered(p, e)' <=> Covered(p, e)
         /\ ingest[p].at \in Passed /\ ingest'[p].at \in Passed
              => \A e: Covered(p, e)' <=> Covered(p, e)
PROOF
  BY DEF Own, InBatch, Covered, Behind

-----------------------------------------------------------------------------
(* One lemma for each step of a call.                                      *)

(* The batch is compared with the records of the source at this moment.    *)
LEMMA CheckBatchKeeps ==
  ASSUME IndexInv, NEW p \in Processes, CheckBatch(p)
  PROVE  IndexInv'
PROOF
  <1>. DEFINE i == ingest[p]
              missing == Batch(p) \ records
              first == [i EXCEPT !.at = "adding"]
              new == [first EXCEPT !.missing = missing]
  <1>1. Running(p) /\ TypeOK /\ CallFits(p) /\ i.at = "checking"
    BY DEF CheckBatch, At, Running, IndexInv
  <1>2. /\ Batch(p) \subseteq Entries
        /\ \A e \in Entries: e \in Batch(p) <=> InBatch(p, e)
    BY <1>1, BatchEntries
  <1>3. /\ i \in Ingests /\ i.batch \in DOMAIN i.doc
    BY <1>1, CallType DEF TypeOK, Running
  <1>4. ingest' = Refreshed([ingest EXCEPT ![p] = new], Batch(p) \cap records)
    BY DEF CheckBatch, IndexInv, TypeOK
  <1>5. missing \subseteq Entries
    BY <1>2
  <1>. HIDE DEF missing
  <1>6. /\ new \in Ingests /\ new.at = "adding" /\ new.missing = missing
        /\ new.source = i.source /\ new.doc = i.doc /\ new.batch = i.batch
        /\ new.stale = i.stale /\ new.victims = i.victims
    BY <1>3, <1>5 DEF Ingests, Places
  <1>. HIDE DEF new
  <1>7. \A e \in Entries: e \in missing <=> InBatch(p, e) /\ e \notin records
    BY <1>2 DEF missing
  <1>8. rows' = rows /\ records' = records /\ torn' = torn /\ raced' = raced
        /\ rows \subseteq Entries /\ records \subseteq Entries /\ torn \subseteq Entries
    BY <1>1 DEF CheckBatch, TypeOK
  <1>9. \A e \in Entries: e \in new.missing \/ e \in new.stale \/ e \in new.victims
          => e[1] = i.source
    BY <1>1, <1>6, <1>7 DEF CallFits, Owned, Own, InBatch
  <1>10. \A e \in Batch(p) \cap records: e \in Entries /\ e[1] = i.source
    BY <1>2 DEF InBatch, Own
  <1>11. /\ CallSteps(p)
         /\ LET j == ingest'[p]
            IN /\ j.at = "adding" /\ j.source = i.source /\ j.doc = i.doc
               /\ j.batch = i.batch /\ j.missing = missing
               /\ j.victims = i.victims /\ j.stale = i.stale \ (Batch(p) \cap records)
    <2>. DEFINE entries == Batch(p) \cap records
    <2>1. /\ rows' \subseteq Entries /\ records' \subseteq Entries /\ torn' \subseteq Entries
          /\ \A e \in Entries: e[1] # ingest[p].source =>
               /\ e \in rows' <=> e \in rows
               /\ e \in records' <=> e \in records
               /\ e \in torn' <=> e \in torn
      BY <1>8
    <2>2. new.at # "resting" /\ new.source = ingest[p].source /\ new.batch \in DOMAIN new.doc
      BY <1>3, <1>6
    <2>3. /\ \A e \in entries: e \in Entries /\ e[1] = ingest[p].source
          /\ ingest' = Refreshed([ingest EXCEPT ![p] = new], entries)
      BY <1>4, <1>10
    <2>. HIDE DEF entries
    <2>4. /\ CallSteps(p)
          /\ LET j == ingest'[p]
             IN /\ j.at = new.at /\ j.source = new.source /\ j.doc = new.doc
                /\ j.batch = new.batch /\ j.missing = new.missing
                /\ j.victims = new.victims /\ j.stale = new.stale \ entries
      BY <1>1, <1>6, <1>8, <1>9, <2>1, <2>2, <2>3, RefreshSteps
    <2>. QED
      BY <1>6, <2>4 DEF entries
  <1>12. /\ \A e: Own(p, e)' <=> Own(p, e)
         /\ \A e: InBatch(p, e)' <=> InBatch(p, e)
         /\ \A e: Covered(p, e)' <=> Covered(p, e)
    BY <1>1, <1>11, SameDocument DEF Passed
  <1>13. ASSUME NEW e \in Entries, Own(p, e), i.source \notin raced
         PROVE  /\ EntryFits(p, e)'
                /\ e \notin torn' /\ ~Flying(p, e)' => (e \in rows' <=> e \in records')
    <2>1. EntryFits(p, e) /\ (e \notin torn => (e \in rows <=> e \in records))
      BY <1>1, <1>13, OwnStores DEF Flying, At
    <2>. QED
      BY <1>1, <1>2, <1>7, <1>8, <1>11, <1>12, <2>1 DEF EntryFits
  <1>. QED
    BY <1>11, <1>13, StepFits DEF At

LEMMA AddRowsKeeps ==
  ASSUME IndexInv, NEW p \in Processes, AddRows(p)
  PROVE  IndexInv'
PROOF
  <1>. DEFINE i == ingest[p]
              new == [i EXCEPT !.at = "recording"]
  <1>1. Running(p) /\ TypeOK /\ CallFits(p) /\ i.at = "adding"
    BY DEF AddRows, At, Running, IndexInv
  <1>2. i \in Ingests /\ i.batch \in DOMAIN i.doc /\ i.missing \subseteq Entries
    BY <1>1, CallType DEF TypeOK, Running
  <1>3. ingest' = [ingest EXCEPT ![p] = new]
    BY DEF AddRows, Goes
  <1>4. /\ new \in Ingests /\ new.at = "recording" /\ new.missing = i.missing
        /\ new.source = i.source /\ new.doc = i.doc /\ new.batch = i.batch
        /\ new.stale = i.stale /\ new.victims = i.victims
    BY <1>2 DEF Ingests, Places
  <1>. HIDE DEF new
  <1>5. rows' = rows \cup i.missing /\ records' = records /\ torn' = torn /\ raced' = raced
        /\ rows \subseteq Entries /\ records \subseteq Entries /\ torn \subseteq Entries
    BY <1>1 DEF AddRows, Embedded, TypeOK
  <1>6. \A e \in Entries: e \in i.missing \/ e \in i.stale \/ e \in i.victims
          => e[1] = i.source
    BY <1>1 DEF CallFits, Owned, Own
  <1>7. CallSteps(p) /\ ingest'[p] = new
    BY <1>1, <1>2, <1>3, <1>4, <1>5, <1>6, PlainSteps
  <1>8. /\ \A e: Own(p, e)' <=> Own(p, e)
        /\ \A e: InBatch(p, e)' <=> InBatch(p, e)
        /\ \A e: Covered(p, e)' <=> Covered(p, e)
    BY <1>1, <1>4, <1>7, SameDocument DEF Passed
  <1>9. ASSUME NEW e \in Entries, Own(p, e), i.source \notin raced
        PROVE  /\ EntryFits(p, e)'
               /\ e \notin torn' /\ ~Flying(p, e)' => (e \in rows' <=> e \in records')
    <2>1. EntryFits(p, e) /\ (e \notin torn => (e \in rows <=> e \in records))
      BY <1>1, <1>9, OwnStores DEF Flying, At
    <2>. QED
      BY <1>1, <1>4, <1>5, <1>7, <1>8, <2>1 DEF EntryFits, Flying, At
  <1>. QED
    BY <1>4, <1>7, <1>9, StepFits DEF At

(* The rows were there first: what is recorded can be found.               *)
LEMMA RecordBatchKeeps ==
  ASSUME IndexInv, NEW p \in Processes, RecordBatch(p)
  PROVE  IndexInv'
PROOF
  <1>. DEFINE i == ingest[p]
              first == [i EXCEPT !.at = "cleaning"]
              new == [first EXCEPT !.missing = {}]
  <1>1. Running(p) /\ TypeOK /\ CallFits(p) /\ i.at = "recording"
    BY DEF RecordBatch, At, Running, IndexInv
  <1>2. /\ Batch(p) \subseteq Entries
        /\ \A e \in Entries: e \in Batch(p) <=> InBatch(p, e)
    BY <1>1, BatchEntries
  <1>3. i \in Ingests /\ i.batch \in DOMAIN i.doc /\ i.batch \in Nat
    BY <1>1, CallType DEF TypeOK, Running
  <1>4. ingest' = Refreshed([ingest EXCEPT ![p] = new], Batch(p))
    BY DEF RecordBatch, IndexInv, TypeOK
  <1>5. /\ new \in Ingests /\ new.at = "cleaning" /\ new.missing = {}
        /\ new.source = i.source /\ new.doc = i.doc /\ new.batch = i.batch
        /\ new.stale = i.stale /\ new.victims = i.victims
    BY <1>3 DEF Ingests, Places
  <1>. HIDE DEF new
  <1>6. rows' = rows /\ records' = records \cup Batch(p) /\ torn' = torn \ i.missing
        /\ raced' = raced
        /\ rows \subseteq Entries /\ records \subseteq Entries /\ torn \subseteq Entries
    BY <1>1 DEF RecordBatch, TypeOK
  <1>7. \A e \in Entries: e \in i.missing \/ e \in i.stale \/ e \in i.victims
          => e[1] = i.source
    BY <1>1 DEF CallFits, Owned, Own
  <1>8. \A e \in Batch(p): e \in Entries /\ e[1] = i.source
    BY <1>2 DEF InBatch, Own
  <1>9. /\ CallSteps(p)
        /\ LET j == ingest'[p]
           IN /\ j.at = "cleaning" /\ j.source = i.source /\ j.doc = i.doc
              /\ j.batch = i.batch /\ j.missing = {}
              /\ j.victims = i.victims /\ j.stale = i.stale \ Batch(p)
    <2>. DEFINE entries == Batch(p)
    <2>1. /\ rows' \subseteq Entries /\ records' \subseteq Entries /\ torn' \subseteq Entries
          /\ \A e \in Entries: e[1] # ingest[p].source =>
               /\ e \in rows' <=> e \in rows
               /\ e \in records' <=> e \in records
               /\ e \in torn' <=> e \in torn
      BY <1>2, <1>6, <1>7, <1>8
    <2>2. /\ new.at # "resting" /\ new.source = ingest[p].source /\ new.batch \in DOMAIN new.doc
          /\ \A e \in Entries: e \in new.missing \/ e \in new.stale \/ e \in new.victims
               => e[1] = ingest[p].source
      BY <1>3, <1>5, <1>7
    <2>3. /\ \A e \in entries: e \in Entries /\ e[1] = ingest[p].source
          /\ ingest' = Refreshed([ingest EXCEPT ![p] = new], entries)
      BY <1>4, <1>8
    <2>4. Running(p) /\ new \in Ingests /\ raced' = raced
      BY <1>1, <1>5, <1>6
    <2>. HIDE DEF entries, i
    <2>5. /\ CallSteps(p)
          /\ LET j == ingest'[p]
             IN /\ j.at = new.at /\ j.source = new.source /\ j.doc = new.doc
                /\ j.batch = new.batch /\ j.missing = new.missing
                /\ j.victims = new.victims /\ j.stale = new.stale \ entries
      BY <2>1, <2>2, <2>3, <2>4, RefreshSteps
    <2>. QED
      BY <1>5, <2>5 DEF entries, i
  <1>10. \A e: Own(p, e)' <=> Own(p, e)
    BY <1>9, SameDocument
  <1>11. \A e: Covered(p, e)' <=> Covered(p, e) \/ InBatch(p, e)
    BY <1>1, <1>3, <1>9 DEF Covered, InBatch, Behind, Passed, Own
  <1>12. ASSUME NEW e \in Entries, Own(p, e), i.source \notin raced
         PROVE  /\ EntryFits(p, e)'
                /\ e \notin torn' /\ ~Flying(p, e)' => (e \in rows' <=> e \in records')
    <2>1. /\ EntryFits(p, e)
          /\ e \notin torn /\ e \notin i.missing => (e \in rows <=> e \in records)
      BY <1>1, <1>12, OwnStores DEF Flying, At
    <2>2. EntryFits(p, e)'
      BY <1>1, <1>2, <1>6, <1>9, <1>10, <1>11, <1>12, <2>1 DEF EntryFits
    <2>. QED
      BY <1>1, <1>2, <1>6, <1>9, <1>12, <2>1, <2>2 DEF EntryFits
  <1>. QED
    BY <1>9, <1>12, StepFits DEF At

LEMMA CleanRowsKeeps ==
  ASSUME IndexInv, NEW p \in Processes, CleanRows(p)
  PROVE  IndexInv'
PROOF
  <1>. DEFINE i == ingest[p]
              out == Outdated(p)
              first == [i EXCEPT !.at = "forgetting"]
              new == [first EXCEPT !.victims = out]
  <1>1. Running(p) /\ TypeOK /\ CallFits(p) /\ i.at = "cleaning"
    BY DEF CleanRows, At, Running, IndexInv
  <1>2. i \in Ingests /\ i.batch \in DOMAIN i.doc
    BY <1>1, CallType DEF TypeOK, Running
  <1>3. ingest' = [ingest EXCEPT ![p] = new]
    BY DEF CleanRows, IndexInv, TypeOK
  <1>4. out \subseteq Entries /\ \A e: e \in out <=> e \in records /\ e \in i.stale
    BY <1>1 DEF Outdated, TypeOK
  <1>5. rows' = rows \ out /\ records' = records /\ torn' = torn /\ raced' = raced
        /\ rows \subseteq Entries /\ records \subseteq Entries /\ torn \subseteq Entries
    BY <1>1 DEF CleanRows, TypeOK
  <1>. HIDE DEF out
  <1>6. /\ new \in Ingests /\ new.at = "forgetting" /\ new.missing = i.missing
        /\ new.source = i.source /\ new.doc = i.doc /\ new.batch = i.batch
        /\ new.stale = i.stale /\ new.victims = out
    BY <1>2, <1>4 DEF Ingests, Places
  <1>. HIDE DEF new
  <1>7. \A e \in Entries: e \in i.missing \/ e \in i.stale \/ e \in out => e[1] = i.source
    BY <1>1, <1>4 DEF CallFits, Owned, Own
  <1>8. CallSteps(p) /\ ingest'[p] = new
    BY <1>1, <1>2, <1>3, <1>5, <1>6, <1>7, PlainSteps
  <1>9. (\A e: Own(p, e)' <=> Own(p, e)) /\ (\A e: Covered(p, e)' <=> Covered(p, e))
    BY <1>1, <1>6, <1>8, SameDocument DEF Passed
  <1>10. ASSUME NEW e \in Entries, Own(p, e), i.source \notin raced
         PROVE  /\ EntryFits(p, e)'
                /\ e \notin torn' /\ ~Flying(p, e)' => (e \in rows' <=> e \in records')
    <2>1. EntryFits(p, e) /\ (e \notin torn => (e \in rows <=> e \in records))
      BY <1>1, <1>10, OwnStores DEF Flying, At
    <2>. QED
      BY <1>1, <1>4, <1>5, <1>6, <1>8, <1>9, <2>1 DEF EntryFits, Flying, At
  <1>. QED
    BY <1>6, <1>8, <1>10, StepFits DEF At

LEMMA ForgetRecordsKeeps ==
  ASSUME IndexInv, NEW p \in Processes, ForgetRecords(p)
  PROVE  IndexInv'
PROOF
  <1>. DEFINE i == ingest[p]
              first == [i EXCEPT !.at = "cleaning"]
              new == [first EXCEPT !.victims = {}]
  <1>1. Running(p) /\ TypeOK /\ CallFits(p) /\ i.at = "forgetting"
    BY DEF ForgetRecords, At, Running, IndexInv
  <1>2. i \in Ingests /\ i.batch \in DOMAIN i.doc
    BY <1>1, CallType DEF TypeOK, Running
  <1>3. ingest' = [ingest EXCEPT ![p] = new]
    BY DEF ForgetRecords, IndexInv, TypeOK
  <1>4. rows' = rows /\ records' = records \ i.victims /\ torn' = torn \ i.victims
        /\ raced' = raced
        /\ rows \subseteq Entries /\ records \subseteq Entries /\ torn \subseteq Entries
    BY <1>1 DEF ForgetRecords, TypeOK
  <1>5. /\ new \in Ingests /\ new.at = "cleaning" /\ new.missing = i.missing
        /\ new.source = i.source /\ new.doc = i.doc /\ new.batch = i.batch
        /\ new.stale = i.stale /\ new.victims = {}
    BY <1>2 DEF Ingests, Places
  <1>. HIDE DEF new
  <1>6. \A e \in Entries: e \in i.missing \/ e \in i.stale \/ e \in i.victims
          => e[1] = i.source
    BY <1>1 DEF CallFits, Owned, Own
  <1>7. CallSteps(p) /\ ingest'[p] = new
    <2>1. /\ records' \subseteq Entries /\ torn' \subseteq Entries
          /\ \A e \in Entries: e[1] # i.source =>
               (e \in records' <=> e \in records) /\ (e \in torn' <=> e \in torn)
      BY <1>4, <1>6
    <2>. QED
      BY <1>1, <1>2, <1>3, <1>4, <1>5, <1>6, <2>1, PlainSteps
  <1>8. (\A e: Own(p, e)' <=> Own(p, e)) /\ (\A e: Covered(p, e)' <=> Covered(p, e))
    BY <1>1, <1>5, <1>7, SameDocument DEF Passed
  <1>9. ASSUME NEW e \in Entries, Own(p, e), i.source \notin raced
        PROVE  /\ EntryFits(p, e)'
               /\ e \notin torn' /\ ~Flying(p, e)' => (e \in rows' <=> e \in records')
    <2>1. /\ EntryFits(p, e)
          /\ e \notin torn /\ e \notin i.victims => (e \in rows <=> e \in records)
      BY <1>1, <1>9, OwnStores DEF Flying, At
    <2>. QED
      BY <1>1, <1>4, <1>5, <1>7, <1>8, <2>1 DEF EntryFits
  <1>. QED
    BY <1>5, <1>7, <1>9, StepFits DEF At

(* The next batch begins when nothing of the source is outdated, as does   *)
(* the end of the call.                                                    *)
LEMMA NextBatchKeeps ==
  ASSUME IndexInv, NEW p \in Processes, NextBatch(p)
  PROVE  IndexInv'
PROOF
  <1>. DEFINE i == ingest[p]
              where == IF More(p) THEN "checking" ELSE "synced"
              number == IF More(p) THEN i.batch + 1 ELSE i.batch
              first == [i EXCEPT !.at = where]
              new == [first EXCEPT !.batch = number]
  <1>1. Running(p) /\ TypeOK /\ CallFits(p) /\ i.at = "cleaning"
    BY DEF NextBatch, At, Running, IndexInv
  <1>2. i \in Ingests /\ i.batch \in 1..Len(i.doc) /\ Len(i.doc) \in Nat /\ i.batch \in Nat
        /\ DOMAIN i.doc = 1..Len(i.doc)
    BY <1>1, CallType
  <1>3. ingest' = [ingest EXCEPT ![p] = new]
    <2>1. CASE More(p)
      BY <2>1 DEF NextBatch, IndexInv, TypeOK
    <2>2. CASE ~More(p)
      <3>1. first = [first EXCEPT !.batch = i.batch]
        BY <1>2 DEF Ingests
      <3>2. new = [i EXCEPT !.at = "synced"]
        BY <2>2, <3>1
      <3>. QED
        BY <2>2, <3>2 DEF NextBatch, Goes
    <2>. QED
      BY <2>1, <2>2
  <1>4. /\ where \in Places \ {"resting"}
        /\ number \in 1..Len(i.doc) /\ number \in Nat \ {0}
        /\ where = "checking" => number = i.batch + 1
        /\ where = "synced" => number = i.batch /\ i.batch = Len(i.doc)
        /\ where \in {"checking", "synced"}
    BY <1>2 DEF More, Places
  <1>. HIDE DEF where, number
  <1>5. /\ new \in Ingests /\ new.at = where /\ new.missing = i.missing
        /\ new.source = i.source /\ new.doc = i.doc /\ new.batch = number
        /\ new.stale = i.stale /\ new.victims = i.victims
    BY <1>2, <1>4 DEF Ingests
  <1>. HIDE DEF new
  <1>6. rows' = rows /\ records' = records /\ torn' = torn /\ raced' = raced
        /\ rows \subseteq Entries /\ records \subseteq Entries /\ torn \subseteq Entries
    BY <1>1 DEF NextBatch, TypeOK
  <1>7. \A e \in Entries: e \in i.missing \/ e \in i.stale \/ e \in i.victims
          => e[1] = i.source
    BY <1>1 DEF CallFits, Owned, Own
  <1>8. CallSteps(p) /\ ingest'[p] = new
    <2>1. /\ rows' \subseteq Entries /\ records' \subseteq Entries /\ torn' \subseteq Entries
          /\ \A e \in Entries: e[1] # ingest[p].source =>
               /\ e \in rows' <=> e \in rows
               /\ e \in records' <=> e \in records
               /\ e \in torn' <=> e \in torn
      BY <1>6
    <2>2. new.at # "resting" => new.source = ingest[p].source /\ new.batch \in DOMAIN new.doc
      BY <1>2, <1>4, <1>5
    <2>. QED
      BY <1>1, <1>3, <1>5, <1>6, <1>7, <2>1, <2>2, PlainSteps
  <1>9. \A e: Own(p, e)' <=> Own(p, e)
    BY <1>5, <1>8 DEF Own
  <1>10. \A k \in DOMAIN i.doc: Behind(p, k)' <=> Behind(p, k)
    BY <1>1, <1>2, <1>4, <1>5, <1>8 DEF Behind, Passed
  <1>11. \A e: Covered(p, e)' <=> Covered(p, e)
    BY <1>5, <1>8, <1>9, <1>10 DEF Covered
  <1>12. \A e \in Entries: ~(e \in records /\ e \in i.stale)
    BY DEF NextBatch, Outdated
  <1>13. ASSUME NEW e \in Entries, Own(p, e), i.source \notin raced
         PROVE  /\ EntryFits(p, e)'
                /\ e \notin torn' /\ ~Flying(p, e)' => (e \in rows' <=> e \in records')
    <2>1. EntryFits(p, e) /\ (e \notin torn => (e \in rows <=> e \in records))
      BY <1>1, <1>13, OwnStores DEF Flying, At
    <2>. QED
      BY <1>1, <1>4, <1>5, <1>6, <1>8, <1>11, <1>12, <2>1 DEF EntryFits
  <1>14. At(p, "synced")' => ingest'[p].batch = Len(ingest'[p].doc)
    BY <1>4, <1>5, <1>8 DEF At
  <1>. QED
    BY <1>8, <1>13, <1>14, StepFits

(* A call that ends leaves nothing between the stores.                     *)
LEMMA EndIngestKeeps ==
  ASSUME IndexInv, NEW p \in Processes, EndIngest(p)
  PROVE  IndexInv'
PROOF
  <1>. DEFINE i == ingest[p]
  <1>1. Running(p) /\ TypeOK /\ i.at = "synced"
    BY DEF EndIngest, At, Running, IndexInv
  <1>2. rows' = rows /\ records' = records /\ torn' = torn /\ raced' = raced
        /\ rows \subseteq Entries /\ records \subseteq Entries /\ torn \subseteq Entries
        /\ ingest' = [ingest EXCEPT ![p] = Resting] /\ Resting.at = "resting"
    BY <1>1 DEF EndIngest, TypeOK, Resting
  <1>3. CallSteps(p) /\ ingest'[p] = Resting
    BY <1>1, <1>2, PlainSteps
  <1>4. ASSUME NEW e \in Entries, Own(p, e), i.source \notin raced
        PROVE  e \notin torn' => (e \in rows' <=> e \in records')
    BY <1>1, <1>2, <1>4, OwnStores DEF Flying, At
  <1>. QED
    BY <1>2, <1>3, <1>4, StepFits DEF Running

(* What a failing call may leave apart is counted as torn.                 *)
LEMMA IngestFailsKeeps ==
  ASSUME IndexInv, NEW p \in Processes, IngestFails(p)
  PROVE  IndexInv'
PROOF
  <1>. DEFINE i == ingest[p]
  <1>1. Running(p) /\ TypeOK /\ CallFits(p)
    BY DEF IngestFails, IndexInv
  <1>2. i.missing \subseteq Entries /\ i.victims \subseteq Entries
        /\ rows \subseteq Entries /\ records \subseteq Entries /\ torn \subseteq Entries
    BY <1>1, CallType DEF TypeOK
  <1>3. PICK part \in SUBSET i.missing:
          /\ rows' = IF At(p, "adding") THEN rows \cup part ELSE rows
          /\ torn' = torn \cup (CASE At(p, "adding") -> part
                                  [] At(p, "recording") -> i.missing
                                  [] At(p, "forgetting") -> i.victims
                                  [] OTHER -> {})
    BY DEF IngestFails
  <1>4. /\ rows' = IF i.at = "adding" THEN rows \cup part ELSE rows
        /\ torn' = IF i.at = "adding" THEN torn \cup part
                   ELSE IF i.at = "recording" THEN torn \cup i.missing
                   ELSE IF i.at = "forgetting" THEN torn \cup i.victims ELSE torn
    BY <1>3 DEF At
  <1>5. records' = records /\ raced' = raced
        /\ ingest' = [ingest EXCEPT ![p] = Resting] /\ Resting.at = "resting"
    BY DEF IngestFails, Resting
  <1>6. \A e \in Entries: e \in i.missing \/ e \in i.stale \/ e \in i.victims
          => e[1] = i.source
    BY <1>1 DEF CallFits, Owned, Own
  <1>7. CallSteps(p) /\ ingest'[p] = Resting
    <2>1. rows' \subseteq Entries /\ records' \subseteq Entries /\ torn' \subseteq Entries
      BY <1>2, <1>4, <1>5
    <2>2. \A e \in Entries: e[1] # ingest[p].source =>
            /\ e \in rows' <=> e \in rows
            /\ e \in records' <=> e \in records
            /\ e \in torn' <=> e \in torn
      BY <1>4, <1>5, <1>6
    <2>. QED
      BY <1>1, <1>5, <2>1, <2>2, PlainSteps
  <1>8. ASSUME NEW e \in Entries, Own(p, e), i.source \notin raced
        PROVE  e \notin torn' => (e \in rows' <=> e \in records')
    <2>1. e \notin torn /\ ~Flying(p, e) => (e \in rows <=> e \in records)
      BY <1>1, <1>8, OwnStores
    <2>. QED
      BY <1>4, <1>5, <2>1 DEF Flying, At
  <1>. QED
    BY <1>5, <1>7, <1>8, StepFits DEF Running

-----------------------------------------------------------------------------
(* A call begins: what is recorded of the source is older than it.  When   *)
(* another is at the same source, nothing is claimed of it from now on.    *)
LEMMA BeginIngestKeeps ==
  ASSUME IndexInv, NEW p \in Processes, NEW s \in Sources, BeginIngest(p, s)
  PROVE  IndexInv'
PROOF
  <1>1. PICK doc \in Loaded:
          ingest' = [ingest EXCEPT ![p] =
                       [at |-> "checking", source |-> s, doc |-> doc, batch |-> 1,
                        missing |-> {}, stale |-> records \cap EntriesOf(s), victims |-> {}]]
    BY DEF BeginIngest, Cleanable
  <1>. DEFINE new == [at |-> "checking", source |-> s, doc |-> doc, batch |-> 1,
                      missing |-> {}, stale |-> records \cap EntriesOf(s), victims |-> {}]
  <1>2. /\ TypeOK /\ ~Running(p)
        /\ rows' = rows /\ records' = records /\ torn' = torn
        /\ raced' = IF \E q \in Processes: Works(q, s) THEN raced \cup {s} ELSE raced
        /\ raced \subseteq raced'
    BY DEF BeginIngest, IndexInv
  <1>3. /\ doc \in Documents /\ 1 \in DOMAIN doc
    <2>1. doc \in Documents /\ doc \in Seq((SUBSET Chunks) \ {{}}) /\ doc # <<>>
      BY DocumentsAssumption DEF Loaded
    <2>2. Len(doc) \in Nat /\ DOMAIN doc = 1..Len(doc) /\ Len(doc) # 0
      BY <2>1
    <2>. QED
      BY <2>1, <2>2
  <1>4. ingest'[p] = new /\ \A q \in Processes \ {p}: ingest'[q] = ingest[q]
    BY <1>1, <1>2 DEF TypeOK
  <1>5. records \cap EntriesOf(s) \subseteq Entries
        /\ \A e \in Entries: e \in EntriesOf(s) <=> e[1] = s
    BY <1>2 DEF TypeOK, EntriesOf, Entries
  <1>6. new \in Ingests
    BY <1>3, <1>5 DEF Ingests, Places
  <1>7. /\ new.at = "checking" /\ new.source = s /\ new.doc = doc /\ new.batch = 1
        /\ new.missing = {} /\ new.stale = records \cap EntriesOf(s) /\ new.victims = {}
    OBVIOUS
  <1>8. ingest' = [ingest EXCEPT ![p] = new]
    BY <1>1
  <1>. HIDE DEF new
  <1>9. TypeOK'
    <2>1. ingest' \in [Processes -> Ingests \cup {Resting}]
      BY <1>2, <1>6, <1>8 DEF TypeOK
    <2>2. \A q \in Processes:
            ingest'[q].at # "resting" => ingest'[q].batch \in DOMAIN ingest'[q].doc
      BY <1>2, <1>3, <1>4, <1>7 DEF TypeOK
    <2>. QED
      BY <1>2, <2>1, <2>2 DEF TypeOK
  <1>10. CallFits(p)'
    <2>1. Owned(p)'
      BY <1>4, <1>5, <1>7 DEF Owned, Own
    <2>2. ASSUME s \notin raced', NEW q \in Processes, Works(q, s)'
          PROVE  q = p
      BY <1>2, <1>4, <2>2 DEF Works, Running
    <2>3. ASSUME NEW e \in Entries, Own(p, e)'
          PROVE  EntryFits(p, e)'
      <3>1. \A k \in DOMAIN doc: ~Behind(p, k)'
        <4>1. DOMAIN doc \subseteq Nat \ {0}
          BY <1>3, DocumentsAssumption
        <4>. QED
          BY <1>4, <1>7, <4>1 DEF Behind, Passed
      <3>2. ~Covered(p, e)'
        BY <1>4, <1>7, <3>1 DEF Covered
      <3>. QED
        BY <1>2, <1>4, <1>5, <1>7, <2>3, <3>2 DEF EntryFits, Own
    <2>. QED
      BY <1>4, <1>7, <2>1, <2>2, <2>3 DEF CallFits, At
  <1>11. ASSUME NEW q \in Processes, q # p
         PROVE  CallFits(q)'
    <2>1. CASE ~Running(q)
      BY <1>4, <1>11, <2>1 DEF CallFits, Running
    <2>2. CASE Running(q)
      <3>1. CallFits(q) /\ Unmoved(q, s) /\ ingest'[q].source = ingest[q].source
        BY <1>4, <1>11 DEF IndexInv, Unmoved
      <3>2. ingest[q].source \notin raced' => ingest[q].source \notin raced \cup {s}
        BY <1>2, <2>2 DEF Works
      <3>3. ASSUME ingest[q].source \notin raced', NEW r \in Processes,
                   Works(r, ingest[q].source)'
            PROVE  r = q
        <4>1. r # p
          BY <1>4, <1>7, <3>1, <3>2, <3>3 DEF Works
        <4>2. Works(r, ingest[q].source)
          BY <1>4, <3>1, <3>3, <4>1 DEF Works, Running
        <4>. QED
          BY <2>2, <3>1, <3>2, <3>3, <4>2 DEF CallFits
      <3>. QED
        BY <1>2, <2>2, <3>1, <3>2, <3>3, OtherFits
    <2>. QED
      BY <2>1, <2>2
  <1>12. StoresAgree'
    <2>1. ASSUME NEW e \in Entries, InFlight(e)
          PROVE  InFlight(e)'
      BY <1>2, <1>4, <2>1 DEF InFlight, At, Running
    <2>2. ASSUME NEW e \in Entries, e[1] \notin raced', e \notin torn', ~InFlight(e)'
          PROVE  e \in rows' <=> e \in records'
      BY <1>2, <2>1, <2>2 DEF IndexInv, StoresAgree
    <2>. QED
      BY <2>2 DEF StoresAgree, Entries
  <1>. QED
    BY <1>9, <1>10, <1>11, <1>12 DEF IndexInv

(* What is deleted from the rows alone is torn, and a call that was at it  *)
(* is raced.                                                               *)
LEMMA DeleteBySourceKeeps ==
  ASSUME IndexInv, NEW s \in Sources, DeleteBySource(s)
  PROVE  IndexInv'
PROOF
  <1>1. /\ TypeOK /\ ingest' = ingest /\ records' = records
        /\ rows' = rows \ EntriesOf(s)
        /\ torn' = (torn \ EntriesOf(s)) \cup (records \cap EntriesOf(s))
        /\ raced' = IF \E q \in Processes: Works(q, s) THEN raced \cup {s} ELSE raced
        /\ raced \subseteq raced'
    BY DEF DeleteBySource, IndexInv
  <1>2. \A e \in Entries: e \in EntriesOf(s) <=> e[1] = s
    BY DEF EntriesOf, Entries
  <1>3. TypeOK'
    BY <1>1 DEF TypeOK
  <1>4. ASSUME NEW q \in Processes
        PROVE  CallFits(q)'
    <2>1. CASE ~Running(q)
      BY <1>1, <2>1 DEF CallFits, Running
    <2>2. CASE Running(q)
      <3>1. CallFits(q) /\ Unmoved(q, s)
        BY <1>1 DEF IndexInv, Unmoved
      <3>2. ingest[q].source \notin raced' => ingest[q].source \notin raced \cup {s}
        BY <1>1, <2>2 DEF Works
      <3>3. \A e \in Entries: e[1] # s =>
              (e \in rows' <=> e \in rows) /\ (e \in records' <=> e \in records)
        BY <1>1, <1>2
      <3>4. ASSUME ingest[q].source \notin raced', NEW r \in Processes,
                   Works(r, ingest[q].source)'
            PROVE  r = q
        BY <1>1, <2>2, <3>1, <3>2, <3>4 DEF CallFits, Works, Running
      <3>. QED
        BY <2>2, <3>1, <3>2, <3>3, <3>4, OtherFits
    <2>. QED
      BY <2>1, <2>2
  <1>5. ASSUME NEW e \in Entries, e[1] \notin raced', e \notin torn', ~InFlight(e)'
        PROVE  e \in rows' <=> e \in records'
    <2>1. InFlight(e)' <=> InFlight(e)
      BY <1>1 DEF InFlight, At
    <2>. QED
      BY <1>1, <1>2, <1>5, <2>1 DEF IndexInv, StoresAgree
  <1>6. StoresAgree'
    BY <1>5 DEF StoresAgree, Entries
  <1>. QED
    BY <1>3, <1>4, <1>6 DEF IndexInv

-----------------------------------------------------------------------------
LEMMA InitHolds == Init => IndexInv
PROOF
  BY DEF Init, IndexInv, TypeOK, CallFits, Running, StoresAgree, Resting

LEMMA NextKeeps == IndexInv /\ [Next]_vars => IndexInv'
PROOF
  <1>. SUFFICES ASSUME IndexInv, [Next]_vars
                PROVE  IndexInv'
    OBVIOUS
  <1>1. CASE UNCHANGED vars
    BY <1>1 DEF vars, IndexInv, TypeOK, CallFits, Owned, Own, EntryFits, Covered, InBatch,
         Behind, Works, Running, At, StoresAgree, InFlight
  <1>2. CASE Next
    <2>1. ASSUME NEW p \in Processes, NEW s \in Sources, BeginIngest(p, s)
          PROVE  IndexInv'
      BY <2>1, BeginIngestKeeps
    <2>2. ASSUME NEW p \in Processes,
                 \/ CheckBatch(p) \/ AddRows(p) \/ RecordBatch(p) \/ CleanRows(p)
                 \/ ForgetRecords(p) \/ NextBatch(p) \/ EndIngest(p) \/ IngestFails(p)
          PROVE  IndexInv'
      BY <2>2, CheckBatchKeeps, AddRowsKeeps, RecordBatchKeeps, CleanRowsKeeps,
         ForgetRecordsKeeps, NextBatchKeeps, EndIngestKeeps, IngestFailsKeeps
    <2>3. ASSUME NEW s \in Sources, DeleteBySource(s)
          PROVE  IndexInv'
      BY <2>3, DeleteBySourceKeeps
    <2>. QED
      BY <1>2, <2>1, <2>2, <2>3 DEF Next
  <1>. QED
    BY <1>1, <1>2

(* The invariant the others follow from.                                   *)
THEOREM Invariant == Spec => []IndexInv
PROOF
  BY InitHolds, NextKeeps, PTL DEF Spec

(* The stores, the calls and what is remembered of them are well formed;   *)
(* a running call is always at a batch its document has.                   *)
THEOREM TypeCorrect == Spec => []TypeOK
PROOF
  <1>1. IndexInv => TypeOK
    BY DEF IndexInv
  <1>. QED
    BY <1>1, Invariant, PTL

(* A chunk can be found exactly when it is recorded, but for what a call   *)
(* is just writing, what an interrupted one left, and what was deleted     *)
(* from the rows alone.                                                    *)
THEOREM StoresStayTogether == Spec => []StoresAgree
PROOF
  <1>1. IndexInv => StoresAgree
    BY DEF IndexInv
  <1>. QED
    BY <1>1, Invariant, PTL

(* After the last batch everything of the document is behind, and nothing  *)
(* else of the source is recorded.                                         *)
LEMMA SyncedHolds == IndexInv => SyncedIsRecorded
PROOF
  <1>. SUFFICES ASSUME IndexInv, NEW p \in Processes, At(p, "synced"),
                       ingest[p].source \notin raced
                PROVE  records \cap EntriesOf(ingest[p].source)
                         = {ingest[p].source} \X Chunked(ingest[p].doc)
    BY DEF SyncedIsRecorded
  <1>. DEFINE i == ingest[p]
              s == ingest[p].source
  <1>1. Running(p) /\ TypeOK /\ CallFits(p) /\ i.at = "synced"
    BY DEF At, Running, IndexInv
  <1>2. /\ s \in Sources /\ i.doc \in Seq((SUBSET Chunks) \ {{}})
        /\ DOMAIN i.doc = 1..Len(i.doc) /\ Len(i.doc) \in Nat
        /\ i.batch = Len(i.doc)
    BY <1>1, CallType DEF CallFits, At
  <1>3. \A k \in DOMAIN i.doc: Behind(p, k) /\ i.doc[k] \subseteq Chunks
    BY <1>1, <1>2 DEF Behind, Passed
  <1>4. \A e \in Entries:
          Covered(p, e) <=> e[1] = s /\ \E k \in DOMAIN i.doc: e[2] \in i.doc[k]
    BY <1>3 DEF Covered, Own
  <1>5. \A e \in Entries: e[1] = s => (e \in records <=> Covered(p, e))
    BY <1>1 DEF CallFits, EntryFits, Own
  <1>6. \A e \in Entries: e \in EntriesOf(s) <=> e[1] = s
    BY <1>1, BatchEntries DEF Own
  <1>7. \A c: c \in Chunked(i.doc) <=> \E k \in DOMAIN i.doc: c \in i.doc[k]
    BY DEF Chunked
  <1>8. {s} \X Chunked(i.doc) \subseteq Entries
    BY <1>2, <1>3, <1>7 DEF Entries
  <1>9. \A e \in Entries: e \in {s} \X Chunked(i.doc) <=> e[1] = s /\ e[2] \in Chunked(i.doc)
    BY <1>2 DEF Entries
  <1>10. \A e \in Entries: e \in records \cap EntriesOf(s) <=> e \in {s} \X Chunked(i.doc)
    BY <1>4, <1>5, <1>6, <1>7, <1>9
  <1>11. records \cap EntriesOf(s) \subseteq Entries
    BY <1>1 DEF TypeOK
  <1>. QED
    BY <1>8, <1>10, <1>11

(* When a file has been synced, the records of its source are the chunks   *)
(* of this document, whatever failed before and whatever goes on for other *)
(* files.                                                                  *)
THEOREM SyncedRecords == Spec => []SyncedIsRecorded
PROOF
  BY SyncedHolds, Invariant, PTL

-----------------------------------------------------------------------------
(* The cleanup leaves the chunks of the batch just recorded to be found.   *)
LEMMA CleanRowsLeaves ==
  ASSUME IndexInv, NEW p \in Processes, CleanRows(p),
         NEW s \in Sources, s \notin raced, rows \cap EntriesOf(s) # {}, ~Torn(s)
  PROVE  rows' \cap EntriesOf(s) # {}
PROOF
  <1>1. /\ Running(p) /\ TypeOK /\ CallFits(p) /\ ingest[p].at = "cleaning"
        /\ rows' = rows \ Outdated(p)
    BY DEF CleanRows, At, Running, IndexInv
  <1>2. CASE ingest[p].source # s
    <2>1. Outdated(p) \cap EntriesOf(s) = {}
      BY <1>1, <1>2 DEF Outdated, TypeOK, CallFits, Owned, Own, EntriesOf
    <2>. QED
      BY <1>1, <2>1
  <1>3. CASE ingest[p].source = s
    <2>1. PICK c \in Chunks: c \in ingest[p].doc[ingest[p].batch]
      BY <1>1, CallType
    <2>. DEFINE e == <<s, c>>
    <2>2. e \in Entries /\ e \in EntriesOf(s) /\ e[1] = s /\ e[2] = c
      BY DEF Entries, EntriesOf
    <2>. HIDE DEF e
    <2>3. Own(p, e) /\ Covered(p, e)
      BY <1>1, <1>3, <2>1, <2>2, CallType DEF Own, Covered, Behind, Passed
    <2>4. e \notin torn /\ ~Flying(p, e)
      BY <1>1, <2>2 DEF Torn, Flying, At
    <2>5. e \in records /\ e \notin ingest[p].stale /\ e \in rows
      BY <1>1, <1>3, <2>2, <2>3, <2>4, OwnStores DEF EntryFits
    <2>. QED
      BY <1>1, <2>2, <2>5 DEF Outdated
  <1>. QED
    BY <1>2, <1>3

(* delete_by_source does not go unnoticed: what it took was recorded.      *)
LEMMA DeleteTears ==
  ASSUME IndexInv, NEW t \in Sources, DeleteBySource(t),
         NEW s \in Sources, s \notin raced', rows \cap EntriesOf(s) # {}, ~Torn(s), ~Torn(s)'
  PROVE  rows' \cap EntriesOf(s) # {}
PROOF
  <1>1. CASE s # t
    BY <1>1 DEF DeleteBySource, EntriesOf
  <1>2. CASE s = t
    <2>1. PICK e \in rows: e \in EntriesOf(s)
      OBVIOUS
    <2>2. e \in Entries /\ e[1] = s
      BY <2>1 DEF Entries, EntriesOf
    <2>3. e \notin records /\ s \notin raced /\ ~ \E q \in Processes: Works(q, s)
      BY <1>2, <2>1 DEF DeleteBySource, Torn
    <2>4. ~InFlight(e)
      BY <2>2, <2>3 DEF InFlight, IndexInv, CallFits, Owned, Own, Works, Running, At
    <2>. QED
      BY <2>1, <2>2, <2>3, <2>4 DEF IndexInv, StoresAgree, Torn
  <1>. QED
    BY <1>1, <1>2

(* A file of which something can be found never becomes one of which       *)
(* nothing can, through any interleaving of the ingestion of this and      *)
(* other files, unless it is deleted, a call on it was interrupted, or two *)
(* calls were at it.                                                       *)
THEOREM UpdatesNeverEmpty == Spec => NeverEmptied
PROOF
  <1>. DEFINE Keeps == \A s \in Sources \ raced':
         rows \cap EntriesOf(s) # {} /\ ~Torn(s) /\ ~Torn(s)' => rows' \cap EntriesOf(s) # {}
  <1>1. ASSUME IndexInv, [Next]_vars
        PROVE  [Keeps]_vars
    <2>. SUFFICES ASSUME Next,
                         NEW s \in Sources, s \notin raced', rows \cap EntriesOf(s) # {},
                         ~Torn(s), ~Torn(s)'
                  PROVE  rows' \cap EntriesOf(s) # {}
      BY <1>1 DEF Keeps
    <2>1. ASSUME NEW p \in Processes, NEW t \in Sources, BeginIngest(p, t)
          PROVE  rows' = rows
      BY <2>1 DEF BeginIngest
    <2>2. ASSUME NEW p \in Processes,
                 \/ CheckBatch(p) \/ AddRows(p) \/ RecordBatch(p)
                 \/ ForgetRecords(p) \/ NextBatch(p) \/ EndIngest(p) \/ IngestFails(p)
          PROVE  rows \subseteq rows'
      BY <2>2 DEF CheckBatch, AddRows, RecordBatch, ForgetRecords, NextBatch, EndIngest,
           IngestFails
    <2>3. ASSUME NEW p \in Processes, CleanRows(p)
          PROVE  rows' \cap EntriesOf(s) # {}
      <3>1. s \notin raced
        BY <2>3 DEF CleanRows
      <3>. QED
        BY <1>1, <2>3, <3>1, CleanRowsLeaves
    <2>4. ASSUME NEW t \in Sources, DeleteBySource(t)
          PROVE  rows' \cap EntriesOf(s) # {}
      BY <1>1, <2>4, DeleteTears
    <2>. QED
      BY <2>1, <2>2, <2>3, <2>4 DEF Next
  <1>. HIDE DEF Keeps
  <1>2. Spec => [][Keeps]_vars
    BY <1>1, Invariant, PTL DEF Spec
  <1>. QED
    BY <1>2 DEF NeverEmptied, Keeps

=============================================================================
