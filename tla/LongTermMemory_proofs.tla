------------------------ MODULE LongTermMemory_proofs ------------------------
(***************************************************************************)
(* The long-term memory, for every number of clients, keys and records,    *)
(* and for every page size: paging through a changing store finds the      *)
(* newest version unless its key was raced, versions stay distinct, forget *)
(* erases, and nothing is deleted before it is due.                        *)
(***************************************************************************)
EXTENDS LongTermMemory, TLAPS, FiniteSetTheorems, FunctionTheorems, WellFoundedInduction

-----------------------------------------------------------------------------
(* The records ever put are numbered in the order they were put, versions  *)
(* never outrun them, and the versions of a key that was not raced grow    *)
(* with them.                                                              *)
RecordsFit ==
  /\ store \subseteq written
  /\ IsFiniteSet(written)
  /\ \A r \in written: r.version <= r.id /\ r.id <= Cardinality(written)
  /\ \A r, s \in written: r.id = s.id => r = s
  /\ \A r, s \in store:
       r.key = s.key /\ r.key \notin raced /\ r.id < s.id => r.version < s.version

(* What a page loop has seen does not beat what it holds.                  *)
Beaten(c, r) == call[c].latest # NoRecord /\ r.version <= call[c].latest.version

PagingFits(c) ==
  LET i == call[c]
  IN Pages(c) =>
       /\ i.op \in {"commit", "recall"} /\ i.key \in Keys
       /\ i.latest # NoRecord => i.latest.key = i.key
       /\ i.key \notin raced =>
            /\ i.latest # NoRecord => i.latest \in store
            /\ i.at = "paging" =>
                 /\ i.offset <= Cardinality(Of(i.key))
                 /\ \A r \in Of(i.key): Rank(r) <= i.offset => Beaten(c, r)
            /\ i.at = "read" =>
                 \A r \in Of(i.key): i.op = "commit" \/ r \in i.opened => Beaten(c, r)
            /\ i.op = "commit" =>
                 \A d \in Clients:
                   Pages(d) /\ call[d].op = "commit" /\ call[d].key = i.key => d = c

(* What a caller was told, and what a delete loop may still delete.        *)
TellingFits(c) ==
  LET i == call[c]
  IN /\ i.opened \subseteq written /\ i.since <= now
     /\ i.latest # NoRecord => i.latest \in written
     /\ i.at = "found" =>
          /\ i.latest # NoRecord /\ i.latest.expires > i.since
          /\ i.latest.key \notin raced =>
               \A r \in i.opened: r.key = i.latest.key /\ r.id > i.latest.id => r \notin store
     /\ i.at = "deleting" =>
          \/ i.op = "forget" /\ i.key \in Keys /\ \A r \in i.batch: r.key = i.key
          \/ i.op = "purge" /\ \A r \in i.batch: r.expires <= i.since
     /\ i.at = "forgotten" => \A r \in i.opened: r.key = i.key => r \notin store

MemoryInv ==
  TypeOK /\ RecordsFit /\ \A c \in Clients: PagingFits(c) /\ TellingFits(c)

-----------------------------------------------------------------------------
(* Sets of numbers have a least element, and bounded ones a greatest.      *)
LEMMA Least ==
  ASSUME NEW T, T \subseteq Nat, T # {}
  PROVE  \E x \in T: \A y \in T: x <= y
PROOF
  <1>. DEFINE R == OpToRel(<, Nat)
  <1>1. IsWellFoundedOn(R, Nat)
    BY NatLessThanWellFounded
  <1>2. ASSUME NEW x \in Nat, NEW y \in Nat, x < y
        PROVE  <<x, y>> \in R
    BY <1>2 DEF OpToRel
  <1>. HIDE DEF R
  <1>3. PICK x \in T: \A y \in T: ~ (<<y, x>> \in R)
    BY <1>1, WFMin
  <1>4. ASSUME NEW y \in T
        PROVE  x <= y
    <2>1. ~ (y < x)
      BY <1>2, <1>3
    <2>. QED
      BY <2>1
  <1>. QED
    BY <1>4

LEMMA Greatest ==
  ASSUME NEW n \in Nat, NEW T, T \subseteq 0..n, T # {}
  PROVE  \E x \in T: \A y \in T: y <= x
PROOF
  <1>. DEFINE D == {n - x: x \in T}
  <1>0. \A x \in T: x \in Nat /\ n - x \in Nat
    OBVIOUS
  <1>1. D \subseteq Nat /\ D # {}
    BY <1>0
  <1>2. PICK d \in D: \A y \in D: d <= y
    BY <1>1, Least
  <1>3. PICK x \in T: d = n - x
    OBVIOUS
  <1>4. ASSUME NEW y \in T
        PROVE  y <= x
    <2>1. d <= n - y
      BY <1>2
    <2>. QED
      BY <1>0, <1>3, <2>1
  <1>. QED
    BY <1>4

(* The newest of what was seen is one of it, of the greatest version.      *)
LEMMA NewestFits ==
  ASSUME NEW page \in SUBSET Records, NEW latest \in Records \cup {NoRecord}
  PROVE  LET seen == page \cup ({latest} \ {NoRecord})
             newest == Newest(latest, page)
         IN /\ seen = {} => newest = NoRecord
            /\ seen # {} => newest \in seen /\ \A s \in seen: s.version <= newest.version
PROOF
  <1>. DEFINE seen == page \cup ({latest} \ {NoRecord})
              best(r) == \A s \in seen:
                           s.version < r.version \/ (s.version = r.version /\ r.id <= s.id)
  <1>1. seen \subseteq Records
    OBVIOUS
  <1>2. CASE seen = {}
    BY <1>2 DEF Newest
  <1>3. CASE seen # {}
    <2>1. MaxRecords \in Nat /\ \A r \in seen: r.version \in 1..MaxRecords /\ r.id \in 1..MaxRecords
      BY <1>1, LimitsAssumption DEF Records
    <2>. DEFINE versions == {r.version: r \in seen}
    <2>2. versions \subseteq 0..MaxRecords /\ versions # {}
      BY <1>3, <2>1
    <2>3. PICK v \in versions: \A w \in versions: w <= v
      BY <2>1, <2>2, Greatest
    <2>. DEFINE ids == {r.id: r \in {s \in seen: s.version = v}}
    <2>4. ids \subseteq Nat /\ ids # {}
      BY <2>1
    <2>5. PICK m \in ids: \A n \in ids: m <= n
      BY <2>4, Least
    <2>6. PICK r \in seen: r.version = v /\ r.id = m
      OBVIOUS
    <2>7. best(r)
      <3>. SUFFICES ASSUME NEW s \in seen
                    PROVE  s.version < r.version \/ (s.version = r.version /\ r.id <= s.id)
        OBVIOUS
      <3>1. s.version <= v
        BY <2>3
      <3>2. s.version = v => m <= s.id
        BY <2>5
      <3>. QED
        BY <2>1, <2>6, <3>1, <3>2
    <2>8. Newest(latest, page) = CHOOSE q \in seen: best(q)
      BY <1>3 DEF Newest
    <2>. HIDE DEF best, versions, ids
    <2>9. Newest(latest, page) \in seen /\ best(Newest(latest, page))
      BY <2>7, <2>8
    <2>10. ASSUME NEW s \in seen
           PROVE  s.version <= Newest(latest, page).version
      BY <2>1, <2>9 DEF best
    <2>. QED
      BY <1>3, <2>9, <2>10
  <1>. QED
    BY <1>2, <1>3

-----------------------------------------------------------------------------
(* Pages.  The records of a key are ranked 1, 2, ... in the order of their *)
(* ids.                                                                    *)
LEMMA OfFits ==
  ASSUME TypeOK, RecordsFit, NEW key
  PROVE  /\ Of(key) \subseteq store /\ Of(key) \subseteq Records
         /\ IsFiniteSet(Of(key)) /\ Cardinality(Of(key)) \in Nat
         /\ \A r \in Of(key): r.id \in 1..MaxRecords
         /\ \A r, s \in Of(key): r.id = s.id => r = s
PROOF
  <1>1. Of(key) \subseteq store /\ Of(key) \in SUBSET written
    BY DEF Of, RecordsFit
  <1>2. IsFiniteSet(Of(key))
    BY <1>1, FS_Subset DEF RecordsFit
  <1>3. Cardinality(Of(key)) \in Nat
    BY <1>2, FS_CardinalityType
  <1>. QED
    BY <1>1, <1>2, <1>3 DEF TypeOK, RecordsFit, Records

Upto(r) == {s \in Of(r.key): s.id <= r.id}

LEMMA RankFits ==
  ASSUME TypeOK, RecordsFit, NEW key, NEW r \in Of(key)
  PROVE  /\ IsFiniteSet(Upto(r)) /\ Rank(r) = Cardinality(Upto(r)) /\ Upto(r) \in SUBSET Of(key)
         /\ Rank(r) \in Nat /\ 1 <= Rank(r) /\ Rank(r) <= Cardinality(Of(key))
PROOF
  <1>1. r.key = key /\ Rank(r) = Cardinality(Upto(r))
    BY DEF Of, Rank, Upto
  <1>2. Upto(r) \in SUBSET Of(key)
    BY <1>1 DEF Upto
  <1>3. /\ IsFiniteSet(Upto(r)) /\ Cardinality(Upto(r)) <= Cardinality(Of(key))
    BY <1>2, OfFits, FS_Subset
  <1>4. r \in Upto(r)
    BY <1>1, OfFits DEF Upto
  <1>5. Cardinality(Upto(r)) \in Nat /\ Cardinality(Upto(r)) # 0
    BY <1>3, <1>4, FS_CardinalityType, FS_EmptySet
  <1>. QED
    BY <1>1, <1>2, <1>3, <1>5

LEMMA RankOrders ==
  ASSUME TypeOK, RecordsFit, NEW key, NEW r \in Of(key), NEW s \in Of(key), r.id < s.id
  PROVE  Rank(r) < Rank(s)
PROOF
  <1>1. r.id \in Nat /\ s.id \in Nat /\ \A t \in Of(key): t.id \in Nat
    BY OfFits
  <1>2. Upto(r) \in SUBSET Upto(s) /\ s \in Upto(s) /\ s \notin Upto(r)
    BY <1>1 DEF Upto, Of
  <1>3. /\ IsFiniteSet(Upto(s)) /\ Rank(r) = Cardinality(Upto(r)) /\ Rank(s) = Cardinality(Upto(s))
        /\ Rank(r) \in Nat /\ Rank(s) \in Nat
    BY RankFits
  <1>4. Cardinality(Upto(r)) <= Cardinality(Upto(s)) /\ Cardinality(Upto(r)) # Cardinality(Upto(s))
    BY <1>2, <1>3, FS_Subset
  <1>. QED
    BY <1>3, <1>4

(* A page is no longer than its limit, and an offset that counted what was *)
(* there does not outrun the key.                                          *)
LEMMA PageFits ==
  ASSUME TypeOK, RecordsFit, NEW key, NEW offset \in Nat
  PROVE  LET page == Page(key, offset)
         IN /\ page \subseteq Of(key) /\ page \in SUBSET Records
            /\ IsFiniteSet(page) /\ Cardinality(page) \in Nat
            /\ Cardinality(page) <= PageSize
            /\ offset <= Cardinality(Of(key)) =>
                 offset + Cardinality(page) <= Cardinality(Of(key))
PROOF
  <1>. DEFINE page == Page(key, offset)
              all == Cardinality(Of(key))
              f == [r \in page |-> Rank(r)]
  <1>1. page \subseteq Of(key) /\ page \in SUBSET Records /\ page \in SUBSET Of(key)
    BY OfFits DEF Page
  <1>2. IsFiniteSet(page) /\ Cardinality(page) \in Nat /\ all \in Nat /\ PageSize \in Nat
    BY <1>1, OfFits, FS_Subset, FS_CardinalityType, LimitsAssumption
  <1>3. \A r \in page: /\ Rank(r) \in Nat /\ Rank(r) <= all
                       /\ offset < Rank(r) /\ Rank(r) <= offset + PageSize
    BY <1>1, RankFits DEF Page
  <1>4. ASSUME NEW r \in page, NEW s \in page, Rank(r) = Rank(s)
        PROVE  r = s
    <2>1. ~(r.id < s.id) /\ ~(s.id < r.id)
      BY <1>1, <1>3, <1>4, RankOrders
    <2>. QED
      BY <1>1, <2>1, OfFits
  <1>. HIDE DEF page, all
  <1>5. ASSUME NEW top \in Nat, offset <= top, \A r \in page: Rank(r) <= top
        PROVE  Cardinality(page) <= top - offset
    <2>1. f \in [page -> offset + 1..top]
      BY <1>3, <1>5
    <2>2. f \in Injection(page, offset + 1..top)
      BY <1>4, <2>1 DEF Injection, IsInjective
    <2>3. /\ IsFiniteSet(offset + 1..top)
          /\ Cardinality(offset + 1..top) = IF offset + 1 > top THEN 0 ELSE top - (offset + 1) + 1
      BY <1>5, FS_Interval
    <2>. HIDE DEF f
    <2>4. Cardinality(page) <= Cardinality(offset + 1..top)
      BY <2>2, <2>3, FS_Injection
    <2>. QED
      BY <1>2, <1>5, <2>3, <2>4
  <1>6. Cardinality(page) <= PageSize
    <2>1. offset + PageSize \in Nat /\ offset <= offset + PageSize
      BY <1>2
    <2>2. Cardinality(page) <= (offset + PageSize) - offset
      BY <1>3, <1>5, <2>1
    <2>. QED
      BY <1>2, <2>2
  <1>7. offset <= all => offset + Cardinality(page) <= all
    <2>1. offset <= all => Cardinality(page) <= all - offset
      BY <1>2, <1>3, <1>5
    <2>. QED
      BY <1>2, <2>1
  <1>. QED
    BY <1>1, <1>2, <1>6, <1>7 DEF page, all

(* An empty page means that the offset has passed everything.              *)
LEMMA EmptyPage ==
  ASSUME TypeOK, RecordsFit, NEW key, NEW offset \in Nat, Page(key, offset) = {}
  PROVE  \A r \in Of(key): Rank(r) <= offset
PROOF
  <1>. DEFINE Beyond == {r \in Of(key): ~(Rank(r) <= offset)}
  <1>. SUFFICES ASSUME Beyond # {}
                PROVE  FALSE
    OBVIOUS
  <1>1. \A r \in Of(key): r.id \in Nat /\ r.id \in 0..MaxRecords /\ Rank(r) \in Nat
    BY OfFits, RankFits
  <1>2. PICK r \in Beyond: \A s \in Beyond: r.id <= s.id
    <2>. DEFINE ids == {s.id: s \in Beyond}
    <2>1. ids \subseteq Nat /\ ids # {}
      BY <1>1
    <2>2. PICK m \in ids: \A n \in ids: m <= n
      BY <2>1, Least
    <2>. QED
      BY <2>2
  <1>. DEFINE below == Upto(r) \ {r}
  <1>3. /\ r \in Of(key) /\ r \in Upto(r) /\ IsFiniteSet(Upto(r)) /\ r.key = key
        /\ Rank(r) = Cardinality(Upto(r)) /\ Rank(r) \in Nat
    <2>1. r \in Of(key)
      OBVIOUS
    <2>2. r.key = key
      BY <2>1 DEF Of
    <2>3. r \in Upto(r)
      BY <1>1, <2>1, <2>2 DEF Upto
    <2>. QED
      BY <2>1, <2>2, <2>3, RankFits
  <1>4. Rank(r) = Cardinality(below) + 1 /\ IsFiniteSet(below) /\ Cardinality(below) \in Nat
    <2>1. IsFiniteSet(below) /\ Cardinality(below) = Cardinality(Upto(r)) - 1
      BY <1>3, FS_RemoveElement
    <2>2. Cardinality(below) \in Nat
      BY <2>1, FS_CardinalityType
    <2>. QED
      BY <1>3, <2>1, <2>2
  <1>5. \A s: s \in below <=> s \in Of(key) /\ s.id < r.id
    BY <1>1, <1>3, OfFits DEF Upto
  <1>. HIDE DEF below
  <1>6. Cardinality(below) <= offset
    <2>1. CASE below = {}
      BY <2>1, FS_EmptySet
    <2>2. CASE below # {}
      <3>. DEFINE ids == {s.id: s \in below}
      <3>1. ids \subseteq 0..MaxRecords /\ ids # {} /\ MaxRecords \in Nat
        BY <1>1, <1>5, <2>2, LimitsAssumption
      <3>2. PICK m \in ids: \A n \in ids: n <= m
        BY <3>1, Greatest
      <3>3. PICK p \in below: p.id = m
        OBVIOUS
      <3>4. p \in Of(key) /\ p.id < r.id /\ \A s \in below: s.id <= p.id
        BY <1>5, <3>2, <3>3
      <3>5. p \notin Beyond
        BY <1>1, <1>2, <1>3, <3>4
      <3>6. \A s: s \in Upto(p) <=> s \in Of(key) /\ s.id <= p.id
        BY <3>4 DEF Upto, Of
      <3>7. \A s: s \in Upto(p) <=> s \in below
        BY <1>1, <1>3, <1>5, <3>4, <3>6
      <3>8. Upto(p) = below
        BY <3>7
      <3>. QED
        BY <3>4, <3>5, <3>8, RankFits
    <2>. QED
      BY <2>1, <2>2
  <1>7. Rank(r) <= offset + PageSize /\ offset < Rank(r)
    BY <1>1, <1>3, <1>4, <1>6, LimitsAssumption
  <1>. QED
    BY <1>3, <1>7 DEF Page

-----------------------------------------------------------------------------
(* What one client does leaves what is known of the others, as long as the *)
(* store stays and a second commit on a key marks the key as raced.        *)
Enters(c) ==
  Pages(c)' /\ call'[c].op = "commit" =>
    \/ Pages(c) /\ call[c].op = "commit" /\ call[c].key = call'[c].key
    \/ \A d \in Clients \ {c}:
         Pages(d) /\ call[d].op = "commit" /\ call[d].key = call'[c].key
           => call'[c].key \in raced'

LEMMA CallKeeps ==
  ASSUME MemoryInv, NEW c \in Clients, NEW new \in CallStates,
         call' = [call EXCEPT ![c] = new], store' = store, written' = written, now' = now,
         raced \subseteq raced', raced' \subseteq Keys, Enters(c),
         PagingFits(c)', TellingFits(c)'
  PROVE  MemoryInv'
PROOF
  <1>1. TypeOK' /\ call'[c] = new /\ \A d \in Clients \ {c}: call'[d] = call[d]
    BY DEF MemoryInv, TypeOK
  <1>2. RecordsFit'
    BY DEF MemoryInv, RecordsFit
  <1>3. ASSUME NEW d \in Clients \ {c}
        PROVE  TellingFits(d)'
    BY <1>1, <1>3 DEF MemoryInv, TellingFits
  <1>4. ASSUME NEW d \in Clients \ {c}
        PROVE  PagingFits(d)'
    <2>1. call'[d] = call[d] /\ PagingFits(d)
      BY <1>1 DEF MemoryInv
    <2>2. /\ \A key: Of(key)' = Of(key)
          /\ \A r: Rank(r)' = Rank(r)
          /\ \A r: Beaten(d, r)' <=> Beaten(d, r)
      BY <2>1 DEF Of, Rank, Beaten
    <2>3. Pages(d)' <=> Pages(d)
      BY <2>1 DEF Pages, At
    <2>4. ASSUME Pages(d), call[d].key \notin raced', call[d].op = "commit",
                 NEW e \in Clients, Pages(e)', call'[e].op = "commit",
                 call'[e].key = call[d].key
          PROVE  e = d
      <3>1. CASE e = c
        <4>1. Pages(c) /\ call[c].op = "commit" /\ call[c].key = call[d].key
          BY <2>4, <3>1 DEF Enters
        <4>. QED
          BY <2>1, <2>4, <3>1, <4>1 DEF PagingFits
      <3>2. CASE e # c
        <4>1. call'[e] = call[e] /\ Pages(e)
          BY <1>1, <2>4, <3>2 DEF Pages, At
        <4>. QED
          BY <2>1, <2>4, <4>1 DEF PagingFits
      <3>. QED
        BY <3>1, <3>2
    <2>. QED
      BY <2>1, <2>2, <2>3, <2>4 DEF PagingFits
  <1>5. ASSUME NEW d \in Clients
        PROVE  PagingFits(d)' /\ TellingFits(d)'
    BY <1>3, <1>4
  <1>. QED
    BY <1>1, <1>2, <1>5 DEF MemoryInv

(* Nothing is claimed of a client at rest.                                 *)
LEMMA RestingFits ==
  ASSUME TypeOK', NEW c \in Clients, call'[c] = Resting
  PROVE  PagingFits(c)' /\ TellingFits(c)'
PROOF
  <1>1. 0 <= now'
    BY LimitsAssumption DEF TypeOK
  <1>2. /\ call'[c].at = "resting" /\ call'[c].opened = {} /\ call'[c].since = 0
        /\ call'[c].latest = NoRecord
    BY DEF Resting
  <1>. QED
    BY <1>1, <1>2 DEF PagingFits, TellingFits, Pages, At

LEMMA RestingTyped == Resting \in CallStates
PROOF
  BY LimitsAssumption DEF Resting, CallStates, Calls, Places

LEMMA EndKeeps ==
  ASSUME MemoryInv, NEW c \in Clients, End(c), UNCHANGED <<store, now, written, raced>>
  PROVE  MemoryInv'
PROOF
  <1>1. call' = [call EXCEPT ![c] = Resting] /\ Resting \in CallStates
    BY RestingTyped DEF End
  <1>2. TypeOK' /\ call'[c] = Resting
    BY <1>1 DEF MemoryInv, TypeOK
  <1>3. PagingFits(c)' /\ TellingFits(c)'
    BY <1>2, RestingFits
  <1>4. Enters(c)
    BY <1>2 DEF Enters, Pages, At, Resting
  <1>5. raced' \subseteq Keys
    BY <1>2 DEF TypeOK
  <1>. QED
    BY <1>1, <1>3, <1>4, <1>5, CallKeeps

(* A call begins.                                                          *)
LEMMA StartFits ==
  ASSUME MemoryInv, NEW c \in Clients, NEW op \in Calls, NEW key \in Keys \cup {NoRecord},
         NEW where \in Places, Start(c, op, key, where)
  PROVE  LET new == call'[c]
         IN /\ call' = [call EXCEPT ![c] = new] /\ new \in CallStates
            /\ new.op = op /\ new.key = key /\ new.at = where /\ new.offset = 0
            /\ new.latest = NoRecord /\ new.batch = {} /\ new.opened \subseteq written
            /\ new.since <= now
PROOF
  <1>. DEFINE opened == IF op \in {"recall", "forget"} THEN written ELSE {}
              since == IF op \in {"recall", "purge"} THEN now ELSE 0
              new == [op |-> op, key |-> key, at |-> where, offset |-> 0,
                      latest |-> NoRecord, batch |-> {}, opened |-> opened, since |-> since]
  <1>1. call' = [call EXCEPT ![c] = new]
    BY DEF Start
  <1>2. /\ opened \subseteq written /\ opened \subseteq Records
        /\ since <= now /\ since \in 0..MaxTime
    BY LimitsAssumption DEF MemoryInv, TypeOK
  <1>. HIDE DEF opened, since
  <1>3. new \in CallStates
    BY <1>2 DEF CallStates
  <1>4. /\ new.op = op /\ new.key = key /\ new.at = where /\ new.offset = 0
        /\ new.latest = NoRecord /\ new.batch = {} /\ new.opened = opened /\ new.since = since
    OBVIOUS
  <1>. HIDE DEF new
  <1>5. call'[c] = new
    BY <1>1 DEF MemoryInv, TypeOK
  <1>. QED
    BY <1>1, <1>2, <1>3, <1>4, <1>5

(* A page loop begins at 0, where nothing has been seen.                   *)
LEMMA BeginPagingKeeps ==
  ASSUME MemoryInv, NEW c \in Clients, NEW key \in Keys, NEW op \in {"commit", "recall"},
         Start(c, op, key, "paging"), UNCHANGED <<store, now, written>>,
         raced' = IF op = "commit" /\ Overlaps(key) THEN raced \cup {key} ELSE raced,
         At(c, "resting")
  PROVE  MemoryInv'
PROOF
  <1>. DEFINE new == call'[c]
  <1>1. /\ call' = [call EXCEPT ![c] = new] /\ new \in CallStates
        /\ new.op = op /\ new.key = key /\ new.at = "paging" /\ new.offset = 0
        /\ new.latest = NoRecord /\ new.batch = {} /\ new.opened \subseteq written
        /\ new.since <= now
    BY StartFits DEF Calls, Places
  <1>2. raced \subseteq raced' /\ raced' \subseteq Keys /\ TypeOK /\ RecordsFit
    BY DEF MemoryInv, TypeOK
  <1>3. Enters(c)
    BY <1>1 DEF Enters, Overlaps
  <1>4. TellingFits(c)'
    BY <1>1 DEF TellingFits
  <1>5. \A d \in Clients \ {c}: call'[d] = call[d]
    BY <1>1 DEF MemoryInv, TypeOK
  <1>6. PagingFits(c)'
    <2>1. 0 <= Cardinality(Of(key)) /\ \A r \in Of(key): ~(Rank(r) <= 0)
      BY <1>2, OfFits, RankFits
    <2>2. /\ Of(key)' = Of(key)
          /\ \A r: Rank(r)' = Rank(r)
      BY DEF Of, Rank
    <2>3. ASSUME op = "commit", key \notin raced', NEW d \in Clients, Pages(d)',
                 call'[d].op = "commit", call'[d].key = key
          PROVE  d = c
      <3>1. ~Overlaps(key)
        BY <2>3
      <3>. QED
        BY <1>5, <2>3, <3>1 DEF Overlaps, Pages, At
    <2>. QED
      BY <1>1, <2>1, <2>2, <2>3 DEF PagingFits, Pages, At
  <1>. QED
    BY <1>1, <1>2, <1>3, <1>4, <1>6, CallKeeps

(* forget and purge_expired begin.                                         *)
LEMMA BeginDeletingKeeps ==
  ASSUME MemoryInv, NEW c \in Clients, UNCHANGED <<store, now, written, raced>>,
         NEW op, NEW key,
         (op = "forget" /\ key \in Keys) \/ (op = "purge" /\ key = NoRecord),
         Start(c, op, key, "deleting")
  PROVE  MemoryInv'
PROOF
  <1>. DEFINE new == call'[c]
  <1>1. /\ call' = [call EXCEPT ![c] = new] /\ new \in CallStates
        /\ new.op = op /\ new.key = key /\ new.at = "deleting"
        /\ new.latest = NoRecord /\ new.batch = {} /\ new.opened \subseteq written
        /\ new.since <= now
    BY StartFits DEF Calls, Places
  <1>2. TellingFits(c)' /\ PagingFits(c)' /\ Enters(c)
    BY <1>1 DEF TellingFits, PagingFits, Enters, Pages, At
  <1>3. raced' \subseteq Keys
    BY DEF MemoryInv, TypeOK
  <1>. QED
    BY <1>1, <1>2, <1>3, CallKeeps

(* A page is read: what is ranked up to the new offset has been seen, and  *)
(* an empty page means all of it has.                                      *)
LEMMA ReadPageKeeps ==
  ASSUME MemoryInv, NEW c \in Clients, ReadPage(c)
  PROVE  MemoryInv'
PROOF
  <1>. DEFINE i == call[c]
              page == Page(i.key, i.offset)
              newest == Newest(i.latest, page)
              offset == i.offset + Cardinality(page)
              where == IF page = {} THEN "read" ELSE "paging"
              first == [i EXCEPT !.latest = newest]
              second == [first EXCEPT !.offset = offset]
              new == [second EXCEPT !.at = where]
  <1>1. /\ TypeOK /\ RecordsFit /\ PagingFits(c) /\ TellingFits(c) /\ i.at = "paging"
        /\ i \in CallStates /\ i.offset \in Nat /\ i.latest \in Records \cup {NoRecord}
    BY DEF MemoryInv, TypeOK, ReadPage, At, CallStates
  <1>2. call' = [call EXCEPT ![c] = new]
    BY DEF ReadPage, MemoryInv, TypeOK
  <1>3. UNCHANGED <<store, now, written, raced>>
    BY DEF ReadPage
  <1>4. /\ page \subseteq Of(i.key) /\ page \in SUBSET Records /\ Cardinality(page) \in Nat
        /\ Cardinality(page) <= PageSize
        /\ i.offset <= Cardinality(Of(i.key)) => offset <= Cardinality(Of(i.key))
    BY <1>1, PageFits
  <1>5. LET seen == page \cup ({i.latest} \ {NoRecord})
        IN /\ seen = {} => newest = NoRecord
           /\ seen # {} => newest \in seen /\ \A s \in seen: s.version <= newest.version
    BY <1>1, <1>4, NewestFits
  <1>6. newest = NoRecord \/ newest \in page \/ (i.latest # NoRecord /\ newest = i.latest)
    BY <1>5
  <1>7. \A s \in page: newest # NoRecord /\ s.version <= newest.version
    BY <1>4, <1>5, NoRecordAssumption
  <1>8. i.latest # NoRecord => newest # NoRecord /\ i.latest.version <= newest.version
    BY <1>1, <1>4, <1>5, NoRecordAssumption
  <1>9. offset \in Nat /\ where \in {"read", "paging"} /\ (where = "read" <=> page = {})
    BY <1>1, <1>4
  <1>10. \A r \in Of(i.key): /\ r \in store /\ r.key = i.key /\ r \in written
                             /\ r \in Records /\ r.version \in Nat
    BY <1>1 DEF Of, TypeOK, RecordsFit, Records
  <1>11. \A r \in Of(i.key):
           Rank(r) \in Nat /\ (page = {} => Rank(r) <= i.offset)
           /\ (Rank(r) <= offset => Rank(r) <= i.offset \/ r \in page)
    <2>1. ASSUME NEW r \in Of(i.key), Rank(r) <= offset, ~(Rank(r) <= i.offset)
          PROVE  r \in page
      <3>1. Rank(r) \in Nat
        BY <1>1, RankFits
      <3>2. i.offset < Rank(r) /\ Rank(r) <= i.offset + PageSize
        BY <1>1, <1>4, <2>1, <3>1, LimitsAssumption
      <3>. QED
        BY <3>2 DEF Page
    <2>2. page = {} => \A r \in Of(i.key): Rank(r) <= i.offset
      BY <1>1, EmptyPage
    <2>3. \A r \in Of(i.key): Rank(r) \in Nat
      BY <1>1, RankFits
    <2>. QED
      BY <2>1, <2>2, <2>3
  <1>. HIDE DEF page, newest, offset, where
  <1>12. /\ new \in CallStates /\ new.op = i.op /\ new.key = i.key /\ new.at = where
         /\ new.offset = offset /\ new.latest = newest /\ new.batch = i.batch
         /\ new.opened = i.opened /\ new.since = i.since
    <2>1. newest \in Records \cup {NoRecord}
      BY <1>1, <1>4, <1>6
    <2>. QED
      BY <1>1, <1>9, <2>1 DEF CallStates, Places
  <1>. HIDE DEF new
  <1>13. call'[c] = new /\ \A d \in Clients \ {c}: call'[d] = call[d]
    BY <1>1, <1>2 DEF TypeOK
  <1>14. Enters(c) /\ Pages(c)
    BY <1>1, <1>12, <1>13 DEF Enters, Pages, At
  <1>15. TellingFits(c)'
    BY <1>1, <1>3, <1>4, <1>6, <1>9, <1>10, <1>12, <1>13 DEF TellingFits
  <1>16. newest # NoRecord => newest.key = i.key
    BY <1>1, <1>4, <1>6, <1>10, <1>14 DEF PagingFits
  <1>17. ASSUME i.key \notin raced
         PROVE  /\ newest # NoRecord => newest \in store
                /\ offset <= Cardinality(Of(i.key))
                /\ \A r \in Of(i.key):
                     Rank(r) <= offset => newest # NoRecord /\ r.version <= newest.version
    <2>1. /\ i.latest # NoRecord => i.latest \in store
          /\ i.offset <= Cardinality(Of(i.key))
          /\ \A r \in Of(i.key): Rank(r) <= i.offset => Beaten(c, r)
      BY <1>1, <1>14, <1>17 DEF PagingFits
    <2>2. ASSUME NEW r \in Of(i.key), Rank(r) <= offset
          PROVE  newest # NoRecord /\ r.version <= newest.version
      <3>1. CASE r \in page
        BY <1>7, <3>1
      <3>2. CASE Rank(r) <= i.offset
        <4>1. i.latest # NoRecord /\ r.version <= i.latest.version
          BY <2>1, <3>2 DEF Beaten
        <4>2. i.latest \in Records /\ newest \in Records
          BY <1>1, <1>4, <1>6, <1>8, <4>1
        <4>. QED
          BY <1>8, <1>10, <4>1, <4>2 DEF Records
      <3>. QED
        BY <1>11, <2>2, <3>1, <3>2
    <2>. QED
      BY <1>4, <1>6, <1>10, <2>1, <2>2
  <1>18. \A r \in Of(i.key): page = {} => Rank(r) <= offset
    BY <1>1, <1>4, <1>9, <1>11 DEF offset
  <1>19. PagingFits(c)'
    <2>1. /\ Of(i.key)' = Of(i.key)
          /\ \A r: Rank(r)' = Rank(r)
          /\ \A r: Beaten(c, r)' <=> newest # NoRecord /\ r.version <= newest.version
      BY <1>3, <1>12, <1>13 DEF Of, Rank, Beaten
    <2>2. ASSUME i.key \notin raced, i.op = "commit",
                 NEW d \in Clients, Pages(d)', call'[d].op = "commit", call'[d].key = i.key
          PROVE  d = c
      BY <1>1, <1>13, <1>14, <2>2 DEF PagingFits, Pages, At
    <2>3. i.op \in {"commit", "recall"} /\ i.key \in Keys
      BY <1>1, <1>14 DEF PagingFits
    <2>. QED
      BY <1>3, <1>9, <1>12, <1>13, <1>16, <1>17, <1>18, <2>1, <2>2, <2>3 DEF PagingFits
  <1>20. raced' \subseteq Keys
    BY <1>1, <1>3 DEF TypeOK
  <1>. QED
    BY <1>2, <1>3, <1>12, <1>14, <1>15, <1>19, <1>20, CallKeeps

(* What a reader returns is the newest of what it asked for: a newer       *)
(* version in the store would have beaten it.                              *)
LEMMA ReturnKeeps ==
  ASSUME MemoryInv, NEW c \in Clients, Return(c)
  PROVE  MemoryInv'
PROOF
  <1>. DEFINE i == call[c]
              new == [i EXCEPT !.at = "found"]
  <1>1. /\ TypeOK /\ RecordsFit /\ PagingFits(c) /\ TellingFits(c)
        /\ i.at = "read" /\ i.op = "recall" /\ i \in CallStates
        /\ UNCHANGED <<store, now, written, raced>>
    BY DEF MemoryInv, TypeOK, Return, At
  <1>2. CASE End(c)
    BY <1>1, <1>2, EndKeeps
  <1>3. CASE i.latest # NoRecord /\ ~Expired(i.latest) /\ Tell(c, "found")
    <2>1. call' = [call EXCEPT ![c] = new]
      BY <1>3 DEF Tell
    <2>2. /\ new \in CallStates /\ new.op = i.op /\ new.key = i.key /\ new.at = "found"
          /\ new.latest = i.latest /\ new.opened = i.opened /\ new.since = i.since
      BY <1>1 DEF CallStates, Places
    <2>. HIDE DEF new
    <2>3. call'[c] = new
      BY <1>1, <2>1 DEF TypeOK
    <2>4. PagingFits(c)' /\ Enters(c)
      BY <2>2, <2>3 DEF PagingFits, Enters, Pages, At
    <2>5. i.latest \in Records /\ i.since <= now /\ i.latest.key = i.key /\ i.latest \in written
          /\ i.latest.expires > i.since
      <3>1. i.latest \in Records /\ i.since <= now /\ i.latest.key = i.key /\ i.latest \in written
        BY <1>1, <1>3 DEF PagingFits, TellingFits, Pages, At, CallStates
      <3>2. i.latest.expires \in Nat /\ i.since \in Nat /\ now \in Nat
        BY <1>1, <3>1 DEF Records, TypeOK, CallStates
      <3>. QED
        BY <1>3, <3>1, <3>2 DEF Expired
    <2>6. ASSUME i.key \notin raced, NEW r \in i.opened, r.key = i.key, r.id > i.latest.id,
                 r \in store
          PROVE  FALSE
      <3>1. r \in Of(i.key) /\ i.latest \in store
        BY <1>1, <1>3, <2>6 DEF Of, PagingFits, Pages, At
      <3>2. r.version <= i.latest.version
        BY <1>1, <2>6, <3>1 DEF PagingFits, Pages, At, Beaten
      <3>3. i.latest.id < r.id
        BY <1>1, <2>5, <2>6 DEF TypeOK, Records
      <3>4. i.latest.version < r.version
        BY <1>1, <2>5, <2>6, <3>1, <3>3 DEF RecordsFit
      <3>5. i.latest.version \in Nat /\ r.version \in Nat
        BY <1>1, <2>5, <2>6 DEF TypeOK, Records
      <3>. QED
        BY <3>2, <3>4, <3>5
    <2>7. TellingFits(c)'
      BY <1>1, <1>3, <2>2, <2>3, <2>5, <2>6 DEF TellingFits
    <2>8. raced' \subseteq Keys
      BY <1>1 DEF TypeOK
    <2>. QED
      BY <1>1, <2>1, <2>2, <2>4, <2>7, <2>8, CallKeeps
  <1>. QED
    BY <1>2, <1>3 DEF Return

(* A search of a delete loop that finds nothing ends it.                   *)
LEMMA SearchDueKeeps ==
  ASSUME MemoryInv, NEW c \in Clients, SearchDue(c)
  PROVE  MemoryInv'
PROOF
  <1>. DEFINE i == call[c]
  <1>1. /\ TypeOK /\ TellingFits(c) /\ i.at = "deleting" /\ i \in CallStates
        /\ UNCHANGED <<store, now, written, raced>> /\ raced' \subseteq Keys
    BY DEF MemoryInv, TypeOK, SearchDue, At
  <1>2. /\ i.op = "forget" \/ i.op = "purge"
        /\ \A r \in Due(c): /\ i.op = "forget" => r.key = i.key
                            /\ i.op = "purge" => r.expires <= i.since
        /\ Due(c) \subseteq Records
        /\ i.op = "forget" => Due(c) = Of(i.key) /\ i.key \in Keys
    BY <1>1 DEF TellingFits, Due, Of, TypeOK
  <1>3. CASE Due(c) = {} /\ DeletionDone(c)
    <2>1. CASE End(c)
      BY <1>1, <2>1, EndKeeps
    <2>2. CASE i.op = "forget" /\ Tell(c, "forgotten")
      <3>. DEFINE new == [i EXCEPT !.at = "forgotten"]
      <3>1. call' = [call EXCEPT ![c] = new]
        BY <2>2 DEF Tell
      <3>2. /\ new \in CallStates /\ new.op = i.op /\ new.key = i.key /\ new.at = "forgotten"
            /\ new.latest = i.latest /\ new.opened = i.opened /\ new.since = i.since
        BY <1>1 DEF CallStates, Places
      <3>. HIDE DEF new
      <3>3. call'[c] = new
        BY <1>1, <3>1 DEF TypeOK
      <3>4. PagingFits(c)' /\ Enters(c)
        BY <3>2, <3>3 DEF PagingFits, Enters, Pages, At
      <3>5. \A r \in store: r.key # i.key
        BY <1>2, <1>3, <2>2 DEF Of
      <3>6. TellingFits(c)'
        BY <1>1, <3>2, <3>3, <3>5 DEF TellingFits
      <3>. QED
        BY <1>1, <3>1, <3>2, <3>4, <3>6, CallKeeps
    <2>. QED
      BY <1>3, <2>1, <2>2 DEF DeletionDone
  <1>4. CASE \E batch \in (SUBSET Due(c)) \ {{}}:
               /\ Cardinality(batch) <= PageSize
               /\ call' = [call EXCEPT ![c].batch = batch]
    <2>1. PICK batch \in SUBSET Due(c): call' = [call EXCEPT ![c].batch = batch]
      BY <1>4
    <2>. DEFINE new == [i EXCEPT !.batch = batch]
    <2>2. call' = [call EXCEPT ![c] = new]
      BY <2>1
    <2>3. /\ new \in CallStates /\ new.op = i.op /\ new.key = i.key /\ new.at = "deleting"
          /\ new.latest = i.latest /\ new.opened = i.opened /\ new.since = i.since
          /\ new.batch = batch
      BY <1>1, <1>2 DEF CallStates
    <2>. HIDE DEF new
    <2>4. call'[c] = new
      BY <1>1, <2>2 DEF TypeOK
    <2>5. PagingFits(c)' /\ Enters(c)
      BY <2>3, <2>4 DEF PagingFits, Enters, Pages, At
    <2>6. TellingFits(c)'
      BY <1>1, <1>2, <2>3, <2>4 DEF TellingFits
    <2>. QED
      BY <1>1, <2>2, <2>3, <2>5, <2>6, CallKeeps
  <1>. QED
    BY <1>3, <1>4 DEF SearchDue

-----------------------------------------------------------------------------
(* A record that leaves the store marks its key, when a page loop may miss *)
(* another because of it.                                                  *)
LEMMA DeleteNextKeeps ==
  ASSUME MemoryInv, NEW c \in Clients, DeleteNext(c)
  PROVE  MemoryInv'
PROOF
  <1>. DEFINE i == call[c]
  <1>1. /\ TypeOK /\ RecordsFit /\ TellingFits(c) /\ i.at = "deleting" /\ i \in CallStates
        /\ now' = now /\ written' = written
    BY DEF MemoryInv, TypeOK, DeleteNext, At
  <1>2. PICK gone \in i.batch:
          /\ store' = store \ {gone}
          /\ call' = [call EXCEPT ![c].batch = @ \ {gone}]
          /\ raced' = IF gone \in store /\ \E d \in Clients: Pages(d) /\ call[d].key = gone.key
                      THEN raced \cup {gone.key} ELSE raced
    BY DEF DeleteNext
  <1>. DEFINE rest == i.batch \ {gone}
              new == [i EXCEPT !.batch = rest]
  <1>3. call' = [call EXCEPT ![c] = new]
    BY <1>1, <1>2 DEF TypeOK
  <1>4. /\ new \in CallStates /\ new.op = i.op /\ new.key = i.key /\ new.at = "deleting"
        /\ new.latest = i.latest /\ new.opened = i.opened /\ new.since = i.since
        /\ new.batch = rest /\ rest \subseteq i.batch
    BY <1>1 DEF CallStates
  <1>. HIDE DEF new
  <1>5. call'[c] = new /\ \A d \in Clients \ {c}: call'[d] = call[d]
    BY <1>1, <1>3 DEF TypeOK
  <1>6. gone \in Records /\ raced \subseteq raced' /\ raced' \subseteq Keys
    BY <1>1, <1>2 DEF CallStates, TypeOK, Records
  <1>7. TypeOK'
    BY <1>1, <1>2, <1>3, <1>4, <1>6 DEF TypeOK
  <1>8. RecordsFit'
    BY <1>1, <1>2, <1>6 DEF RecordsFit
  <1>9. TellingFits(c)' /\ PagingFits(c)'
    BY <1>1, <1>4, <1>5 DEF TellingFits, PagingFits, Pages, At
  <1>10. ASSUME NEW d \in Clients \ {c}
         PROVE  TellingFits(d)'
    <2>1. TellingFits(d) /\ call'[d] = call[d]
      BY <1>5 DEF MemoryInv
    <2>. QED
      BY <1>1, <1>2, <1>6, <2>1 DEF TellingFits
  <1>11. ASSUME NEW d \in Clients \ {c}
         PROVE  PagingFits(d)'
    <2>1. PagingFits(d) /\ call'[d] = call[d] /\ (Pages(d)' <=> Pages(d))
      BY <1>5 DEF MemoryInv, Pages, At
    <2>2. ASSUME Pages(d), call[d].key \notin raced', call[d].op = "commit",
                 NEW e \in Clients, Pages(e)', call'[e].op = "commit",
                 call'[e].key = call[d].key
          PROVE  e = d
      <3>1. e # c
        BY <1>4, <1>5, <2>2 DEF Pages, At
      <3>2. Pages(e) /\ call[e].op = "commit" /\ call[e].key = call[d].key
        BY <1>5, <2>2, <3>1 DEF Pages, At
      <3>. QED
        BY <1>6, <2>1, <2>2, <3>2 DEF PagingFits
    <2>3. ASSUME Pages(d), call[d].key \notin raced'
          PROVE  /\ Of(call[d].key)' = Of(call[d].key)
                 /\ \A r \in Of(call[d].key): Rank(r)' = Rank(r)
                 /\ call[d].latest # NoRecord => call[d].latest \in store'
      <3>1. gone \notin store \/ gone.key # call[d].key
        BY <1>2, <2>3
      <3>2. Of(call[d].key)' = Of(call[d].key)
        BY <1>2, <3>1 DEF Of
      <3>3. \A r \in Of(call[d].key): r.key = call[d].key
        BY DEF Of
      <3>4. ASSUME NEW r \in Of(call[d].key)
            PROVE  Rank(r)' = Rank(r)
        <4>1. Of(r.key)' = Of(r.key)
          BY <1>2, <3>1, <3>3 DEF Of
        <4>. QED
          BY <4>1 DEF Rank
      <3>. QED
        BY <1>2, <1>6, <2>1, <2>3, <3>1, <3>2, <3>4 DEF PagingFits
    <2>4. \A r: Beaten(d, r)' <=> Beaten(d, r)
      BY <2>1 DEF Beaten
    <2>. QED
      BY <1>6, <2>1, <2>2, <2>3, <2>4 DEF PagingFits
  <1>. QED
    BY <1>7, <1>8, <1>9, <1>10, <1>11 DEF MemoryInv

(* The record that a commit puts: after every other in number, and, unless *)
(* its key was raced, in version.  It is ranked last.                      *)
LEMMA PutRecordKeeps ==
  ASSUME MemoryInv, NEW c \in Clients, PutRecord(c)
  PROVE  MemoryInv'
PROOF
  <1>. DEFINE i == call[c]
              count == Cardinality(written)
  <1>1. /\ TypeOK /\ RecordsFit /\ PagingFits(c) /\ TellingFits(c)
        /\ i.at = "read" /\ i.op = "commit" /\ i \in CallStates /\ Pages(c)
        /\ now' = now /\ raced' = raced /\ count < MaxRecords
    BY DEF MemoryInv, TypeOK, PutRecord, At, Pages
  <1>0. PICK retention \in Retentions:
          /\ store' = store \cup {NextRecord(c, retention)}
          /\ written' = written \cup {NextRecord(c, retention)}
    BY DEF PutRecord
  <1>2. PICK new: /\ new = NextRecord(c, retention)
                  /\ store' = store \cup {new} /\ written' = written \cup {new}
    BY <1>0
  <1>3. /\ count \in Nat /\ IsFiniteSet(written) /\ MaxRecords \in Nat /\ retention \in Nat
        /\ now \in Nat
    BY <1>1, FS_CardinalityType, LimitsAssumption DEF RecordsFit, TypeOK
  <1>4. /\ new.id = count + 1 /\ new.key = i.key /\ new.expires = now + retention
        /\ i.latest = NoRecord => new.version = 1 /\ new.supersedes = 0
        /\ i.latest # NoRecord => /\ new.version = i.latest.version + 1
                                  /\ new.supersedes = i.latest.id
    BY <1>2 DEF NextRecord
  <1>5. i.latest # NoRecord =>
          /\ i.latest \in Records /\ i.latest.version <= i.latest.id /\ i.latest.id <= count
          /\ i.latest.version \in 1..MaxRecords /\ i.latest.id \in 1..MaxRecords
    BY <1>1 DEF TellingFits, RecordsFit, TypeOK, Records
  <1>6. new \in Records /\ new.version \in Nat /\ new.version <= new.id
    <2>1. i.key \in Keys
      BY <1>1 DEF PagingFits
    <2>2. /\ new.id \in 1..MaxRecords /\ new.version \in 1..MaxRecords
          /\ new.supersedes \in 0..MaxRecords /\ new.expires \in Nat
          /\ new.version <= new.id
      BY <1>1, <1>3, <1>4, <1>5
    <2>3. new = [id |-> new.id, key |-> new.key, version |-> new.version,
                 supersedes |-> new.supersedes, expires |-> new.expires]
      BY <1>2 DEF NextRecord
    <2>. QED
      BY <1>4, <2>1, <2>2, <2>3 DEF Records
  <1>7. \A r \in written: /\ r \in Records /\ r.id \in Nat /\ r.version \in Nat
                          /\ r.id < new.id /\ r # new
    BY <1>1, <1>3, <1>4 DEF RecordsFit, TypeOK, Records
  <1>8. /\ call' = [call EXCEPT ![c] = Resting] /\ Resting \in CallStates
    BY RestingTyped DEF PutRecord, End
  <1>9. TypeOK' /\ call'[c] = Resting /\ \A d \in Clients \ {c}: call'[d] = call[d]
    BY <1>1, <1>2, <1>6, <1>8 DEF TypeOK
  <1>10. i.key \notin raced => \A r \in store: r.key = i.key => r.version < new.version
    <2>. SUFFICES ASSUME i.key \notin raced, NEW r \in store, r.key = i.key
                  PROVE  r.version < new.version
      OBVIOUS
    <2>1. i.latest # NoRecord /\ r.version <= i.latest.version
      BY <1>1 DEF PagingFits, Beaten, Of
    <2>2. r.version \in Nat
      BY <1>1, <1>7 DEF RecordsFit
    <2>. QED
      BY <1>4, <1>5, <2>1, <2>2
  <1>11. RecordsFit'
    <2>1. IsFiniteSet(written') /\ Cardinality(written') = count + 1
      BY <1>2, <1>3, <1>7, FS_AddElement
    <2>2. store' \subseteq written' /\ store \subseteq written
      BY <1>1, <1>2 DEF RecordsFit
    <2>3. \A r \in written': r.version <= r.id /\ r.id <= Cardinality(written')
      BY <1>1, <1>2, <1>3, <1>4, <1>6, <1>7, <2>1 DEF RecordsFit
    <2>4. \A r, s \in written': r.id = s.id => r = s
      BY <1>1, <1>2, <1>3, <1>4, <1>7 DEF RecordsFit
    <2>5. ASSUME NEW r \in store', NEW s \in store', r.key = s.key, r.key \notin raced',
                 r.id < s.id
          PROVE  r.version < s.version
      <3>1. CASE r = new
        BY <1>2, <1>3, <1>4, <1>7, <2>2, <2>5, <3>1
      <3>2. CASE r # new /\ s = new
        BY <1>1, <1>2, <1>4, <1>10, <2>5, <3>2
      <3>3. CASE r # new /\ s # new
        BY <1>1, <1>2, <2>5, <3>3 DEF RecordsFit
      <3>. QED
        BY <3>1, <3>2, <3>3
    <2>. QED
      BY <2>1, <2>2, <2>3, <2>4, <2>5 DEF RecordsFit
  <1>12. PagingFits(c)' /\ TellingFits(c)'
    BY <1>9, RestingFits
  <1>13. ASSUME NEW d \in Clients \ {c}
         PROVE  TellingFits(d)'
    <2>1. TellingFits(d) /\ call'[d] = call[d]
      BY <1>9 DEF MemoryInv
    <2>2. \A r \in call[d].opened: r \in store' => r \in store
      BY <1>2, <1>7, <2>1 DEF TellingFits
    <2>. QED
      BY <1>1, <1>2, <2>1, <2>2 DEF TellingFits
  <1>14. ASSUME NEW d \in Clients \ {c}
         PROVE  PagingFits(d)'
    <2>0. PICK key: key = call[d].key
      OBVIOUS
    <2>1. PagingFits(d) /\ TellingFits(d) /\ call'[d] = call[d] /\ (Pages(d)' <=> Pages(d))
      BY <1>9 DEF MemoryInv, Pages, At
    <2>2. ASSUME Pages(d), key \notin raced, call[d].op = "commit",
                 NEW e \in Clients, Pages(e)', call'[e].op = "commit", call'[e].key = key
          PROVE  e = d
      <3>1. e # c
        BY <1>9, <2>2 DEF Pages, At, Resting
      <3>2. Pages(e) /\ call[e].op = "commit" /\ call[e].key = key
        BY <1>9, <2>2, <3>1 DEF Pages, At
      <3>. QED
        BY <2>0, <2>1, <2>2, <3>2 DEF PagingFits
    <2>3. ASSUME key # i.key
          PROVE  /\ \A r: r \in Of(key)' <=> r \in Of(key)
                 /\ \A r \in Of(key): Rank(r)' = Rank(r)
                 /\ Cardinality(Of(key)') = Cardinality(Of(key))
      <3>1. Of(key)' = Of(key)
        BY <1>2, <1>4, <2>1, <2>3 DEF Of
      <3>2. ASSUME NEW r \in Of(key)
            PROVE  Rank(r)' = Rank(r)
        <4>1. r.key = key
          BY DEF Of
        <4>2. Of(r.key)' = Of(r.key)
          BY <1>2, <1>4, <2>3, <4>1 DEF Of
        <4>. QED
          BY <4>2 DEF Rank
      <3>. QED
        BY <3>1, <3>2
    <2>4. ASSUME key = i.key
          PROVE  /\ \A r: r \in Of(key)' <=> r \in Of(key) \/ r = new
                 /\ \A r \in Of(key): Rank(r)' = Rank(r)
                 /\ Cardinality(Of(key)') = Cardinality(Of(key)) + 1
                 /\ Rank(new)' = Cardinality(Of(key)) + 1
      <3>1. Of(key)' = Of(key) \cup {new}
        BY <1>2, <1>4, <2>1, <2>4 DEF Of
      <3>2. /\ IsFiniteSet(Of(key)) /\ new \notin Of(key)
            /\ \A r \in Of(key): r \in written /\ r.key = key
        BY <1>1, <1>7, OfFits DEF Of, RecordsFit
      <3>3. Cardinality(Of(key) \cup {new}) = Cardinality(Of(key)) + 1
        BY <3>2, FS_AddElement
      <3>4. ASSUME NEW r \in Of(key)
            PROVE  Rank(r)' = Rank(r)
        <4>1. r.key = key /\ r \in written
          BY <3>2
        <4>2. Of(r.key)' = Of(r.key) \cup {new}
          BY <1>2, <1>4, <2>4, <4>1 DEF Of
        <4>3. {s \in Of(r.key)': s.id <= r.id} = {s \in Of(r.key): s.id <= r.id}
          BY <1>3, <1>4, <1>7, <4>1, <4>2
        <4>. QED
          BY <4>3 DEF Rank
      <3>5. Rank(new)' = Cardinality(Of(key)) + 1
        <4>1. Of(new.key)' = Of(key) \cup {new}
          BY <1>2, <1>4, <2>4 DEF Of
        <4>2. \A s \in Of(key) \cup {new}: s.id <= new.id
          BY <1>3, <1>4, <1>7, <3>2
        <4>3. {s \in Of(new.key)': s.id <= new.id} = Of(key) \cup {new}
          BY <4>1, <4>2
        <4>. QED
          BY <3>3, <4>3 DEF Rank
      <3>. QED
        BY <3>1, <3>3, <3>4, <3>5
    <2>5. \A r: Beaten(d, r)' <=> Beaten(d, r)
      BY <2>1 DEF Beaten
    <2>6. new \notin call[d].opened /\ Cardinality(Of(key)) \in Nat
      BY <1>1, <1>7, <2>1, OfFits DEF TellingFits
    <2>7. ASSUME Pages(d), key \notin raced, key = i.key
          PROVE  call[d].op = "recall"
      BY <1>1, <2>0, <2>1, <2>7 DEF PagingFits
    <2>8. call[d].offset \in Nat
      BY <1>1 DEF TypeOK, CallStates
    <2>9. ASSUME Pages(d), key \notin raced
          PROVE  /\ call[d].latest # NoRecord => call[d].latest \in store'
                 /\ call[d].at = "paging" =>
                      /\ call[d].offset <= Cardinality(Of(key)')
                      /\ \A r \in Of(key)': Rank(r)' <= call[d].offset => Beaten(d, r)
                 /\ call[d].at = "read" =>
                      \A r \in Of(key)':
                        call[d].op = "commit" \/ r \in call[d].opened => Beaten(d, r)
      <3>1. /\ call[d].latest # NoRecord => call[d].latest \in store
            /\ call[d].at = "paging" =>
                 /\ call[d].offset <= Cardinality(Of(key))
                 /\ \A r \in Of(key): Rank(r) <= call[d].offset => Beaten(d, r)
            /\ call[d].at = "read" =>
                 \A r \in Of(key): call[d].op = "commit" \/ r \in call[d].opened => Beaten(d, r)
        BY <2>0, <2>1, <2>9 DEF PagingFits
      <3>2. CASE key # i.key
        BY <1>2, <2>3, <3>1, <3>2
      <3>3. CASE key = i.key
        <4>1. call[d].op # "commit"
          BY <2>7, <2>9, <3>3
        <4>2. call[d].at = "paging" => ~(Rank(new)' <= call[d].offset)
          BY <2>4, <2>6, <2>8, <3>1, <3>3
        <4>. QED
          BY <1>2, <2>4, <2>6, <2>8, <3>1, <3>3, <4>1, <4>2
      <3>. QED
        BY <3>2, <3>3
    <2>. QED
      BY <1>1, <2>0, <2>1, <2>2, <2>5, <2>9 DEF PagingFits
  <1>. QED
    BY <1>9, <1>11, <1>12, <1>13, <1>14 DEF MemoryInv

-----------------------------------------------------------------------------
(* Only the clock moves, or nothing does.                                  *)
LEMMA ClockKeeps ==
  ASSUME MemoryInv, UNCHANGED <<store, call, written, raced>>, now' \in {now, now + 1},
         now' \in 0..MaxTime
  PROVE  MemoryInv'
PROOF
  <1>1. TypeOK' /\ RecordsFit'
    BY DEF MemoryInv, TypeOK, RecordsFit
  <1>2. ASSUME NEW c \in Clients
        PROVE  PagingFits(c)' /\ TellingFits(c)'
    <2>1. PagingFits(c) /\ TellingFits(c) /\ call[c].since \in Nat /\ now \in Nat
      BY DEF MemoryInv, TypeOK, CallStates
    <2>2. call[c].since <= now'
      BY <2>1 DEF TellingFits
    <2>3. TellingFits(c)'
      BY <2>1, <2>2 DEF TellingFits
    <2>4. /\ \A key: Of(key)' = Of(key)
          /\ \A r: Rank(r)' = Rank(r)
          /\ \A r: Beaten(c, r)' <=> Beaten(c, r)
          /\ \A d: Pages(d)' <=> Pages(d)
      BY DEF Of, Rank, Beaten, Pages, At
    <2>5. PagingFits(c)'
      BY <2>1, <2>4 DEF PagingFits
    <2>. QED
      BY <2>3, <2>5
  <1>. QED
    BY <1>1, <1>2 DEF MemoryInv

LEMMA InitHolds == Init => MemoryInv
PROOF
  <1>. SUFFICES ASSUME Init
                PROVE  MemoryInv
    OBVIOUS
  <1>1. TypeOK
    BY RestingTyped, LimitsAssumption DEF Init, TypeOK
  <1>2. RecordsFit
    BY FS_EmptySet DEF Init, RecordsFit
  <1>3. \A c \in Clients: PagingFits(c) /\ TellingFits(c)
    BY DEF Init, PagingFits, TellingFits, Pages, At, Resting
  <1>. QED
    BY <1>1, <1>2, <1>3 DEF MemoryInv

LEMMA NextKeeps == MemoryInv /\ [Next]_vars => MemoryInv'
PROOF
  <1>. SUFFICES ASSUME MemoryInv, [Next]_vars
                PROVE  MemoryInv'
    OBVIOUS
  <1>1. CASE UNCHANGED vars
    BY <1>1, ClockKeeps DEF vars, MemoryInv, TypeOK
  <1>2. CASE Tick
    BY <1>2, ClockKeeps, LimitsAssumption DEF Tick, MemoryInv, TypeOK
  <1>3. ASSUME NEW c \in Clients, NEW key \in Keys, BeginCommit(c, key)
        PROVE  MemoryInv'
    BY <1>3, BeginPagingKeeps DEF BeginCommit
  <1>4. ASSUME NEW c \in Clients, NEW key \in Keys,
               BeginRecall(c, key) \/ BeginPreference(c, key)
        PROVE  MemoryInv'
    BY <1>4, BeginPagingKeeps DEF BeginRecall, BeginPreference
  <1>5. ASSUME NEW c \in Clients, NEW key \in Keys, BeginForget(c, key)
        PROVE  MemoryInv'
    BY <1>5, BeginDeletingKeeps DEF BeginForget
  <1>6. ASSUME NEW c \in Clients, BeginPurge(c)
        PROVE  MemoryInv'
    BY <1>6, BeginDeletingKeeps DEF BeginPurge
  <1>7. ASSUME NEW c \in Clients, CallRaises(c) \/ Rest(c)
        PROVE  MemoryInv'
    BY <1>7, EndKeeps DEF CallRaises, Rest
  <1>8. ASSUME NEW c \in Clients,
               ReadPage(c) \/ PutRecord(c) \/ Return(c) \/ SearchDue(c) \/ DeleteNext(c)
        PROVE  MemoryInv'
    BY <1>8, ReadPageKeeps, PutRecordKeeps, ReturnKeeps, SearchDueKeeps, DeleteNextKeeps
  <1>. QED
    BY <1>1, <1>2, <1>3, <1>4, <1>5, <1>6, <1>7, <1>8 DEF Next

(* The invariant the others follow from.                                   *)
THEOREM Invariant == Spec => []MemoryInv
PROOF
  BY InitHolds, NextKeeps, PTL DEF Spec

(* Records, clock and calls are well formed; in particular no version      *)
(* number outruns the records put.                                         *)
THEOREM TypeCorrect == Spec => []TypeOK
PROOF
  <1>1. MemoryInv => TypeOK
    BY DEF MemoryInv
  <1>. QED
    BY <1>1, Invariant, PTL

(* store.py, commit: two stored versions of a key have different numbers,  *)
(* unless two commits overlapped or a delete shifted the pages of one.     *)
THEOREM VersionsStayDistinct == Spec => []VersionsDistinct
PROOF
  <1>1. MemoryInv => VersionsDistinct
    <2>. SUFFICES ASSUME MemoryInv, NEW r \in store, NEW s \in store, r.key = s.key,
                         r.version = s.version, r.key \notin raced
                  PROVE  r = s
      BY DEF VersionsDistinct
    <2>1. /\ r.id \in Nat /\ s.id \in Nat /\ r.version \in Nat
          /\ r \in written /\ s \in written
      BY DEF MemoryInv, TypeOK, RecordsFit, Records
    <2>2. ~(r.id < s.id) /\ ~(s.id < r.id)
      BY <2>1 DEF MemoryInv, RecordsFit
    <2>. QED
      BY <2>1, <2>2 DEF MemoryInv, RecordsFit
  <1>. QED
    BY <1>1, Invariant, PTL

(* store.py, _latest_version under recall and presentation_preferences:    *)
(* what is found was valid, and the newest of its key when it was asked    *)
(* for, for every page size.                                               *)
THEOREM NewestIsFound == Spec => []FoundIsNewest
PROOF
  <1>1. MemoryInv => FoundIsNewest
    BY DEF MemoryInv, TellingFits, FoundIsNewest, At
  <1>. QED
    BY <1>1, Invariant, PTL

(* store.py, forget: batch after batch, until nothing is left that was     *)
(* there before.                                                           *)
THEOREM ForgottenIsErased == Spec => []ForgetErases
PROOF
  <1>1. MemoryInv => ForgetErases
    BY DEF MemoryInv, TellingFits, ForgetErases, At
  <1>. QED
    BY <1>1, Invariant, PTL

(* store.py, purge_expired and forget: a batch that was searched before    *)
(* only names records that are due when they are deleted.                  *)
THEOREM NothingLeavesEarly == Spec => KeptUntilDue
PROOF
  <1>. DEFINE Keeps == \A r \in store \ store':
         Expired(r) \/ \E c \in Clients: At(c, "deleting") /\ call[c].op = "forget"
                                         /\ call[c].key = r.key
  <1>1. ASSUME MemoryInv, [Next]_vars
        PROVE  [Keeps]_vars
    <2>1. ASSUME NEW c \in Clients, DeleteNext(c), NEW r \in store, r \notin store'
          PROVE  Expired(r) \/ (At(c, "deleting") /\ call[c].op = "forget"
                                 /\ call[c].key = r.key)
      <3>1. r \in call[c].batch /\ At(c, "deleting")
        BY <2>1 DEF DeleteNext
      <3>2. /\ call[c].since <= now /\ call[c].since \in Nat /\ now \in Nat
            /\ r.expires \in Nat
        BY <1>1, <2>1 DEF MemoryInv, TellingFits, TypeOK, CallStates, Records
      <3>3. \/ call[c].op = "forget" /\ r.key = call[c].key
            \/ call[c].op = "purge" /\ r.expires <= call[c].since
        BY <1>1, <3>1 DEF MemoryInv, TellingFits, At
      <3>. QED
        BY <3>1, <3>2, <3>3 DEF Expired
    <2>2. ASSUME NEW c \in Clients, NEW key \in Keys,
                 BeginCommit(c, key) \/ BeginRecall(c, key) \/ BeginPreference(c, key)
                 \/ BeginForget(c, key)
          PROVE  store \subseteq store'
      BY <2>2 DEF BeginCommit, BeginRecall, BeginPreference, BeginForget
    <2>3. ASSUME NEW c \in Clients,
                 \/ ReadPage(c) \/ PutRecord(c) \/ Return(c) \/ BeginPurge(c)
                 \/ SearchDue(c) \/ CallRaises(c) \/ Rest(c)
          PROVE  store \subseteq store'
      BY <2>3 DEF ReadPage, PutRecord, Return, BeginPurge, SearchDue, CallRaises, Rest
    <2>4. CASE Next
      BY <2>1, <2>2, <2>3, <2>4 DEF Next, Tick, Keeps
    <2>. QED
      BY <1>1, <2>4
  <1>. HIDE DEF Keeps
  <1>2. Spec => [][Keeps]_vars
    BY <1>1, Invariant, PTL DEF Spec
  <1>. QED
    BY <1>2 DEF KeptUntilDue, Keeps

=============================================================================
