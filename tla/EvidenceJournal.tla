-------------------------- MODULE EvidenceJournal --------------------------
(***************************************************************************)
(* EvidenceLedger of src/governance/evidence.py: a hash-chained file.      *)
(* append holds a lock of its process while it reads the last line and     *)
(* adds one; another process, Foreign here, has a lock of its own on the   *)
(* same path.  A writer appends once, so a record's hash is its writer.    *)
(***************************************************************************)
EXTENDS RagIdentity, Sequences, Naturals

VARIABLES
  journal,   \* the lines of the file
  head,      \* the last hash a writer has read and not yet linked to
  raced      \* has the other process been inside append beside one of ours?

journalVars == <<journal, head, raced>>

-----------------------------------------------------------------------------
Writers == Turns \cup {Foreign}
Hashes == Writers \cup {NoTurn}
NotAppending == "not appending"
JournalDecisions == {"allow", "block"}
JournalRecords ==
  [writer: Writers, decision: JournalDecisions, prev: Hashes, whole: BOOLEAN]

JournalTypeOK ==
  /\ journal \in Seq(JournalRecords)
  /\ head \in [Writers -> Hashes \cup {NotAppending}]
  /\ raced \in BOOLEAN

JournalInit ==
  /\ journal = <<>>
  /\ head = [w \in Writers |-> NotAppending]
  /\ raced = FALSE

Appending(w) == head[w] # NotAppending

(* Mutant: no lock.                                                        *)
NoFileLock(w) == TRUE

(* threading.Lock: one writer of a process at a time.                      *)
LockFree(w) == w \in Turns => \A u \in Turns: ~Appending(u)

(* _last_hash parses the last line; a line that a crash cut raises.        *)
HeadReadable == Len(journal) > 0 => journal[Len(journal)].whole
LastHash == IF Len(journal) = 0 THEN NoTurn ELSE journal[Len(journal)].writer

ReadHead(w) ==
  /\ ~Appending(w)
  /\ LockFree(w)
  /\ HeadReadable
  /\ head' = [head EXCEPT ![w] = LastHash]
  /\ raced' = (raced \/ \E u \in Writers:
                 Appending(u) /\ Foreign \in {u, w})
  /\ UNCHANGED journal

Record(w, decision, whole) ==
  [writer |-> w, decision |-> decision, prev |-> head[w], whole |-> whole]

WriteRecord(w, decision) ==
  /\ Appending(w)
  /\ journal' = Append(journal, Record(w, decision, TRUE))
  /\ head' = [head EXCEPT ![w] = NotAppending]
  /\ UNCHANGED raced

(* The other process appends a record of its own, once.                    *)
ForeignRead ==
  /\ \A i \in 1..Len(journal): journal[i].writer # Foreign
  /\ ReadHead(Foreign)

ForeignWrite == WriteRecord(Foreign, "allow")

(* The process of the turns dies: its writers are gone, one of them may    *)
(* leave a part of its line.                                               *)
LoseWriters ==
  /\ head' = [w \in Writers |-> IF w = Foreign THEN head[w] ELSE NotAppending]
  /\ \/ UNCHANGED journal
     \/ \E t \in Turns:
          /\ Appending(t)
          /\ \E d \in JournalDecisions: journal' = Append(journal, Record(t, d, FALSE))
  /\ UNCHANGED raced

-----------------------------------------------------------------------------
Linked(i) == journal[i].prev = IF i = 1 THEN NoTurn ELSE journal[i - 1].writer

(* verify: every line parses and links to the one before it.               *)
Verifies == \A i \in 1..Len(journal): journal[i].whole /\ Linked(i)

(* The decisions whose line is whole.                                      *)
Recorded(t, d) ==
  \E i \in 1..Len(journal):
    journal[i].writer = t /\ journal[i].decision = d /\ journal[i].whole

=============================================================================
