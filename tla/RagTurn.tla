------------------------------ MODULE RagTurn ------------------------------
(***************************************************************************)
(* One process of the question-answering application: the graph of         *)
(* src/graph/rag_graph.py with the nodes of src/nodes/rag.py, run by       *)
(* RAGAgent.invoke (src/agents/rag_agent.py), over the context cache and   *)
(* the evidence journal.  An audit record is a call that may raise; what   *)
(* becomes of it is the subject of BufferedAudit.                          *)
(*                                                                         *)
(* A step is a node with the checkpoint that LangGraph writes after it.    *)
(* What a node does before it raises stays done, its update is not         *)
(* committed.  record_evidence is split where other writers interleave:    *)
(* reading the journal, appending, and the audit record with the commit.   *)
(* A turn loads the checkpoint once and works on its own copy; turns of    *)
(* one thread exclude each other nowhere.  Checkpoints and cache survive a *)
(* crash, as the production profile has them.                              *)
(***************************************************************************)
EXTENDS ConversationState, ContextCache, EvidenceJournal

CONSTANTS
  Profile,     \* "development", "on_premise" or "cloud": the security controls
  MaxFaults    \* bound on calls that raise, and on crashes

ASSUME ProfileAssumption == Profile \in {"development", "on_premise", "cloud"}
ASSUME MaxFaultsAssumption == MaxFaults \in Nat

VARIABLES
  thread,   \* the checkpoint of each conversation
  turn,     \* every request, and the values it works on
  faults,
  overlapped   \* threads on which two turns ran at once, which no code keeps

stores == <<cache, journalVars>>
vars == <<thread, turn, faults, overlapped, stores>>

-----------------------------------------------------------------------------
Values == [status: Statuses, handle: Turns \cup {NoTurn}, window: Windows]

Nodes ==
  {"manage_context", "guard_input", "retrieve", "guard_retrieval", "generate",
   "validate_output", "record_evidence", "append_evidence", "audit_evidence",
   "cleanup_context"}
Ended == {"returned", "raised", "refused"}

(* What the generator may answer.  "garbled" holds a control character.    *)
Answers == {"cited", "uncited", "misquoted", "unsafe", "garbled", "no answer"}

(* docs: what this turn gave its generator; answer: what came back.  Both  *)
(* are there from generate to validate_output.                             *)
TurnStates ==
  [at: {"idle"} \cup Nodes \cup Ended, thread: Threads, values: Values,
   docs: Contexts, answer: Answers \cup {"none"}]

NewThread == [status |-> "none", handle |-> NoTurn, window |-> NewWindow]

(* A thread on which one turn was answered and the next raised in          *)
(* manage_context; its handle is gone from the cache.                      *)
UsedThread ==
  [status |-> "completed", handle |-> NoTurn,
   window |-> [active |-> <<<<NoTurn, 1>>, <<NoTurn, 2>>, <<NoTurn, 3>>>>,
               covered |-> {}, skipped |-> 1]]

TypeOK ==
  /\ thread \in [Threads -> Values]
  /\ turn \in [Turns -> TurnStates]
  /\ faults \in 0..MaxFaults
  /\ overlapped \subseteq Threads
  /\ CacheTypeOK
  /\ JournalTypeOK

Init ==
  /\ thread \in [Threads -> {NewThread, UsedThread}]
  /\ turn \in [Turns -> [at: {"idle"}, thread: Threads, values: {NewThread},
                         docs: {"none"}, answer: {"none"}]]
  /\ faults = 0
  /\ overlapped = {}
  /\ CacheInit
  /\ JournalInit

-----------------------------------------------------------------------------
Running(t) == turn[t].at \in Nodes
Fault == faults < MaxFaults /\ faults' = faults + 1

(* The run is over: its copy of the channels is gone, its status remains.  *)
End(t, how, status) ==
  turn' = [turn EXCEPT ![t] = [@ EXCEPT !.at = how, !.docs = "none", !.answer = "none",
                                        !.values = [NewThread EXCEPT !.status = status]]]

Raise(t) == End(t, "raised", "none") /\ UNCHANGED thread

(* The update is reduced into the channels and checkpointed, and the next  *)
(* node is scheduled; an update that the status reducer refuses ends the   *)
(* turn with its exception.                                                *)
Commit(t, next, new) ==
  IF Admits(turn[t].values.status, new.values.status)
  THEN /\ turn' = [turn EXCEPT ![t] = [new EXCEPT !.at = next]]
       /\ thread' = [thread EXCEPT ![turn[t].thread] = new.values]
  ELSE /\ End(t, "refused", "none")
       /\ UNCHANGED thread

WithStatus(t, status) == [turn[t] EXCEPT !.values.status = status]

(* Mutant: a blocked turn forgets its context handle.                      *)
BlockedForgetsHandle(t) ==
  [turn[t] EXCEPT !.values = [@ EXCEPT !.status = "blocked", !.handle = NoTurn,
                                       !.window = WithMessage(@, Answer(t))],
                  !.docs = "none", !.answer = "none"]

(* _blocked: its answer is a message of the conversation too.              *)
Blocked(t) ==
  [turn[t] EXCEPT !.values.status = "blocked",
                  !.values.window = WithMessage(@, Answer(t)),
                  !.docs = "none", !.answer = "none"]

-----------------------------------------------------------------------------
(* RAGAgent.invoke: the question joins the messages of the thread.         *)
Begin(t) ==
  /\ turn[t].at = "idle"
  /\ LET th == turn[t].thread
         new == [thread[th] EXCEPT !.window = WithQuestion(@, t)]
     IN /\ turn' = [turn EXCEPT ![t].at = "manage_context", ![t].values = new]
        /\ thread' = [thread EXCEPT ![th] = new]
        /\ overlapped' = IF \E u \in Turns: Running(u) /\ turn[u].thread = th
                         THEN overlapped \cup {th} ELSE overlapped
  /\ UNCHANGED <<faults, stores>>

(* A call of a node raises what the node does not catch: the audit, the    *)
(* model, the retriever, the cache, a classifier, the journal's file.  The *)
(* lock is released, the documents already put stay in the cache.          *)
CallRaises(t) ==
  /\ Running(t)
  /\ Fault
  /\ Raise(t)
  /\ head' = [head EXCEPT ![t] = NotAppending]
  /\ UNCHANGED <<journal, raced>>
  /\ \/ UNCHANGED cache
     \/ turn[t].at = "retrieve" /\ \E docs \in Contexts: Put(t, turn[t].thread, docs)

ManageContext(t) ==
  /\ turn[t].at = "manage_context"
  /\ \E w \in Managed(turn[t].values.window):
       Commit(t, "guard_input", [turn[t] EXCEPT !.values.window = w])
  /\ UNCHANGED <<faults, stores>>

GuardInput(t) ==
  /\ turn[t].at = "guard_input"
  /\ \/ Commit(t, "record_evidence", Blocked(t))
     \/ Commit(t, "retrieve", WithStatus(t, "received"))
  /\ UNCHANGED <<faults, stores>>

(* Documents of a class the cache must not hold block the turn.            *)
Retrieve(t) ==
  /\ turn[t].at = "retrieve"
  /\ \/ /\ Commit(t, "record_evidence", Blocked(t))
        /\ UNCHANGED cache
     \/ /\ \E docs \in Contexts: Put(t, turn[t].thread, docs)
        /\ Commit(t, "guard_retrieval",
                  [WithStatus(t, "retrieved") EXCEPT !.values.handle = t])
  /\ UNCHANGED <<faults, journalVars>>

Available(t) == Holds(turn[t].values.handle, turn[t].thread)
Documents(t) == cache[turn[t].values.handle].docs

(* enforce raises for a document that the classifier takes for an attack.  *)
AttackIn(docs) == docs = "poisoned"

GuardRetrieval(t) ==
  /\ turn[t].at = "guard_retrieval"
  /\ IF Available(t) /\ ~AttackIn(Documents(t))
     THEN Commit(t, "generate", turn[t])
     ELSE Commit(t, "record_evidence", Blocked(t))
  /\ UNCHANGED <<faults, stores>>

(* Without documents the model is not asked.                               *)
AnswersTo(docs) == IF docs = "none" THEN {"no answer"} ELSE Answers

(* The channel response_text refuses control characters with an exception, *)
(* before validate_output could remove them.                               *)
ChannelRaises(answer) == answer = "garbled"

Generate(t) ==
  /\ turn[t].at = "generate"
  /\ IF Available(t)
     THEN \E answer \in AnswersTo(Documents(t)):
            IF ChannelRaises(answer)
            THEN Raise(t)
            ELSE Commit(t, "validate_output",
                        [WithStatus(t, "generated") EXCEPT
                           !.docs = Documents(t), !.answer = answer])
     ELSE Commit(t, "validate_output", Blocked(t))
  /\ UNCHANGED <<faults, stores>>

(* The violations validate finds.  Citations are required when there were  *)
(* documents, except of the exact refusal; every profile checks them.      *)
CitationViolation(docs, answer) ==
  (docs # "none" /\ answer = "uncited") \/ answer = "misquoted"

(* Development has no check of content; in the cloud the answer does not   *)
(* come so far.                                                            *)
SafetyViolation(answer) == answer = "unsafe" /\ Profile = "on_premise"

Violates(docs, answer) == CitationViolation(docs, answer) \/ SafetyViolation(answer)

(* In the cloud the privacy middleware moderates the text first, and its   *)
(* exception is not a violation that the node turns into a blocked answer. *)
ValidationRaises(answer) == answer = "unsafe" /\ Profile = "cloud"

ValidateOutput(t) ==
  /\ turn[t].at = "validate_output"
  /\ LET docs == turn[t].docs
         answer == turn[t].answer
     IN CASE turn[t].values.status = "blocked" ->
               Commit(t, "record_evidence", turn[t])
          [] turn[t].values.status # "blocked" /\ ValidationRaises(answer) -> Raise(t)
          [] OTHER ->
               IF Violates(docs, answer)
               THEN Commit(t, "record_evidence", Blocked(t))
               ELSE Commit(t, "record_evidence",
                           [WithStatus(t, "validated") EXCEPT
                              !.values.window = WithMessage(@, Answer(t)),
                              !.docs = "none", !.answer = "none"])
  /\ UNCHANGED <<faults, stores>>

Decision(t) == IF turn[t].values.status = "validated" THEN "allow" ELSE "block"
Outcome == [allow |-> "completed", block |-> "blocked"]

(* Mutant: an unreadable journal does not stop the answer.                 *)
RecordEvidenceBestEffort(t) ==
  /\ turn[t].at = "record_evidence"
  /\ \/ /\ ReadHead(t)
        /\ turn' = [turn EXCEPT ![t].at = "append_evidence"]
     \/ /\ LockFree(t) /\ ~HeadReadable
        /\ turn' = [turn EXCEPT ![t].at = "audit_evidence"]
        /\ UNCHANGED journalVars
  /\ UNCHANGED <<thread, faults, cache>>

(* record_evidence: wait for the lock, read the last hash ...              *)
RecordEvidence(t) ==
  /\ turn[t].at = "record_evidence"
  /\ \/ /\ ReadHead(t)
        /\ turn' = [turn EXCEPT ![t].at = "append_evidence"]
        /\ UNCHANGED thread
     \/ /\ LockFree(t) /\ ~HeadReadable
        /\ Raise(t)
        /\ UNCHANGED journalVars
  /\ UNCHANGED <<faults, cache>>

(* ... append the record linked to it ...                                  *)
AppendEvidence(t) ==
  /\ turn[t].at = "append_evidence"
  /\ WriteRecord(t, Decision(t))
  /\ turn' = [turn EXCEPT ![t].at = "audit_evidence"]
  /\ UNCHANGED <<thread, faults, cache>>

(* ... and audit it; the status is the outcome of the decision.            *)
AuditEvidence(t) ==
  /\ turn[t].at = "audit_evidence"
  /\ Commit(t, "cleanup_context", WithStatus(t, Outcome[Decision(t)]))
  /\ UNCHANGED <<faults, stores>>

(* The handle stays in the checkpoint; a turn blocked before its retrieval *)
(* deletes what an earlier turn left there.                                *)
CleanupContext(t) ==
  /\ turn[t].at = "cleanup_context"
  /\ Delete(turn[t].values.handle, turn[t].thread)
  /\ End(t, "returned", turn[t].values.status)
  /\ thread' = [thread EXCEPT ![turn[t].thread] = turn[t].values]
  /\ UNCHANGED <<faults, journalVars>>

Node(t) ==
  \/ ManageContext(t) \/ GuardInput(t) \/ Retrieve(t) \/ GuardRetrieval(t)
  \/ Generate(t) \/ ValidateOutput(t) \/ RecordEvidence(t) \/ AppendEvidence(t)
  \/ AuditEvidence(t) \/ CleanupContext(t)

-----------------------------------------------------------------------------
(* The time to live of a context ends.                                     *)
Expiry ==
  /\ \E t \in Turns: Expire(t)
  /\ UNCHANGED <<thread, turn, faults, journalVars>>

OtherProcess ==
  /\ ForeignRead \/ ForeignWrite
  /\ UNCHANGED <<thread, turn, faults, cache>>

(* RAGAgent.delete_thread.  A turn that runs on writes its checkpoint all  *)
(* the same.                                                               *)
DeleteThread(th) ==
  /\ thread[th] # NewThread
  /\ thread' = [thread EXCEPT ![th] = NewThread]
  /\ UNCHANGED <<turn, faults, stores>>

(* The process dies and its deployment starts it again.                    *)
Crash ==
  /\ Fault
  /\ turn' = [t \in Turns |->
                IF Running(t)
                THEN [at |-> "raised", thread |-> turn[t].thread, values |-> NewThread,
                      docs |-> "none", answer |-> "none"]
                ELSE turn[t]]
  /\ LoseWriters
  /\ UNCHANGED <<thread, cache>>

Next ==
  \/ \E t \in Turns: Begin(t)
  \/ /\ \/ \E t \in Turns: Node(t) \/ CallRaises(t)
        \/ \E th \in Threads: DeleteThread(th)
        \/ Expiry \/ OtherProcess \/ Crash
     /\ UNCHANGED overlapped

Spec == Init /\ [][Next]_vars

-----------------------------------------------------------------------------
(* The evidence journal and the answers keep the promise of                *)
(* GovernedAnswers: record_evidence writes one decision per turn before    *)
(* the turn returns, and the turn returns what was decided.                *)
Answered == INSTANCE GovernedAnswers WITH
  decided <- {e \in Turns \X JournalDecisions: Recorded(e[1], e[2])},
  reply <- [t \in Turns |->
              CASE turn[t].at = "returned" -> turn[t].values.status
                [] turn[t].at \in {"raised", "refused"} -> "failed"
                [] OTHER -> "none"]

ImplementsAnswers == Answered!Spec

(* No generator reads documents in which guard_retrieval found an attack,  *)
(* although it fetches them again, and other turns of the thread put and   *)
(* delete contexts in between.                                             *)
GeneratorSeesGuarded ==
  \A t \in Turns: turn[t].answer # "none" => turn[t].docs # "poisoned"

(* A context outlives its turn only if that turn raised: every other path, *)
(* blocked or not, ends in cleanup_context with the turn's own handle.     *)
ContextErased ==
  \A t \in Turns: cache[t] # NoEntry => turn[t].at \notin {"idle", "returned", "refused"}

(* A thread whose turns have all returned accepts the next one: only a     *)
(* turn that raised leaves a status that reduce_status cannot leave.       *)
ThreadsReopen ==
  \A th \in Threads:
    (\A t \in Turns: turn[t].thread = th => turn[t].at \in {"idle", "returned"})
      => Admits(thread[th].status, "received")

(* The journal verifies as long as no line was cut and the other process   *)
(* was never inside append at the same time: turns of one process exclude  *)
(* each other.                                                             *)
JournalVerifies ==
  ~raced /\ (\A i \in 1..Len(journal): journal[i].whole) => Verifies

(* No checkpoint forgets a message that the one before it held, in its     *)
(* messages or in its summary, whatever turns raise, are refused, blocked  *)
(* or crash in between: unless the thread is deleted, two turns ran on it  *)
(* at once, or more turns than the slack between trigger and bound are     *)
(* short of manage_context.  A trigger at the bound leaves no slack.       *)
Forgets(th) ==
  ~(Held(thread[th].window) \subseteq Held(thread'[th].window))

NothingForgotten ==
  [][\A th \in Threads:
       Forgets(th) =>
         \/ thread'[th] = NewThread
         \/ th \in overlapped
         \/ thread'[th].window.skipped > Slack]_vars

=============================================================================
