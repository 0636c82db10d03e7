# A TLA+ development of the hybrid-cloud forensic RAG system

Formal models, model-checking runs and proofs for the Python program in `src/`
(LangGraph agents, event-driven fraud investigation, human approval).  Paths
below are relative to `src/src/` unless they start with `src/`.

Every definition is translated from the code.  LangGraph, LangChain and the broker
services are not in the repository; they are modelled from how the code uses
them and marked external in `PROJECT.json`.

## 1. Inventory

### Components

| Component | Files | State it keeps | Operations |
| --- | --- | --- | --- |
| Event transport | `events/transport.py`, `events/contracts.py` | published events, unsettled deliveries, dead letters | publish, ack, retry, dead_letter |
| Idempotency ledger | `events/transport.py` | event id to processing / completed | claim, complete, release |
| Event consumers | `events/consumers.py` | the delivery in hand | `process` of risk alert, evidence requested, evidence ready |
| Risk model | `events/risk_model.py` | none | score_and_publish |
| Forensic graph | `graph/forensic_graph.py` | one checkpointed thread per case | four nodes; entry by input, by `Command(goto)`, by `Command(resume)` |
| Human approval | `hitl/service.py`, `hitl/api.py`, `hitl/models.py` | one lock per thread and process | status, resume (with republication of an approved order) |
| Runtime composition | `events/runtime.py` | the wiring | build_forensic_runtime |
| Broker bindings | `events/adapters.py` | the loop's position, a receive queue, the group's checkpoint | subscriptions on Kafka and Event Hubs; publishers to nine services |
| Durable orchestrator | `cloud/durable_forensics.py`, `src/function_app.py` | instance history | start by an alert, four activities, approval event |
| Forensic agents, evidence | `agents/forensic.py`, `forensics/evidence.py` | none | analyze, collect |
| RAG graph | `graph/rag_graph.py`, `nodes/rag.py`, `agents/rag_agent.py` | a thread per conversation | eight nodes with short circuits; invoke, delete_thread |
| Conversation state | `state/schema.py` | the channels of a thread | reduce_status, add_bounded_messages, context_messages |
| Context cache | `memory/cache.py` | documents under a handle, with a time to live | put, get, delete |
| Long-term memory | `memory/store.py`, `memory/cosmos.py` | versioned, expiring records by tenant, subject and kind | commit, recall, preferences, forget, purge |
| Audit | `audit/events.py` | a bounded queue and its thread | record, close |
| Governance evidence | `governance/evidence.py` | a hash-chained file, a lock per process | append, verify |
| Secrets, tool policy | `security/secrets.py`, `security/tool_policy.py` | a Vault login; none | lookups, whose leases nothing renews or revokes; pure checks of a call |
| Middleware | `security/injection.py`, `security/output_validation.py`, `privacy/middleware.py` | none | classify and redact text |
| Ingestion | `rag/indexers.py`, `rag/loaders.py`, `rag/splitters.py`, `src/scripts/ingest.py` | vector store, record manager | ingest a file, delete by source |
| Embedding rate limits | `rag/embeddings.py` | none | batches, attempts, waits |
| Retrieval, generation | `rag/retriever.py`, `rag/generator.py` | none | retrieve and rerank, generate, summarize |
| Retrieval evaluation | `evaluation/retrieval.py`, `src/scripts/evaluate.py` | none | score a golden question with and without reranker |
| Application | `app/*.py`, `config/config.py`, `src/main.py` | settings | composition, readiness |

### How they interact

An alert published by the risk model is consumed by `RiskAlertConsumer`, which
runs the graph's `request_evidence`; the event this publishes is consumed by
`EvidenceRequestedConsumer`, whose evidence event is consumed by
`EvidenceReadyConsumer`, which re-enters the same thread at
`prepare_case_for_review`.  That node publishes the review and the graph stops
in `human_approval`.  A reviewer's HTTP request resumes the thread, which
publishes the decision and, for an approval, the execution order.  The three
consumers share one ledger; they share the checkpointed threads with the
approval service; nothing else is shared, and no lock spans two of them.

A question enters through `RAGAgent.invoke`, which runs one turn of the RAG
graph on the checkpointed thread of its conversation: the messages are
compacted, the input is guarded, documents are retrieved into the context cache
and guarded, an answer is generated and validated, the decision is appended to
the evidence journal and audited, the context is deleted.  Turns of the
application share the cache, the journal with its lock, and the audit queue; two
turns of one thread share its checkpoint and exclude each other nowhere.  The
memory store is read before a turn, and written and purged by workflows of its
own.  The index is filled by a script that other processes may run too.

### What is hard

* **Interleaving**: every `await` of a consumer, a node or a request is a point
  where other workers and replicas run; a thread's checkpoint may change
  between the read a decision rests on and the write that follows it.
* **Partial failure**: publication, checkpoint, ledger write and
  acknowledgement are four separate effects, in this order, without a
  transaction.
* **Delivery**: at-least-once; a message may be delivered to two workers, an
  event may be published twice, a retry may come after the case has moved on.
* **Crash and timeout**: a worker may die with its claim in a durable ledger, or
  with the whole ledger when it is in memory; a resume may be cancelled between
  its publication and its checkpoint.  A turn that raises leaves what its last
  checkpoint holds: a status, a handle, messages.
* **Two stores, no transaction**: evidence and audit, rows and record manager,
  newest version and the version put next, a queue and its thread.

What makes each component correct: the transport and ledger let one worker at a
time process an event and call it completed only when its effect exists; the
consumers lose no event and end every alert in a review or in the dead-letter
path; the graph moves a case only forward and publishes each event after the
one it answers; the approval service orders only what an authorised reviewer
approved on a published report, audits first, and always ends a request.  A turn
answers what it has recorded, after it has recorded it; its generator reads only
documents its guard has passed; its context does not outlive it; its thread
stays usable and forgets nothing unsummarised.  The journal verifies; the audit
delivers what it has accepted; a reader of the memory finds the newest stored
version, if it is valid, and what is forgotten is gone; what the index finds is what the record
manager knows.  The scores of a retrieval mean what they say.  The hazards, each at its line, are in `PROJECT.json`.

## 2. Modules

| Module | Models | State |
| --- | --- | --- |
| `EventTransport` | `events/transport.py`, event ids of `events/contracts.py` | `published`, `queue`, `deadLetters`, `ledger`, `faults` |
| `ForensicGraph` | `graph/forensic_graph.py` on LangGraph | `thread` (checkpoint of each case), `run` (ainvoke of each worker or request) |
| `EventConsumers` | `events/consumers.py` | `worker` |
| `HumanApproval` | `hitl/service.py`, `hitl/api.py` | `request`, `submitted` (audited decisions) |
| `ForensicCase` | `events/runtime.py`: the composition, its specification and properties | those of the four above |
| `CaseProtocol` | the abstract protocol of a case | `published`, `submitted` |
| `MCForensicCase` | symmetry for TLC | |
| `DeliveryPort` | the abstract port `EventDelivery` of `events/transport.py` | `pending`, `effects`, `deadLetters` |
| `LogSubscription` | one consumer loop on a Kafka or Event Hubs partition, `events/adapters.py` under `events/consumers.py` | `kind` of each record, `checkpoint`, `position`, `current`, `pc`, `deadLetters`, `faults` |
| `RagIdentity` | the turns, the threads and the writers of the journal | |
| `ConversationState` | `state/schema.py`: which status may follow which, the messages of a thread and what its summary was told | operators only |
| `ContextCache` | `memory/cache.py` | `cache` |
| `EvidenceJournal` | `governance/evidence.py` | `journal`, `head` (hash read under a lock); `raced` is history |
| `RagTurn` | `graph/rag_graph.py`, `nodes/rag.py`, `agents/rag_agent.py`, the exceptions of the middleware | `thread` (checkpoints), `turn` (requests), `faults`, and the two above; `overlapped` is history |
| `GovernedAnswers` | the abstract promise of a turn | `decided`, `reply` |
| `BufferedAudit` | `audit/events.py` in the life of `app/composition.py` | queue, count of unfinished events, thread, `closing` |
| `LongTermMemory` | `memory/store.py` on `memory/cosmos.py` | `store`, `now`, `call`; `written`, `raced` are history |
| `IndexRecords` | `src/scripts/ingest.py`, `rag/indexers.py` on LangChain's `index()` | `rows`, `records`, `ingest`; `torn`, `raced` are history |
| `RetrievalEvaluation` | `rag/retriever.py`, `evaluation/retrieval.py`, `src/scripts/evaluate.py` | `relevant`, `fused`, `score`, `result` |
| `MCRagTurn`, `MCLongTermMemory`, `MCIndexRecords`, `MCRetrievalEvaluation` | symmetry, the documents and the discounts of an instance | |
| `ForensicCase_proofs`, `ForensicLedger_proofs`, `LogSubscription_proofs`, `RagTurn_proofs`, `BufferedAudit_proofs`, `LongTermMemory_proofs`, `IndexRecords_proofs` | theorems | |

`EventTransport <- ForensicGraph <- {EventConsumers, HumanApproval} <-
ForensicCase`, by EXTENDS; the consumers and the service never name each other.
`LogSubscription` looks below the transport of `ForensicCase`, and is not composed
with it, for the reason given next.

**Which transport a case runs on.**  Every event model is strict (`events/contracts.py`
29-33).  The in-memory bus hands its consumers the published model instances, and
these pass the validation at the start of `process()`.  The log bindings decode the
data of a record as a JSON dictionary, in which a datetime is a string and a tuple
a list, and strict validation refuses both.  So `ForensicCase` models a case on the
in-memory bus, or on a subscription a deployment provides that delivers validated
instances; with a durable ledger and crashes only the second is meant.  What becomes
of a record on the repository's own log bindings is `LogSubscription`: it is
dead-lettered on its first delivery, and the claim, the effect and the retry of the
binding (`events/adapters.py` 260, 289) are never reached.

`RagIdentity <- {ContextCache, EvidenceJournal} <- RagTurn -> ConversationState`,
again by EXTENDS, and `RagTurn` names `GovernedAnswers` as what it implements.  An
audit record is a call that may raise there, and what becomes of it is
`BufferedAudit`; memories and documents are what a turn is given, and what the
stores hold is `LongTermMemory` and `IndexRecords`; how well the retriever finds it is
measured apart, in `RetrievalEvaluation`.  No two of these share state.

### Correspondence

* **Events.**  Every event id of a case is derived from its investigation id,
  and every investigation id from an alert, so an event is its type and its
  case.  `published` is a set: who reads it can tell that an event was
  published, and with which action or decision.  `queue` holds messages with
  their attempt.  A message is in one hand at a time and stays in the queue until it
  is settled.  A repeated publication, or a delivery the broker repeats
  (`RedeliverMessage`, a fault of kind `redelivery`), is a second message (`copy`),
  because settling one does not settle the other.  Repetitions in flight are told
  apart by their number, at most `MaxCopies` of one event at a time.
* **Data** is reduced to what the code branches on: the stage, whether there is
  evidence, the report's recommended action, the reviewer's decision.  The
  reasoner may recommend any action the contract admits.
* **`process()`** of a consumer is `Receive`, `Claim`, its side effect
  (`StartCase`, `CollectEvidence`, `StartReasoning`), then `Complete` and
  `AckCompleted`, or `Release` and `RetryOrDeadLetter`.  Duplicates are read in
  `Claim` and acknowledged in `AckDuplicate`: between the two the holder may
  finish or fail.  Only an alert can be malformed: the other two events are
  produced by this code from validated models.
* **A graph run** is an entry action (`InvokeInput`, `InvokeGoto`,
  `InvokeResume`), then for each node its body, ending in its publication, and
  `Commit`, the checkpoint LangGraph writes after the node.  A run works on the
  values it loaded; the last checkpoint written is the thread's state.  An entry
  with a dict or a `goto` discards a pending interrupt.  `interrupt()` returns
  the resume value of the run, or one that an earlier, unfinished run left with
  the same pending task (`offered`).
* **A request** is refused or admitted by `Submit`, whose one step is the
  snapshot read and the checks under the lock; the audit record and the start of
  the run are one step (`ResumeInterrupt`) because no await separates them.
  `ResumeResult` maps the result or the exception; `ResumeTimeout` is the
  cancellation by `asyncio.wait_for`.
* **Faults**, all counted by `Inject`: `clean` (a call raises before its
  effect), `ambiguous` (after it), `timeout`, `crash`, `redelivery`.  A worker's crash keeps the
  ledger when it is durable; otherwise the ledger belongs to the process and all
  its workers restart with it.

* **A log** (`LogSubscription`).  A record is its offset.  Its `kind` is `valid`, written
  by a publisher of the program, `invalid`, an envelope of another type or payload,
  or, on Kafka, `undecodable`; every mix is an initial state.  `Take` is `__anext__`
  with the validation of `process()`, which rejects the first two kinds alike.
  `DeadLetter` and `Ack` are the two halves of `dead_letter`: the handler, then
  the commit or `update_checkpoint`; each may raise before or after its effect, and
  nothing catches it.  A group starts at the first record, and a restarted loop at
  its checkpoint.  One consumer owns the partition.
* **A turn** (`RagTurn`).  A step is a node with the checkpoint LangGraph writes
  after it; `record_evidence` is three steps (`RecordEvidence`, `AppendEvidence`,
  `AuditEvidence`), between which other turns, the other process and a crash come
  in.  `Commit` reduces the node's update: a status that `reduce_status` refuses
  ends the turn (`refused`), and the thread keeps its checkpoint.  `CallRaises` is
  any exception a node does not catch; the context a turn had put stays in the
  cache.  Documents are none, clean, or with an attack the guard finds; an answer
  is one of six classes, which are all that citation checks, moderation, the text
  reducer and the refusal tell apart; `Profile` chooses the controls of a
  deployment.  A thread starts new, or used by turns of which one failed.
* **Messages** (`ConversationState`).  A message is its turn and its place in it, so
  what one checkpoint loses by overwriting another shows.  `active` is the channel,
  which `add_bounded_messages` cuts to the newest; `covered` is the set of messages
  the running summary has been told of; `Managed` gives every result
  `manage_context` may have, whatever the token estimates are.  `skipped`
  counts the turns of a history that did not come past `manage_context`, and
  `overlapped` the threads on which two turns ran at once: no code keeps either.
* **The journal**.  A writer appends once, so a record's hash is its writer; a
  line may be cut by a crash.  `head` is the hash read and not yet linked to.
* **The audit**.  An event is its caller and number.  `unfinished` is the count
  `Queue.join` waits for; `promised` is what had been accepted when `close` was
  called.
* **Memory**.  One namespace.  A search lists the records of a key in the order of
  their creation, the order in which Cosmos returns documents of equal score, and
  an offset counts what is there when the page is read.  A retention job and a
  caller of `forget` are clients like any other.
* **The index**.  A chunk is its text with its metadata, a document the sequence of
  its batches.  `CheckBatch`, `AddRows`, `RecordBatch`, `CleanRows` and
  `ForgetRecords` are the calls of `index(cleanup="incremental")`, in its order,
  and `stale` the records of the source older than the call.  `torn` names the
  entries on which a failed call, or `delete_by_source`, left the two stores apart.
  What this repository decides of a sync has operators of its own: which files are
  skipped (`Loaded`), what a sync may clean up (`Cleanable`), and that every missing
  chunk has a vector when it is added (`Embedded`).
* **An evaluation** (`RetrievalEvaluation`).  A step scores one arm for one golden
  question.  `fused` is the order of the index, of which the arm without reranker takes
  `K` and the other `FetchK`; both ask for fewer than the index fuses
  (`candidate_pool`, `rag/indexers.py` 296), so they cut the same order.  `Rerank` is
  the sort by score, the threshold and the cut, in the order of the code.  A source
  is its file name, which is what `_normalise` leaves.  The discount of a place is any
  decreasing integer; a score is the pair of its two counts.

### Assumptions, as constants

* `GrantedPublisher`: whether the optional publisher of approval decisions is
  configured (the runtime configures it).
* `DurableLedger`: the production requirement of `events/runtime.py` 89, or the
  in-memory ledger.  The second "mirrors a durable unique-event table"
  (`events/transport.py` 137), so both have the same three operations.
* `CommitBeforeDelivery`: a node's checkpoint is written before the event it
  published is received.  A timing assumption, which no code enforces.  Only the
  liveness run `case_progress` makes it; every safety property is checked, and
  proved, without it.

## 3. Runs

A run checks module `MCForensicCase` unless it names another.  Deadlock is not
checked: the requests, alerts, records, turns and faults of a run are finite and
the system may stop when they are used up.

| Run | Bounds | Shows |
| --- | --- | --- |
| `approval_faults` | 2 cases (one malformed), 1 worker, 2 requests on 2 replicas, 1 fault of any kind, volatile ledger, no assumption | `TypeOK`, `CompletedHasEffect`, `ExecutionAuthorised`, `ExecutionMatchesReview`, `StatusHonest`, and `ImplementsProtocol`: the flow refines `CaseProtocol` |
| `single_replica` | 1 case, 2 workers, 2 requests on 1 replica, 1 fault of any kind, durable ledger | `RejectedNotExecuted`, `OneActionOrdered`, `ClaimExclusive`, `NoEventLost`, `TakenCaseAdvances` |
| `case_progress` | 1 case, 2 workers, 2 requests on 1 replica, 2 clean faults, durable ledger, `CommitBeforeDelivery`, fairness | `AlertsSettle`, `RequestsEnd` |
| `orphaned_claim` | 1 crash, 1 worker, durable ledger | `AckAfterEffect` fails |
| `clear_recommendation` | no fault, 1 worker | `ReviewedNotDeadLettered` fails |
| `kafka_port` (`LogSubscription`) | 3 records of every kind on Kafka, 3 faults, fairness | `TypeOK`, `ImplementsPort` (the loop refines `DeliveryPort`), `EveryRecordSettles` |
| `log_decoding` (`LogSubscription`) | no fault | `ValidNotDeadLettered` fails |
| `rag_turns` (`MCRagTurn`) | 2 turns of 1 thread, new or used, 4 messages with trigger 2 and 1 kept, the cloud profile, 1 fault, 1 foreign record | `TypeOK`, `GeneratorSeesGuarded`, `ContextErased`, `ThreadsReopen`, `JournalVerifies`, `NothingForgotten`, `ImplementsAnswers` (the turns refine `GovernedAnswers`) |
| `audit_close` (`BufferedAudit`) | 2 callers of 2 events, a queue of 2, 2 faults, fairness | `TypeOK`, `CloseFlushes`, `NothingVanishes`, `CloseReturns` |
| `long_term_memory` (`MCLongTermMemory`) | 1 key, 2 clients, 3 records ever, pages of 1, retention 1 or 2, clock to 2 | `TypeOK`, `VersionsDistinct`, `FoundIsNewest`, `ForgetErases`, `KeptUntilDue` |
| `ingest_index` (`MCIndexRecords`) | 2 sources, 2 chunks, documents of up to two batches, 2 processes, any number of failures and deletions | `TypeOK`, `SyncedIsRecorded`, `StoresAgree`, `NeverEmptied` |
| `retrieval_scores` (`MCRetrievalEvaluation`) | every order of up to 4 chunks of 3 files, every golden set, 3 scores with ties and a threshold, 3 documents scored | `TypeOK`, `ScoresConsistent`, `PerfectIsFirst`, `RerankKeepsBest` |

**Why the bounds are enough.**  A conflict over an event needs two workers; one
over a decision two requests, on one replica (the lock) or two (no common
lock).  Two attempts give a first try, a retry and an exhausted message, and `MaxCopies`
= 2 three messages of one event, more than there are workers.  Cases
share nothing but the workers, so one is followed through and a second,
malformed one takes a worker away.  One fault already meets every other step in
every order; two add a failure of the recovery from the first.  Symmetry is
declared on workers, requests, replicas, turns, clients, processes and sources,
in runs without liveness.  Three records put one before and one after the
record that stops the loop, and three faults a failing handler, a failing
commit and a crash.  One fault is enough for a duplicate whose original fails:
the redelivery is the fault, and a `clear` report raises without one.  What
more faults do to claims and events is proved, for any number of them.

Two turns overlap on the journal, the checkpoint and the cache, or follow each
other on a thread that a failed turn has left; a used thread stands for what
came before.  The smallest limits the code admits for the messages (4, 2, 1)
are reached after one turn.  Two events in a queue of two fill it, and leave one
behind a `None`.  With pages of one record, three records give a paging that
others overtake, two versions beside a third, and a batch that is not the
last.  A document of two batches is the shortest that is cleaned up before it
has been read to the end, and two chunks make it disagree with the next one.
Of four chunks two are of one file, and one more than are scored: a source may be
found twice, and a candidate be left out.

**Fairness** (`FairSpec`): weak fairness of each worker's next step, of each
running graph and of each admitted request.  They are loops and coroutines of
the event loop that continue whenever they can, and a broker delivers a waiting
message to a free consumer.  Nothing is assumed of alerts, reviewers or faults.
In `LogSubscription` the loop goes on and is restarted by its deployment when an
exception has ended it; in
`BufferedAudit` the delivery thread and the thread in `close` run on when they
are not waiting.  The other specifications claim no liveness: a turn ends when its
calls do.

**Findings.**  The three runs that fail do so on something a comment or the
documentation promises; `PROJECT.json` quotes each.

* `orphaned_claim`: a claim in the durable ledger outlives its worker, and nothing
  ends it.  The redelivered message is taken for a duplicate and acknowledged
  (`events/consumers.py` 71-73), so the event is lost.  `NoEventLost` shows
  that this is the only way to lose one.
* `clear_recommendation`: a report that recommends `clear` is published for analysts,
  cannot be prompted, and ends in the dead-letter path.
* `log_decoding`: every record the program publishes to a log is refused by its own
  strict models.  `start_fraud_case` (`src/function_app.py` 88) and the four
  activities (`cloud/durable_forensics.py` 92, 98-99, 117-118, 135-136) validate
  decoded JSON in the same way, so no case of the Durable variant starts.

Other properties hold only in part of what the code may meet, and say so:

* `RejectedNotExecuted` is checked with one replica.  The resume lock is one per
  process (`hitl/service.py` 67): two replicas both admit an approval and a
  rejection of one interrupt, and the case ends rejected with an order published,
  against `src/infrastructure/orchestration/README.md` 188-189.  `OneActionOrdered`
  holds with any number of replicas (`OneActionPerCase`).
* `TakenCaseAdvances` is about cases whose alert is completed.  Before that, an
  intake that raises after its publication (`events/consumers.py` 79) is retried
  with a dict input, which takes the thread back to `alert_received` whatever stage
  the published event has brought it to, against `src/README.md` 130-131.
* `RejectedNotExecuted`, `OneActionOrdered` and `TakenCaseAdvances` need claims that
  outlive a crash.  With the in-memory ledger the redelivered evidence is claimed anew
  after an order, analysed and reviewed again, and the second review may
  end in another action or a rejection.  The production runtime refuses such a
  ledger (`events/runtime.py` 89).
* `AlertsSettle` is checked with faults that precede their effect: an alert whose
  claim is orphaned never settles.
* `EveryRecordSettles` leaves out what lies behind an undecodable record, which ends
  the loop at every start.

So do the properties of the other models:

* `ThreadsReopen`: a turn that raised after `retrieve`, `generate` or
  `validate_output` leaves a status from which `reduce_status` refuses
  `received`, and every later turn of the thread is refused.  An answer with a
  control character, or one that the cloud's moderation refuses, is enough.
* `JournalVerifies`: two processes on one path fork the chain, and a cut line makes
  `verify` and every later `append` raise, so no turn can answer.
* `NothingForgotten`: two turns of one thread work on copies of its checkpoint, and the
  last one written wins; the messages of the other are lost.  And turns that fail
  before `manage_context` leave their question: more than `Slack` of them push
  messages out before a summary covers them.  The settings admit a trigger at the
  bound of the checkpoint, where `Slack` is 0 or -1 and the premise covers every
  turn: there messages are trimmed unsummarised, against `src/.env.example`
  186-187.  The run has a slack of 1.
* `CloseReturns`: `close` waits for ever when the worker is dead or something was
  recorded behind its `None` (`Stranded`).
* `VersionsDistinct`: overlapping commits of one key, or a delete during the paging
  of one, put the same version twice.  `FoundIsNewest`: superseded text comes back
  when the newest version is no longer stored: it expired and was purged, or a
  forget has deleted it and not yet the older ones.  Until then an expired newest
  version hides the older ones.  A delete during the paging may hide it too.
* `StoresAgree`: a chunk stays out of the index, or in it, for good after a call
  that failed between the two stores or after `delete_by_source` (`torn`).
* `RerankKeepsBest` speaks of the candidates each arm has.  The arm without reranker
  searches for `k` (`rag/retriever.py` 70) and the other for `fetch_k`, so reranking
  does add sources the first has missed, against the comment of
  `src/scripts/evaluate.py` 88-89.

## 4. Proofs

TLAPS proves, for all values of the constants under the named ASSUMEs of the
modules, the theorems below.  So they hold of any sets of cases, workers, requests,
replicas, turns, threads, clients, processes and sources, any documents, any number
of attempts, faults and records, every page size, every limit on messages that the
settings admit, every profile and every choice of the assumptions of section 2.
Three theorems about a case are narrower, and each says so in its ASSUME.

| Theorem | Assumes | Where it comes from, and what happens without it |
| --- | --- | --- |
| `RejectionStands` | `OneReplica`, `LedgerOutlives`: the ledger is durable or no process dies | one API process per case; section 3 has the counterexamples for two, and for a ledger that dies.  `events/runtime.py` 89 requires the durable one |
| `OneActionPerCase` | `LedgerOutlives` | the same line; see the findings for the counterexample |
| `CaseAdvances` | `OneReplica`, `LedgerOutlives` | the same lines.  Late checkpoints, ambiguous publications, redeliveries, crashes and timeouts are all allowed |

The run `single_replica`, which checks the three properties, satisfies these
assumptions.

| Theorem | Module | Statement |
| --- | --- | --- |
| `TypeCorrect` | `ForensicCase_proofs` | `Spec => []TypeOK` |
| `Causality` | | `Spec => []CausalInv` |
| `OrdersAuthorised` | | `Spec => []ExecutionAuthorised` |
| `OrdersMatchReviews` | | `Spec => []ExecutionMatchesReview` |
| `StatusIsHonest` | | `Spec => []StatusHonest` |
| `Refinement` | | `Spec => ImplementsProtocol` |
| `ClaimsExclude` | `ForensicLedger_proofs` | `Spec => []ClaimExclusive` |
| `CompletionIsTrue` | | `Spec => []CompletedHasEffect` |
| `EventsAreKept` | | `Spec => []NoEventLost` |
| `RejectionStands` | | `Spec => []RejectedNotExecuted` |
| `OneActionPerCase` | | `Spec => []OneActionOrdered` |
| `CaseAdvances` | | `Spec => TakenCaseAdvances` |
| `LogKeepsPort` | `LogSubscription_proofs` | `Spec => ImplementsPort` |
| `TypeCorrect` | | `Spec => []TypeOK` |
| `GuardedDocumentsOnly` | `RagTurn_proofs` | `Spec => []GeneratorSeesGuarded` |
| `ContextsErased` | | `Spec => []ContextErased` |
| `ThreadsAccept` | | `Spec => []ThreadsReopen` |
| `ChainVerifies` | | `Spec => []JournalVerifies` |
| `Remembered` | | `Spec => NothingForgotten` |
| `Refinement` | | `Spec => ImplementsAnswers` |
| `TypeCorrect` | | `Spec => []TypeOK` |
| `VersionsStayDistinct` | `LongTermMemory_proofs` | `Spec => []VersionsDistinct` |
| `NewestIsFound` | | `Spec => []FoundIsNewest` |
| `ForgottenIsErased` | | `Spec => []ForgetErases` |
| `NothingLeavesEarly` | | `Spec => KeptUntilDue` |
| `TypeCorrect` | | `Spec => []TypeOK` |
| `CloseDelivers` | `BufferedAudit_proofs` | `Spec => []CloseFlushes` |
| `NothingLost` | | `Spec => []NothingVanishes` |
| `TypeCorrect` | | `Spec => []TypeOK` |
| `StoresStayTogether` | `IndexRecords_proofs` | `Spec => []StoresAgree` |
| `SyncedRecords` | | `Spec => []SyncedIsRecorded` |
| `UpdatesNeverEmpty` | | `Spec => NeverEmptied` |
| `TypeCorrect` | | `Spec => []TypeOK` |

**The arguments.**  `TypeOK` is inductive with one more fact (`RunsTyped`: a run
at a node has a case).  None of the safety properties is: an order is published
from the values a run carries, those from a checkpoint or from a message, those
from an earlier run.  `CausalInv` says of each of these places that what it
holds is backed by publications and audited decisions: checkpoints
(`ThreadsBacked`), runs (`RunsBacked`), messages (`QueueBacked`), the messages
workers hold (`WorkersBacked`), admitted requests (`RequestsBacked`), orders
(`OrdersBacked`), and decisions (`DecisionsTaken`).  Because `published` and
`submitted` only grow, backing is never lost, and each action has to show only
that what it writes is backed by what it read.  The properties are projections
of `CausalInv`; in the refinement each publication is the abstract step whose
guard `CausalInv` provides, and every other step stutters.  The ledger theorems
use their own invariants: `ClaimInv` (who holds a claim finds it in the ledger),
and `LedgerInv`, which follows an effect from the node that published it through
the run's return to the worker that completes the event.

**A case.**  Four results add to these invariants; the first needs no assumption.

* `DeliveryInv` (no lost event): messages of one event have different numbers
  (`CopiesApart`), a message is in one hand at most (`HeldApart`), a claim in the
  ledger has a living holder unless a crash spared it (`ProcessingIsHeld`), and a
  duplicate is set aside only while something else carries its event
  (`DuplicatesSafe`): the effect, a dead letter, an orphaned claim, or a message that
  is not itself about to be acknowledged.  So the last message of an event whose
  claim is alive cannot be such a duplicate.
* `DecisionInv` (a rejection stands) rests on `RunInv`, what the runs of workers and
  requests look like and that a lock of a replica has one holder.  `CaseFits` says
  that while the evidence may still be analysed (`Unfinished`) nobody can decide,
  that until the review is decided nothing is (`Undecided`), and that a rejected
  case has neither an order nor a run that carries an approval.  Two holders of a
  lock are what two replicas have, and where the proof ends without `OneReplica`.
* `OrderInv` (one action) calls a report live when it is ordered, under review or
  approved, in the thread or in a run.  All live reports are one (`OneReport`), and
  none is live while the evidence may still be analysed; what becomes live later
  was live before.  No lock is needed for that, hence any number of replicas.
* `StageInv` (no regress): once the alert is completed no worker can claim it, so no run
  enters the case from the start; a republication never meets an ordered case
  (`RepublishFits`); and a late checkpoint of an analysis cannot come after a
  decision, which `CaseFits` has already excluded.

`PortInv` ties a loop on a log to its checkpoint: an idle loop is at it, the record in
hand is the first that is not acknowledged, and it is stored before it is
acknowledged.  Nothing is assumed of the binding.

**A turn.**  None of its properties is inductive: what the generator reads was put
by an earlier node, and what a thread accepts depends on where its last turn
stopped.  `IInv` says for each turn what its place in the graph implies: that it is
counted until it has got through `manage_context` (`AsksFirst`), which statuses it
may carry (`StatusFits`), what its handle is and which documents lie under it
(`ContextFits`); and of the journal that, unless the other process raced, one
writer at most is inside `append`, what it read is still the last hash, and every
line links to the one before it (`JournalFits`).  What another turn can do to these
is to erase a context, which breaks none of them.  `Remembered` needs arithmetic of its own
(`WindowsFit`): a window holds at most one message more than `manage_context` leaves,
and one for each turn that did not reach it, so a message is only dropped from a
full window when more are missing than the slack; and a turn that has its thread
to itself works on all that the thread's checkpoint holds (`AloneFits`).  The refinement adds that a turn at a later node than `record_evidence` has
exactly the decision in the journal that its status answers (`DecisionsFit`).

**The audit.**  `AuditInv` counts: `unfinished` is what lies in the queue and in the
thread's hand (`CountFits`), an accepted event is at one place only (`EventsFit`), and
what `close` promised is delivered, in hand, or in front of its `None`
(`PromiseFits`), so that a `join` that returns has seen all of it go.  `NothingLost`
needs the set of vanished events itself (`LossFits`): empty while the thread lives,
one event when it is dead.

**The memory.**  `MemoryInv` has three parts beside `TypeOK`.  `RecordsFit`: ids are
unique, no version exceeds its record's id, and on a key without a race versions
grow with ids.  `PagingFits` is the loop of `_latest_version`: whatever of the
records present at the start lies before the offset is beaten by the version in
hand, and the ranks of a key's records are contiguous, so that an empty page means
all have been seen.  A delete shifts the ranks, and puts the key in `raced` if it is
being paged.  `TellingFits` carries this to what a caller is told.

**The index.**  `IndexInv` is about one call at a time.  Unless its source is in
`raced`, it is the only one there; what lies behind its position is recorded and
will not be cleaned up; what else is recorded is `stale` or in the batch being
checked; and the two stores differ only where the call is between its two writes
(`EntryFits`).  A call handles no entry of another source (`Owned`), so the others
leave all of this alone.

**Model-checked only**: `AlertsSettle`, `RequestsEnd`, `EveryRecordSettles` and
`CloseReturns`, which are liveness under fairness, beyond the prover; and the properties
of `RetrievalEvaluation`, whose sums and sorts would need induction over data.
Every other property of a passing run is a theorem.

## 5. Not modelled, and why

* A failing audit sink in `resume` (`hitl/service.py` 182, 228): planned.
* Text: prompts, reports, validation patterns, redaction; the score's
  arithmetic; tracing.
* LangGraph's serialisation, and its rejection of oversized state.
* Subscribing and unsubscribing of the in-memory bus: subscriptions are set up
  before any event.
* The development token routes of the HITL API.
* Several members of a consumer group and their rebalancing; what the Event Hubs
  SDK does when its callback raises; the publishers, single SDK calls.
* The Durable orchestration: strict validation ends `start_fraud_case` before an
  instance exists, and would end each activity of one started by other means, so it
  has no reachable state to be checked in.
* The specialists and the lead agent: they call a model and its tools, and whether
  their strict contracts accept the model's JSON is decided inside LangChain.  A case
  knows that the analysis returns, with any action, or raises.
* The lists of citations, security events and evidence ids of a thread, and the
  validation of its input fields: nothing later depends on them.
* The signatures of memory records, the ranking of hits, and the order in which
  PostgresStore lists them (newest first, where a page may repeat a record but a
  commit hides none).
* Start-up: settings, readiness, the choice among back ends, schema checks of the
  vector table.  It runs once, in one thread, and a test meets every path.
* The waits of `rag/embeddings.py`: one caller in a loop.  A sync relies on a vector
  for every text or an exception (`Embedded`).
* Secrets and the tool policy: single lookups and pure checks, without a second actor.
* The remaining components of section 1 without a module: single calls of an SDK,
  or set-up.

## 6. Plan

Built, in this order: the event-driven case (`ForensicCase` and what it composes)
with its refinement of `CaseProtocol`; the log bindings against `DeliveryPort`; the
RAG turn with its state, cache and journal and its refinement of `GovernedAnswers`;
the buffered audit; the long-term memory; the index; the retrieval metrics.
Left for later:

1. Once the payloads are validated as JSON: the orchestration of the Durable
   variant, and the claim, effect and retry of `LogSubscription`.
2. Consumer groups with several members; a failing audit sink in `HumanApproval`.
3. The attempts and waits of `rag/embeddings.py` against a quota window.
