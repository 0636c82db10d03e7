------------------------ MODULE ForensicCase_proofs ------------------------
(***************************************************************************)
(* Theorems about module ForensicCase, for every value of its constants:   *)
(* its types, what backs everything a case holds, and that the flow        *)
(* implements module CaseProtocol.                                         *)
(***************************************************************************)
EXTENDS ForensicCase, TLAPS

USE DEF Event, EventOf, Returned, Raised

-----------------------------------------------------------------------------
(* A run that executes a node has a case, and only such a run is between a *)
(* node and its checkpoint.                                                *)
RunsTyped ==
  \A a \in Runners:
    /\ run[a].node # "idle" => run[a].case \in Cases
    /\ run[a].ran => run[a].node \in Nodes

TypeInv == TypeOK /\ RunsTyped

(* What Publish does to the variables it writes.                           *)
LEMMA PublishTypes ==
  ASSUME TransportTypeOK, NEW type \in EventTypes, NEW c \in Cases,
         NEW detail \in Details, Publish(type, c, detail)
  PROVE  published' \subseteq Publications /\ queue' \subseteq Messages
PROOF
  <1>1. [type |-> type, case |-> c, detail |-> detail] \in Publications
    BY DEF Publications
  <1>2. ASSUME type \in ConsumedTypes PROVE Delivery(type, c, detail) \in Messages
    <2>1. Delivery(type, c, detail).copy \in 0..MaxCopies
      BY <1>2, MaxCopiesAssumption DEF Publish, Deliverable, Delivery, Unused
    <2>. QED
      BY <1>2, <2>1, MaxAttemptsAssumption DEF Delivery, Event, Messages, EventIds
  <1>. QED
    BY <1>1, <1>2 DEF Publish, TransportTypeOK

(* A run may begin at a node, or have returned at once, on typed values.   *)
LEMMA BeginTypes ==
  ASSUME GraphTypeOK, RunsTyped, NEW a \in Runners, NEW c \in Cases,
         NEW node \in Nodes \cup {"returned"}, NEW values \in Values,
         NEW resume \in Verdicts, Begin(a, c, node, values, resume)
  PROVE  run' \in [Runners -> Runs] /\ RunsTyped'
PROOF
  <1>1. [node |-> node, ran |-> FALSE, case |-> c, values |-> values,
         resume |-> resume] \in Runs
    BY DEF Runs
  <1>. QED
    BY <1>1 DEF Begin, GraphTypeOK, RunsTyped, Nodes

(* The values and the thread a dict input leaves behind are typed.         *)
LEMMA InvokeInputTypes ==
  ASSUME GraphTypeOK, RunsTyped, NEW a \in Runners, NEW c \in Cases,
         NEW stage \in {"alert_received", "evidence_ready", "approved"},
         InvokeInput(a, c, stage)
  PROVE  GraphTypeOK' /\ RunsTyped'
PROOF
  <1>. DEFINE values == [thread[c].values EXCEPT !.stage = stage]
  <1>1. values \in Values
    BY DEF GraphTypeOK, Threads, Values, Stages
  <1>2. [values |-> values, waiting |-> FALSE, offered |-> {}] \in Threads
    BY <1>1 DEF Threads
  <1>3. RouteStage(stage) \in Nodes
    BY DEF RouteStage, Nodes
  <1>4. Begin(a, c, RouteStage(stage), values, "none")
    BY DEF InvokeInput
  <1>5. run' \in [Runners -> Runs] /\ RunsTyped'
    BY <1>1, <1>3, <1>4, BeginTypes DEF Verdicts
  <1>6. thread' \in [Cases -> Threads]
    BY <1>2 DEF InvokeInput, GraphTypeOK
  <1>. QED
    BY <1>5, <1>6 DEF GraphTypeOK

LEMMA IdleTypes ==
  /\ IdleRun \in Runs
  /\ IdleRun.node = "idle"
  /\ IdleRun.ran = FALSE
  /\ IdleWorker.pc = "idle"
  /\ IdleWorker \in [pc: WorkerStates, msg: Messages \cup {NoMessage}]
PROOF
  BY DEF IdleRun, Runs, NoValues, Values, Stages, Reports, Verdicts,
     IdleWorker, WorkerStates

LEMMA InitTyped == Init => TypeInv
PROOF
  <1>. SUFFICES ASSUME Init PROVE TypeInv
    OBVIOUS
  <1>. USE DEF Init, TransportInit, GraphInit, ConsumersInit, ApprovalInit
  <1>1. TransportTypeOK
    BY MaxFaultsAssumption DEF TransportTypeOK, LedgerStates
  <1>2. GraphTypeOK
    BY DEF GraphTypeOK, NoThread, NoValues, Threads, Values, IdleRun, Runs,
           Stages, Reports, Verdicts
  <1>3. ConsumersTypeOK
    BY DEF ConsumersTypeOK, IdleWorker, NoMessage, WorkerStates
  <1>4. ApprovalTypeOK
    BY DEF ApprovalTypeOK, NewRequest, Credentials, Verdicts, Outcomes, Active
  <1>5. RunsTyped
    BY DEF RunsTyped, IdleRun
  <1>. QED
    BY <1>1, <1>2, <1>3, <1>4, <1>5 DEF TypeInv, TypeOK


-----------------------------------------------------------------------------
(* Type correctness, one lemma per side of the next-state relation.        *)
LEMMA ConsumerTyped ==
  ASSUME TypeInv, ConsumerSide PROVE TypeInv'
PROOF
  <1>. USE DEF TypeInv, TypeOK
  <1>a. TransportTypeOK /\ GraphTypeOK /\ ConsumersTypeOK /\ ApprovalTypeOK /\ RunsTyped
    OBVIOUS
  <1>b. UNCHANGED approvalVars
    BY DEF ConsumerSide
  <1>c. ApprovalTypeOK'
    BY <1>a, <1>b DEF ApprovalTypeOK, approvalVars, Active
  <1>1. ASSUME NEW c \in Cases, PublishAlert(c) PROVE TypeInv'
    <2>1. published' \subseteq Publications /\ queue' \subseteq Messages
      BY <1>1, <1>a, PublishTypes DEF PublishAlert, EventTypes, ConsumedTypes, Details
    <2>. QED
      BY <1>1, <1>a, <1>c, <2>1 DEF PublishAlert, TransportTypeOK, GraphTypeOK,
         ConsumersTypeOK, RunsTyped, graphVars
  <1>14. ASSUME RedeliverMessage PROVE TypeInv'
    <2>1. queue' \subseteq Messages
      BY <1>14, <1>a DEF RedeliverMessage, Redeliver, Unused, TransportTypeOK, Messages
    <2>2. faults' \in 0..MaxFaults
      BY <1>14, <1>a, MaxFaultsAssumption DEF RedeliverMessage, Inject, TransportTypeOK
    <2>. QED
      BY <1>14, <1>a, <1>c, <2>1, <2>2 DEF RedeliverMessage, TransportTypeOK, GraphTypeOK,
         ConsumersTypeOK, RunsTyped, graphVars
  <1>2. ASSUME NEW w \in Workers, Receive(w) PROVE TypeInv'
    BY <1>2, <1>a, <1>c DEF Receive, TransportTypeOK, GraphTypeOK,
       ConsumersTypeOK, RunsTyped, graphVars, transportVars, WorkerStates
  <1>3. ASSUME NEW w \in Workers, DeadLetterInvalid(w) PROVE TypeInv'
    BY <1>3, <1>a, <1>c DEF DeadLetterInvalid, DeadLetter, Idle, IdleWorker,
       TransportTypeOK, GraphTypeOK,
       ConsumersTypeOK, RunsTyped, graphVars, WorkerStates, Messages
  <1>4. ASSUME NEW w \in Workers, Claim(w) PROVE TypeInv'
    BY <1>4, <1>a, <1>c DEF Claim, SetLedger, Goto,
       TransportTypeOK, GraphTypeOK, LedgerStates,
       ConsumersTypeOK, RunsTyped, graphVars, WorkerStates
  <1>5. ASSUME NEW w \in Workers, AckDuplicate(w) \/ AckCompleted(w) PROVE TypeInv'
    <2>1. /\ queue' \subseteq queue /\ worker' = [worker EXCEPT ![w] = IdleWorker]
          /\ UNCHANGED <<published, deadLetters, ledger, faults, thread, run>>
      BY <1>5 DEF AckDuplicate, AckCompleted, Ack, Idle, graphVars
    <2>2. ConsumersTypeOK'
      BY <2>1, <1>a, IdleTypes DEF ConsumersTypeOK
    <2>. QED
      BY <2>1, <2>2, <1>a, <1>c DEF TransportTypeOK, GraphTypeOK, RunsTyped
  <1>6. ASSUME NEW w \in Workers, StartCase(w) PROVE TypeInv'
    <2>1. EventOf(w).case \in Cases /\ w \in Runners
      BY <1>6, <1>a DEF StartCase, ConsumersTypeOK, Messages, EventIds, Runners
    <2>2. GraphTypeOK' /\ RunsTyped'
      BY <1>6, <1>a, <2>1, InvokeInputTypes DEF StartCase
    <2>. QED
      BY <1>6, <1>a, <1>c, <2>2 DEF StartCase, TransportTypeOK, transportVars,
         ConsumersTypeOK, Goto, WorkerStates
  <1>7. ASSUME NEW w \in Workers, CollectEvidence(w) PROVE TypeInv'
    <2>1. EventOf(w).case \in Cases
      BY <1>7, <1>a DEF CollectEvidence, ConsumersTypeOK, Messages, EventIds
    <2>2. published' \subseteq Publications /\ queue' \subseteq Messages
      BY <1>7, <1>a, <2>1, PublishTypes DEF CollectEvidence, EventTypes, ConsumedTypes, Details
    <2>. QED
      BY <1>7, <1>a, <1>c, <2>2 DEF CollectEvidence, TransportTypeOK, GraphTypeOK,
         ConsumersTypeOK, RunsTyped, graphVars, Goto, WorkerStates
  <1>8. ASSUME NEW w \in Workers, CollectionRaises(w) PROVE TypeInv'
    <2>1. EventOf(w).case \in Cases
      BY <1>8, <1>a DEF CollectionRaises, ConsumersTypeOK, Messages, EventIds
    <2>2. published' \subseteq Publications /\ queue' \subseteq Messages
      <3>1. CASE UNCHANGED <<published, queue>>
        BY <3>1, <1>a DEF TransportTypeOK
      <3>2. CASE Publish("evidence_ready", EventOf(w).case, "none")
        BY <3>2, <1>a, <2>1, PublishTypes DEF EventTypes, ConsumedTypes, Details
      <3>. QED
        BY <1>8, <3>1, <3>2 DEF CollectionRaises
    <2>3. faults' \in 0..MaxFaults
      BY <1>8, <1>a, MaxFaultsAssumption DEF CollectionRaises, Inject, TransportTypeOK
    <2>. QED
      BY <1>8, <1>a, <1>c, <2>2, <2>3 DEF CollectionRaises, TransportTypeOK, GraphTypeOK,
         ConsumersTypeOK, RunsTyped, graphVars, Goto, WorkerStates
  <1>9. ASSUME NEW w \in Workers, StartReasoning(w) PROVE TypeInv'
    <2>1. EventOf(w).case \in Cases /\ w \in Runners
      BY <1>9, <1>a DEF StartReasoning, ConsumersTypeOK, Messages, EventIds, Runners
    <2>2. GraphTypeOK' /\ RunsTyped'
      <3>. DEFINE values == [thread[EventOf(w).case].values EXCEPT
                               !.stage = "evidence_ready", !.evidence = TRUE]
      <3>1. values \in Values
        BY <1>a, <2>1 DEF GraphTypeOK, Threads, Values, Stages
      <3>2. /\ Begin(w, EventOf(w).case, "prepare_case_for_review", values, "none")
            /\ UNCHANGED thread
        BY <1>9 DEF StartReasoning, InvokeGoto
      <3>. QED
        BY <1>a, <2>1, <3>1, <3>2, BeginTypes DEF GraphTypeOK, Nodes, Verdicts
    <2>. QED
      BY <1>9, <1>a, <1>c, <2>2 DEF StartReasoning, TransportTypeOK, transportVars,
         ConsumersTypeOK, Goto, WorkerStates
  <1>10. ASSUME NEW w \in Workers, RunEnds(w) PROVE TypeInv'
    <2>1. GraphTypeOK' /\ RunsTyped'
      BY <1>10, <1>a, IdleTypes DEF RunEnds, GraphTypeOK, RunsTyped
    <2>2. ConsumersTypeOK'
      BY <1>10, <1>a DEF RunEnds, ConsumersTypeOK, Goto, WorkerStates
    <2>. QED
      BY <1>10, <1>a, <1>c, <2>1, <2>2 DEF RunEnds, TransportTypeOK, transportVars
  <1>11. ASSUME NEW w \in Workers, Complete(w) \/ Release(w) PROVE TypeInv'
    BY <1>11, <1>a, <1>c DEF Complete, Release, SetLedger, Goto,
       TransportTypeOK, GraphTypeOK, LedgerStates,
       ConsumersTypeOK, RunsTyped, graphVars, WorkerStates
  <1>12. ASSUME NEW w \in Workers, RetryOrDeadLetter(w) PROVE TypeInv'
    <2>1. worker[w].msg \in Messages
      BY <1>12, <1>a DEF RetryOrDeadLetter, ConsumersTypeOK
    <2>2. queue' \subseteq Messages /\ deadLetters' \subseteq EventIds
      <3>1. CASE Exhausted(worker[w].msg)
        BY <3>1, <1>12, <1>a, <2>1 DEF RetryOrDeadLetter, DeadLetter, TransportTypeOK, Messages
      <3>2. CASE ~Exhausted(worker[w].msg)
        BY <3>2, <1>12, <1>a, <2>1, MaxAttemptsAssumption
           DEF RetryOrDeadLetter, Retry, Exhausted, TransportTypeOK, Messages
      <3>. QED
        BY <3>1, <3>2
    <2>. QED
      BY <1>12, <1>a, <1>c, <2>2 DEF RetryOrDeadLetter, Idle, IdleWorker,
         TransportTypeOK, GraphTypeOK,
         ConsumersTypeOK, RunsTyped, graphVars, WorkerStates
  <1>13. ASSUME NEW w \in Workers, WorkerCrash(w) PROVE TypeInv'
    <2>1. faults' \in 0..MaxFaults
      BY <1>13, <1>a, MaxFaultsAssumption DEF WorkerCrash, Inject, TransportTypeOK
    <2>2. ledger' \in [EventIds -> LedgerStates]
      BY <1>13, <1>a DEF WorkerCrash, TransportTypeOK, LedgerStates
    <2>3. GraphTypeOK' /\ RunsTyped'
      BY <1>13, <1>a, IdleTypes DEF WorkerCrash, GraphTypeOK, RunsTyped
    <2>4. ConsumersTypeOK'
      BY <1>13, <1>a, IdleTypes DEF WorkerCrash, Idle, ConsumersTypeOK
    <2>. QED
      BY <1>13, <1>a, <1>c, <2>1, <2>2, <2>3, <2>4 DEF WorkerCrash, TransportTypeOK
  <1>. QED
    BY <1>1, <1>2, <1>3, <1>4, <1>5, <1>6, <1>7, <1>8, <1>9, <1>10, <1>11,
       <1>12, <1>13, <1>14 DEF ConsumerSide, ConsumerStep, ConsumerFault

LEMMA EndedTypes ==
  ASSUME ApprovalTypeOK, NEW q \in Requests, NEW outcome \in Outcomes,
         Finish(q, outcome)
  PROVE  /\ request' \in [Requests ->
              [pc: {"new", "admitted", "running", "done"},
               replica: Replicas \cup {"none"}, case: Cases \cup {"none"},
               decision: Verdicts, credentials: Credentials,
               mode: {"none", "resume", "republish"}, outcome: Outcomes]]
         /\ \A p \in Requests:
              Active(p)' => p # q /\ Active(p) /\ request'[p] = request[p]
PROOF
  <1>. DEFINE entry == Ended(request[q], outcome)
  <1>1. /\ entry \in
             [pc: {"new", "admitted", "running", "done"},
              replica: Replicas \cup {"none"}, case: Cases \cup {"none"},
              decision: Verdicts, credentials: Credentials,
              mode: {"none", "resume", "republish"}, outcome: Outcomes]
        /\ entry.pc = "done"
    BY DEF ApprovalTypeOK, Ended
  <1>2. request' = [request EXCEPT ![q] = entry]
    BY DEF Finish
  <1>. HIDE DEF entry
  <1>. QED
    BY <1>1, <1>2 DEF ApprovalTypeOK, Active

LEMMA ApprovalTyped ==
  ASSUME TypeInv, ApprovalSide PROVE TypeInv'
PROOF
  <1>. USE DEF TypeInv, TypeOK
  <1>a. TransportTypeOK /\ GraphTypeOK /\ ConsumersTypeOK /\ ApprovalTypeOK /\ RunsTyped
    OBVIOUS
  <1>b. UNCHANGED consumerVars
    BY DEF ApprovalSide
  <1>c. ConsumersTypeOK'
    BY <1>a, <1>b DEF ConsumersTypeOK, consumerVars
  <1>d. ASSUME UNCHANGED transportVars PROVE TransportTypeOK'
    BY <1>a, <1>d DEF TransportTypeOK, transportVars
  <1>e. ASSUME Inject("timeout") \/ Inject("crash"),
               UNCHANGED <<published, queue, deadLetters, ledger>>
        PROVE  TransportTypeOK'
    BY <1>a, <1>e, MaxFaultsAssumption DEF TransportTypeOK, Inject
  <1>1. ASSUME NEW q \in Requests, NEW r \in Replicas, NEW c \in Cases,
               NEW d \in Decisions, NEW cred \in Credentials,
               Submit(q, r, c, d, cred)
        PROVE  TypeInv'
    <2>1. ApprovalTypeOK'
      <3>1. CASE Finish(q, "forbidden") \/ Finish(q, "conflict")
        BY <3>1, <1>1, <1>a, EndedTypes DEF Submit, ApprovalTypeOK, Outcomes, Active
      <3>2. CASE ~(Finish(q, "forbidden") \/ Finish(q, "conflict"))
        <4>1. Admission(c, d, cred) \in {"resume", "republish", "conflict"}
          BY DEF Admission
        <4>. QED
          BY <3>2, <4>1, <1>1, <1>a DEF Submit, ApprovalTypeOK, Outcomes, Active, Verdicts
      <3>. QED
        BY <3>1, <3>2
    <2>. QED
      BY <1>1, <1>a, <1>c, <1>d, <2>1 DEF Submit, GraphTypeOK, RunsTyped, graphVars
  <1>2. ASSUME NEW q \in Requests, ResumeInterrupt(q) PROVE TypeInv'
    <2>1. request[q].case \in Cases /\ request[q].decision \in Decisions /\ q \in Runners
      BY <1>2, <1>a DEF ResumeInterrupt, ApprovalTypeOK, Active, Runners
    <2>2. GraphTypeOK' /\ RunsTyped'
      <3>. DEFINE c == request[q].case
      <3>0. thread[c].values \in Values /\ thread[c].offered \in SUBSET Decisions
        BY <1>a, <2>1 DEF GraphTypeOK, Threads
      <3>1. CASE thread[c].waiting
        <4>1. PICK v \in ResumeValues(c, request[q].decision):
                /\ Begin(q, c, "human_approval", thread[c].values, v)
                /\ thread' = [thread EXCEPT ![c].offered = @ \cup {v}]
          BY <1>2, <3>1 DEF ResumeInterrupt, InvokeResume
        <4>2. v \in Decisions
          BY <2>1, <3>0 DEF ResumeValues
        <4>3. thread' \in [Cases -> Threads]
          BY <4>1, <4>2, <2>1, <1>a DEF GraphTypeOK, Threads
        <4>. QED
          BY <1>a, <2>1, <3>0, <4>1, <4>2, <4>3, BeginTypes DEF GraphTypeOK, Nodes, Verdicts
      <3>2. CASE ~thread[c].waiting
        <4>1. Begin(q, c, "returned", thread[c].values, "none") /\ UNCHANGED thread
          BY <1>2, <3>2 DEF ResumeInterrupt, InvokeResume
        <4>. QED
          BY <1>a, <2>1, <3>0, <4>1, BeginTypes DEF GraphTypeOK, Verdicts
      <3>. QED
        BY <3>1, <3>2
    <2>3. ApprovalTypeOK'
      BY <1>2, <1>a, <2>1 DEF ResumeInterrupt, ApprovalTypeOK, Active
    <2>. QED
      BY <1>2, <1>a, <1>c, <1>d, <2>2, <2>3 DEF ResumeInterrupt
  <1>3. ASSUME NEW q \in Requests, RepublishOrder(q) PROVE TypeInv'
    <2>1. request[q].case \in Cases /\ q \in Runners
      BY <1>3, <1>a DEF RepublishOrder, ApprovalTypeOK, Active, Runners
    <2>2. GraphTypeOK' /\ RunsTyped'
      BY <1>3, <1>a, <2>1, InvokeInputTypes DEF RepublishOrder
    <2>3. ApprovalTypeOK'
      BY <1>3, <1>a, <2>1 DEF RepublishOrder, ApprovalTypeOK, Active
    <2>. QED
      BY <1>3, <1>a, <1>c, <1>d, <2>2, <2>3 DEF RepublishOrder
  <1>4. ASSUME NEW q \in Requests, ResumeResult(q) PROVE TypeInv'
    <2>1. PICK outcome \in Outcomes: Finish(q, outcome)
      BY <1>4 DEF ResumeResult, ResumeOutcome, Outcomes
    <2>2. ApprovalTypeOK'
      BY <1>4, <1>a, <2>1, EndedTypes DEF ResumeResult, ApprovalTypeOK, Active
    <2>3. GraphTypeOK' /\ RunsTyped'
      BY <1>4, <1>a, IdleTypes DEF ResumeResult, GraphTypeOK, RunsTyped
    <2>. QED
      BY <1>4, <1>a, <1>c, <1>d, <2>2, <2>3 DEF ResumeResult
  <1>5. ASSUME NEW q \in Requests, ResumeTimeout(q) PROVE TypeInv'
    <2>1. ApprovalTypeOK'
      BY <1>5, <1>a, EndedTypes DEF ResumeTimeout, ApprovalTypeOK, Active, Outcomes
    <2>2. GraphTypeOK' /\ RunsTyped'
      BY <1>5, <1>a, IdleTypes DEF ResumeTimeout, GraphTypeOK, RunsTyped
    <2>. QED
      BY <1>5, <1>a, <1>c, <1>e, <2>1, <2>2 DEF ResumeTimeout
  <1>6. ASSUME NEW r \in Replicas, ReplicaCrash(r) PROVE TypeInv'
    <2>. DEFINE Entries ==
           [pc: {"new", "admitted", "running", "done"},
            replica: Replicas \cup {"none"}, case: Cases \cup {"none"},
            decision: Verdicts, credentials: Credentials,
            mode: {"none", "resume", "republish"}, outcome: Outcomes]
    <2>0. \A q \in Requests: Ended(request[q], "crashed") \in Entries
      BY <1>a DEF ApprovalTypeOK, Ended, Outcomes
    <2>1. ApprovalTypeOK'
      <3>1. request' \in [Requests -> Entries]
        BY <1>6, <1>a, <2>0 DEF ReplicaCrash, ApprovalTypeOK
      <3>2. \A q \in Requests: Active(q)' => request'[q] = request[q]
        <4>1. \A q \in Requests: Ended(request[q], "crashed").pc = "done"
          BY <1>a DEF ApprovalTypeOK, Ended
        <4>. QED
          BY <1>6, <4>1 DEF ReplicaCrash, Active
      <3>3. ASSUME NEW q \in Requests, Active(q)'
            PROVE  /\ request'[q].replica \in Replicas
                   /\ request'[q].case \in Cases
                   /\ request'[q].decision \in Decisions
        <4>1. request'[q] = request[q] /\ Active(q)
          BY <3>2, <3>3 DEF Active
        <4>. QED
          BY <4>1, <1>a DEF ApprovalTypeOK
      <3>4. submitted' \subseteq Cases \X Decisions
        BY <1>6, <1>a DEF ReplicaCrash, ApprovalTypeOK
      <3>. QED
        BY <3>1, <3>3, <3>4 DEF ApprovalTypeOK
    <2>2. GraphTypeOK' /\ RunsTyped'
      BY <1>6, <1>a, IdleTypes DEF ReplicaCrash, GraphTypeOK, RunsTyped
    <2>. QED
      BY <1>6, <1>a, <1>c, <1>e, <2>1, <2>2 DEF ReplicaCrash
  <1>. QED
    BY <1>1, <1>2, <1>3, <1>4, <1>5, <1>6 DEF ApprovalSide, ApprovalStep

LEMMA GraphTyped ==
  ASSUME TypeInv, GraphSide PROVE TypeInv'
PROOF
  <1>. USE DEF TypeInv, TypeOK
  <1>a. TransportTypeOK /\ GraphTypeOK /\ ConsumersTypeOK /\ ApprovalTypeOK /\ RunsTyped
    OBVIOUS
  <1>b. UNCHANGED <<consumerVars, approvalVars>>
    BY DEF GraphSide
  <1>c. ConsumersTypeOK' /\ ApprovalTypeOK'
    BY <1>a, <1>b DEF ConsumersTypeOK, consumerVars, ApprovalTypeOK, approvalVars, Active
  <1>. SUFFICES ASSUME NEW a \in Runners, GraphStep(a) \/ CallRaises(a)
                PROVE  TransportTypeOK' /\ GraphTypeOK' /\ RunsTyped'
    BY <1>c DEF GraphSide
  <1>d. /\ run[a] \in Runs
        /\ run[a].values \in Values
        /\ run[a].resume \in Verdicts
        /\ run[a].node \in Nodes => run[a].case \in Cases
    BY <1>a DEF GraphTypeOK, RunsTyped, Runs, Nodes
  (* A node that has returned typed values leaves a typed graph.           *)
  <1>e. ASSUME NEW values \in Values, NodeReturns(a, values), run[a].node \in Nodes
        PROVE  GraphTypeOK' /\ RunsTyped'
    BY <1>a, <1>d, <1>e DEF NodeReturns, GraphTypeOK, RunsTyped, Runs
  <1>1. CASE RequestEvidence(a)
    <2>1. [run[a].values EXCEPT !.stage = "evidence_requested"] \in Values
      BY <1>d DEF Values, Stages
    <2>2. run[a].node \in Nodes
      BY <1>1 DEF RequestEvidence, Pending, Nodes
    <2>3. published' \subseteq Publications /\ queue' \subseteq Messages
      BY <1>1, <1>a, <1>d, <2>2, PublishTypes
         DEF RequestEvidence, EventTypes, ConsumedTypes, Details
    <2>. QED
      BY <1>1, <1>a, <1>e, <2>1, <2>2, <2>3 DEF RequestEvidence, NodeReturns, TransportTypeOK
  <1>2. CASE PrepareCaseForReview(a)
    <2>1. PICK action \in RecommendedActions:
            /\ Publish("review_requested", run[a].case, action)
            /\ NodeReturns(a, [run[a].values EXCEPT !.stage = "review_requested",
                                                    !.report = action])
      BY <1>2 DEF PrepareCaseForReview
    <2>2. [run[a].values EXCEPT !.stage = "review_requested", !.report = action] \in Values
      BY <1>d DEF Values, Stages, Reports
    <2>3. run[a].node \in Nodes
      BY <1>2 DEF PrepareCaseForReview, Pending, Nodes
    <2>4. published' \subseteq Publications /\ queue' \subseteq Messages
      BY <1>a, <1>d, <2>1, <2>3, PublishTypes DEF EventTypes, ConsumedTypes, Details
    <2>. QED
      BY <1>a, <1>e, <2>1, <2>2, <2>3, <2>4 DEF NodeReturns, TransportTypeOK
  <1>3. CASE Interrupt(a)
    <2>1. run[a].node \in Nodes
      BY <1>3 DEF Interrupt, Pending, Nodes
    <2>2. thread' \in [Cases -> Threads]
      <3>. DEFINE t == thread[run[a].case]
      <3>1. t \in Threads
        BY <1>a, <1>d, <2>1 DEF GraphTypeOK
      <3>2. (t.waiting \/ t.values = run[a].values) \in BOOLEAN
        OBVIOUS
      <3>3. [t EXCEPT !.waiting = @ \/ t.values = run[a].values] \in Threads
        BY <3>1, <3>2 DEF Threads
      <3>4. thread' = [thread EXCEPT ![run[a].case] =
                         [t EXCEPT !.waiting = @ \/ t.values = run[a].values]]
        BY <1>3 DEF Interrupt
      <3>. QED
        BY <1>a, <3>3, <3>4 DEF GraphTypeOK
    <2>3. run' \in [Runners -> Runs] /\ RunsTyped'
      BY <1>3, <1>a, <1>d, <2>1 DEF Interrupt, GraphTypeOK, RunsTyped, Runs, Pending, Nodes
    <2>. QED
      BY <1>3, <1>a, <2>2, <2>3 DEF Interrupt, GraphTypeOK, TransportTypeOK, transportVars
  <1>4. CASE HumanApproval(a)
    <2>1. run[a].node \in Nodes /\ run[a].resume \in Decisions
      BY <1>4, <1>d DEF HumanApproval, Pending, Nodes, Verdicts
    <2>2. [run[a].values EXCEPT !.stage = run[a].resume,
                                !.decision = run[a].resume] \in Values
      BY <1>d, <2>1 DEF Values, Stages, Decisions, Verdicts
    <2>3. published' \subseteq Publications /\ queue' \subseteq Messages
      <3>1. CASE GrantedPublisher
        BY <3>1, <1>4, <1>a, <1>d, <2>1, PublishTypes DEF HumanApproval, EventTypes, Details
      <3>2. CASE ~GrantedPublisher
        BY <3>2, <1>4, <1>a DEF HumanApproval, TransportTypeOK
      <3>. QED
        BY <3>1, <3>2
    <2>. QED
      BY <1>4, <1>a, <1>e, <2>1, <2>2, <2>3 DEF HumanApproval, NodeReturns, TransportTypeOK
  <1>5. CASE RequestExecutionOrder(a)
    <2>1. run[a].node \in Nodes
      BY <1>5 DEF RequestExecutionOrder, Pending, Nodes
    <2>2. [run[a].values EXCEPT !.stage = "execution_requested"] \in Values
      BY <1>d DEF Values, Stages
    <2>3. run[a].values.report \in Details
      BY <1>d DEF Values, Reports, Details
    <2>4. published' \subseteq Publications /\ queue' \subseteq Messages
      BY <1>5, <1>a, <1>d, <2>1, <2>3, PublishTypes DEF RequestExecutionOrder, EventTypes
    <2>. QED
      BY <1>5, <1>a, <1>e, <2>1, <2>2, <2>4 DEF RequestExecutionOrder, NodeReturns, TransportTypeOK
  <1>6. CASE Commit(a)
    <2>1. [values |-> run[a].values, waiting |-> FALSE, offered |-> {}] \in Threads
      BY <1>d DEF Threads
    <2>2. NextNode(run[a].node, run[a].values.stage) \in Nodes \cup {"returned"}
      BY DEF NextNode, Nodes
    <2>3. run[a].node \in Nodes
      BY <1>6, <1>a DEF Commit, RunsTyped
    <2>4. run' \in [Runners -> Runs] /\ RunsTyped'
      BY <1>6, <1>a, <1>d, <2>2, <2>3 DEF Commit, GraphTypeOK, RunsTyped, Runs, Nodes, Verdicts
    <2>. QED
      BY <1>6, <1>a, <2>1, <2>4 DEF Commit, GraphTypeOK, TransportTypeOK, transportVars
  <1>7. CASE NodeRaises(a)
    BY <1>7, <1>a, <1>d DEF NodeRaises, GraphTypeOK, RunsTyped, Runs, Nodes,
       TransportTypeOK, transportVars
  <1>8. CASE CallRaises(a)
    <2>1. faults' \in 0..MaxFaults
      BY <1>8, <1>a, MaxFaultsAssumption DEF CallRaises, Inject, TransportTypeOK
    <2>2. run' \in [Runners -> Runs] /\ RunsTyped'
      BY <1>8, <1>a, <1>d DEF CallRaises, GraphTypeOK, RunsTyped, Runs, Nodes
    <2>. QED
      BY <1>8, <1>a, <2>1, <2>2 DEF CallRaises, GraphTypeOK, TransportTypeOK
  <1>. QED
    BY <1>1, <1>2, <1>3, <1>4, <1>5, <1>6, <1>7, <1>8 DEF GraphStep

LEMMA NextTyped == TypeInv /\ [Next]_vars => TypeInv'
PROOF
  <1>1. ASSUME TypeInv, UNCHANGED vars PROVE TypeInv'
    BY <1>1 DEF TypeInv, TypeOK, vars, transportVars, graphVars, consumerVars, approvalVars,
       TransportTypeOK, GraphTypeOK, ConsumersTypeOK, ApprovalTypeOK, RunsTyped, Active
  <1>. QED
    BY <1>1, ConsumerTyped, ApprovalTyped, GraphTyped DEF Next

(* Every variable of the case flow keeps its type, for every number of     *)
(* cases, workers, requests and replicas, and whatever faults are injected.*)
THEOREM TypeCorrect == Spec => []TypeOK
PROOF
  <1>1. TypeInv => TypeOK
    BY DEF TypeInv
  <1>. QED
    BY InitTyped, NextTyped, <1>1, PTL DEF Spec

-----------------------------------------------------------------------------
(* The protocol of a case.  The events a case publishes are decided from   *)
(* state that was written long before: checkpoints, the values a run       *)
(* loaded, a message a worker holds, the snapshot a request was admitted   *)
(* on.  CausalInv says that everything held in those places is backed by   *)
(* an event that was published or a decision that was submitted; published *)
(* and submitted only grow, so the backing cannot go away while it is held.*)

(* Event [type, c, detail] is in a set of publications.                    *)
In(pub, type, c, detail) ==
  [type |-> type, case |-> c, detail |-> detail] \in pub

(* Values of case c that only report what happened.                        *)
Backed(pub, sub, c, v) ==
  /\ v.evidence => In(pub, "evidence_ready", c, "none")
  /\ v.report # "none" => In(pub, "review_requested", c, v.report)
  /\ v.decision # "none" => <<c, v.decision>> \in sub
  /\ v.decision = "approved" /\ GrantedPublisher =>
       In(pub, "approval_granted", c, "approved")
  /\ v.stage \in Decisions => <<c, v.stage>> \in sub
  /\ v.stage = "execution_requested" =>
       \E p \in pub: p.type = "execution_order" /\ p.case = c

(* A checkpoint, a run, a message, an admitted request, an order.          *)
ThreadBacked(pub, sub, c, t) ==
  /\ Backed(pub, sub, c, t.values)
  /\ t.waiting => t.values.report \in PromptActions
  /\ \A d \in t.offered: <<c, d>> \in sub

RunBacked(pub, sub, r) ==
  r.node # "idle" =>
    /\ Backed(pub, sub, r.case, r.values)
    /\ r.resume # "none" => <<r.case, r.resume>> \in sub
    /\ r.node = "request_evidence" => In(pub, "risk_alert", r.case, "none")

MessageBacked(pub, m) == In(pub, m.event.type, m.event.case, "none")

Reviewable(pub, c) ==
  \E x \in RecommendedActions \cap PromptActions:
    In(pub, "review_requested", c, x)

RequestBacked(pub, sub, e) ==
  e.pc \in {"admitted", "running"} =>
    /\ e.credentials = "valid"
    /\ e.mode = "resume" => Reviewable(pub, e.case)
    /\ e.mode = "republish" => <<e.case, "approved">> \in sub

OrderBacked(pub, sub, p) ==
  p.type = "execution_order" =>
    /\ <<p.case, "approved">> \in sub
    /\ p.detail \in OrderTypes
    /\ In(pub, "review_requested", p.case, p.detail)

(* A decision submitted on a case was taken by a valid request for it.     *)
TakenBy(s, e) ==
  /\ e.pc # "new"
  /\ e.case = s[1]
  /\ e.decision = s[2]
  /\ e.credentials = "valid"

ThreadsBacked ==
  \A c \in Cases: ThreadBacked(published, submitted, c, thread[c])
RunsBacked ==
  \A a \in Runners: RunBacked(published, submitted, run[a])
QueueBacked ==
  \A m \in queue: MessageBacked(published, m)
WorkersBacked ==
  \A w \in Workers:
    worker[w].pc # "idle" => MessageBacked(published, worker[w].msg)
RequestsBacked ==
  \A q \in Requests: RequestBacked(published, submitted, request[q])
OrdersBacked ==
  \A p \in published: OrderBacked(published, submitted, p)
DecisionsTaken ==
  \A s \in submitted: \E q \in Requests: TakenBy(s, request[q])

CausalInv ==
  /\ TypeInv
  /\ ThreadsBacked
  /\ RunsBacked
  /\ QueueBacked
  /\ WorkersBacked
  /\ RequestsBacked
  /\ OrdersBacked
  /\ DecisionsTaken

-----------------------------------------------------------------------------
(* What is backed stays backed while publications and decisions grow.      *)
LEMMA BackedStable ==
  ASSUME NEW P1, NEW P2, NEW S1, NEW S2, P1 \subseteq P2, S1 \subseteq S2
  PROVE  /\ \A c, v: Backed(P1, S1, c, v) => Backed(P2, S2, c, v)
         /\ \A c, t: ThreadBacked(P1, S1, c, t) => ThreadBacked(P2, S2, c, t)
         /\ \A r: RunBacked(P1, S1, r) => RunBacked(P2, S2, r)
         /\ \A m: MessageBacked(P1, m) => MessageBacked(P2, m)
         /\ \A e: RequestBacked(P1, S1, e) => RequestBacked(P2, S2, e)
         /\ \A p: OrderBacked(P1, S1, p) => OrderBacked(P2, S2, p)
PROOF
  <1>1. \A type, c, d: In(P1, type, c, d) => In(P2, type, c, d)
    BY DEF In
  <1>2. \A c, v: Backed(P1, S1, c, v) => Backed(P2, S2, c, v)
    BY <1>1 DEF Backed
  <1>3. \A c, t: ThreadBacked(P1, S1, c, t) => ThreadBacked(P2, S2, c, t)
    BY <1>2 DEF ThreadBacked
  <1>4. \A r: RunBacked(P1, S1, r) => RunBacked(P2, S2, r)
    BY <1>1, <1>2 DEF RunBacked
  <1>5. \A m: MessageBacked(P1, m) => MessageBacked(P2, m)
    BY <1>1 DEF MessageBacked
  <1>6. \A e: RequestBacked(P1, S1, e) => RequestBacked(P2, S2, e)
    BY <1>1 DEF RequestBacked, Reviewable
  <1>7. \A p: OrderBacked(P1, S1, p) => OrderBacked(P2, S2, p)
    BY <1>1 DEF OrderBacked
  <1>. QED
    BY <1>2, <1>3, <1>4, <1>5, <1>6, <1>7

(* A publication is in the set of publications, backs the message it       *)
(* queues, and is the only new one.                                        *)
LEMMA PublishBacks ==
  ASSUME NEW type, NEW c, NEW detail, Publish(type, c, detail),
         type \in ConsumedTypes => detail = "none"
  PROVE  /\ published \subseteq published'
         /\ In(published', type, c, detail)
         /\ \A p \in published': p \in published \/ p.type = type
         /\ \A m \in queue': m \in queue \/ MessageBacked(published', m)
PROOF
  <1>. DEFINE pub == [type |-> type, case |-> c, detail |-> detail]
             msg == Delivery(type, c, detail)
  <1>1. published' = published \cup {pub}
    BY DEF Publish
  <1>2. \A m \in queue': m \in queue \/ (m = msg /\ type \in ConsumedTypes)
    BY DEF Publish
  <1>3. In(published', type, c, detail)
    BY <1>1 DEF In
  <1>4. msg.event.type = type /\ msg.event.case = c
    BY DEF Delivery, Event
  <1>5. type \in ConsumedTypes => MessageBacked(published', msg)
    BY <1>3, <1>4 DEF MessageBacked
  <1>. QED
    BY <1>1, <1>2, <1>3, <1>5

(* A run that begins on backed values is backed.                           *)
LEMMA BeginBacked ==
  ASSUME TypeInv, NEW P, NEW S, NEW a \in Runners, NEW c \in Cases, NEW node,
         NEW values, NEW resume, Begin(a, c, node, values, resume),
         Backed(P, S, c, values),
         resume # "none" => <<c, resume>> \in S,
         node = "request_evidence" => In(P, "risk_alert", c, "none"),
         \A b \in Runners: RunBacked(P, S, run[b])
  PROVE  \A b \in Runners: RunBacked(P, S, run'[b])
PROOF
  <1>1. \A b \in Runners:
          run'[b] = IF b = a THEN [node |-> node, ran |-> FALSE, case |-> c,
                                   values |-> values, resume |-> resume]
                    ELSE run[b]
    BY DEF Begin, TypeInv, TypeOK, GraphTypeOK
  <1>2. RunBacked(P, S, [node |-> node, ran |-> FALSE, case |-> c,
                         values |-> values, resume |-> resume])
    BY DEF RunBacked
  <1>. QED
    BY <1>1, <1>2

LEMMA InitBacked == Init => CausalInv
PROOF
  <1>. SUFFICES ASSUME Init PROVE CausalInv
    OBVIOUS
  <1>1. TypeInv
    BY InitTyped
  <1>2. ThreadsBacked
    BY DEF Init, GraphInit, ThreadsBacked, ThreadBacked, Backed, NoThread, NoValues, Decisions
  <1>3. RunsBacked
    BY DEF Init, GraphInit, RunsBacked, RunBacked, IdleRun
  <1>4. QueueBacked /\ OrdersBacked
    BY DEF Init, TransportInit, QueueBacked, OrdersBacked
  <1>5. WorkersBacked
    BY DEF Init, ConsumersInit, WorkersBacked, IdleWorker
  <1>6. RequestsBacked /\ DecisionsTaken
    BY DEF Init, ApprovalInit, RequestsBacked, RequestBacked, NewRequest, DecisionsTaken
  <1>. QED
    BY <1>1, <1>2, <1>3, <1>4, <1>5, <1>6 DEF CausalInv

-----------------------------------------------------------------------------
(* What a step must show of the entities it changes.                       *)
LEMMA Assemble ==
  ASSUME CausalInv, TypeInv',
         published \subseteq published', submitted \subseteq submitted',
         \A c \in Cases:
           \/ thread'[c] = thread[c]
           \/ ThreadBacked(published', submitted', c, thread'[c]),
         \A a \in Runners:
           \/ run'[a] = run[a]
           \/ RunBacked(published', submitted', run'[a]),
         \A m \in queue': m \in queue \/ MessageBacked(published', m),
         \A w \in Workers:
           \/ worker'[w].msg = worker[w].msg /\ worker[w].pc # "idle"
           \/ worker'[w].pc = "idle"
           \/ MessageBacked(published', worker'[w].msg),
         \A q \in Requests:
           \/ request'[q] = request[q]
           \/ RequestBacked(published', submitted', request'[q]),
         \A p \in published':
           p \in published \/ OrderBacked(published', submitted', p),
         \A s \in submitted':
           s \in submitted \/ \E q \in Requests: TakenBy(s, request'[q]),
         \A s \in submitted, q \in Requests:
           TakenBy(s, request[q]) => TakenBy(s, request'[q])
  PROVE  CausalInv'
PROOF
  <1>1. ThreadsBacked'
    BY BackedStable DEF CausalInv, ThreadsBacked
  <1>2. RunsBacked'
    BY BackedStable DEF CausalInv, RunsBacked
  <1>3. QueueBacked'
    BY BackedStable DEF CausalInv, QueueBacked
  <1>4. WorkersBacked'
    BY BackedStable DEF CausalInv, WorkersBacked
  <1>5. RequestsBacked'
    BY BackedStable DEF CausalInv, RequestsBacked
  <1>6. OrdersBacked'
    BY BackedStable DEF CausalInv, OrdersBacked
  <1>7. DecisionsTaken'
    BY DEF CausalInv, DecisionsTaken
  <1>. QED
    BY <1>1, <1>2, <1>3, <1>4, <1>5, <1>6, <1>7 DEF CausalInv

LEMMA ConsumerBacked ==
  ASSUME CausalInv, ConsumerSide PROVE CausalInv'
PROOF
  <1>a. TypeInv /\ TypeInv'
    BY ConsumerTyped DEF CausalInv
  <1>b. UNCHANGED <<request, submitted>>
    BY DEF ConsumerSide, approvalVars
  <1>c. /\ GraphTypeOK /\ ConsumersTypeOK /\ TransportTypeOK /\ RunsTyped
        /\ worker' \in [Workers -> [pc: WorkerStates, msg: Messages \cup {NoMessage}]]
    BY <1>a DEF TypeInv, TypeOK, ConsumersTypeOK
  <1>d. ThreadsBacked /\ RunsBacked /\ QueueBacked /\ WorkersBacked /\ OrdersBacked
    BY DEF CausalInv
  (* The approval side does not move, so three conditions of Assemble hold. *)
  <1>e. ASSUME published \subseteq published',
               \A c \in Cases:
                 \/ thread'[c] = thread[c]
                 \/ ThreadBacked(published', submitted', c, thread'[c]),
               \A a \in Runners:
                 \/ run'[a] = run[a]
                 \/ RunBacked(published', submitted', run'[a]),
               \A m \in queue': m \in queue \/ MessageBacked(published', m),
               \A w \in Workers:
                 \/ worker'[w].msg = worker[w].msg /\ worker[w].pc # "idle"
                 \/ worker'[w].pc = "idle"
                 \/ MessageBacked(published', worker'[w].msg),
               \A p \in published':
                 p \in published \/ OrderBacked(published', submitted', p)
        PROVE  CausalInv'
    BY <1>a, <1>b, <1>e, Assemble
  (* Most steps neither publish nor touch the graph.                       *)
  <1>f. ASSUME UNCHANGED <<published, graphVars>>,
               \A m \in queue':
                 \/ \E n \in queue: m.event = n.event
                 \/ \E w \in Workers:
                      worker[w].pc # "idle" /\ m.event = worker[w].msg.event,
               \A w \in Workers:
                 \/ worker'[w].msg = worker[w].msg /\ worker[w].pc # "idle"
                 \/ worker'[w].pc = "idle"
                 \/ worker'[w].msg \in queue
        PROVE  CausalInv'
    <2>1. \A m \in queue': m \in queue \/ MessageBacked(published', m)
      BY <1>d, <1>f DEF QueueBacked, WorkersBacked, MessageBacked
    <2>2. \A w \in Workers:
            \/ worker'[w].msg = worker[w].msg /\ worker[w].pc # "idle"
            \/ worker'[w].pc = "idle"
            \/ MessageBacked(published', worker'[w].msg)
      BY <1>d, <1>f DEF QueueBacked
    <2>. QED
      BY <1>e, <1>f, <2>1, <2>2 DEF graphVars
  <1>1. ASSUME NEW c \in Cases, PublishAlert(c) PROVE CausalInv'
    <2>1. Publish("risk_alert", c, "none")
      BY <1>1 DEF PublishAlert
    <2>2. \A p \in published': p \in published \/ p.type = "risk_alert"
      BY <2>1, PublishBacks
    <2>3. \A p \in published': p \in published \/ OrderBacked(published', submitted', p)
      BY <2>2 DEF OrderBacked
    <2>4. UNCHANGED <<thread, run, worker>>
      BY <1>1 DEF PublishAlert, graphVars
    <2>5. \A w \in Workers: worker[w].pc # "idle" \/ worker'[w].pc = "idle"
      BY <2>4
    <2>. QED
      BY <1>e, <2>1, <2>3, <2>4, <2>5, PublishBacks
  <1>10. ASSUME RedeliverMessage PROVE CausalInv'
    <2>1. UNCHANGED <<published, graphVars, worker>>
      BY <1>10 DEF RedeliverMessage
    <2>2. \A m \in queue': \E n \in queue: m.event = n.event
      <3>1. PICK o \in queue: Redeliver(o)
        BY <1>10 DEF RedeliverMessage
      <3>2. PICK n \in Unused(o.event): queue' = queue \cup {[o EXCEPT !.copy = n]}
        BY <3>1 DEF Redeliver
      <3>3. [o EXCEPT !.copy = n].event = o.event
        BY <1>c DEF TransportTypeOK, Messages
      <3>. QED
        BY <3>2, <3>3
    <2>. QED
      BY <1>f, <2>1, <2>2
  <1>2. ASSUME NEW w \in Workers, Receive(w) PROVE CausalInv'
    BY <1>2, <1>c, <1>f DEF Receive, transportVars
  <1>3. ASSUME NEW w \in Workers,
               DeadLetterInvalid(w) \/ AckDuplicate(w) \/ AckCompleted(w)
        PROVE CausalInv'
    <2>1. UNCHANGED <<published, graphVars>> /\ queue' \subseteq queue
      BY <1>3 DEF DeadLetterInvalid, DeadLetter, AckDuplicate, AckCompleted, Ack
    <2>2. \A v \in Workers: worker'[v] = worker[v] \/ worker'[v].pc = "idle"
      BY <1>3, <1>c DEF DeadLetterInvalid, AckDuplicate, AckCompleted, Idle, IdleWorker
    <2>. QED
      BY <1>f, <2>1, <2>2
  <1>4. ASSUME NEW w \in Workers, Claim(w) \/ Complete(w) \/ Release(w) PROVE CausalInv'
    <2>1. UNCHANGED <<published, queue, graphVars>> /\ worker[w].pc # "idle"
      BY <1>4 DEF Claim, Complete, Release
    <2>2. \A v \in Workers:
            worker'[v].msg = worker[v].msg /\ (worker'[v].pc = worker[v].pc \/ v = w)
      BY <1>4, <1>c DEF Claim, Complete, Release, Goto
    <2>. QED
      BY <1>f, <2>1, <2>2
  <1>5. ASSUME NEW w \in Workers, RetryOrDeadLetter(w) PROVE CausalInv'
    <2>1. UNCHANGED <<published, graphVars>> /\ worker[w].pc # "idle"
      BY <1>5 DEF RetryOrDeadLetter
    <2>2. \A m \in queue': m \in queue \/ m.event = worker[w].msg.event
      <3>1. worker[w].msg \in Messages
        BY <1>5, <1>c DEF ConsumersTypeOK, RetryOrDeadLetter
      <3>. QED
        BY <3>1, <1>5 DEF RetryOrDeadLetter, Retry, DeadLetter, Messages
    <2>3. \A v \in Workers: worker'[v] = worker[v] \/ worker'[v].pc = "idle"
      BY <1>5, <1>c DEF RetryOrDeadLetter, Idle, IdleWorker
    <2>. QED
      BY <1>f, <2>1, <2>2, <2>3
  (* Steps that leave the transport alone and move one run.               *)
  <1>g. ASSUME NEW w \in Workers, worker[w].pc # "idle", UNCHANGED <<published, queue>>,
               \A v \in Workers: \/ worker'[v].msg = worker[v].msg
                                 \/ worker'[v].pc = "idle",
               \A v \in Workers: v = w \/ worker'[v].pc = "idle" \/ worker'[v] = worker[v],
               \A c \in Cases:
                 \/ thread'[c] = thread[c]
                 \/ ThreadBacked(published', submitted', c, thread'[c]),
               \A a \in Runners:
                 \/ run'[a] = run[a]
                 \/ RunBacked(published', submitted', run'[a])
        PROVE  CausalInv'
    BY <1>e, <1>g
  <1>6. ASSUME NEW w \in Workers, StartCase(w) PROVE CausalInv'
    <2>. DEFINE c == EventOf(w).case
                values == [thread[c].values EXCEPT !.stage = "alert_received"]
                t == [values |-> values, waiting |-> FALSE, offered |-> {}]
    <2>1. /\ worker[w].pc # "idle" /\ w \in Runners /\ c \in Cases
          /\ EventOf(w).type = "risk_alert"
          /\ UNCHANGED <<published, queue>>
          /\ InvokeInput(w, c, "alert_received")
      BY <1>6, <1>c DEF StartCase, transportVars, Runners, ConsumersTypeOK, Messages, EventIds
    <2>2. /\ Begin(w, c, "request_evidence", values, "none")
          /\ thread' = [thread EXCEPT ![c] = t]
      BY <2>1 DEF InvokeInput, RouteStage
    <2>3. Backed(published', submitted', c, values)
      <3>1. thread[c].values \in Values
        BY <2>1, <1>c DEF GraphTypeOK, Threads
      <3>2. Backed(published, submitted, c, thread[c].values)
        BY <2>1, <1>d DEF ThreadsBacked, ThreadBacked
      <3>. QED
        BY <3>1, <3>2, <2>1, <1>b DEF Backed, Values, Decisions
    <2>4. In(published', "risk_alert", c, "none")
      BY <2>1, <1>d DEF WorkersBacked, MessageBacked
    <2>5. \A a \in Runners: RunBacked(published', submitted', run'[a])
      <3>1. \A a \in Runners: RunBacked(published', submitted', run[a])
        BY <1>b, <1>d, <2>1 DEF RunsBacked
      <3>. QED
        BY <1>a, <2>1, <2>2, <2>3, <2>4, <3>1, BeginBacked
    <2>6. \A x \in Cases: \/ thread'[x] = thread[x]
                          \/ ThreadBacked(published', submitted', x, thread'[x])
      BY <2>2, <2>3, <1>c DEF ThreadBacked, GraphTypeOK
    <2>7. \A v \in Workers:
            worker'[v].msg = worker[v].msg /\ (v = w \/ worker'[v] = worker[v])
      BY <1>6, <1>c DEF StartCase, Goto
    <2>. QED
      BY <2>1, <2>5, <2>6, <2>7, <1>g
  <1>7. ASSUME NEW w \in Workers, StartReasoning(w) PROVE CausalInv'
    <2>. DEFINE c == EventOf(w).case
                values == [thread[c].values EXCEPT !.stage = "evidence_ready",
                                                   !.evidence = TRUE]
    <2>1. /\ worker[w].pc # "idle" /\ w \in Runners /\ c \in Cases
          /\ EventOf(w).type = "evidence_ready"
          /\ UNCHANGED <<published, queue, thread>>
          /\ Begin(w, c, "prepare_case_for_review", values, "none")
      BY <1>7, <1>c DEF StartReasoning, InvokeGoto, transportVars, Runners, ConsumersTypeOK,
         Messages, EventIds
    <2>2. In(published', "evidence_ready", c, "none")
      BY <2>1, <1>d DEF WorkersBacked, MessageBacked
    <2>3. Backed(published', submitted', c, values)
      <3>1. thread[c].values \in Values
        BY <2>1, <1>c DEF GraphTypeOK, Threads
      <3>2. Backed(published, submitted, c, thread[c].values)
        BY <2>1, <1>d DEF ThreadsBacked, ThreadBacked
      <3>. QED
        BY <3>1, <3>2, <2>1, <2>2, <1>b DEF Backed, Values, Decisions
    <2>4. \A a \in Runners: RunBacked(published', submitted', run'[a])
      <3>1. \A a \in Runners: RunBacked(published', submitted', run[a])
        BY <1>b, <1>d, <2>1 DEF RunsBacked
      <3>. QED
        BY <1>a, <2>1, <2>3, <3>1, BeginBacked
    <2>5. \A v \in Workers:
            worker'[v].msg = worker[v].msg /\ (v = w \/ worker'[v] = worker[v])
      BY <1>7, <1>c DEF StartReasoning, Goto
    <2>. QED
      BY <2>1, <2>4, <2>5, <1>g
  <1>8. ASSUME NEW w \in Workers, RunEnds(w) \/ WorkerCrash(w) PROVE CausalInv'
    <2>1. worker[w].pc # "idle" /\ UNCHANGED <<published, queue, thread>>
      BY <1>8 DEF RunEnds, WorkerCrash, transportVars
    <2>2. \A a \in Runners: run'[a] = run[a] \/ run'[a] = IdleRun
      BY <1>8, <1>c DEF RunEnds, WorkerCrash, GraphTypeOK
    <2>3. \A a \in Runners:
            run'[a] = run[a] \/ RunBacked(published', submitted', run'[a])
      BY <2>2, IdleTypes DEF RunBacked
    <2>4. \A v \in Workers: \/ worker'[v].pc = "idle"
                            \/ worker'[v].msg = worker[v].msg /\ (v = w \/ worker'[v] = worker[v])
      BY <1>8, <1>c DEF RunEnds, WorkerCrash, Goto, Idle, IdleWorker
    <2>. QED
      BY <2>1, <2>3, <2>4, <1>g
  <1>9. ASSUME NEW w \in Workers, CollectEvidence(w) \/ CollectionRaises(w) PROVE CausalInv'
    <2>1. /\ worker[w].pc # "idle"
          /\ UNCHANGED graphVars
          /\ \A v \in Workers:
               worker'[v].msg = worker[v].msg /\ (v = w \/ worker'[v] = worker[v])
      BY <1>9, <1>c DEF CollectEvidence, CollectionRaises, Goto
    <2>2. CASE UNCHANGED <<published, queue>>
      BY <2>1, <2>2, <1>g DEF graphVars
    <2>3. CASE Publish("evidence_ready", EventOf(w).case, "none")
      <3>1. \A p \in published': p \in published \/ p.type = "evidence_ready"
        BY <2>3, PublishBacks
      <3>2. \A p \in published': p \in published \/ OrderBacked(published', submitted', p)
        BY <3>1 DEF OrderBacked
      <3>. QED
        BY <2>1, <2>3, <3>2, <1>e, PublishBacks DEF graphVars
    <2>. QED
      BY <1>9, <2>2, <2>3 DEF CollectEvidence, CollectionRaises
  <1>. QED
    BY <1>1, <1>2, <1>3, <1>4, <1>5, <1>6, <1>7, <1>8, <1>9, <1>10
       DEF ConsumerSide, ConsumerStep, ConsumerFault

LEMMA ApprovalBacked ==
  ASSUME CausalInv, ApprovalSide PROVE CausalInv'
PROOF
  <1>a. TypeInv /\ TypeInv'
    BY ApprovalTyped DEF CausalInv
  <1>b. UNCHANGED worker
    BY DEF ApprovalSide, consumerVars
  <1>c. GraphTypeOK /\ ConsumersTypeOK /\ ApprovalTypeOK
    BY <1>a DEF TypeInv, TypeOK
  <1>d. ThreadsBacked /\ RunsBacked /\ RequestsBacked
    BY DEF CausalInv
  (* The service publishes nothing itself and no worker moves.             *)
  <1>e. ASSUME submitted \subseteq submitted', UNCHANGED <<published, queue>>,
               \A c \in Cases:
                 \/ thread'[c] = thread[c]
                 \/ ThreadBacked(published', submitted', c, thread'[c]),
               \A a \in Runners:
                 \/ run'[a] = run[a]
                 \/ RunBacked(published', submitted', run'[a]),
               \A q \in Requests:
                 \/ request'[q] = request[q]
                 \/ RequestBacked(published', submitted', request'[q]),
               \A s \in submitted':
                 s \in submitted \/ \E q \in Requests: TakenBy(s, request'[q]),
               \A s \in submitted, q \in Requests:
                 TakenBy(s, request[q]) => TakenBy(s, request'[q])
        PROVE  CausalInv'
    <2>1. \A w \in Workers:
            \/ worker'[w].msg = worker[w].msg /\ worker[w].pc # "idle"
            \/ worker'[w].pc = "idle"
      BY <1>b
    <2>. QED
      BY <1>a, <1>b, <1>e, <2>1, Assemble
  (* A request that ends frees nobody's decision.                          *)
  <1>f. \A q \in Requests, outcome \in Outcomes:
          LET e == Ended(request[q], outcome) IN
            /\ RequestBacked(published', submitted', e)
            /\ \A s: TakenBy(s, request[q]) => TakenBy(s, e)
    BY <1>c DEF ApprovalTypeOK, Ended, RequestBacked, TakenBy
  <1>1. ASSUME NEW q \in Requests, NEW r \in Replicas, NEW c \in Cases,
               NEW d \in Decisions, NEW cred \in Credentials,
               Submit(q, r, c, d, cred)
        PROVE  CausalInv'
    <2>1. UNCHANGED <<published, queue, submitted, thread, run>> /\ request[q].pc = "new"
      BY <1>1 DEF Submit, transportVars, graphVars
    <2>2. RequestBacked(published', submitted', request'[q])
      <3>1. CASE Finish(q, "forbidden") \/ Finish(q, "conflict")
        BY <3>1, <1>c, <1>f DEF Finish, ApprovalTypeOK, Outcomes
      <3>2. CASE ~(Finish(q, "forbidden") \/ Finish(q, "conflict"))
        <4>. DEFINE mode == Admission(c, d, cred)
                    v == thread[c].values
        <4>1. /\ cred # "no_role"
              /\ mode # "conflict"
              /\ request' = [request EXCEPT ![q] =
                   [pc |-> "admitted", replica |-> r, case |-> c, decision |-> d,
                    credentials |-> cred, mode |-> mode, outcome |-> "none"]]
          BY <3>2, <1>1 DEF Submit
        <4>2. /\ cred # "wrong_id" /\ v.report # "none"
              /\ mode = "resume" => thread[c].waiting
              /\ mode = "republish" => v.decision = "approved"
          BY <4>1 DEF Admission
        <4>3. cred = "valid"
          BY <4>1, <4>2 DEF Credentials
        <4>4. ThreadBacked(published, submitted, c, thread[c]) /\ v \in Values
          BY <1>c, <1>d DEF ThreadsBacked, GraphTypeOK, Threads
        <4>5. mode = "resume" => Reviewable(published, c)
          BY <4>2, <4>4 DEF ThreadBacked, Backed, Reviewable, Values, Reports
        <4>6. mode = "republish" => <<c, "approved">> \in submitted
          BY <4>2, <4>4 DEF ThreadBacked, Backed
        <4>7. request'[q] =
                [pc |-> "admitted", replica |-> r, case |-> c, decision |-> d,
                 credentials |-> cred, mode |-> mode, outcome |-> "none"]
          BY <4>1, <1>c DEF ApprovalTypeOK
        <4>. QED
          BY <4>3, <4>5, <4>6, <4>7, <2>1 DEF RequestBacked
      <3>. QED
        BY <3>1, <3>2
    <2>3. \A p \in Requests: p = q \/ request'[p] = request[p]
      BY <1>1, <1>c DEF Submit, Finish, ApprovalTypeOK
    <2>4. \A s: \A p \in Requests: TakenBy(s, request[p]) => TakenBy(s, request'[p])
      BY <2>1, <2>3 DEF TakenBy
    <2>. QED
      BY <2>1, <2>2, <2>3, <2>4, <1>e
  <1>2. ASSUME NEW q \in Requests, ResumeInterrupt(q) PROVE CausalInv'
    <2>. DEFINE c == request[q].case
                d == request[q].decision
    <2>1. /\ request[q].pc = "admitted" /\ request[q].mode = "resume"
          /\ submitted' = submitted \cup {<<c, d>>}
          /\ InvokeResume(q, c, d)
          /\ request' = [request EXCEPT ![q].pc = "running"]
          /\ UNCHANGED <<published, queue>>
      BY <1>2 DEF ResumeInterrupt, transportVars
    <2>2. c \in Cases /\ d \in Decisions /\ q \in Runners
      BY <2>1, <1>c DEF ApprovalTypeOK, Active, Runners
    <2>0. published \subseteq published' /\ submitted \subseteq submitted'
      BY <2>1
    <2>3. ThreadBacked(published', submitted', c, thread[c])
      BY <2>0, <2>2, <1>d, BackedStable DEF ThreadsBacked
    <2>4. \A a \in Runners: RunBacked(published', submitted', run[a])
      BY <2>0, <1>d, BackedStable DEF RunsBacked
    <2>5. /\ \A a \in Runners: RunBacked(published', submitted', run'[a])
          /\ \A x \in Cases: \/ thread'[x] = thread[x]
                             \/ ThreadBacked(published', submitted', x, thread'[x])
      <3>1. CASE thread[c].waiting
        <4>1. PICK v \in ResumeValues(c, d):
                /\ Begin(q, c, "human_approval", thread[c].values, v)
                /\ thread' = [thread EXCEPT ![c].offered = @ \cup {v}]
          BY <2>1, <3>1 DEF InvokeResume
        <4>2. <<c, v>> \in submitted'
          BY <2>1, <2>3 DEF ResumeValues, ThreadBacked
        <4>3. Backed(published', submitted', c, thread[c].values)
          BY <2>3 DEF ThreadBacked
        <4>4. \A a \in Runners: RunBacked(published', submitted', run'[a])
          BY <1>a, <2>2, <2>4, <4>1, <4>2, <4>3, BeginBacked
        <4>5. \A x \in Cases: \/ thread'[x] = thread[x]
                              \/ ThreadBacked(published', submitted', x, thread'[x])
          BY <4>1, <4>2, <2>2, <2>3, <1>c DEF ThreadBacked, GraphTypeOK, Threads
        <4>. QED
          BY <4>4, <4>5
      <3>2. CASE ~thread[c].waiting
        <4>1. Begin(q, c, "returned", thread[c].values, "none") /\ UNCHANGED thread
          BY <2>1, <3>2 DEF InvokeResume
        <4>2. Backed(published', submitted', c, thread[c].values)
          BY <2>3 DEF ThreadBacked
        <4>. QED
          BY <1>a, <2>2, <2>4, <4>1, <4>2, BeginBacked
      <3>. QED
        BY <3>1, <3>2
    <2>6. RequestBacked(published', submitted', request[q]) /\ request[q].credentials = "valid"
      BY <2>0, <2>1, <1>d, BackedStable DEF RequestsBacked, RequestBacked
    <2>7. /\ \A p \in Requests: p # q => request'[p] = request[p]
          /\ RequestBacked(published', submitted', request'[q])
          /\ TakenBy(<<c, d>>, request'[q])
          /\ \A s: TakenBy(s, request[q]) => TakenBy(s, request'[q])
      BY <2>1, <2>6, <1>c DEF ApprovalTypeOK, RequestBacked, TakenBy
    <2>. QED
      BY <2>1, <2>5, <2>7, <1>e
  <1>3. ASSUME NEW q \in Requests, RepublishOrder(q) PROVE CausalInv'
    <2>. DEFINE c == request[q].case
                values == [thread[c].values EXCEPT !.stage = "approved"]
                t == [values |-> values, waiting |-> FALSE, offered |-> {}]
    <2>1. /\ request[q].pc = "admitted" /\ request[q].mode = "republish"
          /\ InvokeInput(q, c, "approved")
          /\ request' = [request EXCEPT ![q].pc = "running"]
          /\ UNCHANGED <<published, queue, submitted>>
      BY <1>3 DEF RepublishOrder, transportVars
    <2>2. c \in Cases /\ q \in Runners
      BY <2>1, <1>c DEF ApprovalTypeOK, Active, Runners
    <2>3. /\ Begin(q, c, "request_execution_order", values, "none")
          /\ thread' = [thread EXCEPT ![c] = t]
      BY <2>1 DEF InvokeInput, RouteStage
    <2>4. <<c, "approved">> \in submitted
      BY <2>1, <1>d DEF RequestsBacked, RequestBacked
    <2>5. Backed(published', submitted', c, values)
      <3>1. thread[c].values \in Values
        BY <2>2, <1>c DEF GraphTypeOK, Threads
      <3>2. Backed(published, submitted, c, thread[c].values)
        BY <2>2, <1>d DEF ThreadsBacked, ThreadBacked
      <3>. QED
        BY <3>1, <3>2, <2>1, <2>4 DEF Backed, Values
    <2>6. \A a \in Runners: RunBacked(published', submitted', run'[a])
      <3>1. \A a \in Runners: RunBacked(published', submitted', run[a])
        BY <2>1, <1>d DEF RunsBacked
      <3>. QED
        BY <1>a, <2>2, <2>3, <2>5, <3>1, BeginBacked
    <2>7. \A x \in Cases: \/ thread'[x] = thread[x]
                          \/ ThreadBacked(published', submitted', x, thread'[x])
      BY <2>3, <2>5, <1>c DEF ThreadBacked, GraphTypeOK
    <2>8. /\ \A p \in Requests: p # q => request'[p] = request[p]
          /\ RequestBacked(published', submitted', request'[q])
          /\ \A s: TakenBy(s, request[q]) => TakenBy(s, request'[q])
      BY <2>1, <1>c, <1>d DEF ApprovalTypeOK, RequestsBacked, RequestBacked, TakenBy
    <2>. QED
      BY <2>1, <2>6, <2>7, <2>8, <1>e
  <1>4. ASSUME UNCHANGED <<published, queue, submitted, thread>>,
               \A a \in Runners: run'[a] = run[a] \/ run'[a] = IdleRun,
               \A q \in Requests:
                 \/ request'[q] = request[q]
                 \/ \E outcome \in Outcomes: request'[q] = Ended(request[q], outcome)
        PROVE  CausalInv'
    <2>1. \A a \in Runners:
            run'[a] = run[a] \/ RunBacked(published', submitted', run'[a])
      BY <1>4, IdleTypes DEF RunBacked
    <2>. QED
      BY <1>4, <1>e, <1>f, <2>1
  <1>5. ASSUME NEW q \in Requests, ResumeResult(q) \/ ResumeTimeout(q) PROVE CausalInv'
    <2>1. PICK outcome \in Outcomes: Finish(q, outcome)
      BY <1>5 DEF ResumeResult, ResumeTimeout, ResumeOutcome, Outcomes
    <2>2. \A p \in Requests: \/ request'[p] = request[p]
                             \/ request'[p] = Ended(request[p], outcome)
      BY <2>1, <1>c DEF Finish, ApprovalTypeOK
    <2>3. UNCHANGED <<published, queue, submitted, thread>>
      BY <1>5 DEF ResumeResult, ResumeTimeout, transportVars
    <2>4. \A a \in Runners: run'[a] = run[a] \/ run'[a] = IdleRun
      BY <1>5, <1>c DEF ResumeResult, ResumeTimeout, GraphTypeOK
    <2>. QED
      BY <1>4, <2>2, <2>3, <2>4
  <1>6. ASSUME NEW r \in Replicas, ReplicaCrash(r) PROVE CausalInv'
    <2>1. \A a \in Runners: run'[a] = run[a] \/ run'[a] = IdleRun
      BY <1>6 DEF ReplicaCrash
    <2>2. \A q \in Requests: \/ request'[q] = request[q]
                             \/ request'[q] = Ended(request[q], "crashed")
      BY <1>6 DEF ReplicaCrash
    <2>3. UNCHANGED <<published, queue, submitted, thread>>
      BY <1>6 DEF ReplicaCrash
    <2>. QED
      BY <1>4, <2>1, <2>2, <2>3 DEF Outcomes
  <1>. QED
    BY <1>1, <1>2, <1>3, <1>5, <1>6 DEF ApprovalSide, ApprovalStep

LEMMA GraphBacked ==
  ASSUME CausalInv, GraphSide PROVE CausalInv'
PROOF
  <1>a. TypeInv /\ TypeInv'
    BY GraphTyped DEF CausalInv
  <1>b. UNCHANGED <<worker, request, submitted>>
    BY DEF GraphSide, consumerVars, approvalVars
  <1>c. GraphTypeOK /\ RunsTyped
    BY <1>a DEF TypeInv, TypeOK
  <1>d. ThreadsBacked /\ RunsBacked
    BY DEF CausalInv
  <1>. SUFFICES ASSUME NEW a \in Runners, GraphStep(a) \/ CallRaises(a)
                PROVE  CausalInv'
    BY DEF GraphSide
  <1>. DEFINE c == run[a].case
              v == run[a].values
  <1>e. /\ run[a] \in Runs
        /\ v \in Values
        /\ run[a].node # "idle" => c \in Cases
        /\ run[a].node # "idle" => Backed(published, submitted, c, v)
    BY <1>c, <1>d DEF GraphTypeOK, RunsTyped, Runs, RunsBacked, RunBacked
  <1>f. ASSUME published \subseteq published',
               \A x \in Cases:
                 \/ thread'[x] = thread[x]
                 \/ ThreadBacked(published', submitted', x, thread'[x]),
               \A b \in Runners: b = a \/ run'[b] = run[b],
               RunBacked(published', submitted', run'[a]),
               \A m \in queue': m \in queue \/ MessageBacked(published', m),
               \A p \in published':
                 p \in published \/ OrderBacked(published', submitted', p)
        PROVE  CausalInv'
    <2>1. \A w \in Workers:
            \/ worker'[w].msg = worker[w].msg /\ worker[w].pc # "idle"
            \/ worker'[w].pc = "idle"
            \/ MessageBacked(published', worker'[w].msg)
      <3>1. \A w \in Workers: worker[w].pc # "idle" \/ worker'[w].pc = "idle"
        BY <1>b
      <3>. QED
        BY <1>b, <3>1
    <2>. QED
      BY <1>a, <1>b, <1>f, <2>1, Assemble
  (* A node that publishes and returns values backed by its publication.   *)
  <1>g. ASSUME NEW type \in EventTypes, NEW detail, NEW values,
               Publish(type, c, detail), NodeReturns(a, values),
               type \in ConsumedTypes => detail = "none",
               run[a].node \in Nodes \ {"request_evidence"} \/ type = "evidence_requested",
               run[a].node = "request_evidence" =>
                 In(published', "risk_alert", c, "none"),
               Backed(published', submitted', c, values),
               run[a].resume # "none" => <<c, run[a].resume>> \in submitted',
               \A p \in published':
                 p \in published \/ OrderBacked(published', submitted', p)
        PROVE  CausalInv'
    <2>1. RunBacked(published', submitted', run'[a])
      <3>1. run'[a] = [run[a] EXCEPT !.ran = TRUE, !.values = values]
        BY <1>g, <1>c DEF NodeReturns, GraphTypeOK
      <3>2. /\ run'[a].node = run[a].node /\ run'[a].case = c
            /\ run'[a].values = values /\ run'[a].resume = run[a].resume
        BY <3>1, <1>e DEF Runs
      <3>. QED
        BY <1>g, <3>2 DEF RunBacked
    <2>2. (\A b \in Runners: b = a \/ run'[b] = run[b]) /\ UNCHANGED thread
      BY <1>g, <1>c DEF NodeReturns, GraphTypeOK
    <2>. QED
      BY <1>f, <1>g, <2>1, <2>2, PublishBacks
  <1>h. run[a].resume # "none" /\ run[a].node # "idle" => <<c, run[a].resume>> \in submitted'
    BY <1>b, <1>d DEF RunsBacked, RunBacked
  <1>i. ASSUME published \subseteq published', run[a].node # "idle"
        PROVE  Backed(published', submitted', c, v)
    BY <1>b, <1>e, <1>i, BackedStable
  <1>1. CASE RequestEvidence(a)
    <2>. DEFINE values == [v EXCEPT !.stage = "evidence_requested"]
    <2>1. /\ run[a].node = "request_evidence"
          /\ Publish("evidence_requested", c, "none")
          /\ NodeReturns(a, values)
      BY <1>1 DEF RequestEvidence, Pending
    <2>2. published \subseteq published'
      BY <2>1 DEF Publish
    <2>3. In(published', "risk_alert", c, "none")
      BY <2>1, <2>2, <1>d DEF RunsBacked, RunBacked, In
    <2>4. Backed(published', submitted', c, values)
      BY <1>e, <1>i, <2>1, <2>2 DEF Backed, Values, Decisions
    <2>5. \A p \in published': p \in published \/ OrderBacked(published', submitted', p)
      <3>1. \A p \in published': p \in published \/ p.type = "evidence_requested"
        BY <2>1, PublishBacks
      <3>. QED
        BY <3>1 DEF OrderBacked
    <2>. QED
      BY <1>g, <1>h, <2>1, <2>3, <2>4, <2>5 DEF EventTypes, ConsumedTypes
  <1>2. CASE PrepareCaseForReview(a)
    <2>1. PICK action \in RecommendedActions:
            /\ Publish("review_requested", c, action)
            /\ NodeReturns(a, [v EXCEPT !.stage = "review_requested",
                                        !.report = action])
      BY <1>2 DEF PrepareCaseForReview
    <2>. DEFINE values == [v EXCEPT !.stage = "review_requested", !.report = action]
    <2>2. run[a].node = "prepare_case_for_review"
      BY <1>2 DEF PrepareCaseForReview, Pending
    <2>3. published \subseteq published' /\ In(published', "review_requested", c, action)
      BY <2>1, PublishBacks DEF ConsumedTypes
    <2>4. Backed(published', submitted', c, values)
      BY <1>e, <1>i, <2>2, <2>3 DEF Backed, Values, Decisions
    <2>5. \A p \in published': p \in published \/ OrderBacked(published', submitted', p)
      <3>1. \A p \in published': p \in published \/ p.type = "review_requested"
        BY <2>1, PublishBacks DEF ConsumedTypes
      <3>. QED
        BY <3>1 DEF OrderBacked
    <2>. QED
      BY <1>g, <1>h, <2>1, <2>2, <2>4, <2>5 DEF EventTypes, ConsumedTypes, Nodes
  <1>3. CASE Interrupt(a)
    <2>1. /\ run[a].node = "human_approval" /\ v.report \in PromptActions
          /\ run' = [run EXCEPT ![a].node = "returned"]
          /\ UNCHANGED <<published, queue>>
          /\ thread' = [thread EXCEPT ![c].waiting = @ \/ thread[c].values = v]
      BY <1>3 DEF Interrupt, Pending, NodeAccepts, transportVars
    <2>2. c \in Cases
      BY <1>e, <2>1
    <2>3. ThreadBacked(published', submitted', c, thread'[c])
      <3>1. thread[c] \in Threads /\ ThreadBacked(published', submitted', c, thread[c])
        BY <1>b, <1>c, <1>d, <2>1, <2>2 DEF GraphTypeOK, ThreadsBacked
      <3>2. /\ thread'[c].values = thread[c].values
            /\ thread'[c].offered = thread[c].offered
            /\ thread'[c].waiting = (thread[c].waiting \/ thread[c].values = v)
        BY <1>c, <2>1, <2>2, <3>1 DEF GraphTypeOK, Threads
      <3>. QED
        BY <2>1, <3>1, <3>2 DEF ThreadBacked
    <2>4. \A x \in Cases: x = c \/ thread'[x] = thread[x]
      BY <1>c, <2>1 DEF GraphTypeOK
    <2>5. RunBacked(published', submitted', run'[a]) /\ \A b \in Runners: b = a \/ run'[b] = run[b]
      BY <1>b, <1>c, <1>d, <1>e, <2>1 DEF RunsBacked, RunBacked, GraphTypeOK, Runs
    <2>. QED
      BY <1>f, <2>1, <2>3, <2>4, <2>5
  <1>4. CASE HumanApproval(a)
    <2>. DEFINE d == run[a].resume
                values == [v EXCEPT !.stage = d, !.decision = d]
    <2>1. /\ run[a].node = "human_approval" /\ d # "none"
          /\ NodeReturns(a, values)
          /\ IF GrantedPublisher THEN Publish("approval_granted", c, d)
             ELSE UNCHANGED <<published, queue>>
      BY <1>4 DEF HumanApproval, Pending
    <2>2. <<c, d>> \in submitted' /\ d \in Decisions
      BY <1>e, <1>h, <2>1 DEF Runs, Verdicts
    <2>3. CASE GrantedPublisher
      <3>1. Publish("approval_granted", c, d)
        BY <2>1, <2>3
      <3>2. published \subseteq published' /\ In(published', "approval_granted", c, d)
        BY <3>1, PublishBacks DEF ConsumedTypes
      <3>3. Backed(published', submitted', c, values)
        BY <1>e, <1>i, <2>1, <2>2, <3>2 DEF Backed, Values, Decisions
      <3>4. \A p \in published': p \in published \/ OrderBacked(published', submitted', p)
        <4>1. \A p \in published': p \in published \/ p.type = "approval_granted"
          BY <3>1, PublishBacks DEF ConsumedTypes
        <4>. QED
          BY <4>1 DEF OrderBacked
      <3>. QED
        BY <1>g, <1>h, <2>1, <3>1, <3>3, <3>4 DEF EventTypes, ConsumedTypes, Nodes
    <2>4. CASE ~GrantedPublisher
      <3>1. UNCHANGED <<published, queue, thread>>
        BY <2>1, <2>4 DEF NodeReturns
      <3>2. Backed(published', submitted', c, values)
        BY <1>e, <1>i, <2>1, <2>2, <2>4, <3>1 DEF Backed, Values, Decisions
      <3>3. /\ run'[a] = [run[a] EXCEPT !.ran = TRUE, !.values = values]
            /\ \A b \in Runners: b = a \/ run'[b] = run[b]
        BY <2>1, <1>c DEF NodeReturns, GraphTypeOK
      <3>4. /\ run'[a].node = run[a].node /\ run'[a].case = c
            /\ run'[a].values = values /\ run'[a].resume = d
        BY <3>3, <1>e DEF Runs
      <3>5. RunBacked(published', submitted', run'[a])
        BY <2>1, <2>2, <3>2, <3>4 DEF RunBacked
      <3>. QED
        BY <1>f, <3>1, <3>3, <3>5
    <2>. QED
      BY <2>3, <2>4
  <1>5. CASE RequestExecutionOrder(a)
    <2>. DEFINE values == [v EXCEPT !.stage = "execution_requested"]
    <2>1. /\ run[a].node = "request_execution_order"
          /\ v.decision = "approved" /\ v.report \in OrderTypes
          /\ Publish("execution_order", c, v.report)
          /\ NodeReturns(a, values)
      BY <1>5 DEF RequestExecutionOrder, Pending, NodeAccepts
    <2>2. published \subseteq published' /\ In(published', "execution_order", c, v.report)
      BY <2>1, PublishBacks DEF ConsumedTypes
    <2>3. Backed(published', submitted', c, v)
      BY <1>i, <2>1, <2>2
    <2>4. \E p \in published': p.type = "execution_order" /\ p.case = c
      BY <2>2 DEF In
    <2>5. Backed(published', submitted', c, values)
      BY <1>e, <2>3, <2>4 DEF Backed, Values, Decisions
    <2>6. OrderBacked(published', submitted',
                      [type |-> "execution_order", case |-> c, detail |-> v.report])
      BY <2>1, <2>3 DEF Backed, OrderBacked, OrderTypes
    <2>7. \A p \in published':
            \/ p \in published
            \/ p = [type |-> "execution_order", case |-> c, detail |-> v.report]
      BY <2>1 DEF Publish
    <2>8. \A p \in published': p \in published \/ OrderBacked(published', submitted', p)
      BY <2>6, <2>7
    <2>. QED
      BY <1>g, <1>h, <2>1, <2>5, <2>8 DEF EventTypes, ConsumedTypes, Nodes
  <1>6. CASE Commit(a)
    <2>. DEFINE t == [values |-> v, waiting |-> FALSE, offered |-> {}]
    <2>1. /\ thread' = [thread EXCEPT ![c] = t]
          /\ run' = [run EXCEPT
                       ![a].node = NextNode(run[a].node, v.stage),
                       ![a].ran = FALSE,
                       ![a].resume = "none"]
          /\ UNCHANGED <<published, queue>>
      BY <1>6 DEF Commit, transportVars
    <2>2. c \in Cases /\ run[a].node \in Nodes /\ run[a].node # "idle"
      BY <1>6, <1>c, <1>e DEF Commit, RunsTyped, Nodes
    <2>3. Backed(published', submitted', c, v)
      BY <1>i, <2>1, <2>2
    <2>4. \A x \in Cases: \/ thread'[x] = thread[x]
                          \/ ThreadBacked(published', submitted', x, thread'[x])
      BY <1>c, <2>1, <2>3 DEF GraphTypeOK, ThreadBacked
    <2>5. NextNode(run[a].node, v.stage) # "request_evidence"
      BY DEF NextNode
    <2>6. RunBacked(published', submitted', run'[a]) /\ \A b \in Runners: b = a \/ run'[b] = run[b]
      BY <1>c, <1>e, <2>1, <2>3, <2>5 DEF RunBacked, GraphTypeOK, Runs
    <2>. QED
      BY <1>f, <2>1, <2>4, <2>6
  <1>7. CASE NodeRaises(a) \/ CallRaises(a)
    <2>1. /\ run[a].node \in Nodes /\ run[a].node # "idle"
          /\ UNCHANGED <<published, queue, thread>>
      BY <1>7 DEF NodeRaises, CallRaises, transportVars, Nodes
    <2>2. /\ run'[a].node = "raised" /\ run'[a].case = c
          /\ run'[a].values = v /\ run'[a].resume = run[a].resume
          /\ \A b \in Runners: b = a \/ run'[b] = run[b]
      BY <1>7, <1>c, <1>e DEF NodeRaises, CallRaises, GraphTypeOK, Runs
    <2>3. RunBacked(published', submitted', run'[a])
      BY <1>h, <1>i, <2>1, <2>2 DEF RunBacked
    <2>. QED
      BY <1>f, <2>1, <2>2, <2>3
  <1>. QED
    BY <1>1, <1>2, <1>3, <1>4, <1>5, <1>6, <1>7 DEF GraphStep

LEMMA NextBacked == CausalInv /\ [Next]_vars => CausalInv'
PROOF
  <1>1. ASSUME CausalInv, UNCHANGED vars PROVE CausalInv'
    <2>. USE <1>1 DEF CausalInv
    <2>1. TypeInv'
      BY NextTyped
    <2>. QED
      BY <2>1 DEF vars, transportVars, graphVars, consumerVars, approvalVars,
         ThreadsBacked, RunsBacked, QueueBacked, WorkersBacked, RequestsBacked,
         OrdersBacked, DecisionsTaken
  <1>. QED
    BY <1>1, ConsumerBacked, ApprovalBacked, GraphBacked DEF Next

(* Nothing a checkpoint, a run, a message or an admitted request holds is  *)
(* without the publication or the decision behind it.                      *)
THEOREM Causality == Spec => []CausalInv
PROOF
  BY InitBacked, NextBacked, PTL DEF Spec

(* An execution order exists only for a case that an authorised request    *)
(* naming its approval has approved, and the decision was audited first.   *)
THEOREM OrdersAuthorised == Spec => []ExecutionAuthorised
PROOF
  <1>1. CausalInv => ExecutionAuthorised
    BY DEF CausalInv, OrdersBacked, OrderBacked, DecisionsTaken, TakenBy, ExecutionAuthorised
  <1>. QED
    BY <1>1, Causality, PTL

(* Whatever fails, crashes or is repeated, an order carries the action of  *)
(* a report that was published for review.                                 *)
THEOREM OrdersMatchReviews == Spec => []ExecutionMatchesReview
PROOF
  <1>1. CausalInv => ExecutionMatchesReview
    BY DEF CausalInv, OrdersBacked, OrderBacked, In, IsPublished, ExecutionMatchesReview
  <1>. QED
    BY <1>1, Causality, PTL

(* A status that reports an order, an approval or a rejection is true.     *)
THEOREM StatusIsHonest == Spec => []StatusHonest
PROOF
  <1>1. CausalInv => StatusHonest
    BY DEF CausalInv, ThreadsBacked, ThreadBacked, Backed, StatusHonest, CaseStatus, Decisions
  <1>. QED
    BY <1>1, Causality, PTL

-----------------------------------------------------------------------------
(* Refinement: each step is a step of the protocol, or invisible to it.    *)
LEMMA PublishEmits ==
  ASSUME NEW type, NEW c, NEW detail, Publish(type, c, detail), UNCHANGED submitted
  PROVE  Protocol!Emit(type, c, detail)
PROOF
  BY DEF Publish, Protocol!Emit

LEMMA InitRefines == Init => Protocol!Init
PROOF
  BY DEF Init, TransportInit, ApprovalInit, Protocol!Init

LEMMA ConsumerRefines ==
  ASSUME CausalInv, ConsumerSide
  PROVE  Protocol!Next \/ UNCHANGED Protocol!vars
PROOF
  <1>a. UNCHANGED submitted
    BY DEF ConsumerSide, approvalVars
  <1>b. WorkersBacked /\ ConsumersTypeOK
    BY DEF CausalInv, TypeInv, TypeOK
  <1>1. ASSUME NEW c \in Cases, PublishAlert(c) PROVE Protocol!Next
    BY <1>1, <1>a, PublishEmits DEF PublishAlert, Protocol!Next, Protocol!Alert
  <1>4. RedeliverMessage => UNCHANGED published
    BY DEF RedeliverMessage
  <1>2. ASSUME NEW w \in Workers, EventOf(w).type = "evidence_requested",
               worker[w].pc = "claimed",
               Publish("evidence_ready", EventOf(w).case, "none")
        PROVE  Protocol!Next
    <2>1. EventOf(w).case \in Cases
      BY <1>2, <1>b DEF ConsumersTypeOK, Messages, EventIds
    <2>2. Protocol!Has("evidence_requested", EventOf(w).case, "none")
      BY <1>2, <1>b DEF WorkersBacked, MessageBacked, In, Protocol!Has
    <2>3. Protocol!Emit("evidence_ready", EventOf(w).case, "none")
      BY <1>2, <1>a, PublishEmits
    <2>. QED
      BY <2>1, <2>2, <2>3 DEF Protocol!Next, Protocol!EvidenceReady
  <1>3. ASSUME NEW w \in Workers, ConsumerStep(w) \/ ConsumerFault(w)
        PROVE  Protocol!Next \/ UNCHANGED published
    <2>1. CASE CollectEvidence(w) \/ CollectionRaises(w)
      BY <2>1, <1>2 DEF CollectEvidence, CollectionRaises
    <2>2. CASE ~(CollectEvidence(w) \/ CollectionRaises(w))
      BY <2>2, <1>3 DEF ConsumerStep, ConsumerFault, Receive, DeadLetterInvalid, Claim,
         AckDuplicate, StartCase, StartReasoning, RunEnds, Complete, AckCompleted,
         Release, RetryOrDeadLetter, WorkerCrash, transportVars
    <2>. QED
      BY <2>1, <2>2
  <1>. QED
    BY <1>a, <1>1, <1>3, <1>4 DEF ConsumerSide, Protocol!vars

LEMMA ApprovalRefines ==
  ASSUME CausalInv, ApprovalSide
  PROVE  Protocol!Next \/ UNCHANGED Protocol!vars
PROOF
  <1>1. ASSUME NEW q \in Requests, ResumeInterrupt(q) PROVE Protocol!Next
    <2>. DEFINE c == request[q].case
    <2>1. /\ request[q].pc = "admitted" /\ request[q].mode = "resume"
          /\ submitted' = submitted \cup {<<c, request[q].decision>>}
          /\ UNCHANGED published
      BY <1>1 DEF ResumeInterrupt, transportVars
    <2>2. c \in Cases /\ request[q].decision \in Decisions
      BY <2>1 DEF CausalInv, TypeInv, TypeOK, ApprovalTypeOK, Active
    <2>3. Reviewable(published, c)
      BY <2>1 DEF CausalInv, RequestsBacked, RequestBacked
    <2>4. Protocol!Decide(c)
      BY <2>1, <2>2, <2>3 DEF Reviewable, In, RecommendedActions, PromptActions, Decisions,
         Protocol!Decide, Protocol!Has, Protocol!Actions, Protocol!Executable, Protocol!Decisions
    <2>. QED
      BY <2>2, <2>4 DEF Protocol!Next
  <1>2. ASSUME ~\E q \in Requests: ResumeInterrupt(q)
        PROVE  UNCHANGED <<published, submitted>>
    BY <1>2 DEF ApprovalSide, ApprovalStep, Submit, RepublishOrder, ResumeResult,
       ResumeTimeout, ReplicaCrash, transportVars
  <1>. QED
    BY <1>1, <1>2 DEF Protocol!vars

LEMMA GraphRefines ==
  ASSUME CausalInv, GraphSide
  PROVE  Protocol!Next \/ UNCHANGED Protocol!vars
PROOF
  <1>a. UNCHANGED submitted
    BY DEF GraphSide, approvalVars
  <1>. SUFFICES ASSUME NEW a \in Runners, GraphStep(a) \/ CallRaises(a)
                PROVE  Protocol!Next \/ UNCHANGED published
    BY <1>a DEF GraphSide, Protocol!vars
  <1>. DEFINE c == run[a].case
              v == run[a].values
  <1>b. /\ v \in Values /\ run[a].resume \in Verdicts
        /\ run[a].node # "idle" =>
             c \in Cases /\ RunBacked(published, submitted, run[a])
    BY DEF CausalInv, TypeInv, TypeOK, GraphTypeOK, RunsTyped, Runs, RunsBacked
  <1>1. CASE RequestEvidence(a)
    <2>1. run[a].node = "request_evidence" /\ Publish("evidence_requested", c, "none")
      BY <1>1 DEF RequestEvidence, Pending
    <2>2. c \in Cases /\ Protocol!Has("risk_alert", c, "none")
      BY <1>b, <2>1 DEF RunBacked, In, Protocol!Has
    <2>3. Protocol!Emit("evidence_requested", c, "none")
      BY <1>a, <2>1, PublishEmits
    <2>. QED
      BY <2>2, <2>3 DEF Protocol!Next, Protocol!RequestEvidence
  <1>2. CASE PrepareCaseForReview(a)
    <2>1. run[a].node = "prepare_case_for_review" /\ v.evidence
      BY <1>2 DEF PrepareCaseForReview, Pending, NodeAccepts
    <2>2. PICK x \in RecommendedActions: Publish("review_requested", c, x)
      BY <1>2 DEF PrepareCaseForReview
    <2>3. c \in Cases /\ Protocol!Has("evidence_ready", c, "none")
      BY <1>b, <2>1 DEF RunBacked, Backed, In, Protocol!Has
    <2>4. Protocol!Emit("review_requested", c, x)
      BY <1>a, <2>2, PublishEmits
    <2>. QED
      BY <2>2, <2>3, <2>4 DEF Protocol!Next, Protocol!RequestReview, Protocol!Actions,
         RecommendedActions
  <1>3. CASE HumanApproval(a)
    <2>1. run[a].node = "human_approval" /\ run[a].resume # "none"
      BY <1>3 DEF HumanApproval, Pending
    <2>2. c \in Cases /\ run[a].resume \in Decisions /\ <<c, run[a].resume>> \in submitted
      BY <1>b, <2>1 DEF RunBacked, Verdicts
    <2>3. CASE GrantedPublisher
      <3>1. Protocol!Emit("approval_granted", c, run[a].resume)
        BY <1>3, <1>a, <2>3, PublishEmits DEF HumanApproval
      <3>. QED
        BY <2>2, <3>1 DEF Protocol!Next, Protocol!GrantApproval, Protocol!Decisions, Decisions
    <2>4. CASE ~GrantedPublisher
      BY <1>3, <2>4 DEF HumanApproval
    <2>. QED
      BY <2>3, <2>4
  <1>4. CASE RequestExecutionOrder(a)
    <2>1. /\ run[a].node = "request_execution_order"
          /\ v.decision = "approved" /\ v.report \in OrderTypes
          /\ Publish("execution_order", c, v.report)
      BY <1>4 DEF RequestExecutionOrder, Pending, NodeAccepts
    <2>2. c \in Cases /\ Backed(published, submitted, c, v)
      BY <1>b, <2>1 DEF RunBacked
    <2>3. /\ <<c, "approved">> \in submitted
          /\ GrantedPublisher => Protocol!Has("approval_granted", c, "approved")
          /\ Protocol!Has("review_requested", c, v.report)
      BY <2>1, <2>2 DEF Backed, In, OrderTypes, Protocol!Has
    <2>4. v.report \in Protocol!Actions \cap Protocol!Executable
      BY <1>b, <2>1 DEF Values, Reports, RecommendedActions, OrderTypes,
         Protocol!Actions, Protocol!Executable
    <2>5. Protocol!Emit("execution_order", c, v.report)
      BY <1>a, <2>1, PublishEmits
    <2>. QED
      BY <2>2, <2>3, <2>4, <2>5 DEF Protocol!Next, Protocol!OrderExecution
  <1>5. CASE Interrupt(a) \/ Commit(a) \/ NodeRaises(a) \/ CallRaises(a)
    BY <1>5 DEF Interrupt, Commit, NodeRaises, CallRaises, transportVars
  <1>. QED
    BY <1>1, <1>2, <1>3, <1>4, <1>5 DEF GraphStep

(* The composed consumers, graph and approval service implement the event  *)
(* protocol of a case: no fault, crash, retry or interleaving makes them   *)
(* publish an event before what it answers.                                *)
THEOREM Refinement == Spec => ImplementsProtocol
PROOF
  <1>1. ASSUME CausalInv, [Next]_vars
        PROVE  [Protocol!Next]_(Protocol!vars)
    <2>1. CASE UNCHANGED vars
      BY <2>1 DEF vars, transportVars, approvalVars, Protocol!vars
    <2>. QED
      BY <1>1, <2>1, ConsumerRefines, ApprovalRefines, GraphRefines DEF Next
  <1>. QED
    BY <1>1, InitRefines, Causality, PTL DEF Spec, ImplementsProtocol, Protocol!Spec

=============================================================================
