---------------------------- MODULE ForensicGraph ----------------------------
(***************************************************************************)
(* The forensic LangGraph of src/graph/forensic_graph.py, one checkpointed *)
(* thread per case.  A "run" is one ainvoke of the graph by a worker or by *)
(* a human-approval request.  A node is two steps: its body, which ends    *)
(* with the publication, and the checkpoint of the superstep, which        *)
(* LangGraph writes after the node has returned.  Between the two, other   *)
(* actors move.                                                            *)
(*                                                                         *)
(* LangGraph itself is not in the repository.  What the code relies on:    *)
(* a run works on the values it loaded and the checkpoint of its last      *)
(* superstep becomes the thread's state; a dict input and a Command(goto)  *)
(* drop a pending interrupt; interrupt() returns the resume value of this  *)
(* run, or one an earlier unfinished run left with the pending task.       *)
(***************************************************************************)
EXTENDS EventTransport

CONSTANTS
  Workers,           \* event consumer loops
  Requests,          \* human-approval HTTP requests
  GrantedPublisher   \* is approval_granted_publisher configured?

ASSUME RunnersAssumption == Workers \cap Requests = {}
ASSUME GrantedPublisherAssumption == GrantedPublisher \in BOOLEAN

VARIABLES
  thread,   \* the persisted checkpoint of each case
  run       \* the run each worker or request executes

graphVars == <<thread, run>>

Runners == Workers \cup Requests

-----------------------------------------------------------------------------
Stages ==
  {"none", "alert_received", "evidence_requested", "evidence_ready",
   "review_requested", "approved", "rejected", "execution_requested"}
Nodes ==
  {"request_evidence", "prepare_case_for_review", "human_approval",
   "request_execution_order"}
Reports == RecommendedActions \cup {"none"}
Verdicts == Decisions \cup {"none"}

PromptActions == {"hold", "release", "review"}
OrderTypes == {"hold", "release", "review"}

Values ==
  [stage: Stages, evidence: BOOLEAN, report: Reports, decision: Verdicts]
Threads == [values: Values, waiting: BOOLEAN, offered: SUBSET Decisions]
Runs ==
  [node: Nodes \cup {"idle", "returned", "raised"}, ran: BOOLEAN,
   case: Cases \cup {"none"}, values: Values, resume: Verdicts]

NoValues ==
  [stage |-> "none", evidence |-> FALSE, report |-> "none",
   decision |-> "none"]
NoThread == [values |-> NoValues, waiting |-> FALSE, offered |-> {}]
IdleRun ==
  [node |-> "idle", ran |-> FALSE, case |-> "none", values |-> NoValues,
   resume |-> "none"]

GraphTypeOK ==
  /\ thread \in [Cases -> Threads]
  /\ run \in [Runners -> Runs]

GraphInit ==
  /\ thread = [c \in Cases |-> NoThread]
  /\ run = [a \in Runners |-> IdleRun]

-----------------------------------------------------------------------------
(* How an ainvoke ends for its caller.  Mutant: an exception is swallowed. *)
Raised(a) == run[a].node = "raised"
ReturnedOrRaised(a) == run[a].node \in {"returned", "raised"}

Returned(a) == run[a].node = "returned"

(* Entry points.                                                           *)

(* The stages a dict input may carry are in the domain of the entry router. *)
RouteStage(stage) ==
  CASE stage = "alert_received" -> "request_evidence"
    [] stage = "evidence_ready" -> "prepare_case_for_review"
    [] stage = "approved" -> "request_execution_order"

Begin(a, c, node, values, resume) ==
  run' = [run EXCEPT ![a] =
            [node |-> node, ran |-> FALSE, case |-> c, values |-> values,
             resume |-> resume]]

(* ainvoke with a dict: the input is checkpointed and routed from START.   *)
InvokeInput(a, c, stage) ==
  LET values == [thread[c].values EXCEPT !.stage = stage] IN
  /\ thread' = [thread EXCEPT ![c] =
                  [values |-> values, waiting |-> FALSE, offered |-> {}]]
  /\ Begin(a, c, RouteStage(stage), values, "none")

(* ainvoke with Command(update=..., goto="prepare_case_for_review").       *)
InvokeGoto(a, c) ==
  /\ Begin(a, c, "prepare_case_for_review",
           [thread[c].values EXCEPT !.stage = "evidence_ready",
                                    !.evidence = TRUE],
           "none")
  /\ UNCHANGED thread

(* ainvoke with Command(resume=d): without a pending interrupt it returns  *)
(* the values as they are.                                                 *)
ResumeValues(c, d) == {d} \cup thread[c].offered

InvokeResume(a, c, d) ==
  \/ /\ thread[c].waiting
     /\ \E r \in ResumeValues(c, d):
          /\ Begin(a, c, "human_approval", thread[c].values, r)
          /\ thread' = [thread EXCEPT ![c].offered = @ \cup {r}]
  \/ /\ ~thread[c].waiting
     /\ Begin(a, c, "returned", thread[c].values, "none")
     /\ UNCHANGED thread

-----------------------------------------------------------------------------
(* Nodes.  Pending(a, n) is a run about to execute node n; NodeAccepts is  *)
(* what the node's own checks and its payload models require of the state. *)

Pending(a, n) == run[a].node = n /\ ~run[a].ran

(* Mutant: payload models that take any recommended action.                *)
NodeAcceptsAnyReport(a) ==
  CASE run[a].node = "prepare_case_for_review" -> run[a].values.evidence
    [] run[a].node = "request_execution_order" ->
         run[a].values.decision = "approved"
    [] OTHER -> TRUE

NodeAccepts(a) ==
  LET v == run[a].values IN
  CASE run[a].node = "prepare_case_for_review" -> v.evidence
    [] run[a].node = "human_approval" -> v.report \in PromptActions
    [] run[a].node = "request_execution_order" ->
         v.decision = "approved" /\ v.report \in OrderTypes
    [] OTHER -> TRUE

NodeReturns(a, values) ==
  /\ run' = [run EXCEPT ![a].ran = TRUE, ![a].values = values]
  /\ UNCHANGED <<thread, deadLetters, ledger, faults>>

RequestEvidence(a) ==
  /\ Pending(a, "request_evidence")
  /\ Publish("evidence_requested", run[a].case, "none")
  /\ NodeReturns(a, [run[a].values EXCEPT !.stage = "evidence_requested"])

(* The reasoner may recommend any action of ForensicAnalysis.              *)
PrepareCaseForReview(a) ==
  /\ Pending(a, "prepare_case_for_review")
  /\ NodeAccepts(a)
  /\ \E action \in RecommendedActions:
       /\ Publish("review_requested", run[a].case, action)
       /\ NodeReturns(a, [run[a].values EXCEPT !.stage = "review_requested",
                                               !.report = action])

(* First entry: the prompt is built and interrupt() pauses the run.  The    *)
(* interrupt belongs to this run's checkpoint: it is not visible if another *)
(* run has replaced that checkpoint meanwhile.                             *)
Interrupt(a) ==
  /\ Pending(a, "human_approval")
  /\ run[a].resume = "none"
  /\ NodeAccepts(a)
  /\ thread' = [thread EXCEPT ![run[a].case].waiting =
                  @ \/ thread[run[a].case].values = run[a].values]
  /\ run' = [run EXCEPT ![a].node = "returned"]
  /\ UNCHANGED transportVars

(* Re-entry with the reviewer's decision.                                  *)
HumanApproval(a) ==
  /\ Pending(a, "human_approval")
  /\ run[a].resume # "none"
  /\ NodeAccepts(a)
  /\ IF GrantedPublisher
     THEN Publish("approval_granted", run[a].case, run[a].resume)
     ELSE UNCHANGED <<published, queue>>
  /\ NodeReturns(a, [run[a].values EXCEPT !.stage = run[a].resume,
                                          !.decision = run[a].resume])

RequestExecutionOrder(a) ==
  /\ Pending(a, "request_execution_order")
  /\ NodeAccepts(a)
  /\ Publish("execution_order", run[a].case, run[a].values.report)
  /\ NodeReturns(a, [run[a].values EXCEPT !.stage = "execution_requested"])

(* The superstep's checkpoint, then the edge out of the node.              *)
NextNode(node, stage) ==
  CASE node = "prepare_case_for_review" -> "human_approval"
    [] node = "human_approval" /\ stage = "approved" ->
         "request_execution_order"
    [] OTHER -> "returned"

Commit(a) ==
  /\ run[a].ran
  /\ thread' = [thread EXCEPT ![run[a].case] =
                  [values |-> run[a].values, waiting |-> FALSE,
                   offered |-> {}]]
  /\ run' = [run EXCEPT
               ![a].node = NextNode(run[a].node, run[a].values.stage),
               ![a].ran = FALSE,
               ![a].resume = "none"]
  /\ UNCHANGED transportVars

(* A node raises on a state it does not accept, ...                        *)
NodeRaises(a) ==
  /\ run[a].node \in Nodes
  /\ ~run[a].ran
  /\ ~NodeAccepts(a)
  /\ run' = [run EXCEPT ![a].node = "raised"]
  /\ UNCHANGED <<thread, transportVars>>

(* ... or because a publisher, the reasoner or the checkpointer fails:     *)
(* before the publication, or after it and before the checkpoint.          *)
CallRaises(a) ==
  /\ run[a].node \in Nodes
  /\ Inject(IF run[a].ran THEN "ambiguous" ELSE "clean")
  /\ run' = [run EXCEPT ![a].node = "raised", ![a].ran = FALSE]
  /\ UNCHANGED <<thread, published, queue, deadLetters, ledger>>

GraphStep(a) ==
  \/ RequestEvidence(a)
  \/ PrepareCaseForReview(a)
  \/ Interrupt(a)
  \/ HumanApproval(a)
  \/ RequestExecutionOrder(a)
  \/ Commit(a)
  \/ NodeRaises(a)

=============================================================================
