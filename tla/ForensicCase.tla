---------------------------- MODULE ForensicCase ----------------------------
(***************************************************************************)
(* The forensic case flow as src/events/runtime.py composes it: the three  *)
(* consumers share one ledger and one checkpointed graph with the human    *)
(* approval service.                                                       *)
(***************************************************************************)
EXTENDS EventConsumers, HumanApproval

vars == <<transportVars, graphVars, consumerVars, approvalVars>>

Init == TransportInit /\ GraphInit /\ ConsumersInit /\ ApprovalInit

(* The steps of the consumer side and of the approval side.                *)
ConsumerSide ==
  /\ \/ \E c \in Cases: PublishAlert(c)
     \/ RedeliverMessage
     \/ \E w \in Workers: ConsumerStep(w) \/ ConsumerFault(w)
  /\ UNCHANGED approvalVars

ApprovalSide ==
  /\ \/ \E q \in Requests, r \in Replicas, c \in Cases, d \in Decisions,
          cred \in Credentials: Submit(q, r, c, d, cred)
     \/ \E q \in Requests: ApprovalStep(q) \/ ResumeTimeout(q)
     \/ \E r \in Replicas: ReplicaCrash(r)
  /\ UNCHANGED consumerVars

GraphSide ==
  /\ \E a \in Runners: GraphStep(a) \/ CallRaises(a)
  /\ UNCHANGED <<consumerVars, approvalVars>>

Next == ConsumerSide \/ ApprovalSide \/ GraphSide

Spec == Init /\ [][Next]_vars

(* A consumer loop, a graph run and an admitted request keep going as long *)
(* as they can; nothing obliges an alert, a reviewer or a fault to occur.  *)
Fairness ==
  /\ \A w \in Workers: WF_vars(ConsumerStep(w) /\ UNCHANGED approvalVars)
  /\ \A q \in Requests: WF_vars(ApprovalStep(q) /\ UNCHANGED consumerVars)
  /\ \A a \in Runners:
       WF_vars(GraphStep(a) /\ UNCHANGED <<consumerVars, approvalVars>>)

FairSpec == Spec /\ Fairness

-----------------------------------------------------------------------------
(* Every variable has its type: transport, graph, consumers and service.   *)
TypeOK ==
  /\ TransportTypeOK
  /\ GraphTypeOK
  /\ ConsumersTypeOK
  /\ ApprovalTypeOK

(* request_execution_order, human_approval and resume(): an execution      *)
(* order exists only if an authorised request that named the pending       *)
(* approval approved the case, and its decision had been audited before    *)
(* the graph ran.                                                          *)
ExecutionAuthorised ==
  \A p \in published:
    p.type = "execution_order" =>
      /\ <<p.case, "approved">> \in submitted
      /\ \E q \in Requests:
           /\ request[q].case = p.case
           /\ request[q].decision = "approved"
           /\ request[q].credentials = "valid"

(* The order a case executes carries the action of a report that was       *)
(* published for review, never one the executor has no order type for.     *)
ExecutionMatchesReview ==
  \A p \in published:
    p.type = "execution_order" =>
      /\ p.detail \in OrderTypes
      /\ IsPublished("review_requested", p.case, p.detail)

(* consumers.py: the ledger says "completed" of an event only when the     *)
(* event it causes is published, whatever failed, crashed or was repeated. *)
Effect(e) ==
  CASE e.type = "risk_alert" -> "evidence_requested"
    [] e.type = "evidence_requested" -> "evidence_ready"
    [] e.type = "evidence_ready" -> "review_requested"

HasEffect(e) == \E p \in published: p.case = e.case /\ p.type = Effect(e)

CompletedHasEffect ==
  \A e \in EventIds: ledger[e] = "completed" => HasEffect(e)

(* EventLedger.claim: two workers never process the same event at the same *)
(* time, and a worker that does holds the claim in the ledger.             *)
ClaimExclusive ==
  \A w1 \in Workers: HoldsClaim(w1) =>
    /\ ledger[EventOf(w1)] = "processing"
    /\ \A w2 \in Workers \ {w1}:
         HoldsClaim(w2) => EventOf(w1) # EventOf(w2)

(* HumanApprovalService.status: a case shown as completed has its order    *)
(* published, and one shown as pending execution was approved.             *)
StatusHonest ==
  \A c \in Cases:
    /\ CaseStatus(c) = "completed" =>
         \E p \in published: p.type = "execution_order" /\ p.case = c
    /\ CaseStatus(c) = "execution_pending" => <<c, "approved">> \in submitted
    /\ CaseStatus(c) = "rejected" => <<c, "rejected">> \in submitted

(* The flow keeps the published protocol of a case (module CaseProtocol).  *)
Protocol == INSTANCE CaseProtocol
ImplementsProtocol == Protocol!Spec

-----------------------------------------------------------------------------
(* A case whose stage is rejected has no execution order.                  *)
RejectedNotExecuted ==
  \A c \in Cases:
    thread[c].values.stage = "rejected" =>
      ~\E p \in published: p.type = "execution_order" /\ p.case = c

(* All execution orders of a case carry one action: a repeated approval, a *)
(* republication or a second analysis never orders another one.            *)
OneActionOrdered ==
  \A p1, p2 \in published:
    p1.type = "execution_order" /\ p2.type = "execution_order" /\ p1.case = p2.case =>
      p1.detail = p2.detail

StageRank ==
  [s \in Stages |->
     CASE s = "none" -> 0
       [] s = "alert_received" -> 1
       [] s = "evidence_requested" -> 2
       [] s = "evidence_ready" -> 3
       [] s = "review_requested" -> 4
       [] s \in {"approved", "rejected"} -> 5
       [] s = "execution_requested" -> 6]

(* A case only moves forward, and an open review only ends by a decision.  *)
Advances(c) ==
  /\ StageRank[thread'[c].values.stage] >= StageRank[thread[c].values.stage]
  /\ (thread[c].waiting /\ ~thread'[c].waiting) =>
       thread'[c].values.stage \in Decisions

(* src/README.md, "each event delivery advances the case exactly one step", *)
(* of a case whose alert the ledger has completed: whatever is delivered   *)
(* again, fails after its effect, times out, crashes or is approved twice, *)
(* no late checkpoint, analysis or republication takes it back.  Until     *)
(* then a retried intake does, once its event is published.                *)
Taken(c) == ledger[Event("risk_alert", c)] = "completed"

TakenCaseAdvances == [][\A c \in Cases: Taken(c) => Advances(c)]_vars

(* A review that was published for analysts can be decided: its case is    *)
(* never abandoned to the dead-letter path.                                *)
ReviewedNotDeadLettered ==
  \A p \in published:
    p.type = "review_requested" => Event("evidence_ready", p.case) \notin deadLetters

(* EventDelivery.ack, "Acknowledge only after the side effect has          *)
(* completed": the last message of an event goes away only when the event  *)
(* it causes is published, or the event is dead-lettered.                  *)
AckAfterEffect ==
  [][\A e \in EventIds:
       LET open == \E m \in queue: m.event = e IN
         (open /\ ~\E m \in queue': m.event = e) =>
            HasEffect(e) \/ e \in deadLetters']_vars

(* consumers.py, _claim and _retry_or_dead_letter: an event a consumer must *)
(* handle is never lost.  Until its effect is published it is dead-lettered *)
(* or a message of it is still to be settled, whatever duplicates, retries, *)
(* failures and crashes there are.  The one exception is the claim a dead   *)
(* process has left in the ledger, on which every delivery is refused.      *)
Orphaned(e) ==
  /\ ledger[e] = "processing"
  /\ ~\E w \in Workers: HoldsClaim(w) /\ EventOf(w) = e

NoEventLost ==
  \A e \in EventIds:
    (\E p \in published: p.type = e.type /\ p.case = e.case) =>
      \/ HasEffect(e)
      \/ e \in deadLetters
      \/ \E m \in queue: m.event = e
      \/ "crash" \in FaultKinds /\ Orphaned(e)

(* Every published alert ends in an open or decided review, or in the      *)
(* dead-letter path, and stays there.                                      *)
Reviewed(c) ==
  \/ thread[c].waiting
  \/ thread[c].values.stage \in {"approved", "rejected", "execution_requested"}
  \/ \E e \in deadLetters: e.case = c

AlertsSettle ==
  \A c \in Cases:
    IsPublished("risk_alert", c, "none") ~> [](Reviewed(c))

(* A request that entered the lock leaves it.                              *)
RequestsEnd ==
  \A q \in Requests: Active(q) ~> request[q].pc = "done"

=============================================================================
