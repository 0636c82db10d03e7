----------------------- MODULE ForensicLedger_proofs -----------------------
(***************************************************************************)
(* What the idempotency ledger guarantees, for every value of the          *)
(* constants: a claim excludes other workers, and "completed" is never     *)
(* said of an event whose effect is missing.  The second needs to follow a *)
(* worker's run through the graph: LedgerInv says which nodes the run of a *)
(* consumer can be at and what is published when it is past them.          *)
(*                                                                         *)
(* And what follows from it: that an event is not lost before its effect,  *)
(* that a rejected case is not ordered (DecisionInv), that a case is       *)
(* ordered with one action only (OrderInv), and that a case whose alert is *)
(* completed never goes back (StageInv); each theorem names the            *)
(* assumptions it needs.                                                   *)
(***************************************************************************)
EXTENDS ForensicCase_proofs

USE DEF Event, EventOf, Returned, Raised

(* Event e has had its effect if the publications are pub.                 *)
EffectIn(pub, e) == \E p \in pub: p.case = e.case /\ p.type = Effect(e)

(* The run r of a worker that processes event e.                           *)
ConsumerRun(pub, e, r) ==
  /\ r.case = e.case
  /\ r.resume = "none"
  /\ \/ /\ e.type = "risk_alert"
        /\ r.node \in {"request_evidence", "returned", "raised"}
     \/ /\ e.type = "evidence_ready"
        /\ r.node \in {"prepare_case_for_review", "human_approval", "returned", "raised"}
  /\ r.ran => r.node \in {"request_evidence", "prepare_case_for_review"}
  /\ r.ran \/ r.node \in {"human_approval", "returned"} => EffectIn(pub, e)

WorkerHasEffect(pub, entry, r) ==
  /\ entry.pc \in {"succeeded", "completed"} => EffectIn(pub, entry.msg.event)
  /\ entry.pc = "running" => ConsumerRun(pub, entry.msg.event, r)

LedgerInv ==
  /\ TypeInv
  /\ CompletedHasEffect
  /\ \A w \in Workers: WorkerHasEffect(published, worker[w], run[w])

-----------------------------------------------------------------------------
(* Claims.                                                                 *)
ClaimInv == TypeInv /\ ClaimExclusive

LEMMA ClaimKept ==
  ASSUME ClaimInv, [Next]_vars PROVE ClaimExclusive'
PROOF
  <1>a. ConsumersTypeOK /\ TransportTypeOK
    BY DEF ClaimInv, TypeInv, TypeOK
  <1>b. ClaimExclusive
    BY DEF ClaimInv
  (* Holders stay what they were, and so do the claims they hold.          *)
  <1>c. ASSUME \A w \in Workers:
                 HoldsClaim(w)' =>
                   /\ HoldsClaim(w)
                   /\ worker'[w].msg = worker[w].msg
                   /\ ledger'[EventOf(w)] = ledger[EventOf(w)]
        PROVE  ClaimExclusive'
    BY <1>b, <1>c DEF ClaimExclusive
  <1>1. ASSUME NEW w \in Workers, Claim(w) PROVE ClaimExclusive'
    <2>. DEFINE e == EventOf(w)
    <2>0. e \in EventIds
      BY <1>1, <1>a DEF Claim, ConsumersTypeOK, Messages
    <2>1. CASE Claimable(e)
      <3>1. /\ ledger' = [ledger EXCEPT ![e] = "processing"]
            /\ worker' = [worker EXCEPT ![w].pc = "claimed"]
        BY <1>1, <2>1 DEF Claim, SetLedger, Goto
      <3>2. /\ worker'[w].msg = worker[w].msg
            /\ \A v \in Workers: v # w => worker'[v] = worker[v]
            /\ ledger'[e] = "processing"
            /\ \A f \in EventIds: f # e => ledger'[f] = ledger[f]
        BY <3>1, <2>0, <1>a DEF ConsumersTypeOK, TransportTypeOK
      <3>3. \A v \in Workers \ {w}:
              HoldsClaim(v) => EventOf(v) # e /\ EventOf(v) \in EventIds
        BY <2>1, <1>a, <1>b DEF ClaimExclusive, Claimable, HoldsClaim, ConsumersTypeOK, Messages
      <3>. QED
        BY <3>2, <3>3, <1>b DEF ClaimExclusive, HoldsClaim
    <2>2. CASE ~Claimable(e)
      <3>1. /\ \A v \in Workers: v # w => worker'[v] = worker[v]
            /\ worker'[w].pc = "duplicate"
            /\ ledger' = ledger
        BY <1>1, <2>2, <1>a DEF Claim, Goto, ConsumersTypeOK
      <3>. QED
        BY <3>1, <1>c DEF HoldsClaim
    <2>. QED
      BY <2>1, <2>2
  <1>2. ASSUME NEW w \in Workers, Complete(w) \/ Release(w) PROVE ClaimExclusive'
    <2>1. PICK s \in LedgerStates: ledger' = [ledger EXCEPT ![EventOf(w)] = s]
      BY <1>2 DEF Complete, Release, SetLedger, LedgerStates
    <2>2. /\ \A v \in Workers: v # w => worker'[v] = worker[v]
          /\ ~HoldsClaim(w)' /\ HoldsClaim(w)
      BY <1>2, <1>a DEF Complete, Release, Goto, HoldsClaim, ConsumersTypeOK
    <2>3. \A v \in Workers \ {w}:
            HoldsClaim(v) => EventOf(v) # EventOf(w) /\ EventOf(v) \in EventIds
      BY <2>2, <1>a, <1>b DEF ClaimExclusive, HoldsClaim, ConsumersTypeOK, Messages
    <2>. QED
      BY <2>1, <2>2, <2>3, <1>a, <1>c DEF HoldsClaim, TransportTypeOK
  <1>3. ASSUME NEW w \in Workers, WorkerCrash(w) PROVE ClaimExclusive'
    <2>1. \A v \in Workers: worker'[v].pc = "idle" \/ (worker'[v] = worker[v] /\ ledger' = ledger)
      BY <1>3, <1>a DEF WorkerCrash, Idle, IdleWorker, ConsumersTypeOK
    <2>. QED
      BY <2>1, <1>c DEF HoldsClaim
  <1>4. ASSUME NEW w \in Workers, UNCHANGED ledger,
               \/ Receive(w) \/ DeadLetterInvalid(w) \/ AckDuplicate(w)
               \/ AckCompleted(w) \/ RetryOrDeadLetter(w)
        PROVE ClaimExclusive'
    <2>1. \A v \in Workers: worker'[v] = worker[v] \/ worker'[v].pc \in {"idle", "received"}
      BY <1>4, <1>a DEF Receive, DeadLetterInvalid, AckDuplicate, AckCompleted,
         RetryOrDeadLetter, Idle, IdleWorker, ConsumersTypeOK
    <2>. QED
      BY <1>4, <2>1, <1>c DEF HoldsClaim
  <1>5. ASSUME NEW w \in Workers, UNCHANGED ledger,
               \/ StartCase(w) \/ CollectEvidence(w) \/ CollectionRaises(w)
               \/ StartReasoning(w) \/ RunEnds(w)
        PROVE ClaimExclusive'
    <2>1. /\ HoldsClaim(w)
          /\ \A v \in Workers: worker'[v].msg = worker[v].msg /\ (v # w => worker'[v] = worker[v])
      BY <1>5, <1>a DEF StartCase, CollectEvidence, CollectionRaises, StartReasoning,
         RunEnds, Goto, HoldsClaim, ConsumersTypeOK
    <2>. QED
      BY <1>5, <2>1, <1>c DEF HoldsClaim
  <1>6. ASSUME UNCHANGED <<worker, ledger>> PROVE ClaimExclusive'
    BY <1>6, <1>b DEF ClaimExclusive, HoldsClaim
  <1>7. CASE ConsumerSide
    <2>1. ASSUME NEW w \in Workers, ConsumerStep(w) \/ ConsumerFault(w) PROVE ClaimExclusive'
      BY <2>1, <1>1, <1>2, <1>3, <1>4, <1>5
         DEF ConsumerStep, ConsumerFault, Receive, DeadLetterInvalid, AckDuplicate,
             AckCompleted, RetryOrDeadLetter, StartCase, CollectEvidence,
             CollectionRaises, StartReasoning, RunEnds, transportVars
    <2>2. ASSUME NEW c \in Cases, PublishAlert(c) PROVE ClaimExclusive'
      BY <2>2, <1>6 DEF PublishAlert
    <2>3. RedeliverMessage => ClaimExclusive'
      BY <1>6 DEF RedeliverMessage
    <2>. QED
      BY <1>7, <2>1, <2>2, <2>3 DEF ConsumerSide
  <1>8. CASE ApprovalSide
    <2>1. UNCHANGED <<worker, ledger>>
      BY <1>8 DEF ApprovalSide, consumerVars, ApprovalStep, Submit, ResumeInterrupt,
         RepublishOrder, ResumeResult, ResumeTimeout, ReplicaCrash, transportVars
    <2>. QED
      BY <2>1, <1>6
  <1>9. CASE GraphSide
    <2>1. UNCHANGED <<worker, ledger>>
      BY <1>9 DEF GraphSide, consumerVars, GraphStep, RequestEvidence, PrepareCaseForReview,
         Interrupt, HumanApproval, RequestExecutionOrder, Commit, NodeRaises, CallRaises,
         NodeReturns, transportVars
    <2>. QED
      BY <2>1, <1>6
  <1>10. CASE UNCHANGED vars
    BY <1>10, <1>6 DEF vars, transportVars, consumerVars
  <1>. QED
    BY <1>7, <1>8, <1>9, <1>10 DEF Next

LEMMA ClaimInvAlways == Spec => []ClaimInv
PROOF
  <1>1. Init => ClaimInv
    <2>1. Init => ClaimExclusive
      BY DEF Init, ConsumersInit, IdleWorker, ClaimExclusive, HoldsClaim
    <2>. QED
      BY <2>1, InitTyped DEF ClaimInv
  <1>2. ClaimInv /\ [Next]_vars => ClaimInv'
    BY ClaimKept, NextTyped DEF ClaimInv
  <1>. QED
    BY <1>1, <1>2, PTL DEF Spec

(* Two workers never process the same event at once, and a worker that     *)
(* processes one holds its claim in the ledger.                            *)
THEOREM ClaimsExclude == Spec => []ClaimExclusive
PROOF
  <1>1. ClaimInv => ClaimExclusive
    BY DEF ClaimInv
  <1>. QED
    BY <1>1, ClaimInvAlways, PTL

-----------------------------------------------------------------------------
(* Effects.                                                                *)
LEMMA EffectStable ==
  ASSUME NEW P1, NEW P2, P1 \subseteq P2
  PROVE  /\ \A e: EffectIn(P1, e) => EffectIn(P2, e)
         /\ \A entry, r: WorkerHasEffect(P1, entry, r) => WorkerHasEffect(P2, entry, r)
PROOF
  BY DEF EffectIn, WorkerHasEffect, ConsumerRun

LEMMA PublishEffect ==
  ASSUME NEW type, NEW detail, NEW e, e.case \in Cases,
         Publish(type, e.case, detail), Effect(e) = type
  PROVE  EffectIn(published', e)
PROOF
  <1>1. [type |-> type, case |-> e.case, detail |-> detail] \in published'
    BY DEF Publish
  <1>. QED
    BY <1>1 DEF EffectIn

(* What a step must show of the workers and of the ledger.                 *)
LEMMA LedgerFrame ==
  ASSUME LedgerInv, TypeInv', published \subseteq published',
         \A w \in Workers:
           \/ worker'[w] = worker[w] /\ run'[w] = run[w]
           \/ WorkerHasEffect(published', worker'[w], run'[w]),
         \A e \in EventIds:
           ledger'[e] = "completed" =>
             ledger[e] = "completed" \/ EffectIn(published', e)
  PROVE  LedgerInv'
PROOF
  <1>1. \A e \in EventIds: ledger[e] = "completed" => EffectIn(published, e)
    BY DEF LedgerInv, CompletedHasEffect, HasEffect, EffectIn
  <1>2. \A e \in EventIds: ledger'[e] = "completed" => EffectIn(published', e)
    BY <1>1, EffectStable
  <1>3. CompletedHasEffect'
    BY <1>2 DEF CompletedHasEffect, HasEffect, EffectIn
  <1>4. \A w \in Workers: WorkerHasEffect(published', worker'[w], run'[w])
    BY EffectStable DEF LedgerInv
  <1>. QED
    BY <1>3, <1>4 DEF LedgerInv

LEMMA ConsumerLedger ==
  ASSUME LedgerInv, ConsumerSide PROVE LedgerInv'
PROOF
  <1>a. TypeInv /\ TypeInv'
    BY ConsumerTyped DEF LedgerInv
  <1>b. ConsumersTypeOK /\ TransportTypeOK /\ GraphTypeOK
    BY <1>a DEF TypeInv, TypeOK
  <1>c. \A w \in Workers: w \in Runners /\ WorkerHasEffect(published, worker[w], run[w])
    BY DEF LedgerInv, Runners
  <1>1. ASSUME NEW c \in Cases, PublishAlert(c) PROVE LedgerInv'
    BY <1>1, <1>a, LedgerFrame DEF PublishAlert, Publish, graphVars
  <1>20. RedeliverMessage => LedgerInv'
    BY <1>a, LedgerFrame DEF RedeliverMessage, graphVars
  <1>2. ASSUME NEW w \in Workers,
               \/ Receive(w) \/ DeadLetterInvalid(w) \/ Claim(w) \/ AckDuplicate(w)
               \/ AckCompleted(w) \/ Release(w) \/ RetryOrDeadLetter(w)
        PROVE LedgerInv'
    <2>1. UNCHANGED <<published, run>>
      BY <1>2 DEF Receive, DeadLetterInvalid, Claim, AckDuplicate, AckCompleted, Release,
         RetryOrDeadLetter, transportVars, graphVars
    <2>2. \A v \in Workers:
            \/ worker'[v] = worker[v]
            \/ worker'[v].pc \in {"idle", "received", "duplicate", "claimed", "released"}
      BY <1>2, <1>b DEF Receive, DeadLetterInvalid, Claim, AckDuplicate, AckCompleted,
         Release, RetryOrDeadLetter, Idle, IdleWorker, Goto, ConsumersTypeOK
    <2>3. \A e \in EventIds: ledger'[e] = "completed" => ledger[e] = "completed"
      BY <1>2, <1>b DEF Receive, DeadLetterInvalid, Claim, AckDuplicate, AckCompleted,
         Release, RetryOrDeadLetter, SetLedger, transportVars, TransportTypeOK
    <2>. QED
      BY <1>a, <2>1, <2>2, <2>3, LedgerFrame DEF WorkerHasEffect
  <1>3. ASSUME NEW w \in Workers, StartCase(w) \/ StartReasoning(w) PROVE LedgerInv'
    <2>1. /\ worker[w].msg.event.type \in {"risk_alert", "evidence_ready"}
          /\ worker' = [worker EXCEPT ![w].pc = "running"]
          /\ UNCHANGED <<published, ledger>>
      BY <1>3 DEF StartCase, StartReasoning, Goto, transportVars
    <2>2. PICK values:
            Begin(w, EventOf(w).case,
                  IF EventOf(w).type = "risk_alert" THEN "request_evidence"
                  ELSE "prepare_case_for_review",
                  values, "none")
      BY <1>3 DEF StartCase, StartReasoning, InvokeInput, InvokeGoto, RouteStage
    <2>3. ConsumerRun(published', EventOf(w), run'[w])
      BY <1>b, <1>c, <2>1, <2>2 DEF Begin, ConsumerRun, GraphTypeOK
    <2>4. \A v \in Workers: v # w => worker'[v] = worker[v] /\ run'[v] = run[v]
      BY <1>b, <1>c, <2>1, <2>2 DEF Begin, GraphTypeOK, ConsumersTypeOK
    <2>5. worker'[w].pc = "running" /\ worker'[w].msg = worker[w].msg
      BY <1>b, <2>1 DEF ConsumersTypeOK
    <2>. QED
      BY <1>a, <2>1, <2>3, <2>4, <2>5, LedgerFrame DEF WorkerHasEffect
  <1>4. ASSUME NEW w \in Workers, CollectEvidence(w) \/ CollectionRaises(w) PROVE LedgerInv'
    <2>1. published \subseteq published' /\ UNCHANGED <<ledger, run>>
      BY <1>4 DEF CollectEvidence, CollectionRaises, Publish, graphVars
    <2>2. /\ \A v \in Workers: v # w => worker'[v] = worker[v]
          /\ worker'[w].msg = worker[w].msg
          /\ worker'[w].pc \in {"succeeded", "failed"}
          /\ worker'[w].pc = "succeeded" => CollectEvidence(w)
      BY <1>4, <1>b DEF CollectEvidence, CollectionRaises, Goto, ConsumersTypeOK
    <2>3. CollectEvidence(w) => EffectIn(published', EventOf(w))
      <3>1. ASSUME CollectEvidence(w) PROVE EffectIn(published', EventOf(w))
        <4>1. Publish("evidence_ready", EventOf(w).case, "none")
          BY <3>1 DEF CollectEvidence
        <4>2. EventOf(w).case \in Cases /\ Effect(EventOf(w)) = "evidence_ready"
          BY <3>1, <1>b DEF CollectEvidence, ConsumersTypeOK, Messages, EventIds, Effect
        <4>. QED
          BY <4>1, <4>2, PublishEffect
      <3>. QED
        BY <3>1
    <2>. QED
      BY <1>a, <2>1, <2>2, <2>3, LedgerFrame DEF WorkerHasEffect
  <1>5. ASSUME NEW w \in Workers, RunEnds(w) PROVE LedgerInv'
    <2>1. /\ worker[w].pc = "running" /\ UNCHANGED <<published, ledger>>
          /\ run' = [run EXCEPT ![w] = IdleRun]
      BY <1>5 DEF RunEnds, transportVars
    <2>2. /\ \A v \in Workers: v # w => worker'[v] = worker[v] /\ run'[v] = run[v]
          /\ worker'[w].msg = worker[w].msg
          /\ worker'[w].pc \in {"succeeded", "failed"}
          /\ worker'[w].pc = "succeeded" => run[w].node = "returned"
      BY <1>5, <1>b, <2>1 DEF RunEnds, Goto, ConsumersTypeOK, GraphTypeOK
    <2>3. run[w].node = "returned" => EffectIn(published', EventOf(w))
      BY <1>c, <2>1 DEF WorkerHasEffect, ConsumerRun
    <2>. QED
      BY <1>a, <2>1, <2>2, <2>3, LedgerFrame DEF WorkerHasEffect
  <1>6. ASSUME NEW w \in Workers, Complete(w) PROVE LedgerInv'
    <2>1. /\ worker[w].pc = "succeeded" /\ UNCHANGED <<published, run>>
          /\ ledger' = [ledger EXCEPT ![EventOf(w)] = "completed"]
      BY <1>6 DEF Complete, SetLedger, graphVars
    <2>2. EffectIn(published', EventOf(w))
      BY <1>c, <2>1 DEF WorkerHasEffect
    <2>3. /\ \A v \in Workers: v # w => worker'[v] = worker[v]
          /\ worker'[w].msg = worker[w].msg
          /\ worker'[w].pc = "completed"
      BY <1>6, <1>b DEF Complete, Goto, ConsumersTypeOK
    <2>4. \A e \in EventIds: ledger'[e] = "completed" =>
                               ledger[e] = "completed" \/ EffectIn(published', e)
      BY <1>b, <2>1, <2>2 DEF TransportTypeOK
    <2>. QED
      BY <1>a, <2>1, <2>2, <2>3, <2>4, LedgerFrame DEF WorkerHasEffect
  <1>7. ASSUME NEW w \in Workers, WorkerCrash(w) PROVE LedgerInv'
    <2>1. \A v \in Workers: \/ worker'[v].pc = "idle"
                            \/ worker'[v] = worker[v] /\ run'[v] = run[v]
      <3>1. CASE DurableLedger
        <4>1. /\ worker' = [worker EXCEPT ![w] = IdleWorker]
              /\ run' = [run EXCEPT ![w] = IdleRun]
          BY <1>7, <3>1 DEF WorkerCrash, Idle
        <4>. QED
          BY <1>b, <1>c, <4>1, IdleTypes DEF ConsumersTypeOK, GraphTypeOK
      <3>2. CASE ~DurableLedger
        BY <1>7, <3>2, IdleTypes DEF WorkerCrash
      <3>. QED
        BY <3>1, <3>2
    <2>2. \A e \in EventIds: ledger'[e] = "completed" => ledger[e] = "completed"
      BY <1>7 DEF WorkerCrash
    <2>3. UNCHANGED published
      BY <1>7 DEF WorkerCrash
    <2>. QED
      BY <1>a, <2>1, <2>2, <2>3, LedgerFrame DEF WorkerHasEffect
  <1>. QED
    BY <1>1, <1>2, <1>3, <1>4, <1>5, <1>6, <1>7, <1>20 DEF ConsumerSide, ConsumerStep, ConsumerFault

LEMMA ApprovalLedger ==
  ASSUME LedgerInv, ApprovalSide PROVE LedgerInv'
PROOF
  <1>1. TypeInv' /\ GraphTypeOK
    BY ApprovalTyped DEF LedgerInv, TypeInv, TypeOK
  <1>2. UNCHANGED <<worker, published, ledger>>
    BY DEF ApprovalSide, consumerVars, ApprovalStep, Submit, ResumeInterrupt,
       RepublishOrder, ResumeResult, ResumeTimeout, ReplicaCrash, transportVars
  <1>3. \A w \in Workers: w \notin Requests /\ w \in Runners
    BY RunnersAssumption DEF Runners
  <1>4. \A w \in Workers: run'[w] = run[w]
    <2>1. ASSUME NEW q \in Requests, ApprovalStep(q) \/ ResumeTimeout(q)
          PROVE  \A w \in Workers: run'[w] = run[w]
      BY <2>1, <1>1, <1>3 DEF ApprovalStep, ResumeInterrupt, InvokeResume, RepublishOrder,
         InvokeInput, ResumeResult, ResumeTimeout, Begin, GraphTypeOK
    <2>2. ASSUME NEW r \in Replicas, ReplicaCrash(r)
          PROVE  \A w \in Workers: run'[w] = run[w]
      BY <2>2, <1>3 DEF ReplicaCrash
    <2>. QED
      BY <2>1, <2>2 DEF ApprovalSide, Submit, graphVars
  <1>. QED
    BY <1>1, <1>2, <1>4, LedgerFrame

LEMMA GraphLedger ==
  ASSUME LedgerInv, GraphSide PROVE LedgerInv'
PROOF
  <1>a. TypeInv' /\ GraphTypeOK /\ RunsTyped
    BY GraphTyped DEF LedgerInv, TypeInv, TypeOK
  <1>. SUFFICES ASSUME NEW a \in Runners, GraphStep(a) \/ CallRaises(a)
                PROVE  LedgerInv'
    BY DEF GraphSide
  <1>b. UNCHANGED <<worker, ledger>> /\ published \subseteq published'
    BY DEF GraphSide, consumerVars, GraphStep, RequestEvidence, PrepareCaseForReview,
       Interrupt, HumanApproval, RequestExecutionOrder, Commit, NodeRaises, CallRaises,
       NodeReturns, transportVars, Publish
  <1>c. \A b \in Runners: b # a => run'[b] = run[b]
    BY <1>a DEF GraphStep, RequestEvidence, PrepareCaseForReview,
       Interrupt, HumanApproval, RequestExecutionOrder, Commit, NodeRaises, CallRaises,
       NodeReturns, GraphTypeOK
  <1>. DEFINE e == EventOf(a)
  <1>1. ASSUME a \in Workers, worker[a].pc = "running"
        PROVE  ConsumerRun(published', e, run'[a])
    <2>1. ConsumerRun(published, e, run[a]) /\ run[a] \in Runs
      BY <1>1, <1>a DEF LedgerInv, WorkerHasEffect, GraphTypeOK
    <2>2. ASSUME EffectIn(published, e) PROVE EffectIn(published', e)
      BY <2>2, <1>b, EffectStable
    <2>3. CASE RequestEvidence(a)
      <3>1. run[a].node = "request_evidence" /\ e.type = "risk_alert" /\ EffectIn(published', e)
        <4>1. /\ run[a].node = "request_evidence"
              /\ Publish("evidence_requested", run[a].case, "none")
          BY <2>3 DEF RequestEvidence, Pending
        <4>2. /\ e.type = "risk_alert" /\ run[a].case = e.case /\ e.case \in Cases
              /\ Effect(e) = "evidence_requested"
          BY <2>1, <4>1, <1>a DEF ConsumerRun, RunsTyped, Effect
        <4>. QED
          BY <4>1, <4>2, PublishEffect
      <3>2. PICK values: run'[a] = [run[a] EXCEPT !.ran = TRUE, !.values = values]
        BY <2>3, <1>a DEF RequestEvidence, NodeReturns, GraphTypeOK
      <3>. QED
        BY <2>1, <3>1, <3>2 DEF ConsumerRun, Runs
    <2>4. CASE PrepareCaseForReview(a)
      <3>1. run[a].node = "prepare_case_for_review" /\ e.type = "evidence_ready" /\ EffectIn(published', e)
        <4>1. PICK action \in RecommendedActions:
                /\ run[a].node = "prepare_case_for_review"
                /\ Publish("review_requested", run[a].case, action)
          BY <2>4 DEF PrepareCaseForReview, Pending
        <4>2. /\ e.type = "evidence_ready" /\ run[a].case = e.case /\ e.case \in Cases
              /\ Effect(e) = "review_requested"
          BY <2>1, <4>1, <1>a DEF ConsumerRun, RunsTyped, Effect
        <4>. QED
          BY <4>1, <4>2, PublishEffect
      <3>2. PICK values: run'[a] = [run[a] EXCEPT !.ran = TRUE, !.values = values]
        BY <2>4, <1>a DEF PrepareCaseForReview, NodeReturns, GraphTypeOK
      <3>. QED
        BY <2>1, <3>1, <3>2 DEF ConsumerRun, Runs
    <2>5. CASE Interrupt(a)
      <3>1. run'[a] = [run[a] EXCEPT !.node = "returned"] /\ run[a].node = "human_approval"
        BY <2>5, <1>a DEF Interrupt, Pending, GraphTypeOK
      <3>. QED
        BY <2>1, <2>2, <3>1 DEF ConsumerRun, Runs
    <2>6. CASE HumanApproval(a) \/ RequestExecutionOrder(a)
      BY <2>1, <2>6 DEF ConsumerRun, HumanApproval, RequestExecutionOrder, Pending
    <2>7. CASE Commit(a)
      <3>1. run[a].ran /\ run'[a] = [run[a] EXCEPT
               !.node = NextNode(run[a].node, run[a].values.stage),
               !.ran = FALSE, !.resume = "none"]
        BY <2>7, <1>a DEF Commit, GraphTypeOK
      <3>2. EffectIn(published', e)
        BY <2>1, <2>2, <3>1 DEF ConsumerRun
      <3>3. run[a].node \in {"request_evidence", "prepare_case_for_review"}
        BY <2>1, <3>1 DEF ConsumerRun
      <3>4. /\ run[a].node = "request_evidence" =>
                 NextNode(run[a].node, run[a].values.stage) = "returned"
            /\ run[a].node = "prepare_case_for_review" =>
                 NextNode(run[a].node, run[a].values.stage) = "human_approval"
        BY DEF NextNode
      <3>. QED
        BY <2>1, <3>1, <3>2, <3>3, <3>4 DEF ConsumerRun, Runs
    <2>8. CASE NodeRaises(a) \/ CallRaises(a)
      <3>1. /\ run'[a].node = "raised" /\ run'[a].ran = FALSE
            /\ run'[a].case = run[a].case /\ run'[a].resume = run[a].resume
        BY <2>1, <2>8, <1>a DEF NodeRaises, CallRaises, GraphTypeOK, Runs
      <3>. QED
        BY <2>1, <3>1 DEF ConsumerRun
    <2>. QED
      BY <2>3, <2>4, <2>5, <2>6, <2>7, <2>8 DEF GraphStep
  <1>2. \A w \in Workers: \/ worker'[w] = worker[w] /\ run'[w] = run[w]
                          \/ WorkerHasEffect(published', worker'[w], run'[w])
    <2>1. ASSUME NEW w \in Workers, w = a PROVE WorkerHasEffect(published', worker'[w], run'[w])
      <3>1. WorkerHasEffect(published, worker[w], run[w])
        BY DEF LedgerInv
      <3>2. worker[w].pc \in {"succeeded", "completed"} => EffectIn(published', EventOf(w))
        BY <3>1, <1>b, EffectStable DEF WorkerHasEffect
      <3>3. worker[w].pc = "running" => ConsumerRun(published', EventOf(w), run'[w])
        BY <1>1, <2>1
      <3>. QED
        BY <3>2, <3>3, <1>b DEF WorkerHasEffect
    <2>. QED
      BY <2>1, <1>b, <1>c DEF Runners
  <1>. QED
    BY <1>a, <1>b, <1>2, LedgerFrame

LEMMA LedgerInvAlways == Spec => []LedgerInv
PROOF
  <1>1. Init => LedgerInv
    <2>1. Init => CompletedHasEffect
      BY DEF Init, TransportInit, CompletedHasEffect
    <2>2. Init => \A w \in Workers: WorkerHasEffect(published, worker[w], run[w])
      BY DEF Init, ConsumersInit, IdleWorker, WorkerHasEffect
    <2>. QED
      BY <2>1, <2>2, InitTyped DEF LedgerInv
  <1>2. LedgerInv /\ [Next]_vars => LedgerInv'
    <2>1. ASSUME LedgerInv, UNCHANGED vars PROVE LedgerInv'
      <3>1. TypeInv'
        BY <2>1, NextTyped DEF LedgerInv
      <3>. QED
        BY <2>1, <3>1, LedgerFrame
           DEF vars, transportVars, graphVars, consumerVars
    <2>. QED
      BY <2>1, ConsumerLedger, ApprovalLedger, GraphLedger DEF Next
  <1>. QED
    BY <1>1, <1>2, PTL DEF Spec

(* The ledger calls an event completed only when the event it causes is    *)
(* published, whatever failed, crashed or was repeated.                    *)
THEOREM CompletionIsTrue == Spec => []CompletedHasEffect
PROOF
  <1>1. LedgerInv => CompletedHasEffect
    BY DEF LedgerInv
  <1>. QED
    BY <1>1, LedgerInvAlways, PTL

-----------------------------------------------------------------------------
(* Deliveries.  A worker that acknowledges a duplicate knows only what the *)
(* ledger said some time ago: DeliveryInv says what else there is by then. *)
EventPublished(pub, e) == \E p \in pub: p.type = e.type /\ p.case = e.case

Queued(e) == \E m \in queue: m.event = e
Stuck(e) == "crash" \in FaultKinds /\ Orphaned(e)

(* A message of e that no duplicate is about to acknowledge.               *)
Carried(e) ==
  \E m \in queue:
    /\ m.event = e
    /\ \A v \in Workers: worker[v].pc = "duplicate" => worker[v].msg # m

Safe(e) == HasEffect(e) \/ e \in deadLetters \/ Carried(e) \/ Stuck(e)

(* Messages of an event never merge.                                       *)
CopiesApart ==
  \A m1, m2 \in queue: m1.event = m2.event /\ m1.copy = m2.copy => m1 = m2

HeldApart ==
  /\ \A w \in Workers: worker[w].pc # "idle" => worker[w].msg \in queue
  /\ \A w1, w2 \in Workers:
       /\ worker[w1].pc # "idle" /\ worker[w2].pc # "idle"
       /\ worker[w1].msg = worker[w2].msg
       => w1 = w2

(* Only a crash that spares the ledger leaves a claim without its worker.  *)
ProcessingIsHeld ==
  \A e \in EventIds:
    ledger[e] = "processing" =>
      \/ \E w \in Workers: HoldsClaim(w) /\ EventOf(w) = e
      \/ DurableLedger /\ "crash" \in FaultKinds

DuplicatesSafe ==
  \A w \in Workers: worker[w].pc = "duplicate" => Safe(EventOf(w))

DeliveryInv ==
  CopiesApart /\ HeldApart /\ ProcessingIsHeld /\ DuplicatesSafe /\ NoEventLost

LossInv == CausalInv /\ ClaimInv /\ LedgerInv /\ DeliveryInv

(* The exits an event of a publication may have taken.                     *)
Kept(e) == HasEffect(e) \/ e \in deadLetters \/ Queued(e) \/ Stuck(e)

(* A publication brings a message that is unlike every other.              *)
LEMMA PublishApart ==
  ASSUME CopiesApart, QueueBacked, NEW type, NEW c, NEW detail,
         Publish(type, c, detail), type \in ConsumedTypes => detail = "none"
  PROVE  /\ CopiesApart' /\ queue \subseteq queue' /\ published \subseteq published'
         /\ \A e \in EventIds:
              EventPublished(published', e) => EventPublished(published, e) \/ Queued(e)'
PROOF
  <1>. DEFINE msg == Delivery(type, c, detail)
  <1>1. queue \subseteq queue' /\ published \subseteq published'
    BY DEF Publish
  <1>2. CASE type \in ConsumedTypes
    <2>1. msg.event = Event(type, c) /\ queue' = queue \cup {msg}
      BY <1>2 DEF Publish, Delivery
    <2>2. \A m \in queue: m.event = msg.event => m.copy # msg.copy
      <3>1. CASE IsPublished(type, c, detail)
        <4>1. msg.copy \in Unused(Event(type, c))
          BY <1>2, <3>1 DEF Publish, Deliverable, Delivery
        <4>. QED
          BY <2>1, <4>1 DEF Unused
      <3>2. CASE ~IsPublished(type, c, detail)
        BY <1>2, <2>1, <3>2 DEF QueueBacked, MessageBacked, In, IsPublished
      <3>. QED
        BY <3>1, <3>2
    <2>3. CopiesApart'
      BY <2>1, <2>2 DEF CopiesApart
    <2>4. Queued(Event(type, c))'
      BY <2>1 DEF Queued
    <2>5. \A e \in EventIds: EventPublished(published', e) =>
            EventPublished(published, e) \/ e = Event(type, c)
      BY DEF Publish, EventPublished, EventIds
    <2>. QED
      BY <1>1, <2>3, <2>4, <2>5
  <1>3. CASE type \notin ConsumedTypes
    <2>1. \A e \in EventIds: EventPublished(published', e) => EventPublished(published, e)
      BY <1>3 DEF Publish, EventPublished, EventIds
    <2>. QED
      BY <1>1, <1>3, <2>1 DEF Publish, CopiesApart
  <1>. QED
    BY <1>2, <1>3

(* A worker that keeps its message and is no new duplicate, and a queue    *)
(* that grows, disturb nothing but the claims.                             *)
LEMMA DeliveryFrame ==
  ASSUME DeliveryInv, CopiesApart', ProcessingIsHeld',
         queue \subseteq queue', published \subseteq published',
         deadLetters \subseteq deadLetters',
         \A e \in EventIds: Orphaned(e) => Orphaned(e)',
         \A e \in EventIds:
           EventPublished(published', e) => EventPublished(published, e) \/ Queued(e)',
         ConsumersTypeOK,
         \A w \in Workers:
           /\ worker'[w].msg = worker[w].msg
           /\ worker'[w].pc # "idle" => worker[w].pc # "idle"
           /\ worker'[w].pc = "duplicate" => worker[w].pc = "duplicate"
  PROVE  DeliveryInv'
PROOF
  <1>1. HeldApart'
    BY DEF DeliveryInv, HeldApart
  <1>2. \A e \in EventIds: Safe(e) => Safe(e)'
    BY DEF Safe, Carried, HasEffect, Stuck
  <1>3. DuplicatesSafe'
    BY <1>2 DEF DeliveryInv, DuplicatesSafe, ConsumersTypeOK, Messages
  <1>4. NoEventLost'
    <2>1. \A e \in EventIds: EventPublished(published, e) => Kept(e)
      BY DEF DeliveryInv, NoEventLost, EventPublished, Kept, Queued, Stuck
    <2>2. \A e \in EventIds: Kept(e) => Kept(e)'
      BY DEF Kept, HasEffect, Queued, Stuck
    <2>3. \A e \in EventIds: EventPublished(published', e) => Kept(e)'
      BY <2>1, <2>2 DEF Kept
    <2>. QED
      BY <2>3 DEF NoEventLost, EventPublished, Kept, Queued, Stuck
  <1>. QED
    BY <1>1, <1>3, <1>4 DEF DeliveryInv

(* A worker that gives its message back, or settles it, becomes idle.      *)
LEMMA SettleFrame ==
  ASSUME LossInv, NEW w \in Workers, NEW e \in EventIds, e = EventOf(w),
         worker[w].pc # "idle", ~HoldsClaim(w), Idle(w),
         UNCHANGED <<ledger, published>>, deadLetters \subseteq deadLetters',
         queue \ {worker[w].msg} \subseteq queue', CopiesApart',
         \/ HasEffect(e) \/ e \in deadLetters' \/ Stuck(e)
         \/ \E m \in queue': /\ m.event = e
                             /\ \A v \in Workers \ {w}: worker[v].pc = "duplicate" => worker[v].msg # m
  PROVE  DeliveryInv'
PROOF
  <1>a. ConsumersTypeOK /\ DeliveryInv
    BY DEF LossInv, ClaimInv, TypeInv, TypeOK
  <1>1. /\ worker'[w].pc = "idle"
        /\ \A v \in Workers: v # w => worker'[v] = worker[v]
    BY <1>a DEF Idle, IdleWorker, ConsumersTypeOK
  <1>2. HeldApart'
    BY <1>1, <1>a DEF DeliveryInv, HeldApart
  <1>3. ProcessingIsHeld'
    BY <1>1, <1>a DEF DeliveryInv, ProcessingIsHeld, HoldsClaim
  <1>4. \A f \in EventIds: Stuck(f) => Stuck(f)'
    BY <1>1 DEF Stuck, Orphaned, HoldsClaim
  <1>5. Safe(e)' /\ Kept(e)'
    <2>1. CASE Stuck(e)
      BY <2>1, <1>4 DEF Safe, Kept
    <2>2. CASE \E m \in queue': /\ m.event = e
                  /\ \A v \in Workers \ {w}: worker[v].pc = "duplicate" => worker[v].msg # m
      BY <2>2, <1>1 DEF Safe, Kept, Carried, Queued
    <2>. QED
      BY <2>1, <2>2 DEF Safe, Kept, HasEffect
  <1>6. \A f \in EventIds \ {e}: (Safe(f) => Safe(f)') /\ (Kept(f) => Kept(f)')
    <2>. SUFFICES ASSUME NEW f \in EventIds \ {e}
                  PROVE  (Safe(f) => Safe(f)') /\ (Kept(f) => Kept(f)')
      OBVIOUS
    <2>1. \A m \in queue: m.event = f => m \in queue'
      OBVIOUS
    <2>2. Carried(f) => Carried(f)'
      BY <2>1, <1>1 DEF Carried
    <2>3. Queued(f) => Queued(f)'
      BY <2>1 DEF Queued
    <2>. QED
      BY <2>2, <2>3, <1>4 DEF Safe, Kept, HasEffect
  <1>7. DuplicatesSafe'
    <2>. SUFFICES ASSUME NEW v \in Workers, worker'[v].pc = "duplicate" PROVE Safe(EventOf(v))'
      BY DEF DuplicatesSafe
    <2>1. PICK f \in EventIds: f = EventOf(v)
      BY <1>1, <1>a DEF ConsumersTypeOK, Messages
    <2>2. v # w /\ worker'[v] = worker[v] /\ Safe(f)
      BY <2>1, <1>1, <1>a DEF DeliveryInv, DuplicatesSafe
    <2>3. Safe(f)'
      BY <2>2, <1>5, <1>6
    <2>. QED
      BY <2>1, <2>2, <2>3
  <1>8. NoEventLost'
    <2>1. \A f \in EventIds: EventPublished(published, f) => Kept(f)
      BY <1>a DEF DeliveryInv, NoEventLost, EventPublished, Kept, Queued, Stuck
    <2>2. \A f \in EventIds: EventPublished(published', f) => Kept(f)'
      BY <2>1, <1>5, <1>6
    <2>. QED
      BY <2>2 DEF NoEventLost, EventPublished, Kept, Queued, Stuck
  <1>. QED
    BY <1>a, <1>2, <1>3, <1>7, <1>8 DEF DeliveryInv

LEMMA ClaimDelivery ==
  ASSUME LossInv, NEW w \in Workers, Claim(w)
  PROVE  DeliveryInv'
PROOF
  <1>e. PICK e: e = EventOf(w)
    OBVIOUS
  <1>a. ConsumersTypeOK /\ TransportTypeOK /\ DeliveryInv /\ ClaimExclusive /\ CompletedHasEffect
    BY DEF LossInv, ClaimInv, LedgerInv, TypeInv, TypeOK
  <1>b. /\ worker[w].pc = "received" /\ UNCHANGED <<published, queue, deadLetters>>
        /\ e \in EventIds
    BY <1>a, <1>e DEF Claim, ConsumersTypeOK, Messages
  <1>1. CASE Claimable(e)
    <2>1. /\ ledger' = [ledger EXCEPT ![e] = "processing"]
          /\ worker' = [worker EXCEPT ![w].pc = "claimed"]
      BY <1>1, <1>e DEF Claim, SetLedger, Goto
    <2>2. /\ worker'[w].msg = worker[w].msg /\ worker'[w].pc = "claimed"
          /\ \A v \in Workers: v # w => worker'[v] = worker[v]
          /\ \A f \in EventIds: f # e => ledger'[f] = ledger[f]
      BY <2>1, <1>a DEF ConsumersTypeOK, TransportTypeOK
    <2>3. ProcessingIsHeld'
      BY <2>2, <1>a, <1>b, <1>e DEF DeliveryInv, ProcessingIsHeld, HoldsClaim
    <2>4. CopiesApart'
      BY <1>a, <1>b DEF DeliveryInv, CopiesApart
    <2>5. \A f \in EventIds: Orphaned(f) => Orphaned(f)'
      <3>1. ~Orphaned(e)
        BY <1>1 DEF Orphaned, Claimable
      <3>. QED
        BY <3>1, <2>2, <1>e DEF Orphaned, HoldsClaim
    <2>. QED
      BY <1>a, <1>b, <2>2, <2>3, <2>4, <2>5, DeliveryFrame
  <1>2. CASE ~Claimable(e)
    <2>1. /\ worker' = [worker EXCEPT ![w].pc = "duplicate"] /\ ledger' = ledger
          /\ ledger[e] \in {"processing", "completed"}
      BY <1>2, <1>e DEF Claim, Goto, Claimable
    <2>2. /\ worker'[w].msg = worker[w].msg /\ worker'[w].pc = "duplicate"
          /\ \A v \in Workers: v # w => worker'[v] = worker[v]
      BY <2>1, <1>a DEF ConsumersTypeOK
    <2>3. HeldApart' /\ CopiesApart'
      BY <2>2, <1>a, <1>b DEF DeliveryInv, HeldApart, CopiesApart
    <2>8. \A v \in Workers: HoldsClaim(v)' <=> HoldsClaim(v)
      BY <2>2, <1>b DEF HoldsClaim
    <2>4. ProcessingIsHeld'
      BY <2>1, <2>2, <2>8, <1>a DEF DeliveryInv, ProcessingIsHeld
    <2>9. \A f \in EventIds: Stuck(f) <=> Stuck(f)'
      BY <2>1, <2>2, <2>8 DEF Stuck, Orphaned
    (* Who processes e holds another message of it, or is dead.            *)
    <2>5. Safe(e)'
      <3>1. CASE ledger[e] = "completed"
        BY <3>1, <1>a, <1>b DEF CompletedHasEffect, Safe, HasEffect
      <3>2. CASE ledger[e] = "processing" /\ \E h \in Workers: HoldsClaim(h) /\ EventOf(h) = e
        <4>1. PICK h \in Workers: HoldsClaim(h) /\ EventOf(h) = e
          BY <3>2
        <4>2. h # w /\ worker[h].pc # "idle" /\ worker[h].pc # "duplicate"
          BY <4>1, <1>b DEF HoldsClaim
        <4>3. /\ worker[h].msg \in queue'
              /\ \A v \in Workers: worker'[v].pc = "duplicate" => worker'[v].msg # worker[h].msg
          BY <4>2, <2>2, <1>a, <1>b DEF DeliveryInv, HeldApart
        <4>. QED
          BY <4>1, <4>3 DEF Safe, Carried
      <3>3. CASE ledger[e] = "processing" /\ ~\E h \in Workers: HoldsClaim(h) /\ EventOf(h) = e
        <4>1. Stuck(e)
          BY <3>3, <1>a, <1>b DEF DeliveryInv, ProcessingIsHeld, Stuck, Orphaned
        <4>. QED
          BY <4>1, <2>9, <1>b DEF Safe
      <3>. QED
        BY <2>1, <3>1, <3>2, <3>3
    <2>6. ASSUME NEW v \in Workers, worker'[v].pc = "duplicate" PROVE Safe(EventOf(v))'
      <3>1. PICK f \in EventIds: f = EventOf(v)
        BY <2>2, <2>6, <1>a, <1>b DEF ConsumersTypeOK, Messages
      <3>2. EventOf(v)' = f
        BY <2>2, <3>1
      <3>3. CASE f # e
        <4>1. v # w /\ worker'[v] = worker[v] /\ Safe(f)
          BY <3>1, <3>3, <2>2, <2>6, <1>a, <1>e DEF DeliveryInv, DuplicatesSafe
        <4>2. Carried(f) => Carried(f)'
          BY <2>2, <3>3, <1>b, <1>e DEF Carried
        <4>. QED
          BY <4>1, <4>2, <3>2, <2>9, <1>b DEF Safe, HasEffect
      <3>. QED
        BY <3>2, <3>3, <2>5
    <2>7. NoEventLost'
      <3>1. \A f \in EventIds: EventPublished(published, f) => Kept(f)
        BY <1>a DEF DeliveryInv, NoEventLost, EventPublished, Kept, Queued, Stuck
      <3>2. \A f \in EventIds: EventPublished(published', f) => Kept(f)'
        BY <3>1, <2>9, <1>b DEF Kept, Queued, HasEffect
      <3>. QED
        BY <3>2 DEF NoEventLost, EventPublished, Kept, Queued, Stuck
    <2>. QED
      BY <2>3, <2>4, <2>6, <2>7 DEF DeliveryInv, DuplicatesSafe
  <1>. QED
    BY <1>1, <1>2

(* An acknowledgement, a retry or a dead-letter.                           *)
LEMMA SettleDelivery ==
  ASSUME LossInv, NEW w \in Workers,
         \/ DeadLetterInvalid(w) \/ AckDuplicate(w) \/ AckCompleted(w)
         \/ RetryOrDeadLetter(w)
  PROVE  DeliveryInv'
PROOF
  <1>. DEFINE m0 == worker[w].msg
  <1>e. PICK e: e = EventOf(w)
    OBVIOUS
  <1>a. ConsumersTypeOK /\ DeliveryInv
    BY DEF LossInv, ClaimInv, TypeInv, TypeOK
  <1>b. /\ worker[w].pc # "idle" /\ ~HoldsClaim(w) /\ Idle(w)
        /\ UNCHANGED <<ledger, published>> /\ deadLetters \subseteq deadLetters'
    BY DEF DeadLetterInvalid, AckDuplicate, AckCompleted, RetryOrDeadLetter, HoldsClaim,
       DeadLetter
  <1>c. m0 \in queue /\ m0 \in Messages /\ e \in EventIds
    BY <1>a, <1>b, <1>e DEF DeliveryInv, HeldApart, ConsumersTypeOK, Messages
  <1>1. CASE queue' = queue \ {m0} /\ (HasEffect(e) \/ e \in deadLetters' \/ AckDuplicate(w))
    <2>1. CopiesApart'
      BY <1>1, <1>a DEF DeliveryInv, CopiesApart
    <2>2. AckDuplicate(w) => Safe(e)
      BY <1>a, <1>e DEF AckDuplicate, DeliveryInv, DuplicatesSafe
    <2>3. AckDuplicate(w) /\ Carried(e) =>
            \E m \in queue': m.event = e
               /\ \A v \in Workers \ {w}: worker[v].pc = "duplicate" => worker[v].msg # m
      BY <1>1 DEF AckDuplicate, Carried
    <2>4. HasEffect(e) \/ e \in deadLetters' \/ Stuck(e)
            \/ \E m \in queue': m.event = e
                 /\ \A v \in Workers \ {w}: worker[v].pc = "duplicate" => worker[v].msg # m
      BY <1>1, <1>b, <2>2, <2>3 DEF Safe
    <2>. QED
      BY <1>1, <1>b, <1>c, <1>e, <2>1, <2>4, SettleFrame
  <1>2. CASE Retry(m0)
    <2>. DEFINE next == [m0 EXCEPT !.attempt = @ + 1]
    <2>1. queue' = (queue \ {m0}) \cup {next}
      BY <1>2 DEF Retry
    <2>2. next.event = e /\ next.copy = m0.copy /\ next # m0
      BY <1>c, <1>e DEF Messages
    <2>3. CopiesApart'
      <3>1. \A m \in queue \ {m0}: ~(m.event = next.event /\ m.copy = next.copy)
        BY <2>2, <1>a, <1>c, <1>e DEF DeliveryInv, CopiesApart
      <3>. HIDE DEF next
      <3>. QED
        BY <2>1, <3>1, <1>a DEF DeliveryInv, CopiesApart
    <2>4. \A v \in Workers \ {w}: worker[v].pc = "duplicate" => worker[v].msg # next
      <3>1. next \notin queue
        BY <2>2, <1>a, <1>c, <1>e DEF DeliveryInv, CopiesApart
      <3>2. \A v \in Workers: worker[v].pc = "duplicate" => worker[v].msg \in queue
        BY <1>a DEF DeliveryInv, HeldApart
      <3>. QED
        BY <3>1, <3>2
    <2>5. \E m \in queue': m.event = e
                 /\ \A v \in Workers \ {w}: worker[v].pc = "duplicate" => worker[v].msg # m
      BY <2>1, <2>2, <2>4
    <2>. QED
      BY <1>b, <1>c, <1>e, <2>1, <2>3, <2>5, SettleFrame
  <1>3. CASE DeadLetterInvalid(w)
    BY <1>3, <1>1, <1>e DEF DeadLetterInvalid, DeadLetter
  <1>4. CASE AckDuplicate(w)
    BY <1>4, <1>1 DEF AckDuplicate, Ack
  <1>5. CASE AckCompleted(w)
    <2>1. HasEffect(e)
      BY <1>5, <1>e DEF LossInv, LedgerInv, WorkerHasEffect, EffectIn, HasEffect, AckCompleted
    <2>. QED
      BY <1>5, <1>1, <2>1 DEF AckCompleted, Ack
  <1>6. CASE RetryOrDeadLetter(w)
    BY <1>6, <1>1, <1>2, <1>e DEF RetryOrDeadLetter, DeadLetter
  <1>. QED
    BY <1>3, <1>4, <1>5, <1>6

(* Everything else a consumer does.                                        *)
LEMMA WorkDelivery ==
  ASSUME LossInv, NEW w \in Workers,
         \/ StartCase(w) \/ CollectEvidence(w) \/ CollectionRaises(w)
         \/ StartReasoning(w) \/ RunEnds(w) \/ Complete(w) \/ Release(w)
  PROVE  DeliveryInv'
PROOF
  <1>a. ConsumersTypeOK /\ TransportTypeOK /\ DeliveryInv /\ QueueBacked /\ ClaimExclusive
    BY DEF LossInv, CausalInv, ClaimInv, TypeInv, TypeOK
  <1>1. /\ HoldsClaim(w) /\ deadLetters' = deadLetters
        /\ \A v \in Workers: worker'[v].msg = worker[v].msg /\ (v # w => worker'[v] = worker[v])
        /\ worker'[w].pc \notin {"idle", "duplicate"}
    BY <1>a DEF StartCase, CollectEvidence, CollectionRaises, StartReasoning, RunEnds, Complete,
       Release, Goto, HoldsClaim, ConsumersTypeOK, transportVars
  <1>2. /\ CopiesApart' /\ queue \subseteq queue' /\ published \subseteq published'
        /\ \A e \in EventIds:
             EventPublished(published', e) => EventPublished(published, e) \/ Queued(e)'
    <2>1. CASE UNCHANGED <<queue, published>>
      BY <2>1, <1>a DEF DeliveryInv, CopiesApart
    <2>2. CASE Publish("evidence_ready", EventOf(w).case, "none")
      BY <2>2, <1>a, PublishApart DEF DeliveryInv
    <2>. QED
      BY <2>1, <2>2 DEF StartCase, CollectEvidence, CollectionRaises, StartReasoning, RunEnds,
         Complete, Release, transportVars
  <1>3. ProcessingIsHeld' /\ \A e \in EventIds: Orphaned(e) => Orphaned(e)'
    <2>1. CASE HoldsClaim(w)' /\ ledger' = ledger
      <3>1. \A v \in Workers: HoldsClaim(v) <=> HoldsClaim(v)'
        BY <1>1, <2>1 DEF HoldsClaim
      <3>. QED
        BY <3>1, <1>1, <2>1, <1>a DEF DeliveryInv, ProcessingIsHeld, Orphaned
    <2>2. CASE Complete(w) \/ Release(w)
      <3>1. PICK s \in {"completed", "absent"}: ledger' = [ledger EXCEPT ![EventOf(w)] = s]
        BY <2>2 DEF Complete, Release, SetLedger
      <3>2. \A e \in EventIds: ledger'[e] = "processing" => ledger[e] = "processing" /\ e # EventOf(w)
        BY <3>1, <1>a DEF TransportTypeOK
      <3>3. \A e \in EventIds: Orphaned(e) => Orphaned(e)'
        <4>1. \A e \in EventIds: Orphaned(e) => e # EventOf(w) /\ ledger'[e] = "processing"
          BY <3>1, <1>1, <1>a DEF Orphaned, TransportTypeOK
        <4>2. \A v \in Workers: HoldsClaim(v)' /\ v # w => HoldsClaim(v)
          BY <1>1 DEF HoldsClaim
        <4>. QED
          BY <4>1, <4>2, <1>1 DEF Orphaned
      <3>. QED
        BY <3>2, <3>3, <1>1, <1>a DEF DeliveryInv, ProcessingIsHeld, HoldsClaim
    <2>. QED
      BY <2>1, <2>2, <1>1, <1>a DEF StartCase, CollectEvidence, CollectionRaises, StartReasoning,
         RunEnds, Goto, HoldsClaim, ConsumersTypeOK, transportVars
  <1>. QED
    BY <1>a, <1>1, <1>2, <1>3, DeliveryFrame DEF HoldsClaim

LEMMA ReceiveDelivery ==
  ASSUME LossInv, NEW w \in Workers, Receive(w)
  PROVE  DeliveryInv'
PROOF
  <1>a. ConsumersTypeOK /\ DeliveryInv
    BY DEF LossInv, ClaimInv, TypeInv, TypeOK
  <1>1. PICK m \in queue:
          /\ \A v \in Workers: worker[v].msg # m
          /\ worker' = [worker EXCEPT ![w] = [pc |-> "received", msg |-> m]]
    BY DEF Receive
  <1>2. /\ worker'[w] = [pc |-> "received", msg |-> m]
        /\ \A v \in Workers: v # w => worker'[v] = worker[v]
        /\ worker[w].pc = "idle" /\ UNCHANGED <<published, queue, deadLetters, ledger>>
    BY <1>1, <1>a DEF Receive, ConsumersTypeOK, transportVars
  <1>3. HeldApart' /\ CopiesApart' /\ ProcessingIsHeld'
    <2>1. HeldApart'
      BY <1>1, <1>2, <1>a DEF DeliveryInv, HeldApart
    <2>2. CopiesApart'
      BY <1>2, <1>a DEF DeliveryInv, CopiesApart
    <2>3. ProcessingIsHeld'
      BY <1>2, <1>a DEF DeliveryInv, ProcessingIsHeld, HoldsClaim
    <2>. QED
      BY <2>1, <2>2, <2>3
  <1>4. \A e \in EventIds: Stuck(e) => Stuck(e)'
    BY <1>2 DEF Stuck, Orphaned, HoldsClaim
  <1>5. \A e \in EventIds: (Safe(e) => Safe(e)') /\ (Kept(e) => Kept(e)')
    <2>1. \A e \in EventIds: Carried(e) => Carried(e)'
      BY <1>2 DEF Carried
    <2>. QED
      BY <1>2, <1>4, <2>1 DEF Safe, Kept, Queued, HasEffect
  <1>6. DuplicatesSafe'
    <2>. SUFFICES ASSUME NEW v \in Workers, worker'[v].pc = "duplicate" PROVE Safe(EventOf(v))'
      BY DEF DuplicatesSafe
    <2>1. v # w /\ worker'[v] = worker[v] /\ EventOf(v) \in EventIds /\ Safe(EventOf(v))
      BY <1>2, <1>a DEF DeliveryInv, DuplicatesSafe, ConsumersTypeOK, Messages
    <2>2. PICK f \in EventIds: f = EventOf(v)
      BY <2>1
    <2>. QED
      BY <2>1, <2>2, <1>5
  <1>7. NoEventLost'
    <2>1. \A f \in EventIds: EventPublished(published, f) => Kept(f)
      BY <1>a DEF DeliveryInv, NoEventLost, EventPublished, Kept, Queued, Stuck
    <2>2. \A f \in EventIds: EventPublished(published', f) => Kept(f)'
      BY <2>1, <1>2, <1>5
    <2>. QED
      BY <2>2 DEF NoEventLost, EventPublished, Kept, Queued, Stuck
  <1>. QED
    BY <1>3, <1>6, <1>7 DEF DeliveryInv

(* A crash gives the message back; its claim stays, or the ledger and      *)
(* every worker are gone with it.                                          *)
LEMMA CrashDelivery ==
  ASSUME LossInv, NEW w \in Workers, WorkerCrash(w)
  PROVE  DeliveryInv'
PROOF
  <1>a. ConsumersTypeOK /\ DeliveryInv /\ "crash" \in FaultKinds
    BY DEF LossInv, ClaimInv, TypeInv, TypeOK, WorkerCrash, Inject
  <1>b. UNCHANGED <<published, queue, deadLetters>>
    BY DEF WorkerCrash
  <1>c. CopiesApart'
    BY <1>a, <1>b DEF DeliveryInv, CopiesApart
  <1>d. \A f \in EventIds: EventPublished(published, f) => Kept(f)
    BY <1>a DEF DeliveryInv, NoEventLost, EventPublished, Kept, Queued, Stuck
  <1>1. CASE DurableLedger
    <2>1. /\ worker'[w].pc = "idle" /\ ledger' = ledger
          /\ \A v \in Workers: v # w => worker'[v] = worker[v]
      BY <1>1, <1>a DEF WorkerCrash, Idle, IdleWorker, ConsumersTypeOK
    <2>2. HeldApart'
      BY <2>1, <1>a, <1>b DEF DeliveryInv, HeldApart
    <2>3. ProcessingIsHeld'
      BY <1>1, <1>a DEF ProcessingIsHeld
    <2>4. \A e \in EventIds: Stuck(e) => Stuck(e)'
      BY <2>1 DEF Stuck, Orphaned, HoldsClaim
    <2>5. \A e \in EventIds: (Safe(e) => Safe(e)') /\ (Kept(e) => Kept(e)')
      <3>1. \A e \in EventIds: Carried(e) => Carried(e)'
        BY <2>1, <1>b DEF Carried
      <3>. QED
        BY <1>b, <2>4, <3>1 DEF Safe, Kept, Queued, HasEffect
    <2>6. DuplicatesSafe'
      <3>. SUFFICES ASSUME NEW v \in Workers, worker'[v].pc = "duplicate" PROVE Safe(EventOf(v))'
        BY DEF DuplicatesSafe
      <3>1. v # w /\ worker'[v] = worker[v] /\ EventOf(v) \in EventIds /\ Safe(EventOf(v))
        BY <2>1, <1>a DEF DeliveryInv, DuplicatesSafe, ConsumersTypeOK, Messages
      <3>2. PICK f \in EventIds: f = EventOf(v)
        BY <3>1
      <3>. QED
        BY <3>1, <3>2, <2>5
    <2>7. NoEventLost'
      <3>1. \A f \in EventIds: EventPublished(published', f) => Kept(f)'
        BY <1>b, <1>d, <2>5
      <3>. QED
        BY <3>1 DEF NoEventLost, EventPublished, Kept, Queued, Stuck
    <2>. QED
      BY <1>c, <2>2, <2>3, <2>6, <2>7 DEF DeliveryInv
  <1>2. CASE ~DurableLedger
    <2>1. /\ worker' = [v \in Workers |-> IdleWorker]
          /\ ledger' = [e \in EventIds |-> "absent"]
      BY <1>2 DEF WorkerCrash
    <2>2. \A v \in Workers: worker'[v].pc = "idle"
      BY <2>1 DEF IdleWorker
    <2>3. \A e \in EventIds: ledger'[e] # "processing"
      BY <2>1
    (* Nobody's claim was left behind, so a message is there.              *)
    <2>4. \A e \in EventIds: EventPublished(published, e) =>
            HasEffect(e) \/ e \in deadLetters \/ Queued(e)
      <3>1. \A e \in EventIds: ~Stuck(e)
        BY <1>2, <1>a DEF DeliveryInv, ProcessingIsHeld, Stuck, Orphaned
      <3>. QED
        BY <1>d, <3>1 DEF Kept
    <2>5. NoEventLost'
      BY <1>b, <2>4 DEF NoEventLost, EventPublished, Queued, HasEffect
    <2>. QED
      BY <1>c, <2>2, <2>3, <2>5 DEF DeliveryInv, HeldApart, ProcessingIsHeld, DuplicatesSafe
  <1>. QED
    BY <1>1, <1>2

(* A message delivered once more has a number of its own.                  *)
LEMMA RedeliverApart ==
  ASSUME CopiesApart, TransportTypeOK, RedeliverMessage
  PROVE  CopiesApart' /\ queue \subseteq queue'
PROOF
  <1>1. PICK m \in queue: Redeliver(m)
    BY DEF RedeliverMessage
  <1>2. PICK n \in Unused(m.event): queue' = queue \cup {[m EXCEPT !.copy = n]}
    BY <1>1 DEF Redeliver
  <1>3. PICK d: d = [m EXCEPT !.copy = n]
    OBVIOUS
  <1>4. d.event = m.event /\ d.copy = n
    BY <1>3 DEF TransportTypeOK, Messages
  <1>5. \A o \in queue: o.event = d.event => o.copy # d.copy
    BY <1>2, <1>4 DEF Unused
  <1>6. queue' = queue \cup {d}
    BY <1>2, <1>3
  <1>7. CopiesApart'
    BY <1>5, <1>6 DEF CopiesApart
  <1>. QED
    BY <1>6, <1>7

LEMMA NextDelivery ==
  ASSUME LossInv, [Next]_vars PROVE DeliveryInv'
PROOF
  <1>a. DeliveryInv /\ QueueBacked /\ ConsumersTypeOK /\ TransportTypeOK
    BY DEF LossInv, CausalInv, ClaimInv, TypeInv, TypeOK
  <1>0. ASSUME UNCHANGED <<worker, ledger, deadLetters>>, CopiesApart', queue \subseteq queue',
               published \subseteq published',
               \A e \in EventIds:
                 EventPublished(published', e) => EventPublished(published, e) \/ Queued(e)'
        PROVE  DeliveryInv'
    <2>1. ProcessingIsHeld' /\ \A e \in EventIds: Orphaned(e) => Orphaned(e)'
      BY <1>0, <1>a DEF DeliveryInv, ProcessingIsHeld, HoldsClaim, Orphaned
    <2>. QED
      BY <1>0, <1>a, <2>1, DeliveryFrame
  <1>1. ASSUME UNCHANGED <<worker, ledger, deadLetters, queue, published>>
        PROVE  DeliveryInv'
    <2>1. CopiesApart'
      BY <1>1, <1>a DEF DeliveryInv, CopiesApart
    <2>. QED
      BY <1>0, <1>1, <2>1
  <1>2. CASE ConsumerSide
    <2>1. ASSUME NEW c \in Cases, PublishAlert(c) PROVE DeliveryInv'
      BY <2>1, <1>0, <1>a, PublishApart DEF PublishAlert, DeliveryInv
    <2>2. ASSUME NEW w \in Workers, ConsumerStep(w) \/ ConsumerFault(w)
          PROVE  DeliveryInv'
      BY <2>2, ClaimDelivery, SettleDelivery, WorkDelivery, ReceiveDelivery, CrashDelivery
         DEF ConsumerStep, ConsumerFault
    <2>3. ASSUME RedeliverMessage PROVE DeliveryInv'
      <3>1. UNCHANGED <<worker, ledger, deadLetters, published>>
        BY <2>3 DEF RedeliverMessage
      <3>. QED
        BY <2>3, <3>1, <1>0, <1>a, RedeliverApart DEF DeliveryInv
    <2>. QED
      BY <1>2, <2>1, <2>2, <2>3 DEF ConsumerSide
  <1>3. CASE ApprovalSide
    BY <1>3, <1>1 DEF ApprovalSide, consumerVars, ApprovalStep, Submit, ResumeInterrupt,
       RepublishOrder, ResumeResult, ResumeTimeout, ReplicaCrash, transportVars
  <1>4. CASE GraphSide
    <2>1. PICK a \in Runners: GraphStep(a) \/ CallRaises(a)
      BY <1>4 DEF GraphSide
    <2>2. UNCHANGED <<worker, ledger, deadLetters>>
      BY <2>1, <1>4 DEF GraphSide, consumerVars, GraphStep, RequestEvidence, PrepareCaseForReview,
         Interrupt, HumanApproval, RequestExecutionOrder, Commit, NodeRaises, CallRaises,
         NodeReturns, transportVars
    <2>3. CASE RequestEvidence(a)
      BY <2>2, <2>3, <1>0, <1>a, PublishApart DEF RequestEvidence, DeliveryInv
    <2>4. CASE PrepareCaseForReview(a)
      BY <2>2, <2>4, <1>0, <1>a, PublishApart
         DEF PrepareCaseForReview, DeliveryInv, ConsumedTypes
    <2>5. CASE HumanApproval(a) \/ RequestExecutionOrder(a)
      BY <2>2, <2>5, <1>0, <1>1, <1>a, PublishApart
         DEF HumanApproval, RequestExecutionOrder, DeliveryInv, ConsumedTypes
    <2>6. CASE Interrupt(a) \/ Commit(a) \/ NodeRaises(a) \/ CallRaises(a)
      BY <2>2, <2>6, <1>1 DEF Interrupt, Commit, NodeRaises, CallRaises, transportVars
    <2>. QED
      BY <2>1, <2>3, <2>4, <2>5, <2>6 DEF GraphStep
  <1>5. CASE UNCHANGED vars
    BY <1>5, <1>1 DEF vars, transportVars, consumerVars
  <1>. QED
    BY <1>2, <1>3, <1>4, <1>5 DEF Next

(* consumers.py, _claim and _retry_or_dead_letter: whatever is duplicated, *)
(* retried, failed or crashed, a published event has its effect, is        *)
(* dead-lettered or has a message to be settled; or a crash has left its   *)
(* claim in the ledger.                                                    *)
THEOREM EventsAreKept == Spec => []NoEventLost
PROOF
  <1>1. Init => DeliveryInv
    BY DEF Init, TransportInit, ConsumersInit, IdleWorker, DeliveryInv, CopiesApart, HeldApart,
       ProcessingIsHeld, DuplicatesSafe, NoEventLost
  <1>2. LossInv /\ [Next]_vars => DeliveryInv'
    BY NextDelivery
  <1>3. Spec => []CausalInv /\ []ClaimInv /\ []LedgerInv
    BY Causality, ClaimInvAlways, LedgerInvAlways
  <1>4. CausalInv /\ ClaimInv /\ LedgerInv /\ DeliveryInv => LossInv
    BY DEF LossInv
  <1>5. DeliveryInv => NoEventLost
    BY DEF DeliveryInv
  <1>. QED
    BY <1>1, <1>2, <1>3, <1>4, <1>5, PTL DEF Spec

-----------------------------------------------------------------------------
(* Decisions.  What each runner's run can be at, and what a node leaves in *)
(* the values it returns.                                                  *)
OneReplica == \A r1, r2 \in Replicas: r1 = r2

RunShape(r) ==
  r.ran =>
    /\ r.node = "request_evidence" => r.values.stage = "evidence_requested"
    /\ r.node = "prepare_case_for_review" => r.values.stage = "review_requested"
    /\ r.node = "human_approval" =>
         r.resume # "none" /\ r.values.stage = r.resume /\ r.values.decision = r.resume
    /\ r.node = "request_execution_order" =>
         r.values.stage = "execution_requested" /\ r.values.decision = "approved"

RequestRun(entry, r) ==
  r.node # "idle" =>
    /\ entry.pc = "running" /\ r.case = entry.case
    /\ r.node \in {"human_approval", "request_execution_order", "returned", "raised"}
    /\ r.node = "human_approval" => r.resume # "none"

(* Each process serves the requests of a case one at a time.               *)
LockInv ==
  \A q1, q2 \in Requests:
    /\ Active(q1) /\ Active(q2)
    /\ request[q1].case = request[q2].case /\ request[q1].replica = request[q2].replica
    => q1 = q2

RunInv ==
  /\ TypeInv
  /\ LockInv
  /\ \A a \in Runners: RunShape(run[a])
  /\ \A w \in Workers: run[w].node # "idle" => worker[w].pc = "running"
  /\ \A q \in Requests: RequestRun(request[q], run[q])

LEMMA RunFrame ==
  ASSUME RunInv, TypeInv', LockInv',
         \A w \in Workers:
           \/ run'[w] = run[w] /\ (worker'[w].pc = worker[w].pc \/ worker[w].pc # "running")
           \/ RunShape(run'[w]) /\ (run'[w].node = "idle" \/ worker'[w].pc = "running"),
         \A q \in Requests:
           \/ run'[q] = run[q] /\ (request'[q] = request[q] \/ request[q].pc # "running")
           \/ RunShape(run'[q]) /\ RequestRun(request'[q], run'[q])
  PROVE  RunInv'
PROOF
  <1>1. \A w \in Workers: /\ RunShape(run'[w])
                          /\ run'[w].node # "idle" => worker'[w].pc = "running"
    BY DEF RunInv, Runners
  <1>2. \A q \in Requests: RunShape(run'[q]) /\ RequestRun(request'[q], run'[q])
    BY DEF RunInv, Runners, RequestRun
  <1>. QED
    BY <1>1, <1>2 DEF RunInv, Runners

(* A run that begins has run no node; an idle one has nothing.             *)
LEMMA BeginShape ==
  ASSUME GraphTypeOK, NEW a \in Runners, NEW c, NEW node, NEW values, NEW resume,
         Begin(a, c, node, values, resume)
  PROVE  /\ run'[a] = [node |-> node, ran |-> FALSE, case |-> c, values |-> values,
                       resume |-> resume]
         /\ RunShape(run'[a])
         /\ \A b \in Runners: b # a => run'[b] = run[b]
PROOF
  BY DEF Begin, GraphTypeOK, RunShape

LEMMA ConsumerRunInv ==
  ASSUME RunInv, ConsumerSide PROVE RunInv'
PROOF
  <1>a. TypeInv' /\ ConsumersTypeOK /\ GraphTypeOK
    BY ConsumerTyped DEF RunInv, TypeInv, TypeOK
  <1>b. request' = request /\ LockInv'
    BY DEF ConsumerSide, approvalVars, RunInv, LockInv, Active
  <1>c. Workers \subseteq Runners /\ Requests \subseteq Runners /\ Workers \cap Requests = {}
    BY RunnersAssumption DEF Runners
  <1>d. RunShape(IdleRun) /\ IdleRun.node = "idle"
    BY DEF RunShape, IdleRun
  <1>1. ASSUME NEW c \in Cases, PublishAlert(c) PROVE RunInv'
    BY <1>1, <1>a, <1>b, RunFrame DEF PublishAlert, graphVars
  <1>7. RedeliverMessage => RunInv'
    BY <1>a, <1>b, RunFrame DEF RedeliverMessage, graphVars
  <1>2. ASSUME NEW w \in Workers, UNCHANGED run, worker[w].pc # "running",
               \A v \in Workers: v # w => worker'[v] = worker[v]
        PROVE  RunInv'
    BY <1>2, <1>a, <1>b, RunFrame
  <1>3. ASSUME NEW w \in Workers,
               \/ Receive(w) \/ DeadLetterInvalid(w) \/ Claim(w) \/ AckDuplicate(w)
               \/ AckCompleted(w) \/ Release(w) \/ RetryOrDeadLetter(w) \/ Complete(w)
               \/ CollectEvidence(w) \/ CollectionRaises(w)
        PROVE RunInv'
    <2>1. /\ UNCHANGED run /\ worker[w].pc # "running"
          /\ \A v \in Workers: v # w => worker'[v] = worker[v]
      BY <1>3, <1>a DEF Receive, DeadLetterInvalid, Claim, AckDuplicate, AckCompleted, Release,
         RetryOrDeadLetter, Complete, CollectEvidence, CollectionRaises, Idle, Goto, graphVars,
         ConsumersTypeOK
    <2>. QED
      BY <2>1, <1>2
  <1>4. ASSUME NEW w \in Workers, StartCase(w) \/ StartReasoning(w) PROVE RunInv'
    <2>1. PICK c, node, values: Begin(w, c, node, values, "none")
      BY <1>4 DEF StartCase, StartReasoning, InvokeInput, InvokeGoto
    <2>2. worker'[w].pc = "running" /\ \A v \in Workers: v # w => worker'[v] = worker[v]
      BY <1>4, <1>a DEF StartCase, StartReasoning, Goto, ConsumersTypeOK
    <2>3. RunShape(run'[w]) /\ \A b \in Runners: b # w => run'[b] = run[b]
      BY <2>1, <1>a, <1>c, BeginShape
    <2>. QED
      BY <1>a, <1>b, <1>c, <2>2, <2>3, RunFrame
  <1>5. ASSUME NEW w \in Workers, RunEnds(w) PROVE RunInv'
    <2>1. run' = [run EXCEPT ![w] = IdleRun] /\ \A v \in Workers: v # w => worker'[v] = worker[v]
      BY <1>5, <1>a DEF RunEnds, Goto, ConsumersTypeOK
    <2>2. run'[w] = IdleRun /\ \A b \in Runners: b # w => run'[b] = run[b]
      BY <2>1, <1>a, <1>c DEF GraphTypeOK
    <2>. QED
      BY <1>a, <1>b, <1>c, <1>d, <2>1, <2>2, RunFrame
  <1>6. ASSUME NEW w \in Workers, WorkerCrash(w) PROVE RunInv'
    <2>1. CASE DurableLedger
      <3>1. /\ worker' = [worker EXCEPT ![w] = IdleWorker]
            /\ run' = [run EXCEPT ![w] = IdleRun]
        BY <1>6, <2>1 DEF WorkerCrash, Idle
      <3>2. /\ run'[w] = IdleRun /\ \A b \in Runners: b # w => run'[b] = run[b]
            /\ \A v \in Workers: v # w => worker'[v] = worker[v]
        BY <3>1, <1>a, <1>c DEF GraphTypeOK, ConsumersTypeOK
      <3>. QED
        BY <1>a, <1>b, <1>c, <1>d, <3>2, RunFrame
    <2>2. CASE ~DurableLedger
      <3>1. run' = [a \in Runners |-> IF a \in Workers THEN IdleRun ELSE run[a]]
        BY <1>6, <2>2 DEF WorkerCrash
      <3>2. /\ \A v \in Workers: run'[v] = IdleRun
            /\ \A q \in Requests: run'[q] = run[q]
        BY <3>1, <1>c
      <3>. QED
        BY <1>a, <1>b, <1>d, <3>2, RunFrame
    <2>. QED
      BY <2>1, <2>2
  <1>. QED
    BY <1>1, <1>3, <1>4, <1>5, <1>6, <1>7 DEF ConsumerSide, ConsumerStep, ConsumerFault

LEMMA ApprovalRunInv ==
  ASSUME RunInv, ApprovalSide PROVE RunInv'
PROOF
  <1>a. TypeInv' /\ ApprovalTypeOK /\ GraphTypeOK /\ LockInv
    BY ApprovalTyped DEF RunInv, TypeInv, TypeOK
  <1>b. worker' = worker
    BY DEF ApprovalSide, consumerVars
  <1>c. Workers \subseteq Runners /\ Requests \subseteq Runners /\ Workers \cap Requests = {}
    BY RunnersAssumption DEF Runners
  <1>d. RunShape(IdleRun) /\ \A entry: RequestRun(entry, IdleRun)
    BY DEF RunShape, IdleRun, RequestRun
  (* Requests that stay active, or stop, keep the lock's promise.          *)
  <1>e. ASSUME \A q \in Requests:
                 Active(q)' =>
                   /\ Active(q) /\ request'[q].case = request[q].case
                   /\ request'[q].replica = request[q].replica
        PROVE  LockInv'
    BY <1>a, <1>e DEF LockInv
  <1>1. ASSUME NEW q \in Requests, NEW r \in Replicas, NEW c \in Cases, NEW d \in Decisions,
               NEW cred \in Credentials, Submit(q, r, c, d, cred)
        PROVE  RunInv'
    <2>1. /\ request[q].pc = "new" /\ UNCHANGED run
          /\ \A p \in Requests: p # q => request'[p] = request[p]
      BY <1>1, <1>a DEF Submit, Finish, graphVars, ApprovalTypeOK
    <2>2. LockInv'
      <3>1. CASE Active(q)'
        <4>1. LockFree(r, c) /\ request'[q].case = c /\ request'[q].replica = r
          <5>1. ASSUME NEW o, Finish(q, o) PROVE FALSE
            <6>1. request'[q] = Ended(request[q], o)
              BY <5>1, <1>a DEF Finish, ApprovalTypeOK
            <6>. QED
              BY <6>1, <3>1, <1>a DEF Ended, Active, ApprovalTypeOK
          <5>2. /\ LockFree(r, c)
                /\ \E entry: /\ entry.case = c /\ entry.replica = r
                              /\ request' = [request EXCEPT ![q] = entry]
            BY <1>1, <5>1 DEF Submit
          <5>. QED
            BY <5>2, <1>a DEF ApprovalTypeOK
        <4>2. \A p \in Requests: Active(p) => ~(request[p].case = c /\ request[p].replica = r)
          BY <4>1 DEF LockFree
        <4>. QED
          BY <2>1, <4>1, <4>2, <1>a DEF LockInv, Active
      <3>2. CASE ~Active(q)'
        BY <2>1, <3>2, <1>e DEF Active
      <3>. QED
        BY <3>1, <3>2
    <2>. QED
      BY <1>a, <1>b, <2>1, <2>2, RunFrame
  <1>2. ASSUME NEW q \in Requests, ResumeInterrupt(q) \/ RepublishOrder(q) PROVE RunInv'
    <2>0. /\ request[q].pc = "admitted" /\ request[q].case \in Cases
          /\ request[q].decision \in Decisions
          /\ request' = [request EXCEPT ![q].pc = "running"]
      BY <1>2, <1>a DEF ResumeInterrupt, RepublishOrder, ApprovalTypeOK, Active
    <2>1. /\ request'[q].pc = "running" /\ request'[q].case = request[q].case
          /\ request'[q].replica = request[q].replica
          /\ \A p \in Requests: p # q => request'[p] = request[p]
      BY <2>0, <1>a DEF ApprovalTypeOK
    <2>2. PICK node, values, resume:
            /\ node \in {"human_approval", "request_execution_order", "returned"}
            /\ Begin(q, request[q].case, node, values, resume)
            /\ node = "human_approval" => resume # "none"
      <3>1. CASE RepublishOrder(q)
        BY <3>1 DEF RepublishOrder, InvokeInput, RouteStage
      <3>2. CASE ResumeInterrupt(q)
        <4>1. \A r \in ResumeValues(request[q].case, request[q].decision): r # "none"
          BY <2>0, <1>a DEF ResumeValues, GraphTypeOK, Threads, Decisions
        <4>2. CASE thread[request[q].case].waiting
          <5>1. PICK r \in ResumeValues(request[q].case, request[q].decision):
                  Begin(q, request[q].case, "human_approval", thread[request[q].case].values, r)
            BY <3>2, <4>2 DEF ResumeInterrupt, InvokeResume
          <5>. QED
            BY <4>1, <5>1
        <4>3. CASE ~thread[request[q].case].waiting
          <5>1. Begin(q, request[q].case, "returned", thread[request[q].case].values, "none")
            BY <3>2, <4>3 DEF ResumeInterrupt, InvokeResume
          <5>. QED
            BY <5>1
        <4>. QED
          BY <4>2, <4>3
      <3>. QED
        BY <1>2, <3>1, <3>2
    <2>3. /\ run'[q] = [node |-> node, ran |-> FALSE, case |-> request[q].case,
                        values |-> values, resume |-> resume]
          /\ RunShape(run'[q]) /\ \A b \in Runners: b # q => run'[b] = run[b]
      BY <2>2, <1>a, <1>c, BeginShape
    <2>4. RequestRun(request'[q], run'[q])
      BY <2>1, <2>2, <2>3 DEF RequestRun
    <2>5. LockInv'
      BY <2>0, <2>1, <1>e DEF Active
    <2>. QED
      BY <1>a, <1>b, <1>c, <2>1, <2>3, <2>4, <2>5, RunFrame
  <1>3. ASSUME NEW q \in Requests, ResumeResult(q) \/ ResumeTimeout(q) PROVE RunInv'
    <2>1. /\ run' = [run EXCEPT ![q] = IdleRun]
          /\ \E o \in Outcomes: request' = [request EXCEPT ![q] = Ended(@, o)]
      <3>1. ResumeOutcome(run[q].values.stage) \in Outcomes
        BY DEF ResumeOutcome, Outcomes
      <3>. QED
        BY <1>3, <3>1 DEF ResumeResult, ResumeTimeout, Finish, Outcomes
    <2>2. /\ run'[q] = IdleRun /\ \A b \in Runners: b # q => run'[b] = run[b]
          /\ \A p \in Requests: p # q => request'[p] = request[p]
          /\ request'[q].pc = "done"
      BY <2>1, <1>a, <1>c DEF GraphTypeOK, ApprovalTypeOK, Ended
    <2>3. LockInv'
      BY <2>2, <1>e DEF Active
    <2>. QED
      BY <1>a, <1>b, <1>c, <1>d, <2>2, <2>3, RunFrame
  <1>4. ASSUME NEW r \in Replicas, ReplicaCrash(r) PROVE RunInv'
    <2>1. /\ \A q \in Requests: \/ request'[q] = request[q] /\ run'[q] = run[q]
                                \/ request'[q].pc = "done" /\ run'[q] = IdleRun
          /\ \A w \in Workers: run'[w] = run[w]
      BY <1>4, <1>a, <1>c DEF ReplicaCrash, ApprovalTypeOK, Ended
    <2>2. LockInv'
      BY <2>1, <1>e DEF Active
    <2>. QED
      BY <1>a, <1>b, <1>d, <2>1, <2>2, RunFrame
  <1>. QED
    BY <1>1, <1>2, <1>3, <1>4 DEF ApprovalSide, ApprovalStep

LEMMA GraphRunInv ==
  ASSUME RunInv, GraphSide PROVE RunInv'
PROOF
  <1>a. TypeInv' /\ GraphTypeOK /\ RunsTyped
    BY GraphTyped DEF RunInv, TypeInv, TypeOK
  <1>b. worker' = worker /\ request' = request /\ LockInv'
    BY DEF GraphSide, consumerVars, approvalVars, RunInv, LockInv, Active
  <1>c. Workers \subseteq Runners /\ Requests \subseteq Runners /\ Workers \cap Requests = {}
    BY RunnersAssumption DEF Runners
  <1>. SUFFICES ASSUME NEW a \in Runners, GraphStep(a) \/ CallRaises(a)
                PROVE  RunInv'
    BY DEF GraphSide
  <1>d. \A b \in Runners: b # a => run'[b] = run[b]
    BY <1>a DEF GraphStep, RequestEvidence, PrepareCaseForReview, Interrupt, HumanApproval,
       RequestExecutionOrder, Commit, NodeRaises, CallRaises, NodeReturns, GraphTypeOK
  <1>e. /\ run[a] \in Runs /\ run[a].node # "idle" /\ RunShape(run[a])
        /\ a \in Requests => RequestRun(request[a], run[a])
        /\ a \in Workers => worker[a].pc = "running"
    BY <1>a, <1>c DEF GraphStep, RequestEvidence, PrepareCaseForReview, Interrupt,
       HumanApproval, RequestExecutionOrder, Commit, NodeRaises, CallRaises, Pending,
       GraphTypeOK, RunInv, RunsTyped, Nodes
  <1>f. ASSUME RunShape(run'[a]), a \in Requests => RequestRun(request[a], run'[a])
        PROVE  RunInv'
    <2>1. \A w \in Workers: \/ run'[w] = run[w] /\ worker'[w].pc = worker[w].pc
                            \/ RunShape(run'[w]) /\ worker'[w].pc = "running"
      BY <1>b, <1>c, <1>d, <1>e, <1>f
    <2>2. \A q \in Requests: \/ run'[q] = run[q] /\ request'[q] = request[q]
                             \/ RunShape(run'[q]) /\ RequestRun(request'[q], run'[q])
      BY <1>b, <1>c, <1>d, <1>f
    <2>. QED
      BY <1>a, <1>b, <2>1, <2>2, RunFrame
  <1>1. ASSUME NEW values, NodeReturns(a, values),
               RunShape([run[a] EXCEPT !.ran = TRUE, !.values = values])
        PROVE  RunInv'
    <2>1. run'[a] = [run[a] EXCEPT !.ran = TRUE, !.values = values]
      BY <1>1, <1>a DEF NodeReturns, GraphTypeOK
    <2>2. RequestRun(request[a], run[a]) => RequestRun(request[a], run'[a])
      BY <2>1, <1>e DEF RequestRun, Runs
    <2>. QED
      BY <1>1, <1>e, <1>f, <2>1, <2>2
  <1>2. CASE RequestEvidence(a)
    <2>1. run[a].node = "request_evidence" /\ NodeReturns(a, [run[a].values EXCEPT !.stage = "evidence_requested"])
      BY <1>2 DEF RequestEvidence, Pending
    <2>. QED
      BY <2>1, <1>1, <1>e DEF RunShape, Runs, Values
  <1>3. CASE PrepareCaseForReview(a)
    <2>1. PICK action: /\ run[a].node = "prepare_case_for_review"
                       /\ NodeReturns(a, [run[a].values EXCEPT !.stage = "review_requested", !.report = action])
      BY <1>3 DEF PrepareCaseForReview, Pending
    <2>. QED
      BY <2>1, <1>1, <1>e DEF RunShape, Runs, Values
  <1>4. CASE HumanApproval(a)
    <2>1. /\ run[a].node = "human_approval" /\ run[a].resume # "none"
          /\ NodeReturns(a, [run[a].values EXCEPT !.stage = run[a].resume, !.decision = run[a].resume])
      BY <1>4 DEF HumanApproval, Pending
    <2>. QED
      BY <2>1, <1>1, <1>e DEF RunShape, Runs, Values
  <1>5. CASE RequestExecutionOrder(a)
    <2>1. /\ run[a].node = "request_execution_order" /\ run[a].values.decision = "approved"
          /\ NodeReturns(a, [run[a].values EXCEPT !.stage = "execution_requested"])
      BY <1>5 DEF RequestExecutionOrder, Pending, NodeAccepts
    <2>. QED
      BY <2>1, <1>1, <1>e DEF RunShape, Runs, Values
  <1>6. CASE Interrupt(a) \/ NodeRaises(a) \/ CallRaises(a)
    <2>1. /\ run'[a].node \in {"returned", "raised"} /\ run'[a].case = run[a].case
          /\ run'[a].ran => run'[a].node \in {"returned", "raised"}
      BY <1>6, <1>a, <1>e DEF Interrupt, NodeRaises, CallRaises, GraphTypeOK, Runs
    <2>. QED
      BY <2>1, <1>e, <1>f DEF RunShape, RequestRun
  <1>7. CASE Commit(a)
    <2>1. /\ run[a].ran
          /\ run'[a] = [run[a] EXCEPT !.node = NextNode(run[a].node, run[a].values.stage),
                                      !.ran = FALSE, !.resume = "none"]
      BY <1>7, <1>a DEF Commit, GraphTypeOK
    <2>2. RunShape(run'[a])
      BY <2>1, <1>e DEF RunShape, Runs
    <2>3. ASSUME RequestRun(request[a], run[a]) PROVE RequestRun(request[a], run'[a])
      <3>1. run[a].node \in {"human_approval", "request_execution_order"}
        BY <2>1, <2>3, <1>a, <1>e DEF RequestRun, RunsTyped, Nodes
      <3>2. NextNode(run[a].node, run[a].values.stage) \in {"request_execution_order", "returned"}
        BY <3>1 DEF NextNode
      <3>. QED
        BY <2>1, <2>3, <3>2, <1>e DEF RequestRun, Runs
    <2>. QED
      BY <2>2, <2>3, <1>e, <1>f
  <1>. QED
    BY <1>2, <1>3, <1>4, <1>5, <1>6, <1>7 DEF GraphStep

LEMMA RunInvAlways == Spec => []RunInv
PROOF
  <1>1. Init => RunInv
    BY InitTyped
       DEF Init, GraphInit, ConsumersInit, ApprovalInit, RunInv, LockInv, Active, NewRequest,
           RunShape, RequestRun, IdleRun, Runners
  <1>2. ASSUME RunInv, [Next]_vars PROVE RunInv'
    <2>1. CASE UNCHANGED vars
      <3>1. UNCHANGED <<run, request, worker>>
        BY <2>1 DEF vars, graphVars, consumerVars, approvalVars
      <3>2. TypeInv' /\ LockInv'
        BY <1>2, <3>1, NextTyped DEF RunInv, LockInv, Active
      <3>. QED
        BY <3>1, <3>2, <1>2, RunFrame
    <2>. QED
      BY <1>2, <2>1, ConsumerRunInv, ApprovalRunInv, GraphRunInv DEF Next
  <1>. QED
    BY <1>1, <1>2, PTL DEF Spec

-----------------------------------------------------------------------------
(* Event e may still have to be processed: nobody has claimed it, or who   *)
(* has is not past its side effect.                                        *)
Working(entry, r) ==
  /\ entry.pc \in {"claimed", "running", "failed"}
  /\ entry.pc = "running" => r.node # "returned"

Unfinished(e) ==
  \/ ledger[e] = "absent"
  \/ \E w \in Workers: EventOf(w) = e /\ Working(worker[w], run[w])

(* A claim outlives the crash of its worker, or there are no crashes.      *)
LedgerOutlives == DurableLedger \/ "crash" \notin FaultKinds

(* What is finished stays finished.                                        *)
LEMMA UnfinishedFrame ==
  ASSUME \A e \in EventIds: ledger'[e] = "absent" => ledger[e] = "absent",
         \A w \in Workers:
           Working(worker'[w], run'[w]) =>
             \/ worker'[w].msg = worker[w].msg /\ Working(worker[w], run[w])
             \/ ledger[worker'[w].msg.event] = "absent"
  PROVE  \A e \in EventIds: Unfinished(e)' => Unfinished(e)
PROOF
  BY DEF Unfinished

LEMMA FinishedStays ==
  ASSUME TypeInv, LedgerOutlives, [Next]_vars
  PROVE  \A e \in EventIds: Unfinished(e)' => Unfinished(e)
PROOF
  <1>a. ConsumersTypeOK /\ GraphTypeOK /\ TransportTypeOK
    BY DEF TypeInv, TypeOK
  <1>b. Workers \subseteq Runners /\ Requests \subseteq Runners /\ Workers \cap Requests = {}
    BY RunnersAssumption DEF Runners
  <1>. USE UnfinishedFrame
  <1>1. ASSUME UNCHANGED <<ledger, worker>>,
               \A w \in Workers: run'[w].node # "returned" => run[w].node # "returned"
        PROVE  \A e \in EventIds: Unfinished(e)' => Unfinished(e)
    BY <1>1 DEF Working
  <1>2. ASSUME NEW w \in Workers, \A v \in Workers: v # w => worker'[v] = worker[v],
               \A v \in Workers: v # w => run'[v] = run[v], worker'[w].msg = worker[w].msg,
               Working(worker'[w], run'[w]) =>
                 Working(worker[w], run[w]) \/ ledger[EventOf(w)] = "absent",
               \A e \in EventIds: ledger'[e] = "absent" => ledger[e] = "absent"
        PROVE  \A e \in EventIds: Unfinished(e)' => Unfinished(e)
    BY <1>2
  <1>3. ASSUME NEW w \in Workers,
               \/ Receive(w) \/ DeadLetterInvalid(w) \/ AckDuplicate(w)
               \/ AckCompleted(w) \/ RetryOrDeadLetter(w)
        PROVE  \A e \in EventIds: Unfinished(e)' => Unfinished(e)
    <2>1. /\ UNCHANGED <<ledger, run>>
          /\ \A v \in Workers: v # w => worker'[v] = worker[v]
          /\ worker'[w].pc \in {"idle", "received"}
      BY <1>3, <1>a DEF Receive, DeadLetterInvalid, AckDuplicate, AckCompleted, RetryOrDeadLetter,
         Idle, IdleWorker, graphVars, transportVars, ConsumersTypeOK
    <2>. QED
      BY <2>1 DEF Working
  <1>4. ASSUME NEW w \in Workers, Claim(w)
        PROVE  \A e \in EventIds: Unfinished(e)' => Unfinished(e)
    <2>1. PICK pc \in {"claimed", "duplicate"}:
            /\ worker' = [worker EXCEPT ![w].pc = pc] /\ UNCHANGED run
            /\ \/ pc = "claimed" /\ Claimable(EventOf(w)) /\ SetLedger(EventOf(w), "processing")
               \/ pc = "duplicate" /\ UNCHANGED ledger
      BY <1>4 DEF Claim, Goto, graphVars
    <2>2. EventOf(w) \in EventIds
      BY <1>4, <1>a DEF Claim, ConsumersTypeOK, Messages
    <2>3. /\ \A e \in EventIds: ledger'[e] = "absent" => ledger[e] = "absent"
          /\ pc = "claimed" => ledger[EventOf(w)] = "absent"
      BY <2>1, <2>2, <1>a DEF SetLedger, Claimable, TransportTypeOK, LedgerStates
    <2>4. /\ worker'[w].msg = worker[w].msg /\ worker'[w].pc = pc
          /\ \A v \in Workers: v # w => worker'[v] = worker[v]
      BY <2>1, <1>a DEF ConsumersTypeOK
    <2>. QED
      BY <2>1, <2>3, <2>4, <1>2 DEF Working
  <1>5. ASSUME NEW w \in Workers,
               \/ StartCase(w) \/ CollectEvidence(w) \/ CollectionRaises(w) \/ StartReasoning(w)
        PROVE  \A e \in EventIds: Unfinished(e)' => Unfinished(e)
    <2>1. /\ worker[w].pc = "claimed" /\ UNCHANGED ledger
          /\ worker'[w].msg = worker[w].msg
          /\ \A v \in Workers: v # w => worker'[v] = worker[v] /\ run'[v] = run[v]
      BY <1>5, <1>a, <1>b DEF StartCase, CollectEvidence, CollectionRaises, StartReasoning, Goto,
         InvokeInput, InvokeGoto, Begin, graphVars, transportVars, ConsumersTypeOK, GraphTypeOK
    <2>. QED
      BY <2>1, <1>2 DEF Working
  <1>6. ASSUME NEW w \in Workers, RunEnds(w) \/ Complete(w)
        PROVE  \A e \in EventIds: Unfinished(e)' => Unfinished(e)
    <2>1. /\ worker'[w].msg = worker[w].msg
          /\ \A v \in Workers: v # w => worker'[v] = worker[v] /\ run'[v] = run[v]
      BY <1>6, <1>a, <1>b DEF RunEnds, Complete, Goto, graphVars, ConsumersTypeOK, GraphTypeOK
    <2>2. worker'[w].pc = "failed" => worker[w].pc = "running" /\ run[w].node # "returned"
      BY <1>6, <1>a DEF RunEnds, Complete, Goto, ConsumersTypeOK
    <2>3. worker'[w].pc \in {"failed", "succeeded", "completed"}
      BY <1>6, <1>a DEF RunEnds, Complete, Goto, ConsumersTypeOK
    <2>4. \A e \in EventIds: ledger'[e] = "absent" => ledger[e] = "absent"
      BY <1>6, <1>a DEF RunEnds, Complete, SetLedger, transportVars, TransportTypeOK
    <2>. QED
      BY <2>1, <2>2, <2>3, <2>4, <1>2 DEF Working
  <1>7. ASSUME NEW w \in Workers, Release(w)
        PROVE  \A e \in EventIds: Unfinished(e)' => Unfinished(e)
    <2>1. /\ worker[w].pc = "failed" /\ UNCHANGED run
          /\ ledger' = [ledger EXCEPT ![EventOf(w)] = "absent"]
          /\ worker' = [worker EXCEPT ![w].pc = "released"]
      BY <1>7 DEF Release, SetLedger, Goto, graphVars
    <2>2. /\ \A v \in Workers: v # w => worker'[v] = worker[v]
          /\ worker'[w].pc = "released"
      BY <2>1, <1>a DEF ConsumersTypeOK
    <2>3. \A e \in EventIds: ledger'[e] = ledger[e] \/ e = EventOf(w)
      BY <2>1, <1>a DEF TransportTypeOK
    <2>4. Unfinished(EventOf(w))
      BY <2>1 DEF Unfinished, Working
    <2>. QED
      BY <2>1, <2>2, <2>3, <2>4 DEF Unfinished, Working
  <1>8. ASSUME NEW w \in Workers, WorkerCrash(w)
        PROVE  \A e \in EventIds: Unfinished(e)' => Unfinished(e)
    <2>1. /\ worker' = [worker EXCEPT ![w] = IdleWorker]
          /\ run' = [run EXCEPT ![w] = IdleRun] /\ UNCHANGED ledger
      BY <1>8 DEF WorkerCrash, Idle, LedgerOutlives, Inject
    <2>2. /\ \A v \in Workers: v # w => worker'[v] = worker[v] /\ run'[v] = run[v]
          /\ worker'[w].pc = "idle"
      BY <2>1, <1>a, <1>b DEF ConsumersTypeOK, GraphTypeOK, IdleWorker
    <2>. QED
      BY <2>1, <2>2 DEF Working
  <1>9. CASE ConsumerSide
    <2>1. ASSUME NEW c \in Cases, PublishAlert(c)
          PROVE  \A e \in EventIds: Unfinished(e)' => Unfinished(e)
      BY <2>1, <1>1 DEF PublishAlert, graphVars
    <2>2. RedeliverMessage => \A e \in EventIds: Unfinished(e)' => Unfinished(e)
      BY <1>1 DEF RedeliverMessage, graphVars
    <2>. QED
      BY <1>9, <2>1, <2>2, <1>3, <1>4, <1>5, <1>6, <1>7, <1>8
         DEF ConsumerSide, ConsumerStep, ConsumerFault
  <1>10. CASE ApprovalSide
    <2>1. UNCHANGED <<ledger, worker>>
      BY <1>10 DEF ApprovalSide, consumerVars, ApprovalStep, Submit, ResumeInterrupt,
         RepublishOrder, ResumeResult, ResumeTimeout, ReplicaCrash, transportVars
    <2>2. \A w \in Workers: run'[w] = run[w]
      <3>1. ASSUME NEW q \in Requests, ApprovalStep(q) \/ ResumeTimeout(q)
            PROVE  \A w \in Workers: run'[w] = run[w]
        BY <3>1, <1>a, <1>b DEF ApprovalStep, ResumeInterrupt, InvokeResume, RepublishOrder,
           InvokeInput, ResumeResult, ResumeTimeout, Begin, GraphTypeOK
      <3>2. ASSUME NEW r \in Replicas, ReplicaCrash(r)
            PROVE  \A w \in Workers: run'[w] = run[w]
        BY <3>2, <1>b DEF ReplicaCrash
      <3>. QED
        BY <1>10, <3>1, <3>2 DEF ApprovalSide, Submit, graphVars
    <2>. QED
      BY <2>1, <2>2, <1>1
  <1>11. CASE GraphSide
    <2>1. PICK a \in Runners: GraphStep(a) \/ CallRaises(a)
      BY <1>11 DEF GraphSide
    <2>2. UNCHANGED <<ledger, worker>>
      BY <2>1, <1>11 DEF GraphSide, consumerVars, GraphStep, RequestEvidence, PrepareCaseForReview,
         Interrupt, HumanApproval, RequestExecutionOrder, Commit, NodeRaises, CallRaises,
         NodeReturns, transportVars
    <2>3. \A b \in Runners: b # a => run'[b] = run[b]
      BY <2>1, <1>a DEF GraphStep, RequestEvidence, PrepareCaseForReview, Interrupt, HumanApproval,
         RequestExecutionOrder, Commit, NodeRaises, CallRaises, NodeReturns, GraphTypeOK
    <2>4. run[a].node \in Nodes \/ run[a].ran
      BY <2>1 DEF GraphStep, RequestEvidence, PrepareCaseForReview, Interrupt, HumanApproval,
         RequestExecutionOrder, Commit, NodeRaises, CallRaises, Pending, Nodes
    <2>5. run[a].node # "returned"
      BY <2>4 DEF TypeInv, RunsTyped, Nodes
    <2>. QED
      BY <2>2, <2>3, <2>5, <1>1, <1>b
  <1>12. CASE UNCHANGED vars
    BY <1>12, <1>1 DEF vars, transportVars, graphVars, consumerVars
  <1>. QED
    BY <1>9, <1>10, <1>11, <1>12 DEF Next

-----------------------------------------------------------------------------
(* A case is decided once: while its evidence is still to be processed no  *)
(* decision is possible, while one is possible none has been taken, and    *)
(* where it was a rejection nobody runs on an approval.                    *)
AlertOf(c) == Event("risk_alert", c)
ReadyOf(c) == Event("evidence_ready", c)

AtNode(a, c) == run[a].node \in Nodes /\ run[a].case = c
Resumed(a, c) == run[a].node = "human_approval" /\ run[a].case = c /\ run[a].resume # "none"
CanDecide(c) == thread[c].waiting \/ \E a \in Runners: Resumed(a, c)
Ordered(c) == \E p \in published: p.type = "execution_order" /\ p.case = c
Republishing(q, c) ==
  request[q].pc = "admitted" /\ request[q].mode = "republish" /\ request[q].case = c

(* A request that ends, or dies with its replica, republishes no more.     *)
LEMMA EndedRepublishes ==
  ASSUME ApprovalTypeOK, NEW c,
         \A q \in Requests:
           request'[q] = request[q] \/ \E o: request'[q] = Ended(request[q], o)
  PROVE  \A q \in Requests: Republishing(q, c)' => Republishing(q, c)
PROOF
  <1>1. ASSUME NEW q \in Requests
        PROVE  request'[q] = request[q] \/ request'[q].pc = "done"
    <2>1. CASE request'[q] = request[q]
      BY <2>1
    <2>2. ASSUME NEW o, request'[q] = Ended(request[q], o) PROVE request'[q].pc = "done"
      <3>. DEFINE entry == request[q]
                  open == [entry EXCEPT !.pc = "done"]
      <3>1. "pc" \in DOMAIN entry
        BY DEF ApprovalTypeOK
      <3>2. open.pc = "done"
        BY <3>1
      <3>3. Ended(entry, o).pc = open.pc
        BY <3>1 DEF Ended
      <3>. QED
        BY <2>2, <3>2, <3>3
    <2>. QED
      BY <2>1, <2>2
  <1>. QED
    BY <1>1 DEF Republishing

LEMMA CrashRepublishes ==
  ASSUME ApprovalTypeOK, NEW c, NEW r \in Replicas, ReplicaCrash(r)
  PROVE  \A q \in Requests: Republishing(q, c)' => Republishing(q, c)
PROOF
  <1>1. \A q \in Requests:
          request'[q] = request[q] \/ request'[q] = Ended(request[q], "crashed")
    BY DEF ReplicaCrash
  <1>. QED
    BY <1>1, EndedRepublishes

Undecided(c) ==
  /\ thread[c].values.decision = "none"
  /\ thread[c].values.stage \notin {"approved", "rejected", "execution_requested"}
  /\ ~Ordered(c)
  /\ \A a \in Runners:
       AtNode(a, c) /\ ~Resumed(a, c) => run[a].values.decision = "none"
  /\ \A q \in Requests: ~Republishing(q, c)

CaseFits(c) ==
  /\ Unfinished(ReadyOf(c)) => ~CanDecide(c)
  /\ Unfinished(ReadyOf(c)) \/ CanDecide(c) => Undecided(c)
  /\ thread[c].values.stage = "rejected" =>
       /\ thread[c].values.decision = "rejected"
       /\ ~Ordered(c)
       /\ \A a \in Runners: AtNode(a, c) => run[a].values.decision # "approved"

DecisionInv ==
  /\ RunInv /\ ClaimInv /\ LedgerInv
  /\ \A c \in Cases: CaseFits(c)

(* A run at a node of c was there before with the same decision, has just  *)
(* begun with what the thread says, or carries a reviewer's decision.      *)
KeepsRun(a, c) ==
  AtNode(a, c)' =>
    \/ Resumed(a, c)' /\ CanDecide(c)
    \/ ~Resumed(a, c)' /\ run'[a].values.decision = thread[c].values.decision
    \/ /\ ~Resumed(a, c)' /\ AtNode(a, c) /\ ~Resumed(a, c)
       /\ run'[a].values.decision = run[a].values.decision

(* What every step but a checkpoint and an interrupt leaves of a case.     *)
LEMMA CaseFrame ==
  ASSUME NEW c \in Cases, CaseFits(c), Unfinished(ReadyOf(c))' => Unfinished(ReadyOf(c)),
         thread'[c].values.decision = thread[c].values.decision,
         \/ thread'[c].values.stage = thread[c].values.stage
         \/ thread'[c].values.stage = "alert_received"
         \/ thread'[c].values.stage = "approved" /\ \E q \in Requests: Republishing(q, c),
         thread'[c].waiting => thread[c].waiting,
         \/ Ordered(c)' => Ordered(c)
         \/ \E a \in Runners: AtNode(a, c) /\ ~Resumed(a, c) /\ run[a].values.decision = "approved",
         \A a \in Runners: KeepsRun(a, c),
         \A q \in Requests:
           Republishing(q, c)' => Republishing(q, c) \/ thread[c].values.stage = "approved"
  PROVE  CaseFits(c)'
PROOF
  <1>1. CanDecide(c)' => CanDecide(c)
    BY DEF CanDecide, KeepsRun, Resumed, AtNode, Nodes
  <1>2. Unfinished(ReadyOf(c)) => ~CanDecide(c)
    BY DEF CaseFits
  <1>3. Unfinished(ReadyOf(c)) \/ CanDecide(c) => Undecided(c)
    BY DEF CaseFits
  <1>4. ASSUME Undecided(c) PROVE Undecided(c)'
    <2>1. ~Ordered(c)'
      BY <1>4 DEF Undecided
    <2>2. /\ thread'[c].values.decision = "none"
          /\ thread'[c].values.stage \notin {"approved", "rejected", "execution_requested"}
      BY <1>4 DEF Undecided
    <2>3. \A a \in Runners:
            AtNode(a, c)' /\ ~Resumed(a, c)' => run'[a].values.decision = "none"
      BY <1>4 DEF Undecided, KeepsRun
    <2>4. \A q \in Requests: ~Republishing(q, c)'
      BY <1>4 DEF Undecided
    <2>. QED
      BY <2>1, <2>2, <2>3, <2>4 DEF Undecided
  <1>5. ASSUME thread'[c].values.stage = "rejected"
        PROVE  /\ thread'[c].values.decision = "rejected"
               /\ ~Ordered(c)'
               /\ \A a \in Runners: AtNode(a, c)' => run'[a].values.decision # "approved"
    <2>1. /\ thread[c].values.stage = "rejected" /\ thread[c].values.decision = "rejected"
          /\ ~Ordered(c) /\ ~CanDecide(c)
          /\ \A a \in Runners: AtNode(a, c) => run[a].values.decision # "approved"
      BY <1>3, <1>5 DEF CaseFits, Undecided
    <2>2. \A a \in Runners: AtNode(a, c)' => run'[a].values.decision # "approved"
      BY <2>1 DEF KeepsRun
    <2>. QED
      BY <2>1, <2>2
  <1>. QED
    BY <1>1, <1>2, <1>3, <1>4, <1>5 DEF CaseFits

(* Another actor's step leaves a run as it was.                            *)
LEMMA SameRunKept ==
  ASSUME NEW a \in Runners, NEW c, run'[a] = run[a] \/ run'[a].node \notin Nodes
  PROVE  KeepsRun(a, c)
PROOF
  BY DEF KeepsRun, AtNode, Resumed, CanDecide

LEMMA ConsumerCaseFits ==
  ASSUME DecisionInv, LedgerOutlives, ConsumerSide, NEW c \in Cases
  PROVE  CaseFits(c)'
PROOF
  <1>a. ConsumersTypeOK /\ GraphTypeOK /\ CaseFits(c)
    BY DEF DecisionInv, RunInv, TypeInv, TypeOK
  <1>b. Unfinished(ReadyOf(c))' => Unfinished(ReadyOf(c))
    <2>1. ReadyOf(c) \in EventIds
      BY DEF ReadyOf, EventIds, ConsumedTypes
    <2>2. TypeInv /\ [Next]_vars
      BY DEF DecisionInv, RunInv, Next
    <2>. QED
      BY <2>1, <2>2, FinishedStays
  <1>c. \A q \in Requests: Republishing(q, c)' => Republishing(q, c)
    BY DEF ConsumerSide, approvalVars, Republishing
  <1>d. Workers \subseteq Runners /\ IdleRun.node \notin Nodes
    BY DEF Runners, IdleRun, Nodes
  <1>1. ASSUME UNCHANGED thread, Ordered(c)' => Ordered(c),
               \A a \in Runners: run'[a] = run[a] \/ run'[a].node \notin Nodes
        PROVE  CaseFits(c)'
    BY <1>1, <1>a, <1>b, <1>c, SameRunKept, CaseFrame
  <1>2. ASSUME NEW k \in Cases, PublishAlert(k) PROVE CaseFits(c)'
    BY <1>2, <1>1 DEF PublishAlert, Publish, Ordered, graphVars
  <1>9. RedeliverMessage => CaseFits(c)'
    BY <1>1 DEF RedeliverMessage, Ordered, graphVars
  <1>3. ASSUME NEW w \in Workers,
               \/ Receive(w) \/ DeadLetterInvalid(w) \/ Claim(w) \/ AckDuplicate(w)
               \/ AckCompleted(w) \/ Release(w) \/ RetryOrDeadLetter(w) \/ Complete(w)
        PROVE CaseFits(c)'
    BY <1>3, <1>1 DEF Receive, DeadLetterInvalid, Claim, AckDuplicate, AckCompleted, Release,
       RetryOrDeadLetter, Complete, graphVars, transportVars, Ordered
  <1>4. ASSUME NEW w \in Workers, CollectEvidence(w) \/ CollectionRaises(w) PROVE CaseFits(c)'
    <2>1. /\ UNCHANGED <<thread, run>>
          /\ published' \subseteq published \cup
               {[type |-> "evidence_ready", case |-> EventOf(w).case, detail |-> "none"]}
      BY <1>4 DEF CollectEvidence, CollectionRaises, Publish, graphVars
    <2>2. Ordered(c)' => Ordered(c)
      BY <2>1 DEF Ordered
    <2>. QED
      BY <2>1, <2>2, <1>1
  <1>5. ASSUME NEW w \in Workers, RunEnds(w) PROVE CaseFits(c)'
    BY <1>5, <1>1, <1>a, <1>d DEF RunEnds, transportVars, Ordered, GraphTypeOK
  <1>6. ASSUME NEW w \in Workers, WorkerCrash(w) PROVE CaseFits(c)'
    <2>1. UNCHANGED <<thread, published>> /\ run' = [run EXCEPT ![w] = IdleRun]
      BY <1>6 DEF WorkerCrash, LedgerOutlives, Inject
    <2>. QED
      BY <2>1, <1>1, <1>a, <1>d DEF Ordered, GraphTypeOK
  <1>7. ASSUME NEW w \in Workers, StartReasoning(w) PROVE CaseFits(c)'
    <2>. DEFINE k == EventOf(w).case
    <2>1. PICK values:
            /\ Begin(w, k, "prepare_case_for_review", values, "none")
            /\ values = [thread[k].values EXCEPT !.stage = "evidence_ready", !.evidence = TRUE]
      BY <1>7 DEF StartReasoning, InvokeGoto
    <2>2. UNCHANGED <<thread, published>> /\ k \in Cases
      BY <1>7, <1>a DEF StartReasoning, InvokeGoto, transportVars, ConsumersTypeOK, Messages, EventIds
    <2>3. values.decision = thread[k].values.decision
      BY <2>1, <2>2, <1>a DEF GraphTypeOK, Threads, Values
    <2>4. /\ run'[w] = [node |-> "prepare_case_for_review", ran |-> FALSE, case |-> k,
                        values |-> values, resume |-> "none"]
          /\ \A b \in Runners: b # w => run'[b] = run[b]
      BY <2>1, <1>a, <1>d, BeginShape
    <2>5. \A a \in Runners: KeepsRun(a, c)
      BY <2>3, <2>4, SameRunKept DEF KeepsRun, AtNode, Resumed
    <2>. QED
      BY <2>2, <2>5, <1>a, <1>b, <1>c, CaseFrame DEF Ordered
  <1>8. ASSUME NEW w \in Workers, StartCase(w) PROVE CaseFits(c)'
    <2>. DEFINE k == EventOf(w).case
    <2>1. PICK values:
            /\ Begin(w, k, "request_evidence", values, "none")
            /\ values = [thread[k].values EXCEPT !.stage = "alert_received"]
            /\ thread' = [thread EXCEPT ![k] = [values |-> values, waiting |-> FALSE, offered |-> {}]]
      BY <1>8 DEF StartCase, InvokeInput, RouteStage
    <2>2. UNCHANGED published /\ k \in Cases
      BY <1>8, <1>a DEF StartCase, transportVars, ConsumersTypeOK, Messages, EventIds
    <2>3. values.decision = thread[k].values.decision /\ values.stage = "alert_received"
      BY <2>1, <2>2, <1>a DEF GraphTypeOK, Threads, Values
    <2>4. /\ run'[w] = [node |-> "request_evidence", ran |-> FALSE, case |-> k,
                        values |-> values, resume |-> "none"]
          /\ \A b \in Runners: b # w => run'[b] = run[b]
      <3>1. Begin(w, k, "request_evidence", values, "none") /\ w \in Runners /\ GraphTypeOK
        BY <2>1, <1>a, <1>d
      <3>. QED
        BY <3>1, BeginShape
    <2>5. \A a \in Runners: KeepsRun(a, c)
      BY <2>3, <2>4, SameRunKept DEF KeepsRun, AtNode, Resumed
    <2>6. /\ k # c => thread'[c] = thread[c]
          /\ k = c => thread'[c] = [values |-> values, waiting |-> FALSE, offered |-> {}]
      BY <2>1, <1>a DEF GraphTypeOK
    <2>7. /\ thread'[c].values.decision = thread[c].values.decision
          /\ thread'[c].values.stage \in {thread[c].values.stage, "alert_received"}
          /\ thread'[c].waiting => thread[c].waiting
      BY <2>3, <2>6
    <2>. QED
      BY <2>2, <2>5, <2>7, <1>a, <1>b, <1>c, CaseFrame DEF Ordered
  <1>. QED
    BY <1>2, <1>3, <1>4, <1>5, <1>6, <1>7, <1>8, <1>9 DEF ConsumerSide, ConsumerStep, ConsumerFault

LEMMA ApprovalCaseFits ==
  ASSUME DecisionInv, LedgerOutlives, ApprovalSide, NEW c \in Cases
  PROVE  CaseFits(c)'
PROOF
  <1>a. ApprovalTypeOK /\ GraphTypeOK /\ CaseFits(c)
    BY DEF DecisionInv, RunInv, TypeInv, TypeOK
  <1>b. Unfinished(ReadyOf(c))' => Unfinished(ReadyOf(c))
    <2>1. ReadyOf(c) \in EventIds
      BY DEF ReadyOf, EventIds, ConsumedTypes
    <2>2. TypeInv /\ [Next]_vars
      BY DEF DecisionInv, RunInv, Next
    <2>. QED
      BY <2>1, <2>2, FinishedStays
  <1>c. Ordered(c)' <=> Ordered(c)
    BY DEF ApprovalSide, ApprovalStep, Submit, ResumeInterrupt, RepublishOrder, ResumeResult,
       ResumeTimeout, ReplicaCrash, transportVars, Ordered
  <1>d. Requests \subseteq Runners /\ IdleRun.node \notin Nodes
    BY DEF Runners, IdleRun, Nodes
  <1>1. ASSUME NEW q \in Requests, NEW r \in Replicas, NEW k \in Cases, NEW d \in Decisions,
               NEW cred \in Credentials, Submit(q, r, k, d, cred)
        PROVE  CaseFits(c)'
    <2>1. UNCHANGED <<thread, run>> /\ \A p \in Requests: p # q => request'[p] = request[p]
      BY <1>1, <1>a DEF Submit, Finish, graphVars, ApprovalTypeOK
    <2>2. ASSUME Republishing(q, c)' PROVE thread[c].values.stage = "approved"
      <3>1. ASSUME NEW o, Finish(q, o) PROVE FALSE
        <4>1. request'[q] = Ended(request[q], o)
          BY <3>1, <1>a DEF Finish, ApprovalTypeOK
        <4>. QED
          BY <4>1, <2>2, <1>a DEF Ended, Republishing, ApprovalTypeOK
      <3>2. /\ Admission(k, d, cred) # "conflict"
            /\ request' = [request EXCEPT ![q] =
                             [pc |-> "admitted", replica |-> r, case |-> k,
                              decision |-> d, credentials |-> cred,
                              mode |-> Admission(k, d, cred), outcome |-> "none"]]
        BY <1>1, <3>1 DEF Submit
      <3>3. request'[q].case = k /\ request'[q].mode = Admission(k, d, cred)
        BY <3>2, <1>a DEF ApprovalTypeOK
      <3>4. k = c /\ Admission(c, d, cred) = "republish"
        BY <3>3, <2>2 DEF Republishing
      <3>. QED
        BY <3>4 DEF Admission
    <2>3. \A p \in Requests:
            Republishing(p, c)' => Republishing(p, c) \/ thread[c].values.stage = "approved"
      BY <2>1, <2>2 DEF Republishing
    <2>. QED
      BY <2>1, <2>3, <1>a, <1>b, <1>c, SameRunKept, CaseFrame
  <1>2. ASSUME NEW q \in Requests, ResumeInterrupt(q) PROVE CaseFits(c)'
    <2>. DEFINE k == request[q].case
    <2>0. /\ request[q].pc = "admitted" /\ k \in Cases /\ request[q].decision \in Decisions
          /\ InvokeResume(q, k, request[q].decision)
          /\ request' = [request EXCEPT ![q].pc = "running"]
      BY <1>2, <1>a DEF ResumeInterrupt, ApprovalTypeOK, Active
    <2>1. \A p \in Requests: Republishing(p, c)' => Republishing(p, c)
      BY <2>0, <1>a DEF Republishing, ApprovalTypeOK
    <2>2. /\ \A a \in Runners: KeepsRun(a, c)
          /\ thread'[c].values = thread[c].values /\ thread'[c].waiting = thread[c].waiting
      <3>1. CASE thread[k].waiting
        <4>1. PICK r: /\ Begin(q, k, "human_approval", thread[k].values, r)
                      /\ thread' = [thread EXCEPT ![k].offered = @ \cup {r}]
                      /\ r \in ResumeValues(k, request[q].decision)
          BY <2>0, <3>1 DEF InvokeResume
        <4>2. r # "none"
          BY <4>1, <2>0, <1>a DEF ResumeValues, GraphTypeOK, Threads, Decisions
        <4>3. /\ run'[q] = [node |-> "human_approval", ran |-> FALSE, case |-> k,
                            values |-> thread[k].values, resume |-> r]
              /\ \A b \in Runners: b # q => run'[b] = run[b]
          BY <4>1, <1>a, <1>d, BeginShape
        <4>4. KeepsRun(q, c)
          BY <3>1, <4>2, <4>3 DEF KeepsRun, AtNode, Resumed, CanDecide
        <4>5. thread'[c].values = thread[c].values /\ thread'[c].waiting = thread[c].waiting
          BY <4>1, <2>0, <1>a DEF GraphTypeOK, Threads
        <4>. QED
          BY <4>3, <4>4, <4>5, SameRunKept
      <3>2. CASE ~thread[k].waiting
        <4>1. Begin(q, k, "returned", thread[k].values, "none") /\ UNCHANGED thread
          BY <2>0, <3>2 DEF InvokeResume
        <4>2. /\ run'[q] = [node |-> "returned", ran |-> FALSE, case |-> k,
                            values |-> thread[k].values, resume |-> "none"]
              /\ \A b \in Runners: b # q => run'[b] = run[b]
          BY <4>1, <1>a, <1>d, BeginShape
        <4>. QED
          BY <4>1, <4>2, SameRunKept DEF Nodes
      <3>. QED
        BY <3>1, <3>2
    <2>. QED
      BY <2>1, <2>2, <1>a, <1>b, <1>c, CaseFrame
  <1>3. ASSUME NEW q \in Requests, RepublishOrder(q) PROVE CaseFits(c)'
    <2>. DEFINE k == request[q].case
    <2>0. /\ request[q].pc = "admitted" /\ request[q].mode = "republish" /\ k \in Cases
          /\ request' = [request EXCEPT ![q].pc = "running"]
      BY <1>3, <1>a DEF RepublishOrder, ApprovalTypeOK, Active
    <2>1. PICK values:
            /\ Begin(q, k, "request_execution_order", values, "none")
            /\ values = [thread[k].values EXCEPT !.stage = "approved"]
            /\ thread' = [thread EXCEPT ![k] = [values |-> values, waiting |-> FALSE, offered |-> {}]]
      BY <1>3 DEF RepublishOrder, InvokeInput, RouteStage
    <2>2. \A p \in Requests: Republishing(p, c)' => Republishing(p, c)
      BY <2>0, <1>a DEF Republishing, ApprovalTypeOK
    <2>3. values.decision = thread[k].values.decision /\ values.stage = "approved"
      BY <2>0, <2>1, <1>a DEF GraphTypeOK, Threads, Values
    <2>4. /\ run'[q] = [node |-> "request_execution_order", ran |-> FALSE, case |-> k,
                        values |-> values, resume |-> "none"]
          /\ \A b \in Runners: b # q => run'[b] = run[b]
      BY <2>1, <1>a, <1>d, BeginShape
    <2>5. \A a \in Runners: KeepsRun(a, c)
      BY <2>3, <2>4, SameRunKept DEF KeepsRun, AtNode, Resumed
    <2>6. /\ k # c => thread'[c] = thread[c]
          /\ k = c => thread'[c] = [values |-> values, waiting |-> FALSE, offered |-> {}]
      BY <2>0, <2>1, <1>a DEF GraphTypeOK
    <2>7. /\ thread'[c].values.decision = thread[c].values.decision
          /\ thread'[c].waiting => thread[c].waiting
          /\ \/ thread'[c].values.stage = thread[c].values.stage
             \/ thread'[c].values.stage = "approved" /\ Republishing(q, c)
      BY <2>0, <2>3, <2>6 DEF Republishing
    <2>. QED
      BY <2>2, <2>5, <2>7, <1>a, <1>b, <1>c, CaseFrame
  <1>4. ASSUME NEW q \in Requests, ResumeResult(q) \/ ResumeTimeout(q) PROVE CaseFits(c)'
    <2>1. /\ run' = [run EXCEPT ![q] = IdleRun] /\ UNCHANGED thread
          /\ \E o: request' = [request EXCEPT ![q] = Ended(@, o)]
      BY <1>4 DEF ResumeResult, ResumeTimeout, Finish
    <2>2. \A p \in Requests: Republishing(p, c)' => Republishing(p, c)
      <3>1. \A p \in Requests: request'[p] = request[p]
                              \/ \E o: request'[p] = Ended(request[p], o)
        BY <2>1, <1>a DEF ApprovalTypeOK
      <3>. QED
        BY <3>1, <1>a, EndedRepublishes
    <2>3. \A a \in Runners: run'[a] = run[a] \/ run'[a].node \notin Nodes
      BY <2>1, <1>a, <1>d DEF GraphTypeOK
    <2>. QED
      BY <2>1, <2>2, <2>3, <1>a, <1>b, <1>c, SameRunKept, CaseFrame
  <1>5. ASSUME NEW r \in Replicas, ReplicaCrash(r) PROVE CaseFits(c)'
    <2>1. /\ UNCHANGED thread
          /\ \A a \in Runners: run'[a] = run[a] \/ run'[a].node \notin Nodes
      BY <1>5, <1>d DEF ReplicaCrash
    <2>2. \A p \in Requests: Republishing(p, c)' => Republishing(p, c)
      BY <1>5, <1>a, CrashRepublishes
    <2>. QED
      BY <2>1, <2>2, <1>a, <1>b, <1>c, SameRunKept, CaseFrame
  <1>. QED
    BY <1>1, <1>2, <1>3, <1>4, <1>5 DEF ApprovalSide, ApprovalStep

(* Who runs what: a worker at the approval node holds the claim of the     *)
(* evidence and has no decision; a run with one is a request's, and the    *)
(* lock makes it the only one of its case.                                 *)
LEMMA WorkerAtNode ==
  ASSUME RunInv, ClaimInv, LedgerInv, NEW a \in Workers, NEW c \in Cases, AtNode(a, c)
  PROVE  /\ worker[a].pc = "running" /\ HoldsClaim(a) /\ Working(worker[a], run[a])
         /\ ledger[EventOf(a)] = "processing"
         /\ run[a].resume = "none"
         /\ run[a].node = "request_evidence" => EventOf(a) = AlertOf(c)
         /\ run[a].node # "request_evidence" =>
              EventOf(a) = ReadyOf(c)
                /\ run[a].node \in {"prepare_case_for_review", "human_approval"}
PROOF
  <1>1. worker[a].pc = "running" /\ run[a].node \in Nodes /\ run[a].case = c
    BY DEF RunInv, AtNode, Nodes
  <1>2. HoldsClaim(a) /\ Working(worker[a], run[a])
    BY <1>1 DEF HoldsClaim, Working, Nodes
  <1>3. ledger[EventOf(a)] = "processing"
    BY <1>2 DEF ClaimInv, ClaimExclusive
  <1>4. ConsumerRun(published, EventOf(a), run[a])
    BY <1>1 DEF LedgerInv, WorkerHasEffect
  <1>5. EventOf(a) = [type |-> EventOf(a).type, case |-> EventOf(a).case]
    BY <1>1 DEF RunInv, TypeInv, TypeOK, ConsumersTypeOK, Messages, EventIds
  <1>. QED
    BY <1>1, <1>2, <1>3, <1>4, <1>5 DEF ConsumerRun, AlertOf, ReadyOf, Nodes

(* With one process, active requests of one case are the same request.     *)
LEMMA OneActive ==
  ASSUME RunInv, OneReplica, NEW q1 \in Requests, NEW q2 \in Requests,
         Active(q1), Active(q2), request[q1].case = request[q2].case
  PROVE  q1 = q2
PROOF
  <1>1. request[q1].replica \in Replicas /\ request[q2].replica \in Replicas
    BY DEF RunInv, TypeInv, TypeOK, ApprovalTypeOK
  <1>. QED
    BY <1>1 DEF RunInv, LockInv, OneReplica

LEMMA OneResumed ==
  ASSUME DecisionInv, OneReplica, NEW c \in Cases, NEW a \in Runners, Resumed(a, c),
         NEW b \in Runners, Resumed(b, c)
  PROVE  a = b
PROOF
  <1>1. \A x \in Runners: Resumed(x, c) => x \in Requests
    BY WorkerAtNode DEF DecisionInv, Resumed, AtNode, Nodes, Runners
  <1>2. \A x \in Requests: Resumed(x, c) => Active(x) /\ request[x].case = c
    BY DEF DecisionInv, RunInv, RequestRun, Resumed, Active
  <1>. QED
    BY <1>1, <1>2, OneActive DEF DecisionInv

(* The interrupt ends the processing of the evidence.                      *)
LEMMA InterruptEndsReady ==
  ASSUME RunInv, ClaimInv, LedgerInv, GraphSide, NEW a \in Runners, Interrupt(a),
         NEW c \in Cases, c = run[a].case
  PROVE  /\ AtNode(a, c) /\ Unfinished(ReadyOf(c)) /\ ~Unfinished(ReadyOf(c))'
         /\ run'[a].node = "returned" /\ \A b \in Runners: b # a => run'[b] = run[b]
         /\ UNCHANGED <<published, request>>
         /\ thread'[c].values = thread[c].values
PROOF
  <1>a. GraphTypeOK /\ ClaimExclusive
    BY DEF RunInv, ClaimInv, TypeInv, TypeOK
  <1>b. /\ run[a].node = "human_approval" /\ run[a].resume = "none"
        /\ run' = [run EXCEPT ![a].node = "returned"]
        /\ UNCHANGED <<published, ledger, worker, request>>
    BY DEF Interrupt, Pending, GraphSide, transportVars, consumerVars, approvalVars
  <1>1. a \in Workers
    BY <1>b DEF RunInv, RequestRun, Runners
  <1>2. AtNode(a, c)
    BY <1>b DEF AtNode, Nodes
  <1>3. /\ EventOf(a) = ReadyOf(c) /\ HoldsClaim(a) /\ ledger[ReadyOf(c)] = "processing"
        /\ Unfinished(ReadyOf(c))
    BY <1>1, <1>2, <1>b, WorkerAtNode DEF Unfinished
  <1>4. run'[a].node = "returned" /\ \A b \in Runners: b # a => run'[b] = run[b]
    BY <1>a, <1>b DEF GraphTypeOK
  <1>5. ~Unfinished(ReadyOf(c))'
    <2>1. \A w \in Workers: HoldsClaim(w) /\ EventOf(w) = ReadyOf(c) => w = a
      BY <1>1, <1>3, <1>a DEF ClaimExclusive
    <2>2. \A w \in Workers: ~(EventOf(w) = ReadyOf(c) /\ Working(worker[w], run'[w]))
      BY <2>1, <1>1, <1>2, <1>4, WorkerAtNode DEF Working, HoldsClaim
    <2>. QED
      BY <2>2, <1>3, <1>b DEF Unfinished, ReadyOf
  <1>6. thread'[c].values = thread[c].values
    BY <1>a DEF Interrupt, GraphTypeOK, Threads
  <1>. QED
    BY <1>2, <1>3, <1>4, <1>5, <1>6, <1>b

(* It opens the review of a case nobody has decided.                       *)
LEMMA InterruptCaseFits ==
  ASSUME DecisionInv, GraphSide, NEW a \in Runners, Interrupt(a),
         NEW c \in Cases, c = run[a].case
  PROVE  CaseFits(c)'
PROOF
  <1>1. /\ Unfinished(ReadyOf(c)) /\ ~Unfinished(ReadyOf(c))'
        /\ run'[a].node = "returned" /\ \A b \in Runners: b # a => run'[b] = run[b]
        /\ UNCHANGED <<published, request>> /\ thread'[c].values = thread[c].values
    BY InterruptEndsReady DEF DecisionInv
  <1>2. Undecided(c)
    BY <1>1 DEF DecisionInv, CaseFits
  <1>3. \A b \in Runners: AtNode(b, c)' /\ ~Resumed(b, c)' => run'[b].values.decision = "none"
    BY <1>1, <1>2 DEF Undecided, AtNode, Resumed, Nodes
  <1>4. Undecided(c)'
    BY <1>1, <1>2, <1>3 DEF Undecided, Ordered, Republishing
  <1>. QED
    BY <1>1, <1>4 DEF CaseFits, Undecided

(* A checkpoint records a decision only where it is the first one.         *)
LEMMA CommitCaseFits ==
  ASSUME DecisionInv, OneReplica, LedgerOutlives, GraphSide, NEW a \in Runners, Commit(a),
         NEW c \in Cases, c = run[a].case,
         Unfinished(ReadyOf(c))' => Unfinished(ReadyOf(c))
  PROVE  CaseFits(c)'
PROOF
  <1>a. GraphTypeOK /\ CaseFits(c) /\ RunsTyped /\ RunShape(run[a])
    BY DEF DecisionInv, RunInv, TypeInv, TypeOK
  <1>b. /\ run[a].ran /\ run[a].node \in Nodes
        /\ UNCHANGED <<published, request>>
    BY <1>a DEF Commit, GraphSide, transportVars, approvalVars, RunsTyped
  <1>c. /\ thread'[c].values = run[a].values /\ thread'[c].waiting = FALSE
    BY <1>a DEF Commit, GraphTypeOK
  <1>d. /\ run'[a].node = NextNode(run[a].node, run[a].values.stage)
        /\ run'[a].resume = "none" /\ run'[a].values = run[a].values
        /\ \A b \in Runners: b # a => run'[b] = run[b]
    BY <1>a DEF Commit, GraphTypeOK, Runs
  <1>1. AtNode(a, c) /\ ~Resumed(a, c)'
    BY <1>b, <1>d DEF AtNode, Resumed
  <1>2. \A b \in Runners: b # a => (AtNode(b, c)' <=> AtNode(b, c)) /\ (Resumed(b, c)' <=> Resumed(b, c))
    BY <1>d DEF AtNode, Resumed
  <1>3. CanDecide(c)' => \E b \in Runners \ {a}: Resumed(b, c)
    BY <1>1, <1>2, <1>c DEF CanDecide
  <1>4. CASE Resumed(a, c)
    <2>1. CanDecide(c) /\ Undecided(c) /\ ~Unfinished(ReadyOf(c))'
      BY <1>4, <1>a DEF CaseFits, CanDecide
    <2>2. ~CanDecide(c)'
      BY <1>3, <1>4, OneResumed
    <2>3. /\ thread'[c].values.stage = run[a].resume
          /\ thread'[c].values.decision = run[a].resume
      BY <1>4, <1>a, <1>b, <1>c DEF RunShape, Resumed
    <2>4. ~Ordered(c)'
      BY <2>1, <1>b DEF Undecided, Ordered
    <2>5. ASSUME thread'[c].values.stage = "rejected", NEW b \in Runners, AtNode(b, c)'
          PROVE  run'[b].values.decision # "approved"
      <3>1. CASE b = a
        <4>1. NextNode("human_approval", "rejected") \notin Nodes
          BY DEF NextNode, Nodes
        <4>2. run[a].node = "human_approval" /\ run[a].values.stage = "rejected"
          BY <2>5, <1>4, <1>c DEF Resumed
        <4>. QED
          BY <4>1, <4>2, <3>1, <2>5, <1>d DEF AtNode
      <3>2. CASE b # a
        <4>1. AtNode(b, c) /\ ~Resumed(b, c)
          BY <3>2, <2>5, <1>2, <1>4, OneResumed
        <4>. QED
          BY <4>1, <3>2, <2>1, <1>d DEF Undecided
      <3>. QED
        BY <3>1, <3>2
    <2>. QED
      BY <2>1, <2>2, <2>3, <2>4, <2>5 DEF CaseFits
  <1>5. CASE ~Resumed(a, c)
    <2>1. run[a].node # "human_approval"
      BY <1>5, <1>a, <1>b DEF Resumed, RunShape
    <2>2. thread'[c].values.stage \in {"evidence_requested", "review_requested", "execution_requested"}
      BY <2>1, <1>a, <1>b, <1>c DEF RunShape, Nodes
    <2>3. CanDecide(c)' => CanDecide(c)
      BY <1>3 DEF CanDecide
    <2>4. ASSUME Undecided(c) PROVE Undecided(c)'
      <3>1. run[a].values.decision = "none"
        BY <2>4, <1>1, <1>5 DEF Undecided
      <3>2. run[a].node # "request_execution_order"
        BY <3>1, <1>a, <1>b DEF RunShape
      <3>3. thread'[c].values.stage \in {"evidence_requested", "review_requested"}
        BY <3>2, <2>1, <1>a, <1>b, <1>c DEF RunShape, Nodes
      <3>4. \A b \in Runners:
              AtNode(b, c)' /\ ~Resumed(b, c)' => run'[b].values.decision = "none"
        BY <3>1, <2>4, <1>2, <1>d DEF Undecided
      <3>. QED
        BY <3>1, <3>3, <3>4, <2>4, <1>b, <1>c DEF Undecided, Ordered, Republishing
    <2>. QED
      BY <2>2, <2>3, <2>4, <1>a DEF CaseFits
  <1>. QED
    BY <1>4, <1>5

LEMMA GraphCaseFits ==
  ASSUME DecisionInv, OneReplica, LedgerOutlives, GraphSide, NEW c \in Cases
  PROVE  CaseFits(c)'
PROOF
  <1>a. GraphTypeOK /\ RunsTyped /\ CaseFits(c)
    BY DEF DecisionInv, RunInv, TypeInv, TypeOK
  <1>b. Unfinished(ReadyOf(c))' => Unfinished(ReadyOf(c))
    <2>1. ReadyOf(c) \in EventIds
      BY DEF ReadyOf, EventIds, ConsumedTypes
    <2>2. TypeInv /\ [Next]_vars
      BY DEF DecisionInv, RunInv, Next
    <2>. QED
      BY <2>1, <2>2, FinishedStays
  <1>c. \A q \in Requests: Republishing(q, c)' => Republishing(q, c)
    BY DEF GraphSide, approvalVars, Republishing
  <1>. PICK a \in Runners: GraphStep(a) \/ CallRaises(a)
    BY DEF GraphSide
  <1>d. \A b \in Runners: b # a => run'[b] = run[b]
    BY <1>a DEF GraphStep, RequestEvidence, PrepareCaseForReview, Interrupt, HumanApproval,
       RequestExecutionOrder, Commit, NodeRaises, CallRaises, NodeReturns, GraphTypeOK
  <1>e. run[a] \in Runs /\ run[a].values \in Values
    BY <1>a DEF GraphTypeOK, Runs
  <1>1. ASSUME thread'[c] = thread[c], KeepsRun(a, c),
               \/ Ordered(c)' => Ordered(c)
               \/ AtNode(a, c) /\ ~Resumed(a, c) /\ run[a].values.decision = "approved"
        PROVE  CaseFits(c)'
    BY <1>1, <1>a, <1>b, <1>c, <1>d, SameRunKept, CaseFrame
  <1>2. CASE RequestEvidence(a) \/ PrepareCaseForReview(a)
    <2>1. PICK values:
            /\ run' = [run EXCEPT ![a].ran = TRUE, ![a].values = values]
            /\ values.decision = run[a].values.decision
      <3>1. CASE RequestEvidence(a)
        <4>. DEFINE values == [run[a].values EXCEPT !.stage = "evidence_requested"]
        <4>1. run' = [run EXCEPT ![a].ran = TRUE, ![a].values = values]
          BY <3>1 DEF RequestEvidence, NodeReturns
        <4>2. values.decision = run[a].values.decision
          BY <1>e DEF Values
        <4>. HIDE DEF values
        <4>. QED
          BY <4>1, <4>2
      <3>2. CASE PrepareCaseForReview(a)
        <4>1. PICK action:
                NodeReturns(a, [run[a].values EXCEPT !.stage = "review_requested", !.report = action])
          BY <3>2 DEF PrepareCaseForReview
        <4>. DEFINE values == [run[a].values EXCEPT !.stage = "review_requested", !.report = action]
        <4>2. run' = [run EXCEPT ![a].ran = TRUE, ![a].values = values]
          BY <4>1 DEF NodeReturns
        <4>3. values.decision = run[a].values.decision
          BY <1>e DEF Values
        <4>. HIDE DEF values
        <4>. QED
          BY <4>2, <4>3
      <3>. QED
        BY <1>2, <3>1, <3>2
    <2>2. /\ UNCHANGED thread /\ run[a].node # "human_approval"
          /\ \E type, k, d: type # "execution_order" /\ Publish(type, k, d)
      BY <1>2 DEF RequestEvidence, PrepareCaseForReview, NodeReturns, Pending
    <2>3. KeepsRun(a, c)
      BY <2>1, <2>2, <1>a DEF KeepsRun, AtNode, Resumed, GraphTypeOK, Runs
    <2>4. Ordered(c)' => Ordered(c)
      BY <2>2 DEF Publish, Ordered
    <2>. QED
      BY <2>2, <2>3, <2>4, <1>1
  <1>3. CASE HumanApproval(a)
    <2>1. PICK values:
            /\ run' = [run EXCEPT ![a].ran = TRUE, ![a].values = values]
            /\ UNCHANGED thread /\ run[a].node = "human_approval" /\ run[a].resume # "none"
      BY <1>3 DEF HumanApproval, NodeReturns, Pending
    <2>2. KeepsRun(a, c)
      BY <2>1, <1>a DEF KeepsRun, AtNode, Resumed, CanDecide, GraphTypeOK, Runs
    <2>3. Ordered(c)' => Ordered(c)
      BY <1>3 DEF HumanApproval, Publish, Ordered
    <2>. QED
      BY <2>1, <2>2, <2>3, <1>1
  <1>4. CASE RequestExecutionOrder(a)
    <2>1. PICK values:
            /\ run' = [run EXCEPT ![a].ran = TRUE, ![a].values = values]
            /\ values.decision = run[a].values.decision
      <3>. DEFINE values == [run[a].values EXCEPT !.stage = "execution_requested"]
      <3>1. run' = [run EXCEPT ![a].ran = TRUE, ![a].values = values]
        BY <1>4 DEF RequestExecutionOrder, NodeReturns
      <3>2. values.decision = run[a].values.decision
        BY <1>e DEF Values
      <3>. HIDE DEF values
      <3>. QED
        BY <3>1, <3>2
    <2>2. /\ UNCHANGED thread /\ run[a].node = "request_execution_order"
          /\ run[a].values.decision = "approved"
          /\ \E d: Publish("execution_order", run[a].case, d)
      BY <1>4 DEF RequestExecutionOrder, NodeReturns, Pending, NodeAccepts
    <2>3. KeepsRun(a, c)
      BY <2>1, <2>2, <1>a DEF KeepsRun, AtNode, Resumed, GraphTypeOK, Runs
    <2>4. run[a].case # c => (Ordered(c)' => Ordered(c))
      BY <2>2 DEF Publish, Ordered
    <2>5. run[a].case = c => AtNode(a, c) /\ ~Resumed(a, c)
      BY <2>2 DEF AtNode, Resumed, Nodes
    <2>. QED
      BY <2>2, <2>3, <2>4, <2>5, <1>1
  <1>5. CASE NodeRaises(a) \/ CallRaises(a)
    <2>1. UNCHANGED <<thread, published>> /\ run'[a].node = "raised"
      <3>1. UNCHANGED <<thread, published>>
        BY <1>5 DEF NodeRaises, CallRaises, transportVars
      <3>2. run'[a].node = "raised"
        BY <1>5, <1>a, <1>e DEF NodeRaises, CallRaises, GraphTypeOK, Runs
      <3>. QED
        BY <3>1, <3>2
    <2>2. KeepsRun(a, c)
      BY <2>1, SameRunKept DEF Nodes
    <2>. QED
      BY <2>1, <2>2, <1>1 DEF Ordered
  <1>6. CASE Interrupt(a)
    <2>1. CASE run[a].case = c
      BY <1>6, <2>1, InterruptCaseFits
    <2>2. CASE run[a].case # c
      <3>1. thread'[c] = thread[c] /\ UNCHANGED published /\ run'[a].node = "returned"
        BY <1>6, <2>2, <1>a DEF Interrupt, GraphTypeOK, transportVars
      <3>2. KeepsRun(a, c)
        BY <3>1, SameRunKept DEF Nodes
      <3>. QED
        BY <3>1, <3>2, <1>1 DEF Ordered
    <2>. QED
      BY <2>1, <2>2
  <1>7. CASE Commit(a)
    <2>1. CASE run[a].case = c
      BY <1>7, <2>1, <1>b, CommitCaseFits
    <2>2. CASE run[a].case # c
      <3>1. thread'[c] = thread[c] /\ UNCHANGED published /\ run'[a].case = run[a].case
        BY <1>7, <2>2, <1>a DEF Commit, GraphTypeOK, Runs, transportVars
      <3>2. KeepsRun(a, c)
        BY <3>1, <2>2 DEF KeepsRun, AtNode
      <3>. QED
        BY <3>1, <3>2, <1>1 DEF Ordered
    <2>. QED
      BY <2>1, <2>2
  <1>. QED
    BY <1>2, <1>3, <1>4, <1>5, <1>6, <1>7 DEF GraphStep

LEMMA DecisionInvAlways ==
  ASSUME OneReplica, LedgerOutlives
  PROVE  Spec => []DecisionInv
PROOF
  <1>. DEFINE Local == \A c \in Cases: CaseFits(c)
  <1>1. Init => Local
    <2>1. ASSUME Init, NEW c \in Cases PROVE CaseFits(c)
      <3>. USE <2>1 DEF Init, TransportInit, GraphInit, ConsumersInit, ApprovalInit
      <3>1. Undecided(c)
        BY DEF Undecided, NoThread, NoValues, Ordered, AtNode, Nodes, IdleRun, Republishing, NewRequest
      <3>2. ~CanDecide(c) /\ thread[c].values.stage # "rejected"
        BY DEF CanDecide, NoThread, NoValues, Resumed, IdleRun
      <3>. QED
        BY <3>1, <3>2 DEF CaseFits
    <2>. QED
      BY <2>1
  <1>2. ASSUME DecisionInv, [Next]_vars PROVE Local'
    <2>1. ASSUME UNCHANGED vars, NEW c \in Cases PROVE CaseFits(c)'
      <3>1. UNCHANGED <<thread, run, published, request, ledger, worker>>
        BY <2>1 DEF vars, transportVars, graphVars, consumerVars, approvalVars
      <3>2. (Unfinished(ReadyOf(c))' <=> Unfinished(ReadyOf(c))) /\ (CanDecide(c)' <=> CanDecide(c))
        BY <3>1 DEF Unfinished, ReadyOf, CanDecide, Resumed
      <3>3. Undecided(c) => Undecided(c)'
        BY <3>1 DEF Undecided, Ordered, AtNode, Resumed, Republishing
      <3>. QED
        BY <3>1, <3>2, <3>3, <1>2 DEF DecisionInv, CaseFits, Ordered, AtNode
    <2>. QED
      BY <1>2, <2>1, ConsumerCaseFits, ApprovalCaseFits, GraphCaseFits DEF Next
  <1>3. DecisionInv <=> Local /\ RunInv /\ ClaimInv /\ LedgerInv
    BY DEF DecisionInv
  <1>. HIDE DEF Local
  <1>. QED
    BY <1>1, <1>2, <1>3, RunInvAlways, ClaimInvAlways, LedgerInvAlways, PTL DEF Spec

(* A rejected case has no execution order: with one process that serves    *)
(* the approvals, and claims that outlive a crash.                         *)
THEOREM RejectionStands ==
  ASSUME OneReplica, LedgerOutlives
  PROVE  Spec => []RejectedNotExecuted
PROOF
  <1>1. DecisionInv => RejectedNotExecuted
    BY DEF DecisionInv, CaseFits, RejectedNotExecuted, Ordered
  <1>. QED
    BY <1>1, DecisionInvAlways, PTL

-----------------------------------------------------------------------------
(* Orders.  A report is live if it was ordered, or may be: it is under     *)
(* review, or in values that were approved.  The evidence is analysed      *)
(* again only while nothing is live, and whatever else becomes live was.   *)
Live(c, r) ==
  \/ IsPublished("execution_order", c, r)
  \/ /\ thread[c].waiting \/ thread[c].values.decision = "approved"
     /\ thread[c].values.report = r
  \/ \E a \in Runners:
       /\ AtNode(a, c)
       /\ Resumed(a, c) \/ run[a].values.decision = "approved"
       /\ run[a].values.report = r

OneReport(c) ==
  /\ \A r1, r2 \in Details: Live(c, r1) /\ Live(c, r2) => r1 = r2
  /\ Unfinished(ReadyOf(c)) => \A r \in Details: ~Live(c, r)

OrderInv ==
  /\ RunInv /\ ClaimInv /\ LedgerInv
  /\ \A c \in Cases: OneReport(c)

(* What every step but an interrupt must show of a case.                   *)
ThreadLive(c) ==
  thread'[c].waiting \/ thread'[c].values.decision = "approved" =>
    Live(c, thread'[c].values.report)

RunLive(a, c) ==
  AtNode(a, c)' /\ (Resumed(a, c)' \/ run'[a].values.decision = "approved") =>
    Live(c, run'[a].values.report)

LEMMA OneReportFrame ==
  ASSUME NEW c \in Cases, OneReport(c), Unfinished(ReadyOf(c))' => Unfinished(ReadyOf(c)),
         \A r \in Details: IsPublished("execution_order", c, r)' => Live(c, r),
         ThreadLive(c), \A a \in Runners: RunLive(a, c)
  PROVE  OneReport(c)'
PROOF
  <1>1. ASSUME NEW r \in Details, Live(c, r)' PROVE Live(c, r)
    <2>1. CASE IsPublished("execution_order", c, r)'
      BY <2>1
    <2>2. CASE /\ thread'[c].waiting \/ thread'[c].values.decision = "approved"
               /\ thread'[c].values.report = r
      BY <2>2 DEF ThreadLive
    <2>3. ASSUME NEW a \in Runners, AtNode(a, c)', run'[a].values.report = r,
                 Resumed(a, c)' \/ run'[a].values.decision = "approved"
          PROVE  Live(c, r)
      BY <2>3 DEF RunLive
    <2>. QED
      BY <1>1, <2>1, <2>2, <2>3 DEF Live
  <1>. QED
    BY <1>1 DEF OneReport

(* What stays as it was is live as it was.                                 *)
LEMMA LiveFrame ==
  ASSUME NEW c \in Cases
  PROVE  /\ \A r: IsPublished("execution_order", c, r) => Live(c, r)
         /\ thread[c].waiting \/ thread[c].values.decision = "approved" =>
              Live(c, thread[c].values.report)
         /\ thread'[c].values.decision = thread[c].values.decision
            /\ thread'[c].values.report = thread[c].values.report
            /\ (thread'[c].waiting => thread[c].waiting) => ThreadLive(c)
         /\ \A a \in Runners:
              AtNode(a, c) /\ (Resumed(a, c) \/ run[a].values.decision = "approved") =>
                Live(c, run[a].values.report)
         /\ \A a \in Runners: run'[a] = run[a] \/ run'[a].node \notin Nodes => RunLive(a, c)
PROOF
  <1>1. /\ \A r: IsPublished("execution_order", c, r) => Live(c, r)
        /\ thread[c].waiting \/ thread[c].values.decision = "approved" =>
             Live(c, thread[c].values.report)
        /\ \A a \in Runners:
             AtNode(a, c) /\ (Resumed(a, c) \/ run[a].values.decision = "approved") =>
               Live(c, run[a].values.report)
    BY DEF Live
  <1>. QED
    BY <1>1 DEF ThreadLive, RunLive, AtNode, Resumed

LEMMA ConsumerOneReport ==
  ASSUME OrderInv, LedgerOutlives, ConsumerSide, NEW c \in Cases
  PROVE  OneReport(c)'
PROOF
  <1>a. ConsumersTypeOK /\ GraphTypeOK /\ OneReport(c)
    BY DEF OrderInv, RunInv, TypeInv, TypeOK
  <1>b. Unfinished(ReadyOf(c))' => Unfinished(ReadyOf(c))
    <2>1. ReadyOf(c) \in EventIds
      BY DEF ReadyOf, EventIds, ConsumedTypes
    <2>2. TypeInv /\ [Next]_vars
      BY DEF OrderInv, RunInv, Next
    <2>. QED
      BY <2>1, <2>2, FinishedStays
  <1>d. Workers \subseteq Runners /\ IdleRun.node \notin Nodes
    BY DEF Runners, IdleRun, Nodes
  <1>e. \A r: IsPublished("execution_order", c, r)' => Live(c, r)
    <2>1. \/ published' = published
          \/ \E type, k, d: type \in ConsumedTypes /\ Publish(type, k, d)
      BY DEF ConsumerSide, PublishAlert, RedeliverMessage, ConsumerStep, ConsumerFault, Receive, DeadLetterInvalid,
         Claim, AckDuplicate, StartCase, CollectEvidence, CollectionRaises, StartReasoning,
         RunEnds, Complete, AckCompleted, Release, RetryOrDeadLetter, WorkerCrash,
         transportVars, ConsumedTypes
    <2>2. \A r: IsPublished("execution_order", c, r)' => IsPublished("execution_order", c, r)
      BY <2>1 DEF Publish, IsPublished, ConsumedTypes
    <2>. QED
      BY <2>2, LiveFrame
  <1>1. ASSUME UNCHANGED thread, \A a \in Runners: run'[a] = run[a] \/ run'[a].node \notin Nodes
        PROVE  OneReport(c)'
    BY <1>1, <1>a, <1>b, <1>e, LiveFrame, OneReportFrame
  <1>2. ASSUME UNCHANGED graphVars PROVE OneReport(c)'
    BY <1>1, <1>2 DEF graphVars
  <1>3. ASSUME NEW w \in Workers, RunEnds(w) \/ WorkerCrash(w) PROVE OneReport(c)'
    <2>1. UNCHANGED thread /\ run' = [run EXCEPT ![w] = IdleRun]
      BY <1>3 DEF RunEnds, WorkerCrash, LedgerOutlives, Inject
    <2>. QED
      BY <2>1, <1>1, <1>a, <1>d DEF GraphTypeOK
  <1>4. ASSUME NEW w \in Workers, StartCase(w) \/ StartReasoning(w) PROVE OneReport(c)'
    <2>. DEFINE k == EventOf(w).case
    <2>0. k \in Cases
      BY <1>4, <1>a DEF StartCase, StartReasoning, ConsumersTypeOK, Messages, EventIds
    <2>1. PICK values, node:
            /\ Begin(w, k, node, values, "none")
            /\ values.decision = thread[k].values.decision
            /\ values.report = thread[k].values.report
            /\ \/ UNCHANGED thread
               \/ thread' = [thread EXCEPT ![k] = [values |-> values, waiting |-> FALSE, offered |-> {}]]
      <3>1. CASE StartCase(w)
        <4>. DEFINE values == [thread[k].values EXCEPT !.stage = "alert_received"]
        <4>1. /\ Begin(w, k, RouteStage("alert_received"), values, "none")
              /\ thread' = [thread EXCEPT ![k] = [values |-> values, waiting |-> FALSE, offered |-> {}]]
          BY <3>1 DEF StartCase, InvokeInput
        <4>2. /\ values.decision = thread[k].values.decision
              /\ values.report = thread[k].values.report
          BY <2>0, <1>a DEF GraphTypeOK, Threads, Values
        <4>. HIDE DEF values
        <4>. QED
          BY <4>1, <4>2
      <3>2. CASE StartReasoning(w)
        <4>. DEFINE values ==
               [thread[k].values EXCEPT !.stage = "evidence_ready", !.evidence = TRUE]
        <4>1. Begin(w, k, "prepare_case_for_review", values, "none") /\ UNCHANGED thread
          BY <3>2 DEF StartReasoning, InvokeGoto
        <4>2. /\ values.decision = thread[k].values.decision
              /\ values.report = thread[k].values.report
          BY <2>0, <1>a DEF GraphTypeOK, Threads, Values
        <4>. HIDE DEF values
        <4>. QED
          BY <4>1, <4>2
      <3>. QED
        BY <1>4, <3>1, <3>2
    <2>2. /\ run'[w] = [node |-> node, ran |-> FALSE, case |-> k, values |-> values,
                        resume |-> "none"]
          /\ \A b \in Runners: b # w => run'[b] = run[b]
      <3>1. Begin(w, k, node, values, "none") /\ w \in Runners /\ GraphTypeOK
        BY <2>1, <1>a, <1>d
      <3>. QED
        BY <3>1, BeginShape
    <2>3. RunLive(w, c)
      <3>1. run'[w].case = k /\ run'[w].values = values /\ run'[w].resume = "none"
        BY <2>2
      <3>2. AtNode(w, c)' => k = c
        BY <3>1 DEF AtNode
      <3>3. ~Resumed(w, c)'
        BY <3>1 DEF Resumed
      <3>4. values.decision = thread[k].values.decision
            /\ values.report = thread[k].values.report
        BY <2>1
      <3>5. thread[c].values.decision = "approved" => Live(c, thread[c].values.report)
        BY LiveFrame
      <3>. QED
        BY <3>1, <3>2, <3>3, <3>4, <3>5 DEF RunLive
    <2>4. /\ thread'[c].values.decision = thread[c].values.decision
          /\ thread'[c].values.report = thread[c].values.report
          /\ thread'[c].waiting => thread[c].waiting
      BY <2>0, <2>1, <1>a DEF GraphTypeOK
    <2>. QED
      BY <2>2, <2>3, <2>4, <1>a, <1>b, <1>e, LiveFrame, OneReportFrame
  <1>. QED
    BY <1>2, <1>3, <1>4
       DEF ConsumerSide, PublishAlert, RedeliverMessage, ConsumerStep, ConsumerFault, Receive, DeadLetterInvalid,
           Claim, AckDuplicate, CollectEvidence, CollectionRaises, Complete, AckCompleted,
           Release, RetryOrDeadLetter

(* Resuming an interrupt changes nothing of a case but what it offers.     *)
LEMMA ResumeKeeps ==
  ASSUME GraphTypeOK, NEW q \in Requests, NEW k \in Cases, NEW d, InvokeResume(q, k, d),
         NEW c \in Cases
  PROVE  /\ thread'[c].values = thread[c].values /\ thread'[c].waiting = thread[c].waiting
         /\ \A b \in Runners: b # q => run'[b] = run[b]
PROOF
  <1>1. \A b \in Runners: b # q => run'[b] = run[b]
    BY DEF InvokeResume, Begin, GraphTypeOK
  <1>2. CASE thread[k].waiting
    <2>1. PICK r: thread' = [thread EXCEPT ![k].offered = @ \cup {r}]
      BY <1>2 DEF InvokeResume
    <2>2. thread'[c].values = thread[c].values /\ thread'[c].waiting = thread[c].waiting
      BY <2>1 DEF GraphTypeOK, Threads
    <2>. QED
      BY <1>1, <2>2
  <1>3. CASE ~thread[k].waiting
    BY <1>1, <1>3 DEF InvokeResume
  <1>. QED
    BY <1>2, <1>3

LEMMA ApprovalOneReport ==
  ASSUME OrderInv, LedgerOutlives, ApprovalSide, NEW c \in Cases
  PROVE  OneReport(c)'
PROOF
  <1>a. ApprovalTypeOK /\ GraphTypeOK /\ OneReport(c)
    BY DEF OrderInv, RunInv, TypeInv, TypeOK
  <1>b. Unfinished(ReadyOf(c))' => Unfinished(ReadyOf(c))
    <2>1. ReadyOf(c) \in EventIds
      BY DEF ReadyOf, EventIds, ConsumedTypes
    <2>2. TypeInv /\ [Next]_vars
      BY DEF OrderInv, RunInv, Next
    <2>. QED
      BY <2>1, <2>2, FinishedStays
  <1>d. Requests \subseteq Runners /\ IdleRun.node \notin Nodes
    BY DEF Runners, IdleRun, Nodes
  <1>e. \A r: IsPublished("execution_order", c, r)' => Live(c, r)
    <2>1. published' = published
      BY DEF ApprovalSide, ApprovalStep, Submit, ResumeInterrupt, RepublishOrder, ResumeResult,
         ResumeTimeout, ReplicaCrash, transportVars
    <2>. QED
      BY <2>1, LiveFrame DEF IsPublished
  <1>1. ASSUME UNCHANGED thread, \A a \in Runners: run'[a] = run[a] \/ run'[a].node \notin Nodes
        PROVE  OneReport(c)'
    BY <1>1, <1>a, <1>b, <1>e, LiveFrame, OneReportFrame
  <1>2. ASSUME UNCHANGED graphVars PROVE OneReport(c)'
    BY <1>1, <1>2 DEF graphVars
  <1>3. ASSUME NEW q \in Requests, ResumeResult(q) \/ ResumeTimeout(q) PROVE OneReport(c)'
    <2>1. UNCHANGED thread /\ run' = [run EXCEPT ![q] = IdleRun]
      BY <1>3 DEF ResumeResult, ResumeTimeout
    <2>. QED
      BY <2>1, <1>1, <1>a, <1>d DEF GraphTypeOK
  <1>4. ASSUME NEW r \in Replicas, ReplicaCrash(r) PROVE OneReport(c)'
    BY <1>4, <1>1, <1>d DEF ReplicaCrash
  <1>5. ASSUME NEW q \in Requests, ResumeInterrupt(q) PROVE OneReport(c)'
    <2>. DEFINE k == request[q].case
    <2>1. k \in Cases /\ InvokeResume(q, k, request[q].decision)
      BY <1>5, <1>a DEF ResumeInterrupt, ApprovalTypeOK, Active
    <2>2. /\ thread'[c].values = thread[c].values /\ thread'[c].waiting = thread[c].waiting
          /\ \A b \in Runners: b # q => run'[b] = run[b]
      BY <2>1, <1>a, ResumeKeeps
    <2>3. RunLive(q, c)
      <3>1. CASE thread[k].waiting
        <4>1. PICK r: Begin(q, k, "human_approval", thread[k].values, r)
          BY <2>1, <3>1 DEF InvokeResume
        <4>2. run'[q] = [node |-> "human_approval", ran |-> FALSE, case |-> k,
                         values |-> thread[k].values, resume |-> r]
          BY <4>1, <1>a, <1>d, BeginShape
        <4>. QED
          BY <3>1, <4>2, LiveFrame DEF RunLive, AtNode
      <3>2. CASE ~thread[k].waiting
        <4>1. Begin(q, k, "returned", thread[k].values, "none")
          BY <2>1, <3>2 DEF InvokeResume
        <4>2. run'[q] = [node |-> "returned", ran |-> FALSE, case |-> k,
                         values |-> thread[k].values, resume |-> "none"]
          BY <4>1, <1>a, <1>d, BeginShape
        <4>. QED
          BY <4>2 DEF RunLive, AtNode, Nodes
      <3>. QED
        BY <3>1, <3>2
    <2>. QED
      BY <2>2, <2>3, <1>a, <1>b, <1>e, LiveFrame, OneReportFrame
  <1>6. ASSUME NEW q \in Requests, RepublishOrder(q) PROVE OneReport(c)'
    <2>. DEFINE k == request[q].case
                values == [thread[k].values EXCEPT !.stage = "approved"]
    <2>0. k \in Cases
      BY <1>6, <1>a DEF RepublishOrder, ApprovalTypeOK, Active
    <2>1. /\ Begin(q, k, RouteStage("approved"), values, "none")
          /\ thread' = [thread EXCEPT ![k] = [values |-> values, waiting |-> FALSE, offered |-> {}]]
      BY <1>6 DEF RepublishOrder, InvokeInput
    <2>2. values.decision = thread[k].values.decision /\ values.report = thread[k].values.report
      BY <2>0, <1>a DEF GraphTypeOK, Threads, Values
    <2>. HIDE DEF values
    <2>3. /\ run'[q] = [node |-> RouteStage("approved"), ran |-> FALSE, case |-> k,
                        values |-> values, resume |-> "none"]
          /\ \A b \in Runners: b # q => run'[b] = run[b]
      BY <2>1, <1>a, <1>d, BeginShape
    <2>4. RunLive(q, c)
      BY <2>2, <2>3, LiveFrame DEF RunLive, AtNode, Resumed
    <2>5. /\ thread'[c].values.decision = thread[c].values.decision
          /\ thread'[c].values.report = thread[c].values.report
          /\ thread'[c].waiting => thread[c].waiting
      BY <2>0, <2>1, <2>2, <1>a DEF GraphTypeOK
    <2>. QED
      BY <2>3, <2>4, <2>5, <1>a, <1>b, <1>e, LiveFrame, OneReportFrame
  <1>. QED
    BY <1>2, <1>3, <1>4, <1>5, <1>6 DEF ApprovalSide, ApprovalStep, Submit

LEMMA GraphOneReport ==
  ASSUME OrderInv, LedgerOutlives, GraphSide, NEW c \in Cases
  PROVE  OneReport(c)'
PROOF
  <1>a. GraphTypeOK /\ RunsTyped /\ OneReport(c) /\ RunInv /\ ClaimInv /\ LedgerInv
    BY DEF OrderInv, RunInv, TypeInv, TypeOK
  <1>b. Unfinished(ReadyOf(c))' => Unfinished(ReadyOf(c))
    <2>1. ReadyOf(c) \in EventIds
      BY DEF ReadyOf, EventIds, ConsumedTypes
    <2>2. TypeInv /\ [Next]_vars
      BY DEF OrderInv, RunInv, Next
    <2>. QED
      BY <2>1, <2>2, FinishedStays
  <1>. PICK a \in Runners: GraphStep(a) \/ CallRaises(a)
    BY DEF GraphSide
  <1>d. \A b \in Runners: b # a => run'[b] = run[b]
    BY <1>a DEF GraphStep, RequestEvidence, PrepareCaseForReview, Interrupt, HumanApproval,
       RequestExecutionOrder, Commit, NodeRaises, CallRaises, NodeReturns, GraphTypeOK
  <1>e. run[a] \in Runs /\ run[a].values \in Values
    BY <1>a DEF GraphTypeOK, Runs
  (* A node has run and left decision and report as they were.             *)
  <1>1. ASSUME UNCHANGED thread, RunLive(a, c),
               \A r: IsPublished("execution_order", c, r)' => Live(c, r)
        PROVE  OneReport(c)'
    BY <1>1, <1>a, <1>b, <1>d, LiveFrame, OneReportFrame
  <1>2. ASSUME NEW values, run' = [run EXCEPT ![a].ran = TRUE, ![a].values = values],
               UNCHANGED thread, values.report = run[a].values.report,
               values.decision = run[a].values.decision \/ run[a].resume # "none",
               run[a].node \in Nodes, run[a].resume # "none" => run[a].node = "human_approval",
               \A r: IsPublished("execution_order", c, r)' => Live(c, r)
        PROVE  OneReport(c)'
    <2>1. /\ run'[a].case = run[a].case /\ run'[a].node = run[a].node
          /\ run'[a].resume = run[a].resume /\ run'[a].values = values
      BY <1>2, <1>a DEF GraphTypeOK, Runs
    <2>2. RunLive(a, c)
      BY <1>2, <2>1, LiveFrame DEF RunLive, AtNode, Resumed
    <2>. QED
      BY <1>1, <1>2, <2>2
  <1>3. CASE Commit(a)
    <2>1. /\ run'[a].case = run[a].case /\ run'[a].resume = "none"
          /\ run'[a].values = run[a].values /\ run[a].node \in Nodes
      BY <1>3, <1>a, <1>e DEF Commit, GraphTypeOK, Runs, RunsTyped
    <2>2. /\ run[a].case = c => thread'[c].values = run[a].values /\ ~thread'[c].waiting
          /\ run[a].case # c => thread'[c] = thread[c]
      BY <1>3, <1>a DEF Commit, GraphTypeOK
    <2>3. RunLive(a, c)
      BY <2>1, LiveFrame DEF RunLive, AtNode, Resumed
    <2>4. ThreadLive(c)
      BY <2>1, <2>2, LiveFrame DEF ThreadLive, AtNode
    <2>5. \A r: IsPublished("execution_order", c, r)' => Live(c, r)
      BY <1>3, LiveFrame DEF Commit, transportVars, IsPublished
    <2>. QED
      BY <2>3, <2>4, <2>5, <1>a, <1>b, <1>d, LiveFrame, OneReportFrame
  <1>4. CASE PrepareCaseForReview(a)
    <2>1. PICK values:
            /\ run' = [run EXCEPT ![a].ran = TRUE, ![a].values = values]
            /\ values.decision = run[a].values.decision
      <3>1. PICK action:
              NodeReturns(a, [run[a].values EXCEPT !.stage = "review_requested", !.report = action])
        BY <1>4 DEF PrepareCaseForReview
      <3>. DEFINE values == [run[a].values EXCEPT !.stage = "review_requested", !.report = action]
      <3>2. run' = [run EXCEPT ![a].ran = TRUE, ![a].values = values]
        BY <3>1 DEF NodeReturns
      <3>3. values.decision = run[a].values.decision
        BY <1>e DEF Values
      <3>. HIDE DEF values
      <3>. QED
        BY <3>2, <3>3
    <2>2. /\ run'[a].case = run[a].case /\ run'[a].node = "prepare_case_for_review"
          /\ run'[a].values = values /\ UNCHANGED thread
          /\ run[a].node = "prepare_case_for_review"
          /\ \A r: IsPublished("execution_order", c, r)' => IsPublished("execution_order", c, r)
      BY <1>4, <2>1, <1>a DEF PrepareCaseForReview, Pending, NodeReturns, GraphTypeOK, Runs,
         Publish, IsPublished
    <2>3. RunLive(a, c)
      <3>1. SUFFICES ASSUME AtNode(a, c)', run'[a].values.decision = "approved" PROVE FALSE
        BY <2>2 DEF RunLive, Resumed
      <3>2. AtNode(a, c) /\ a \in Workers
        BY <2>2, <3>1, <1>a DEF AtNode, RunInv, RequestRun, Runners
      <3>3. Unfinished(ReadyOf(c))
        BY <2>2, <3>2, <1>a, WorkerAtNode DEF Unfinished
      <3>4. Live(c, run[a].values.report) /\ run[a].values.report \in Details
        BY <2>1, <2>2, <3>1, <3>2, <1>e, LiveFrame DEF Values, Reports, Details
      <3>. QED
        BY <3>3, <3>4, <1>a DEF OneReport
    <2>. QED
      BY <1>1, <2>2, <2>3, LiveFrame
  <1>5. CASE RequestEvidence(a)
    <2>. DEFINE values == [run[a].values EXCEPT !.stage = "evidence_requested"]
    <2>1. /\ run' = [run EXCEPT ![a].ran = TRUE, ![a].values = values]
          /\ run[a].node = "request_evidence" /\ UNCHANGED thread
          /\ \A r: IsPublished("execution_order", c, r)' => IsPublished("execution_order", c, r)
      BY <1>5 DEF RequestEvidence, NodeReturns, Pending, Publish, IsPublished
    <2>2. values.decision = run[a].values.decision /\ values.report = run[a].values.report
      BY <1>e DEF Values
    <2>. HIDE DEF values
    <2>3. run'[a].node = run[a].node /\ run'[a].values = values /\ run'[a].case = run[a].case
      BY <2>1, <1>a DEF GraphTypeOK, Runs
    <2>4. RunLive(a, c)
      BY <2>1, <2>2, <2>3, LiveFrame DEF RunLive, AtNode, Resumed, Nodes
    <2>. QED
      BY <1>1, <2>1, <2>4, LiveFrame
  <1>6. CASE HumanApproval(a)
    <2>. DEFINE values == [run[a].values EXCEPT !.stage = run[a].resume, !.decision = run[a].resume]
    <2>1. /\ run' = [run EXCEPT ![a].ran = TRUE, ![a].values = values]
          /\ run[a].node = "human_approval" /\ run[a].resume # "none" /\ UNCHANGED thread
          /\ \A r: IsPublished("execution_order", c, r)' => IsPublished("execution_order", c, r)
      BY <1>6 DEF HumanApproval, NodeReturns, Pending, Publish, IsPublished
    <2>2. values.report = run[a].values.report
      BY <1>e DEF Values
    <2>. HIDE DEF values
    <2>. QED
      BY <2>1, <2>2, <1>2, LiveFrame DEF Nodes
  <1>7. CASE RequestExecutionOrder(a)
    <2>. DEFINE values == [run[a].values EXCEPT !.stage = "execution_requested"]
    <2>1. /\ run' = [run EXCEPT ![a].ran = TRUE, ![a].values = values]
          /\ run[a].node = "request_execution_order" /\ UNCHANGED thread
          /\ run[a].values.decision = "approved"
          /\ Publish("execution_order", run[a].case, run[a].values.report)
      BY <1>7 DEF RequestExecutionOrder, NodeReturns, Pending, NodeAccepts
    <2>2. values.decision = run[a].values.decision /\ values.report = run[a].values.report
      BY <1>e DEF Values
    <2>. HIDE DEF values
    <2>3. run'[a].node = run[a].node /\ run'[a].values = values /\ run'[a].case = run[a].case
      BY <2>1, <1>a DEF GraphTypeOK, Runs
    <2>4. RunLive(a, c)
      BY <2>1, <2>2, <2>3, LiveFrame DEF RunLive, AtNode, Resumed, Nodes
    <2>5. ASSUME NEW r, IsPublished("execution_order", c, r)' PROVE Live(c, r)
      <3>1. \/ IsPublished("execution_order", c, r)
            \/ run[a].case = c /\ run[a].values.report = r
        BY <2>1, <2>5 DEF Publish, IsPublished
      <3>. QED
        BY <2>1, <3>1, LiveFrame DEF AtNode, Nodes
    <2>. QED
      BY <1>1, <2>1, <2>4, <2>5
  <1>8. CASE NodeRaises(a) \/ CallRaises(a)
    <2>1. UNCHANGED <<thread, published>>
      BY <1>8 DEF NodeRaises, CallRaises, transportVars
    <2>2. run'[a].node = "raised"
      BY <1>8, <1>a, <1>e DEF NodeRaises, CallRaises, GraphTypeOK, Runs
    <2>. QED
      BY <1>1, <2>1, <2>2, LiveFrame DEF Nodes, IsPublished
  <1>9. CASE Interrupt(a)
    <2>1. CASE run[a].case = c
      <3>1. /\ Unfinished(ReadyOf(c)) /\ ~Unfinished(ReadyOf(c))'
            /\ run'[a].node = "returned" /\ \A b \in Runners: b # a => run'[b] = run[b]
            /\ UNCHANGED published /\ thread'[c].values = thread[c].values
        BY <1>9, <2>1, <1>a, InterruptEndsReady
      <3>2. \A r \in Details: ~Live(c, r)
        BY <3>1, <1>a DEF OneReport
      <3>3. ASSUME NEW r \in Details, Live(c, r)' PROVE r = thread'[c].values.report
        BY <3>1, <3>2, <3>3 DEF Live, IsPublished, AtNode, Resumed, Nodes
      <3>. QED
        BY <3>1, <3>3 DEF OneReport
    <2>2. CASE run[a].case # c
      <3>1. thread'[c] = thread[c] /\ UNCHANGED published /\ run'[a].node = "returned"
        BY <1>9, <2>2, <1>a DEF Interrupt, GraphTypeOK, transportVars
      <3>2. \A r: IsPublished("execution_order", c, r)' => Live(c, r)
        BY <3>1, LiveFrame DEF IsPublished
      <3>3. RunLive(a, c) /\ ThreadLive(c)
        BY <3>1, LiveFrame DEF Nodes
      <3>. QED
        BY <3>2, <3>3, <1>a, <1>b, <1>d, LiveFrame, OneReportFrame
    <2>. QED
      BY <2>1, <2>2
  <1>. QED
    BY <1>3, <1>4, <1>5, <1>6, <1>7, <1>8, <1>9 DEF GraphStep

(* All orders of a case carry one action, whatever replicas, faults and    *)
(* redeliveries there are: with claims that outlive a crash.               *)
THEOREM OneActionPerCase ==
  ASSUME LedgerOutlives
  PROVE  Spec => []OneActionOrdered
PROOF
  <1>. DEFINE Local == \A c \in Cases: OneReport(c)
  <1>1. Init => Local
    <2>1. ASSUME Init, NEW c \in Cases PROVE OneReport(c)
      <3>. USE <2>1 DEF Init, TransportInit, GraphInit
      <3>1. ~thread[c].waiting /\ thread[c].values.decision = "none" /\ published = {}
        BY DEF NoThread, NoValues
      <3>2. \A a \in Runners: ~AtNode(a, c)
        BY DEF AtNode, IdleRun, Nodes
      <3>3. \A r \in Details: ~Live(c, r)
        BY <3>1, <3>2 DEF Live, IsPublished
      <3>. QED
        BY <3>3 DEF OneReport
    <2>. QED
      BY <2>1
  <1>2. ASSUME OrderInv, [Next]_vars PROVE Local'
    <2>1. ASSUME UNCHANGED vars, NEW c \in Cases PROVE OneReport(c)'
      <3>1. UNCHANGED <<thread, run, published, ledger, worker>>
        BY <2>1 DEF vars, transportVars, graphVars, consumerVars
      <3>2. Unfinished(ReadyOf(c))' <=> Unfinished(ReadyOf(c))
        BY <3>1 DEF Unfinished, ReadyOf
      <3>3. \A r: IsPublished("execution_order", c, r)' => Live(c, r)
        BY <3>1, LiveFrame DEF IsPublished
      <3>. QED
        BY <3>1, <3>2, <3>3, <1>2, LiveFrame, OneReportFrame DEF OrderInv
    <2>. QED
      BY <1>2, <2>1, ConsumerOneReport, ApprovalOneReport, GraphOneReport DEF Next
  <1>3. OrderInv <=> Local /\ RunInv /\ ClaimInv /\ LedgerInv
    BY DEF OrderInv
  <1>4. OrderInv => OneActionOrdered
    <2>1. SUFFICES ASSUME OrderInv, NEW p1 \in published, NEW p2 \in published,
                          p1.type = "execution_order", p2.type = "execution_order",
                          p1.case = p2.case
                   PROVE  p1.detail = p2.detail
      BY DEF OneActionOrdered
    <2>2. /\ p1.case \in Cases /\ p1.detail \in Details /\ p2.detail \in Details
          /\ p1 = [type |-> "execution_order", case |-> p1.case, detail |-> p1.detail]
          /\ p2 = [type |-> "execution_order", case |-> p1.case, detail |-> p2.detail]
      BY <2>1 DEF OrderInv, RunInv, TypeInv, TypeOK, TransportTypeOK, Publications
    <2>3. Live(p1.case, p1.detail) /\ Live(p1.case, p2.detail)
      BY <2>2 DEF Live, IsPublished
    <2>. QED
      BY <2>1, <2>2, <2>3 DEF OrderInv, OneReport
  <1>. HIDE DEF Local
  <1>. QED
    BY <1>1, <1>2, <1>3, <1>4, RunInvAlways, ClaimInvAlways, LedgerInvAlways, PTL DEF Spec

-----------------------------------------------------------------------------
(* Stages.  Once its alert is completed, only a republication of an order  *)
(* that was published meanwhile could take a case back.                    *)
RepublishFits(c) ==
  (\E q \in Requests: Republishing(q, c)) => thread[c].values.stage # "execution_requested"

StageInv == DecisionInv /\ \A c \in Cases: RepublishFits(c)

LEMMA RankFacts ==
  /\ StageRank["none"] = 0 /\ StageRank["alert_received"] = 1
  /\ StageRank["evidence_requested"] = 2 /\ StageRank["evidence_ready"] = 3
  /\ StageRank["review_requested"] = 4 /\ StageRank["approved"] = 5
  /\ StageRank["rejected"] = 5 /\ StageRank["execution_requested"] = 6
  /\ \A s \in Stages: StageRank[s] \in Nat
PROOF
  <1>1. \A s \in Stages:
          StageRank[s] = CASE s = "none" -> 0
                           [] s = "alert_received" -> 1
                           [] s = "evidence_requested" -> 2
                           [] s = "evidence_ready" -> 3
                           [] s = "review_requested" -> 4
                           [] s \in {"approved", "rejected"} -> 5
                           [] s = "execution_requested" -> 6
    BY DEF StageRank
  <1>2. /\ StageRank["none"] = 0 /\ StageRank["alert_received"] = 1
        /\ StageRank["evidence_requested"] = 2 /\ StageRank["evidence_ready"] = 3
        /\ StageRank["review_requested"] = 4 /\ StageRank["approved"] = 5
        /\ StageRank["rejected"] = 5 /\ StageRank["execution_requested"] = 6
    BY <1>1 DEF Stages
  <1>. QED
    BY <1>2 DEF Stages

(* Nothing takes a case that is executed back to its approval.             *)
LEMMA ApprovalRepublishFits ==
  ASSUME StageInv, ApprovalSide, NEW c \in Cases
  PROVE  RepublishFits(c)'
PROOF
  <1>a. ApprovalTypeOK /\ GraphTypeOK /\ RepublishFits(c)
    BY DEF StageInv, DecisionInv, RunInv, TypeInv, TypeOK
  <1>b. Requests \subseteq Runners
    BY DEF Runners
  <1>1. ASSUME NEW q \in Requests, NEW r \in Replicas, NEW k \in Cases, NEW d \in Decisions,
               NEW cred \in Credentials, Submit(q, r, k, d, cred)
        PROVE  RepublishFits(c)'
    <2>1. UNCHANGED thread /\ \A p \in Requests: p # q => request'[p] = request[p]
      BY <1>1, <1>a DEF Submit, Finish, graphVars, ApprovalTypeOK
    <2>2. ASSUME Republishing(q, c)' PROVE thread[c].values.stage = "approved"
      <3>1. ASSUME NEW o, Finish(q, o) PROVE FALSE
        <4>1. request'[q] = Ended(request[q], o)
          BY <3>1, <1>a DEF Finish, ApprovalTypeOK
        <4>. QED
          BY <4>1, <2>2, <1>a DEF Ended, Republishing, ApprovalTypeOK
      <3>2. request' = [request EXCEPT ![q] =
                          [pc |-> "admitted", replica |-> r, case |-> k,
                           decision |-> d, credentials |-> cred,
                           mode |-> Admission(k, d, cred), outcome |-> "none"]]
        BY <1>1, <3>1 DEF Submit
      <3>3. request'[q].case = k /\ request'[q].mode = Admission(k, d, cred)
        BY <3>2, <1>a DEF ApprovalTypeOK
      <3>4. k = c /\ Admission(c, d, cred) = "republish"
        BY <3>3, <2>2 DEF Republishing
      <3>. QED
        BY <3>4 DEF Admission
    <2>3. (\E p \in Requests: Republishing(p, c)') =>
            (\E p \in Requests: Republishing(p, c)) \/ thread[c].values.stage = "approved"
      BY <2>1, <2>2 DEF Republishing
    <2>. QED
      BY <2>1, <2>3, <1>a DEF RepublishFits
  <1>2. ASSUME \A p \in Requests: Republishing(p, c)' => Republishing(p, c),
               \/ thread'[c].values.stage = thread[c].values.stage
               \/ thread'[c].values.stage = "approved"
        PROVE  RepublishFits(c)'
    BY <1>2, <1>a DEF RepublishFits
  <1>3. ASSUME NEW q \in Requests, ResumeInterrupt(q) PROVE RepublishFits(c)'
    <2>1. /\ request[q].case \in Cases
          /\ InvokeResume(q, request[q].case, request[q].decision)
          /\ request' = [request EXCEPT ![q].pc = "running"]
      BY <1>3, <1>a DEF ResumeInterrupt, ApprovalTypeOK, Active
    <2>2. thread'[c].values = thread[c].values
      BY <2>1, <1>a, ResumeKeeps
    <2>3. \A p \in Requests: Republishing(p, c)' => Republishing(p, c)
      BY <2>1, <1>a DEF Republishing, ApprovalTypeOK
    <2>. QED
      BY <2>2, <2>3, <1>2
  <1>4. ASSUME NEW q \in Requests, RepublishOrder(q) PROVE RepublishFits(c)'
    <2>. DEFINE k == request[q].case
    <2>1. k \in Cases /\ request' = [request EXCEPT ![q].pc = "running"]
      BY <1>4, <1>a DEF RepublishOrder, ApprovalTypeOK, Active
    <2>2. PICK values:
            /\ values = [thread[k].values EXCEPT !.stage = "approved"]
            /\ thread' = [thread EXCEPT ![k] = [values |-> values, waiting |-> FALSE, offered |-> {}]]
      BY <1>4 DEF RepublishOrder, InvokeInput
    <2>3. values.stage = "approved"
      BY <2>1, <2>2, <1>a DEF GraphTypeOK, Threads, Values
    <2>4. k = c => thread'[c].values = values
      BY <2>1, <2>2, <1>a DEF GraphTypeOK
    <2>5. k # c => thread'[c] = thread[c]
      BY <2>1, <2>2, <1>a DEF GraphTypeOK
    <2>6. \A p \in Requests: Republishing(p, c)' => Republishing(p, c)
      BY <2>1, <1>a DEF Republishing, ApprovalTypeOK
    <2>. QED
      BY <2>3, <2>4, <2>5, <2>6, <1>2
  <1>5. ASSUME NEW q \in Requests, ResumeResult(q) \/ ResumeTimeout(q) PROVE RepublishFits(c)'
    <2>1. /\ UNCHANGED thread
          /\ \E o: request' = [request EXCEPT ![q] = Ended(@, o)]
      BY <1>5 DEF ResumeResult, ResumeTimeout, Finish
    <2>2. \A p \in Requests: Republishing(p, c)' => Republishing(p, c)
      <3>1. \A p \in Requests: request'[p] = request[p]
                              \/ \E o: request'[p] = Ended(request[p], o)
        BY <2>1, <1>a DEF ApprovalTypeOK
      <3>. QED
        BY <3>1, <1>a, EndedRepublishes
    <2>. QED
      BY <2>1, <2>2, <1>2
  <1>6. ASSUME NEW r \in Replicas, ReplicaCrash(r) PROVE RepublishFits(c)'
    <2>1. \A p \in Requests: Republishing(p, c)' => Republishing(p, c)
      BY <1>6, <1>a, CrashRepublishes
    <2>. QED
      BY <2>1, <1>2, <1>6 DEF ReplicaCrash
  <1>. QED
    BY <1>1, <1>3, <1>4, <1>5, <1>6 DEF ApprovalSide, ApprovalStep

LEMMA GraphRepublishFits ==
  ASSUME StageInv, OneReplica, GraphSide, NEW c \in Cases
  PROVE  RepublishFits(c)'
PROOF
  <1>a. GraphTypeOK /\ RunsTyped /\ RepublishFits(c) /\ \A b \in Runners: RunShape(run[b])
    BY DEF StageInv, DecisionInv, RunInv, TypeInv, TypeOK
  <1>b. request' = request
    BY DEF GraphSide, approvalVars
  <1>. PICK a \in Runners: GraphStep(a) \/ CallRaises(a)
    BY DEF GraphSide
  <1>1. CASE Commit(a) /\ run[a].case = c
    <2>1. run[a].ran /\ run[a].node \in Nodes /\ thread'[c].values = run[a].values
      BY <1>1, <1>a DEF Commit, RunsTyped, GraphTypeOK
    <2>2. SUFFICES ASSUME run[a].values.stage = "execution_requested",
                          NEW q \in Requests, Republishing(q, c)
                   PROVE  FALSE
      BY <2>1, <1>b DEF RepublishFits, Republishing
    <2>3. run[a].node \in {"human_approval", "request_execution_order"}
      BY <2>1, <2>2, <1>a DEF RunShape, Nodes
    <2>4. /\ run[a].node = "human_approval" => run[a].resume = "execution_requested"
          /\ run[a].resume \in Verdicts
      BY <2>1, <2>2, <1>a DEF RunShape, GraphTypeOK, Runs
    <2>5. run[a].node = "request_execution_order"
      BY <2>3, <2>4 DEF Verdicts, Decisions
    <2>6. AtNode(a, c)
      BY <1>1, <2>1 DEF AtNode
    <2>7. a \in Requests
      BY <2>5, <2>6, WorkerAtNode DEF StageInv, DecisionInv, Runners
    <2>8. request[a].pc = "running" /\ request[a].case = c
      BY <1>1, <2>5, <2>7 DEF StageInv, DecisionInv, RunInv, RequestRun
    <2>9. a = q
      BY <2>2, <2>7, <2>8, OneActive DEF StageInv, DecisionInv, Active, Republishing
    <2>. QED
      BY <2>2, <2>8, <2>9 DEF Republishing
  <1>2. ASSUME thread'[c].values = thread[c].values PROVE RepublishFits(c)'
    BY <1>2, <1>a, <1>b DEF RepublishFits, Republishing
  <1>3. CASE Commit(a) /\ run[a].case # c
    BY <1>2, <1>3, <1>a DEF Commit, GraphTypeOK
  <1>4. CASE Interrupt(a)
    BY <1>2, <1>4, <1>a DEF Interrupt, GraphTypeOK, Threads
  <1>5. ASSUME UNCHANGED thread PROVE RepublishFits(c)'
    BY <1>2, <1>5
  <1>. QED
    BY <1>1, <1>3, <1>4, <1>5
       DEF GraphStep, RequestEvidence, PrepareCaseForReview, HumanApproval,
           RequestExecutionOrder, NodeReturns, NodeRaises, CallRaises

LEMMA ConsumerRepublishFits ==
  ASSUME StageInv, ConsumerSide, NEW c \in Cases
  PROVE  RepublishFits(c)'
PROOF
  <1>a. GraphTypeOK /\ ConsumersTypeOK /\ RepublishFits(c)
    BY DEF StageInv, DecisionInv, RunInv, TypeInv, TypeOK
  <1>b. request' = request
    BY DEF ConsumerSide, approvalVars
  <1>1. ASSUME thread'[c].values.stage \in {thread[c].values.stage, "alert_received"}
        PROVE  RepublishFits(c)'
    BY <1>1, <1>a, <1>b DEF RepublishFits, Republishing
  <1>2. ASSUME NEW w \in Workers, StartCase(w) PROVE RepublishFits(c)'
    <2>1. PICK k, values:
            /\ values = [thread[k].values EXCEPT !.stage = "alert_received"]
            /\ thread' = [thread EXCEPT ![k] = [values |-> values, waiting |-> FALSE, offered |-> {}]]
      BY <1>2 DEF StartCase, InvokeInput
    <2>2. k = c => thread'[c].values.stage = "alert_received"
      BY <2>1, <1>a DEF GraphTypeOK, Threads, Values
    <2>3. k # c => thread'[c] = thread[c]
      BY <2>1, <1>a DEF GraphTypeOK
    <2>. QED
      BY <2>2, <2>3, <1>1
  <1>3. ASSUME UNCHANGED thread PROVE RepublishFits(c)'
    BY <1>1, <1>3
  <1>. QED
    BY <1>2, <1>3
       DEF ConsumerSide, PublishAlert, RedeliverMessage, ConsumerStep, ConsumerFault, Receive, DeadLetterInvalid,
           Claim, AckDuplicate, CollectEvidence, CollectionRaises, StartReasoning, InvokeGoto,
           RunEnds, Complete, AckCompleted, Release, RetryOrDeadLetter, WorkerCrash, graphVars

-----------------------------------------------------------------------------
(* Every step takes a case forward.                                        *)
LEMMA SameStageAdvances ==
  ASSUME GraphTypeOK, NEW c \in Cases,
         thread'[c].values.stage = thread[c].values.stage,
         thread[c].waiting => thread'[c].waiting
  PROVE  Advances(c)
PROOF
  <1>1. StageRank[thread[c].values.stage] \in Nat
    BY RankFacts DEF GraphTypeOK, Threads, Values
  <1>. QED
    BY <1>1 DEF Advances

LEMMA ConsumerAdvances ==
  ASSUME StageInv, ConsumerSide, NEW c \in Cases, Taken(c)
  PROVE  Advances(c)
PROOF
  <1>a. GraphTypeOK /\ ConsumersTypeOK /\ ClaimExclusive
    BY DEF StageInv, DecisionInv, RunInv, ClaimInv, TypeInv, TypeOK
  <1>1. ASSUME NEW w \in Workers, StartCase(w) PROVE Advances(c)
    <2>. DEFINE k == EventOf(w).case
    <2>1. PICK values:
            /\ values = [thread[k].values EXCEPT !.stage = "alert_received"]
            /\ thread' = [thread EXCEPT ![k] = [values |-> values, waiting |-> FALSE, offered |-> {}]]
      BY <1>1 DEF StartCase, InvokeInput
    <2>2. CASE k = c
      <3>1. /\ worker[w].pc = "claimed" /\ EventOf(w) = AlertOf(c)
        BY <1>1, <2>2, <1>a DEF StartCase, ConsumersTypeOK, Messages, EventIds, AlertOf
      <3>2. ledger[AlertOf(c)] = "processing"
        BY <3>1, <1>a DEF ClaimExclusive, HoldsClaim
      <3>. QED
        BY <3>2 DEF Taken, AlertOf
    <2>3. CASE k # c
      <3>1. thread'[c] = thread[c]
        BY <2>1, <2>3, <1>a DEF GraphTypeOK
      <3>. QED
        BY <3>1, <1>a, SameStageAdvances
    <2>. QED
      BY <2>2, <2>3
  <1>2. ASSUME UNCHANGED thread PROVE Advances(c)
    BY <1>2, <1>a, SameStageAdvances
  <1>. QED
    BY <1>1, <1>2
       DEF ConsumerSide, PublishAlert, RedeliverMessage, ConsumerStep, ConsumerFault, Receive, DeadLetterInvalid,
           Claim, AckDuplicate, CollectEvidence, CollectionRaises, StartReasoning, InvokeGoto,
           RunEnds, Complete, AckCompleted, Release, RetryOrDeadLetter, WorkerCrash, graphVars

LEMMA ApprovalAdvances ==
  ASSUME StageInv, ApprovalSide, NEW c \in Cases
  PROVE  Advances(c)
PROOF
  <1>a. GraphTypeOK /\ ApprovalTypeOK /\ RepublishFits(c)
    BY DEF StageInv, DecisionInv, RunInv, TypeInv, TypeOK
  <1>1. ASSUME NEW q \in Requests, RepublishOrder(q) PROVE Advances(c)
    <2>. DEFINE k == request[q].case
    <2>1. Republishing(q, k) /\ k \in Cases
      BY <1>1, <1>a DEF RepublishOrder, Republishing, ApprovalTypeOK, Active
    <2>2. PICK values:
            /\ values = [thread[k].values EXCEPT !.stage = "approved"]
            /\ thread' = [thread EXCEPT ![k] = [values |-> values, waiting |-> FALSE, offered |-> {}]]
      BY <1>1 DEF RepublishOrder, InvokeInput
    <2>3. CASE k = c
      <3>1. thread[c].values.stage \in Stages \ {"execution_requested"}
        BY <2>1, <2>3, <1>a DEF RepublishFits, GraphTypeOK, Threads, Values
      <3>2. thread'[c].values = values
        BY <2>2, <2>3, <1>a DEF GraphTypeOK
      <3>3. thread'[c].values.stage = "approved"
        BY <2>2, <2>3, <3>2, <1>a DEF GraphTypeOK, Threads, Values
      <3>. QED
        BY <3>1, <3>3, RankFacts DEF Advances, Stages, Decisions
    <2>4. CASE k # c
      <3>1. thread'[c] = thread[c]
        BY <2>2, <2>4, <1>a DEF GraphTypeOK
      <3>. QED
        BY <3>1, <1>a, SameStageAdvances
    <2>. QED
      BY <2>3, <2>4
  <1>2. ASSUME NEW q \in Requests, ResumeInterrupt(q) PROVE Advances(c)
    <2>1. /\ request[q].case \in Cases
          /\ InvokeResume(q, request[q].case, request[q].decision)
      BY <1>2, <1>a DEF ResumeInterrupt, ApprovalTypeOK, Active
    <2>2. thread'[c].values = thread[c].values /\ thread'[c].waiting = thread[c].waiting
      BY <2>1, <1>a, ResumeKeeps
    <2>. QED
      BY <2>2, <1>a, SameStageAdvances
  <1>3. ASSUME UNCHANGED thread PROVE Advances(c)
    BY <1>3, <1>a, SameStageAdvances
  <1>. QED
    BY <1>1, <1>2, <1>3
       DEF ApprovalSide, ApprovalStep, Submit, ResumeResult, ResumeTimeout, ReplicaCrash, graphVars

LEMMA GraphAdvances ==
  ASSUME StageInv, GraphSide, NEW c \in Cases, Taken(c)
  PROVE  Advances(c)
PROOF
  <1>a. /\ GraphTypeOK /\ RunsTyped /\ CaseFits(c) /\ DecisionInv /\ ClaimExclusive
        /\ \A b \in Runners: RunShape(run[b])
    BY DEF StageInv, DecisionInv, RunInv, ClaimInv, TypeInv, TypeOK
  <1>. PICK a \in Runners: GraphStep(a) \/ CallRaises(a)
    BY DEF GraphSide
  <1>b. thread[c].values.stage \in Stages
    BY <1>a DEF GraphTypeOK, Threads, Values
  <1>1. CASE Commit(a) /\ run[a].case = c
    <2>1. run[a].ran /\ run[a].node \in Nodes /\ thread'[c].values = run[a].values
      BY <1>1, <1>a DEF Commit, RunsTyped, GraphTypeOK
    <2>2. AtNode(a, c)
      BY <1>1, <2>1 DEF AtNode
    <2>3. CASE run[a].node = "human_approval"
      <3>1. Resumed(a, c) /\ thread'[c].values.stage = run[a].resume /\ run[a].resume \in Decisions
        BY <2>1, <2>2, <2>3, <1>a DEF RunShape, Resumed, AtNode, GraphTypeOK, Runs, Verdicts
      <3>2. Undecided(c)
        BY <3>1, <1>a DEF CaseFits, CanDecide
      <3>3. thread[c].values.stage \in
              {"none", "alert_received", "evidence_requested", "evidence_ready", "review_requested"}
        BY <3>2, <1>b DEF Undecided, Stages
      <3>. QED
        BY <3>1, <3>3, RankFacts DEF Advances, Decisions
    <2>4. CASE run[a].node = "request_execution_order"
      <3>1. thread'[c].values.stage = "execution_requested" /\ run[a].values.decision = "approved"
        BY <2>1, <2>4, <1>a DEF RunShape
      <3>2. ~Undecided(c)
        BY <2>2, <2>4, <3>1 DEF Undecided, Resumed
      <3>3. ~thread[c].waiting
        BY <3>2, <1>a DEF CaseFits, CanDecide
      <3>. QED
        BY <3>1, <3>3, <1>b, RankFacts DEF Advances, Stages
    <2>5. CASE run[a].node = "prepare_case_for_review"
      <3>1. thread'[c].values.stage = "review_requested"
        BY <2>1, <2>5, <1>a DEF RunShape
      <3>2. a \in Workers
        BY <2>5 DEF StageInv, DecisionInv, RunInv, RequestRun, Runners
      <3>3. Unfinished(ReadyOf(c))
        BY <2>2, <2>5, <3>2, <1>a, WorkerAtNode DEF Unfinished, DecisionInv
      <3>4. Undecided(c) /\ ~thread[c].waiting
        BY <3>3, <1>a DEF CaseFits, CanDecide
      <3>5. thread[c].values.stage \in
              {"none", "alert_received", "evidence_requested", "evidence_ready", "review_requested"}
        BY <3>4, <1>b DEF Undecided, Stages
      <3>. QED
        BY <3>1, <3>4, <3>5, RankFacts DEF Advances
    <2>6. CASE run[a].node = "request_evidence"
      <3>1. a \in Workers
        BY <2>6 DEF StageInv, DecisionInv, RunInv, RequestRun, Runners
      <3>2. EventOf(a) = AlertOf(c) /\ worker[a].pc = "running"
        BY <2>2, <2>6, <3>1, <1>a, WorkerAtNode DEF DecisionInv
      <3>3. ledger[AlertOf(c)] = "processing"
        BY <3>1, <3>2, <1>a DEF ClaimExclusive, HoldsClaim
      <3>. QED
        BY <3>3 DEF Taken, AlertOf
    <2>. QED
      BY <2>1, <2>3, <2>4, <2>5, <2>6 DEF Nodes
  <1>2. CASE Commit(a) /\ run[a].case # c
    <2>1. thread'[c] = thread[c]
      BY <1>2, <1>a DEF Commit, GraphTypeOK
    <2>. QED
      BY <2>1, <1>a, SameStageAdvances
  <1>3. CASE Interrupt(a)
    <2>1. thread'[c].values = thread[c].values /\ (thread[c].waiting => thread'[c].waiting)
      BY <1>3, <1>a DEF Interrupt, GraphTypeOK, Threads
    <2>. QED
      BY <2>1, <1>a, SameStageAdvances
  <1>4. ASSUME UNCHANGED thread PROVE Advances(c)
    BY <1>4, <1>a, SameStageAdvances
  <1>. QED
    BY <1>1, <1>2, <1>3, <1>4
       DEF GraphStep, RequestEvidence, PrepareCaseForReview, HumanApproval,
           RequestExecutionOrder, NodeReturns, NodeRaises, CallRaises

(* Once its alert is completed a case only moves forward, and an open      *)
(* review only ends by a decision: with one approval process and claims    *)
(* that outlive a crash, whatever fails, overlaps or is repeated.          *)
THEOREM CaseAdvances ==
  ASSUME OneReplica, LedgerOutlives
  PROVE  Spec => TakenCaseAdvances
PROOF
  <1>. DEFINE Local == \A c \in Cases: RepublishFits(c)
              Step == \A c \in Cases: Taken(c) => Advances(c)
  <1>1. Init => Local
    BY DEF Init, ApprovalInit, NewRequest, RepublishFits, Republishing
  <1>2. ASSUME StageInv, [Next]_vars PROVE Local'
    <2>1. ASSUME NEW c \in Cases, UNCHANGED vars PROVE RepublishFits(c)'
      BY <1>2, <2>1 DEF vars, graphVars, approvalVars, StageInv, RepublishFits, Republishing
    <2>. QED
      BY <1>2, <2>1, ConsumerRepublishFits, ApprovalRepublishFits, GraphRepublishFits DEF Next
  <1>3. ASSUME StageInv, [Next]_vars PROVE Step \/ UNCHANGED vars
    BY <1>3, ConsumerAdvances, ApprovalAdvances, GraphAdvances DEF Next
  <1>4. StageInv <=> Local /\ DecisionInv
    BY DEF StageInv
  <1>5. (Step \/ UNCHANGED vars) <=> [\A c \in Cases: Taken(c) => Advances(c)]_vars
    OBVIOUS
  <1>. HIDE DEF Local, Step
  <1>6. Spec => []DecisionInv
    BY DecisionInvAlways
  <1>. QED
    BY <1>1, <1>2, <1>3, <1>4, <1>5, <1>6, PTL DEF Spec, TakenCaseAdvances

=============================================================================
