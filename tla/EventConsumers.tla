--------------------------- MODULE EventConsumers ---------------------------
(***************************************************************************)
(* RiskAlertConsumer, EvidenceRequestedConsumer and EvidenceReadyConsumer  *)
(* of src/events/consumers.py.  A worker takes a message, validates it,    *)
(* claims its id in the ledger, causes its side effect (a graph run or an  *)
(* evidence collection), and settles it; each await of process() is a step *)
(* at which other workers, requests and crashes may interleave.            *)
(***************************************************************************)
EXTENDS ForensicGraph

CONSTANTS
  Malformed,            \* cases whose alert fails validation
  DurableLedger,        \* does the ledger survive a crash?
  CommitBeforeDelivery  \* timing: is a node's checkpoint written before the
                        \* event it published is consumed?

ASSUME MalformedAssumption == Malformed \subseteq Cases
ASSUME DurableLedgerAssumption == DurableLedger \in BOOLEAN
ASSUME CommitBeforeDeliveryAssumption == CommitBeforeDelivery \in BOOLEAN

VARIABLE worker   \* what each consumer loop is doing, and with which message

consumerVars == <<worker>>

-----------------------------------------------------------------------------
WorkerStates ==
  {"idle", "received", "duplicate", "claimed", "running", "failed",
   "released", "succeeded", "completed"}

NoMessage == [event |-> "none"]
IdleWorker == [pc |-> "idle", msg |-> NoMessage]

ConsumersTypeOK ==
  /\ worker \in [Workers -> [pc: WorkerStates, msg: Messages \cup {NoMessage}]]
  /\ \A w \in Workers: worker[w].pc # "idle" => worker[w].msg \in Messages

ConsumersInit == worker = [w \in Workers |-> IdleWorker]

Goto(w, pc) == worker' = [worker EXCEPT ![w].pc = pc]
Idle(w) == worker' = [worker EXCEPT ![w] = IdleWorker]
EventOf(w) == worker[w].msg.event

(* A worker between its claim and the settlement of that claim.            *)
HoldsClaim(w) == worker[w].pc \in {"claimed", "running", "failed", "succeeded"}

-----------------------------------------------------------------------------
(* The scorer publishes one alert per transaction, under an event id       *)
(* derived from the transaction.                                           *)
PublishAlert(c) ==
  /\ ~IsPublished("risk_alert", c, "none")
  /\ Publish("risk_alert", c, "none")
  /\ UNCHANGED <<deadLetters, ledger, faults, graphVars, worker>>

RedeliverMessage ==
  /\ Inject("redelivery")
  /\ \E m \in queue: Redeliver(m)
  /\ UNCHANGED <<published, deadLetters, ledger, graphVars, worker>>

(* A worker takes a message no other worker has in hand.                   *)
Receive(w) ==
  /\ worker[w].pc = "idle"
  /\ \E m \in queue:
       /\ \A v \in Workers: worker[v].msg # m
       /\ CommitBeforeDelivery =>
            \A a \in Runners: run[a].case = m.event.case => ~run[a].ran
       /\ worker' = [worker EXCEPT ![w] = [pc |-> "received", msg |-> m]]
  /\ UNCHANGED <<transportVars, graphVars>>

IsMalformed(e) == e.type = "risk_alert" /\ e.case \in Malformed

DeadLetterInvalid(w) ==
  /\ worker[w].pc = "received"
  /\ IsMalformed(EventOf(w))
  /\ DeadLetter(worker[w].msg)
  /\ Idle(w)
  /\ UNCHANGED <<published, ledger, faults, graphVars>>

Claim(w) ==
  /\ worker[w].pc = "received"
  /\ ~IsMalformed(EventOf(w))
  /\ \/ /\ Claimable(EventOf(w))
        /\ SetLedger(EventOf(w), "processing")
        /\ Goto(w, "claimed")
     \/ /\ ~Claimable(EventOf(w))
        /\ Goto(w, "duplicate")
        /\ UNCHANGED ledger
  /\ UNCHANGED <<published, queue, deadLetters, faults, graphVars>>

AckDuplicate(w) ==
  /\ worker[w].pc = "duplicate"
  /\ Ack(worker[w].msg)
  /\ Idle(w)
  /\ UNCHANGED <<published, deadLetters, ledger, faults, graphVars>>

(* The side effect of each consumer.                                       *)
StartCase(w) ==
  /\ worker[w].pc = "claimed"
  /\ EventOf(w).type = "risk_alert"
  /\ InvokeInput(w, EventOf(w).case, "alert_received")
  /\ Goto(w, "running")
  /\ UNCHANGED transportVars

CollectEvidence(w) ==
  /\ worker[w].pc = "claimed"
  /\ EventOf(w).type = "evidence_requested"
  /\ Publish("evidence_ready", EventOf(w).case, "none")
  /\ Goto(w, "succeeded")
  /\ UNCHANGED <<deadLetters, ledger, faults, graphVars>>

(* collect() or publish() raises: before anything is published, or after   *)
(* the broker has accepted the event.                                      *)
CollectionRaises(w) ==
  /\ worker[w].pc = "claimed"
  /\ EventOf(w).type = "evidence_requested"
  /\ \/ /\ Inject("clean")
        /\ UNCHANGED <<published, queue>>
     \/ /\ Inject("ambiguous")
        /\ Publish("evidence_ready", EventOf(w).case, "none")
  /\ Goto(w, "failed")
  /\ UNCHANGED <<deadLetters, ledger, graphVars>>

StartReasoning(w) ==
  /\ worker[w].pc = "claimed"
  /\ EventOf(w).type = "evidence_ready"
  /\ InvokeGoto(w, EventOf(w).case)
  /\ Goto(w, "running")
  /\ UNCHANGED transportVars

RunEnds(w) ==
  /\ worker[w].pc = "running"
  /\ \/ Returned(w) /\ Goto(w, "succeeded")
     \/ Raised(w) /\ Goto(w, "failed")
  /\ run' = [run EXCEPT ![w] = IdleRun]
  /\ UNCHANGED <<thread, transportVars>>

(* Success: ledger.complete, then ack.                                     *)
Complete(w) ==
  /\ worker[w].pc = "succeeded"
  /\ SetLedger(EventOf(w), "completed")
  /\ Goto(w, "completed")
  /\ UNCHANGED <<published, queue, deadLetters, faults, graphVars>>

AckCompleted(w) ==
  /\ worker[w].pc = "completed"
  /\ Ack(worker[w].msg)
  /\ Idle(w)
  /\ UNCHANGED <<published, deadLetters, ledger, faults, graphVars>>

(* Failure: ledger.release, then retry or dead-letter.                     *)
(* Mutant: the claim of a failed event is not released.                    *)
ReleaseForgotten(w) ==
  /\ worker[w].pc = "failed"
  /\ Goto(w, "released")
  /\ UNCHANGED <<transportVars, graphVars>>

Release(w) ==
  /\ worker[w].pc = "failed"
  /\ SetLedger(EventOf(w), "absent")
  /\ Goto(w, "released")
  /\ UNCHANGED <<published, queue, deadLetters, faults, graphVars>>

RetryOrDeadLetter(w) ==
  /\ worker[w].pc = "released"
  /\ \/ /\ Exhausted(worker[w].msg)
        /\ DeadLetter(worker[w].msg)
     \/ /\ ~Exhausted(worker[w].msg)
        /\ Retry(worker[w].msg)
        /\ UNCHANGED deadLetters
  /\ Idle(w)
  /\ UNCHANGED <<published, ledger, faults, graphVars>>

(* A worker process dies.  With a durable ledger its claim outlives it; an *)
(* in-memory ledger is shared by the consumers of one process, which all   *)
(* restart with it empty.                                                  *)
WorkerCrash(w) ==
  /\ worker[w].pc # "idle"
  /\ Inject("crash")
  /\ IF DurableLedger
     THEN /\ Idle(w)
          /\ run' = [run EXCEPT ![w] = IdleRun]
          /\ UNCHANGED ledger
     ELSE /\ worker' = [v \in Workers |-> IdleWorker]
          /\ run' = [a \in Runners |-> IF a \in Workers THEN IdleRun ELSE run[a]]
          /\ ledger' = [e \in EventIds |-> "absent"]
  /\ UNCHANGED <<published, queue, deadLetters, thread>>

ConsumerStep(w) ==
  \/ Receive(w)
  \/ DeadLetterInvalid(w)
  \/ Claim(w)
  \/ AckDuplicate(w)
  \/ StartCase(w)
  \/ CollectEvidence(w)
  \/ StartReasoning(w)
  \/ RunEnds(w)
  \/ Complete(w)
  \/ AckCompleted(w)
  \/ Release(w)
  \/ RetryOrDeadLetter(w)

ConsumerFault(w) == CollectionRaises(w) \/ WorkerCrash(w)

=============================================================================
