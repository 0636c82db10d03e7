--------------------------- MODULE EventTransport ---------------------------
(***************************************************************************)
(* The broker-neutral event ports of src/events/transport.py: a publisher, *)
(* deliveries that are acknowledged, retried or dead-lettered, and the     *)
(* idempotency ledger every consumer shares.                               *)
(*                                                                         *)
(* An event is identified by its type and its case, because every event id *)
(* of a case is derived from the investigation id.  The broker is          *)
(* at-least-once: a message goes to one worker at a time and stays until   *)
(* that worker settles it, comes back if the worker dies, and may be       *)
(* delivered once more as a message of its own.                            *)
(***************************************************************************)
EXTENDS Naturals

CONSTANTS
  Cases,         \* the investigations, one per risk alert
  MaxAttempts,   \* BaseEventConsumer's max_attempts
  MaxCopies,     \* bound on messages in flight that repeat another of their event
  FaultKinds,    \* which faults the environment may inject
  MaxFaults      \* bound on the number of injected faults

ASSUME MaxAttemptsAssumption == MaxAttempts \in Nat \ {0}
ASSUME MaxCopiesAssumption == MaxCopies \in Nat
ASSUME MaxFaultsAssumption == MaxFaults \in Nat

VARIABLES
  published,     \* every event ever published, with the payload that matters
  queue,         \* messages not settled yet
  deadLetters,   \* events moved to the dead-letter path
  ledger,        \* the idempotency table
  faults         \* number of faults injected so far

transportVars == <<published, queue, deadLetters, ledger, faults>>

-----------------------------------------------------------------------------
ConsumedTypes == {"risk_alert", "evidence_requested", "evidence_ready"}
EventTypes ==
  ConsumedTypes \cup {"review_requested", "approval_granted", "execution_order"}

RecommendedActions == {"hold", "review", "clear"}
Decisions == {"approved", "rejected"}
Details == RecommendedActions \cup Decisions \cup {"none"}

EventIds == [type: ConsumedTypes, case: Cases]
Publications == [type: EventTypes, case: Cases, detail: Details]
Messages ==
  [event: EventIds, attempt: 1..MaxAttempts, copy: 0..MaxCopies]
LedgerStates == {"absent", "processing", "completed"}

TransportTypeOK ==
  /\ published \subseteq Publications
  /\ queue \subseteq Messages
  /\ deadLetters \subseteq EventIds
  /\ ledger \in [EventIds -> LedgerStates]
  /\ faults \in 0..MaxFaults

TransportInit ==
  /\ published = {}
  /\ queue = {}
  /\ deadLetters = {}
  /\ ledger = [e \in EventIds |-> "absent"]
  /\ faults = 0

-----------------------------------------------------------------------------
Event(type, c) == [type |-> type, case |-> c]

IsPublished(type, c, detail) ==
  [type |-> type, case |-> c, detail |-> detail] \in published

(* A fresh message of an event.  One that repeats a publication or a       *)
(* delivery is a message of its own, with a number no other in flight has: *)
(* settling it does not settle the others.                                 *)
Unused(e) == {n \in 1..MaxCopies: \A m \in queue: m.event = e => m.copy # n}

Delivery(type, c, detail) ==
  [event |-> Event(type, c), attempt |-> 1,
   copy |-> IF IsPublished(type, c, detail)
            THEN CHOOSE n \in Unused(Event(type, c)): TRUE ELSE 0]

Deliverable(type, c, detail) ==
  IsPublished(type, c, detail) => Unused(Event(type, c)) # {}

(* A publication is a fact for every reader, and a fresh delivery for the  *)
(* consumers of its type.                                                  *)
Publish(type, c, detail) ==
  /\ type \in ConsumedTypes => Deliverable(type, c, detail)
  /\ published' =
       published \cup {[type |-> type, case |-> c, detail |-> detail]}
  /\ queue' =
       IF type \in ConsumedTypes
       THEN queue \cup {Delivery(type, c, detail)}
       ELSE queue

(* The broker delivers a message in flight once more.                      *)
Redeliver(m) ==
  \E n \in Unused(m.event): queue' = queue \cup {[m EXCEPT !.copy = n]}

Ack(m) == queue' = queue \ {m}

(* Mutant: one attempt too many.                                           *)
ExhaustedOffByOne(m) == m.attempt > MaxAttempts

Exhausted(m) == m.attempt >= MaxAttempts

(* Mutant: a retry that is not put back.                                   *)
RetryDropped(m) == queue' = queue \ {m}

Retry(m) ==
  queue' = (queue \ {m}) \cup {[m EXCEPT !.attempt = @ + 1]}

DeadLetter(m) ==
  /\ deadLetters' = deadLetters \cup {m.event}
  /\ queue' = queue \ {m}

(* Mutant: an event being processed may be claimed again.                  *)
ClaimableUntilCompleted(e) == ledger[e] # "completed"

Claimable(e) == ledger[e] \notin {"processing", "completed"}
SetLedger(e, s) == ledger' = [ledger EXCEPT ![e] = s]

(* One fault of kind k.  "clean": a call raises before it has any effect.  *)
(* "ambiguous": it raises after its effect.  "timeout": the HITL resume is *)
(* cancelled.  "crash": a process dies.  "redelivery": the broker delivers *)
(* a message again.                                                        *)
Inject(k) ==
  /\ k \in FaultKinds
  /\ faults < MaxFaults
  /\ faults' = faults + 1

=============================================================================
