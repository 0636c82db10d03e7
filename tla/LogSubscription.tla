--------------------------- MODULE LogSubscription ---------------------------
(***************************************************************************)
(* A consumer loop (run and process of src/events/consumers.py) on one     *)
(* partition of a log, through the Kafka or the Event Hubs binding of      *)
(* src/events/adapters.py.  The broker keeps every record and one          *)
(* checkpoint per consumer group, from which a restarted consumer resumes. *)
(*                                                                         *)
(* Both bindings decode the data of a record as a JSON dictionary, and     *)
(* every payload model is strict and has a datetime or a tuple, which JSON *)
(* gives as a string or a list: no record passes the validation at the     *)
(* start of process(), so the claim, the side effect and the retry that    *)
(* follow it are never reached.                                            *)
(***************************************************************************)
EXTENDS Integers

CONSTANTS
  Last,        \* the records of the partition are 1..Last
  Binding,     \* "kafka" or "eventhubs"
  MaxFaults    \* bound on failing calls and crashes

Records == 1..Last

ASSUME LastAssumption == Last \in Nat \ {0}
ASSUME BindingAssumption == Binding \in {"kafka", "eventhubs"}
ASSUME MaxFaultsAssumption == MaxFaults \in Nat

VARIABLES
  kind,          \* of every record; never changes
  checkpoint,    \* the first record the group has not acknowledged
  position,      \* the next record the loop takes
  current,       \* the record in hand
  pc,            \* where the loop is with it
  deadLetters,   \* records moved to the dead-letter path
  faults         \* failing calls and crashes so far

vars == <<kind, checkpoint, position, current, pc, deadLetters, faults>>

-----------------------------------------------------------------------------
(* "valid": written by a publisher of the program; "invalid": an envelope  *)
(* of another type or payload; "undecodable": no envelope.  What the Event *)
(* Hubs SDK does when its callback raises is not modelled.                 *)
Kinds == {"valid", "invalid"} \cup
         (IF Binding = "kafka" THEN {"undecodable"} ELSE {})

States == {"idle", "rejected", "deadLettered", "stopped"}

TypeOK ==
  /\ kind \in [Records -> Kinds]
  /\ checkpoint \in 1..Last + 1
  /\ position \in 1..Last + 1
  /\ current \in Records
  /\ pc \in States
  /\ deadLetters \subseteq Records
  /\ faults \in 0..MaxFaults

Init ==
  /\ kind \in [Records -> Kinds]
  /\ checkpoint = 1
  /\ position = 1
  /\ current = 1
  /\ pc = "idle"
  /\ deadLetters = {}
  /\ faults = 0

Fault == faults < MaxFaults /\ faults' = faults + 1

-----------------------------------------------------------------------------
(* Mutant: the exception of the validation ends the loop.                  *)
StrictEndsLoop(r) == "stopped"

(* The next record: its envelope is decoded, or the loop ends with the     *)
(* exception; its data is validated, and rejected.                         *)
Validated(r) == IF kind[r] = "undecodable" THEN "stopped" ELSE "rejected"

Take ==
  /\ pc = "idle"
  /\ position \in Records
  /\ current' = position
  /\ position' = position + 1
  /\ pc' = Validated(position)
  /\ UNCHANGED <<kind, checkpoint, deadLetters, faults>>

(* dead_letter: first the handler, which may raise before or after it has  *)
(* stored the record; nothing catches its exception.                       *)
DeadLetter ==
  /\ pc = "rejected"
  /\ deadLetters' = deadLetters \cup {current}
  /\ pc' = "deadLettered"
  /\ UNCHANGED <<kind, checkpoint, position, current, faults>>

(* Mutant: dead_letter goes on to the acknowledgement without its handler. *)
HandlerFailureIgnored ==
  /\ pc = "rejected"
  /\ Fault
  /\ pc' = "deadLettered"
  /\ UNCHANGED <<kind, checkpoint, position, current, deadLetters>>

HandlerRaises ==
  /\ pc = "rejected"
  /\ Fault
  /\ deadLetters' \in {deadLetters, deadLetters \cup {current}}
  /\ pc' = "stopped"
  /\ UNCHANGED <<kind, checkpoint, position, current>>

(* Then the acknowledgement: the record after the current one is the       *)
(* checkpoint of the group.                                                *)
(* Mutant: the offset is taken for the one that is already past it.        *)
CommittedTwiceOn == current + 2

Committed == current + 1

Ack ==
  /\ pc = "deadLettered"
  /\ checkpoint' = Committed
  /\ pc' = "idle"
  /\ UNCHANGED <<kind, position, current, deadLetters, faults>>

(* The commit raises, before or after the broker has stored it.            *)
AckRaises ==
  /\ pc = "deadLettered"
  /\ Fault
  /\ checkpoint' \in {checkpoint, Committed}
  /\ pc' = "stopped"
  /\ UNCHANGED <<kind, position, current, deadLetters>>

(* The process dies, or an exception has ended its loop, and it is started *)
(* again on a new subscription, from the checkpoint.                       *)
StartAgain ==
  /\ position' = checkpoint
  /\ pc' = "idle"
  /\ UNCHANGED <<kind, checkpoint, current, deadLetters>>

Crash == Fault /\ StartAgain
Restart == pc = "stopped" /\ StartAgain /\ UNCHANGED faults

LoopStep == Take \/ DeadLetter \/ Ack \/ Restart

Next == LoopStep \/ HandlerRaises \/ AckRaises \/ Crash

Spec == Init /\ [][Next]_vars

(* The loop goes on while it can and is restarted when it has ended.       *)
FairSpec == Spec /\ WF_vars(LoopStep)

-----------------------------------------------------------------------------
(* transport.py, EventDelivery: the binding keeps the port's promise       *)
(* (module DeliveryPort), the records from the checkpoint on being pending: *)
(* no failing handler, failing commit or restart lets the checkpoint pass  *)
(* a record that is not in the dead-letter path, or go back.               *)
Port ==
  INSTANCE DeliveryPort WITH
    Events <- Records, pending <- checkpoint..Last, effects <- {}

ImplementsPort == Port!Spec

(* Every record is settled in spite of failures and restarts: a rejected   *)
(* one is dead-lettered and the loop goes on to the next (consumers.py     *)
(* 68-70), unless one at or before it cannot be decoded, which ends the    *)
(* loop at every start.                                                    *)
EveryRecordSettles ==
  \A r \in Records:
    (\A q \in 1..r: kind[q] # "undecodable") => <>(checkpoint > r)

(* EventDelivery.dead_letter, "Move an invalid or exhausted message to a   *)
(* durable dead-letter path": a record the program published itself is not *)
(* dead-lettered on its first delivery.                                    *)
ValidNotDeadLettered ==
  \A r \in Records: kind[r] = "valid" => r \notin deadLetters

=============================================================================
