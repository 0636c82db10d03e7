------------------------ MODULE LogSubscription_proofs ------------------------
(***************************************************************************)
(* Through either binding a consumer loop keeps the promise of             *)
(* DeliveryPort, for every number of records and faults.                   *)
(***************************************************************************)
EXTENDS LogSubscription, TLAPS

(* The loop is at the checkpoint, or has the record of the checkpoint in   *)
(* hand, which it acknowledges only when it is in the dead-letter path.  A *)
(* loop that has ended may have committed it.                              *)
PortInv ==
  /\ TypeOK
  /\ pc = "idle" => position = checkpoint
  /\ pc \in {"rejected", "deadLettered"} =>
       current = checkpoint /\ position = current + 1
  /\ pc = "deadLettered" => current \in deadLetters

LEMMA PortInit == Init => PortInv
PROOF
  BY LastAssumption, MaxFaultsAssumption
     DEF Init, PortInv, TypeOK, Records, States

(* Every step keeps the invariant.                                         *)
LEMMA PortStep ==
  ASSUME PortInv, [Next]_vars
  PROVE  PortInv'
PROOF
  <1>. USE LastAssumption, MaxFaultsAssumption
       DEF PortInv, TypeOK, Records, States
  <1>1. CASE Take
    BY <1>1 DEF Take, Validated
  <1>2. CASE DeadLetter
    BY <1>2 DEF DeadLetter
  <1>3. CASE Ack
    BY <1>3 DEF Ack, Committed
  <1>4. CASE HandlerRaises
    <2>1. faults' \in 0..MaxFaults /\ deadLetters' \subseteq Records
      BY <1>4 DEF HandlerRaises, Fault
    <2>. QED
      BY <1>4, <2>1 DEF HandlerRaises
  <1>5. CASE AckRaises
    <2>1. faults' \in 0..MaxFaults /\ checkpoint' \in 1..Last + 1
      BY <1>5 DEF AckRaises, Fault, Committed
    <2>. QED
      BY <1>5, <2>1 DEF AckRaises
  <1>6. CASE Crash \/ Restart
    <2>1. faults' \in 0..MaxFaults
      BY <1>6 DEF Crash, Restart, Fault
    <2>. QED
      BY <1>6, <2>1 DEF Crash, Restart, StartAgain
  <1>7. CASE UNCHANGED vars
    BY <1>7 DEF vars
  <1>. QED
    BY <1>1, <1>2, <1>3, <1>4, <1>5, <1>6, <1>7 DEF Next, LoopStep

(* The record of the checkpoint is the only one a step acknowledges or     *)
(* dead-letters.                                                           *)
LEMMA PortRefines ==
  ASSUME PortInv, [Next]_vars
  PROVE  [Port!Next]_(Port!vars)
PROOF
  <1>. USE LastAssumption DEF PortInv, TypeOK, Records, Port!vars
  <1>1. CASE deadLetters' = deadLetters /\ checkpoint' = checkpoint
    BY <1>1
  <1>2. ASSUME pc = "rejected", checkpoint' = checkpoint,
               deadLetters' = deadLetters \cup {current}
        PROVE  Port!Next
    <2>1. Port!DeadLetter(current)
      BY <1>2 DEF Port!DeadLetter
    <2>. QED
      BY <2>1 DEF Port!Next
  <1>3. ASSUME pc = "deadLettered", checkpoint' = Committed,
               deadLetters' = deadLetters
        PROVE  Port!Next
    <2>1. current \in Records /\ checkpoint = current /\ checkpoint' = current + 1
      BY <1>3 DEF Committed
    <2>2. (checkpoint..Last)' = (checkpoint..Last) \ {current}
      BY <2>1
    <2>3. Port!Ack(current)
      BY <1>3, <2>2 DEF Port!Ack
    <2>. QED
      BY <2>1, <2>3 DEF Port!Next
  <1>4. CASE HandlerRaises \/ DeadLetter
    BY <1>1, <1>2, <1>4 DEF HandlerRaises, DeadLetter
  <1>5. CASE AckRaises \/ Ack
    BY <1>1, <1>3, <1>5 DEF AckRaises, Ack
  <1>6. CASE Take \/ Crash \/ Restart
    BY <1>1, <1>6 DEF Take, Crash, Restart, StartAgain
  <1>7. CASE UNCHANGED vars
    BY <1>1, <1>7 DEF vars
  <1>. QED
    BY <1>4, <1>5, <1>6, <1>7 DEF Next, LoopStep

(* The loop's position and its checkpoint never leave the partition.       *)
THEOREM TypeCorrect == Spec => []TypeOK
PROOF
  <1>1. PortInv => TypeOK
    BY DEF PortInv
  <1>2. PortInv /\ [Next]_vars => PortInv'
    BY PortStep
  <1>. QED
    BY <1>1, <1>2, PortInit, PTL DEF Spec

(* adapters.py, KafkaSubscription and AzureEventHubsSubscription: no record *)
(* is acknowledged before it is in the dead-letter path, and none is       *)
(* skipped.                                                                *)
THEOREM LogKeepsPort == Spec => ImplementsPort
PROOF
  <1>1. PortInv /\ [Next]_vars => PortInv'
    BY PortStep
  <1>2. Init => Port!Init
    BY DEF Init, Port!Init, Records
  <1>3. PortInv /\ [Next]_vars => [Port!Next]_(Port!vars)
    BY PortRefines
  <1>. QED
    BY <1>1, <1>2, <1>3, PortInit, PTL DEF Spec, ImplementsPort, Port!Spec

=============================================================================
