---------------------------- MODULE DeliveryPort ----------------------------
(***************************************************************************)
(* What the port EventDelivery of src/events/transport.py promises of a    *)
(* source of events: an event is acknowledged only after its side effect   *)
(* has completed, or after it was moved to the dead-letter path, and is    *)
(* redelivered until then.                                                 *)
(***************************************************************************)
CONSTANT Events

VARIABLES
  pending,      \* events the source would deliver (again) after a restart
  effects,      \* events whose side effect has happened
  deadLetters   \* events moved to the dead-letter path

vars == <<pending, effects, deadLetters>>

Init == pending = Events /\ effects = {} /\ deadLetters = {}

SideEffect(e) ==
  /\ e \in pending
  /\ effects' = effects \cup {e}
  /\ UNCHANGED <<pending, deadLetters>>

DeadLetter(e) ==
  /\ e \in pending
  /\ deadLetters' = deadLetters \cup {e}
  /\ UNCHANGED <<pending, effects>>

Ack(e) ==
  /\ e \in effects \cup deadLetters
  /\ pending' = pending \ {e}
  /\ UNCHANGED <<effects, deadLetters>>

Next == \E e \in Events: SideEffect(e) \/ DeadLetter(e) \/ Ack(e)

Spec == Init /\ [][Next]_vars

=============================================================================
