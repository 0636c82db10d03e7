-------------------------- MODULE GovernedAnswers --------------------------
(***************************************************************************)
(* What the governed RAG application promises of every turn: one decision  *)
(* is recorded as evidence before anything is answered, and the answer is  *)
(* the one that was recorded.  A turn may fail instead, before or after    *)
(* its decision.                                                           *)
(***************************************************************************)
CONSTANT Turns

VARIABLES
  decided,   \* the decisions in the evidence journal
  reply      \* what each turn has given its caller

vars == <<decided, reply>>

Outcome == [allow |-> "completed", block |-> "blocked"]

Init == decided = {} /\ reply = [t \in Turns |-> "none"]

Decide(t, d) ==
  /\ reply[t] = "none"
  /\ \A e \in DOMAIN Outcome: <<t, e>> \notin decided
  /\ decided' = decided \cup {<<t, d>>}
  /\ UNCHANGED reply

Reply(t, d) ==
  /\ reply[t] = "none"
  /\ <<t, d>> \in decided
  /\ reply' = [reply EXCEPT ![t] = Outcome[d]]
  /\ UNCHANGED decided

(* One turn raises, or all those of a process that dies.                   *)
Fail(failed) ==
  /\ \A t \in failed: reply[t] = "none"
  /\ reply' = [t \in Turns |-> IF t \in failed THEN "failed" ELSE reply[t]]
  /\ UNCHANGED decided

Next ==
  \/ \E t \in Turns, d \in DOMAIN Outcome: Decide(t, d) \/ Reply(t, d)
  \/ \E failed \in SUBSET Turns: Fail(failed)

Spec == Init /\ [][Next]_vars

=============================================================================
