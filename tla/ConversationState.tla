------------------------- MODULE ConversationState -------------------------
(***************************************************************************)
(* The channels of a conversation that decide what its next turn may do    *)
(* (src/state/schema.py), and how a turn compacts them (manage_context of  *)
(* src/nodes/rag.py).                                                      *)
(*                                                                         *)
(* RAGAgent sends one human message a turn and no system message, and a    *)
(* turn adds at most one answer.  A summarizer is configured.              *)
(***************************************************************************)
EXTENDS RagIdentity, Sequences, Naturals

CONSTANTS
  MaxMessages,       \* MAX_CHECKPOINT_MESSAGES
  TriggerMessages,   \* SUMMARY_TRIGGER_MESSAGES
  KeepMessages       \* SUMMARY_KEEP_MESSAGES

(* The limits that _bounded_env_int enforces.                              *)
ASSUME WindowAssumption ==
  /\ MaxMessages \in Nat /\ MaxMessages >= 4
  /\ TriggerMessages \in 2..MaxMessages
  /\ KeepMessages \in 1..MaxMessages

-----------------------------------------------------------------------------
Terminal == {"completed", "blocked"}
Statuses == {"none", "received", "retrieved", "generated", "validated"} \cup Terminal

StatusOrder ==
  [none |-> 0, received |-> 1, retrieved |-> 2, generated |-> 3, validated |-> 4,
   completed |-> 5, blocked |-> 5]

(* Mutant: an ended thread cannot be re-entered.                           *)
AdmitsForward(left, right) ==
  right = "blocked" \/ StatusOrder[right] >= StatusOrder[left]

(* Does reduce_status take right after left, or raise?                     *)
Admits(left, right) ==
  \/ left \in Terminal /\ right = "received"
  \/ right = "blocked"
  \/ StatusOrder[right] >= StatusOrder[left]

-----------------------------------------------------------------------------
(* The messages of a turn, numbered.                                       *)
Messages == (Turns \cup {NoTurn}) \X (1..3)
Question(t) == <<t, 1>>
Answer(t) == <<t, 2>>

(* active: the messages channel; covered: what the running summary has     *)
(* been told; skipped: how many turns of this history have not come past   *)
(* manage_context, which no code keeps.                                    *)
Windows == [active: Seq(Messages), covered: SUBSET Messages, skipped: Nat]

NewWindow == [active |-> <<>>, covered |-> {}, skipped |-> 0]

(* The newest n elements of s, in order.                                   *)
Newest(s, n) ==
  IF Len(s) <= n THEN s ELSE SubSeq(s, (Len(s) - n) + 1, Len(s))

(* add_bounded_messages with one message on the right.                     *)
WithMessage(w, m) == [w EXCEPT !.active = Newest(Append(@, m), MaxMessages)]

WithQuestion(w, t) == [WithMessage(w, Question(t)) EXCEPT !.skipped = @ + 1]

(* The newest kept messages stay, the others are summarised and removed.   *)
Compacted(w, kept) ==
  [w EXCEPT !.active = Newest(@, kept),
            !.covered = @ \cup {w.active[i]: i \in 1..Len(w.active) - kept}]

(* context_messages: the token budget leaves some newest messages, at      *)
(* least one, and KeepMessages of these are kept.                          *)
KeptCounts(w) == {n \in 1..KeepMessages: n <= Len(w.active)}

(* Mutant: the trigger is the bound itself.                                *)
ManagedAtBound(w) ==
  {[c EXCEPT !.skipped = @ - 1]:
     c \in IF Len(w.active) > MaxMessages THEN {Compacted(w, 1)} ELSE {w}}

(* What manage_context may return: nothing to do, unless there are more    *)
(* messages than the trigger or, whatever their number, too many tokens.   *)
Managed(w) ==
  LET compact == {Compacted(w, kept): kept \in KeptCounts(w)}
  IN {[c EXCEPT !.skipped = @ - 1]:
        c \in IF Len(w.active) > TriggerMessages THEN compact ELSE compact \cup {w}}

(* What the next turn can know of: the messages and what was summarised.   *)
Held(w) == w.covered \cup {w.active[i]: i \in 1..Len(w.active)}

(* How many turns, the one that asks included, may be short of             *)
(* manage_context without a loss: a turn that got through it left at most  *)
(* Managing messages and has added its answer.                             *)
Managing == IF TriggerMessages > KeepMessages THEN TriggerMessages ELSE KeepMessages
Slack == (MaxMessages - 1) - Managing

=============================================================================
