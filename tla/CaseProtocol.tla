---------------------------- MODULE CaseProtocol ----------------------------
(***************************************************************************)
(* What the forensic case flow promises to those who only see its events   *)
(* (infrastructure/orchestration/README.md, "Event-driven forensic         *)
(* investigation"): each event of a case is published only after the event *)
(* it answers, a reviewer's decision is published only if a reviewer took  *)
(* it on a published report, and an execution order carries the action of  *)
(* a published report and follows an approval.  Nothing is said of how     *)
(* often an event is published, nor of the checkpoints behind it.          *)
(***************************************************************************)
CONSTANTS Cases, GrantedPublisher

VARIABLES
  published,   \* events, as [type, case, detail]
  submitted    \* decisions authorised reviewers have taken, as <<case, d>>

vars == <<published, submitted>>

Actions == {"hold", "review", "clear"}
Executable == {"hold", "release", "review"}
Decisions == {"approved", "rejected"}

Has(type, c, detail) ==
  [type |-> type, case |-> c, detail |-> detail] \in published

Emit(type, c, detail) ==
  /\ published' = published \cup {[type |-> type, case |-> c, detail |-> detail]}
  /\ UNCHANGED submitted

Init == published = {} /\ submitted = {}

-----------------------------------------------------------------------------
Alert(c) == Emit("risk_alert", c, "none")

RequestEvidence(c) ==
  Has("risk_alert", c, "none") /\ Emit("evidence_requested", c, "none")

EvidenceReady(c) ==
  Has("evidence_requested", c, "none") /\ Emit("evidence_ready", c, "none")

RequestReview(c) ==
  /\ Has("evidence_ready", c, "none")
  /\ \E x \in Actions: Emit("review_requested", c, x)

Decide(c) ==
  /\ \E x \in Actions \cap Executable: Has("review_requested", c, x)
  /\ \E d \in Decisions: submitted' = submitted \cup {<<c, d>>}
  /\ UNCHANGED published

GrantApproval(c) ==
  \E d \in Decisions: <<c, d>> \in submitted /\ Emit("approval_granted", c, d)

OrderExecution(c) ==
  /\ <<c, "approved">> \in submitted
  /\ GrantedPublisher => Has("approval_granted", c, "approved")
  /\ \E x \in Actions \cap Executable:
       Has("review_requested", c, x) /\ Emit("execution_order", c, x)

Next ==
  \E c \in Cases:
    \/ Alert(c)
    \/ RequestEvidence(c)
    \/ EvidenceReady(c)
    \/ RequestReview(c)
    \/ Decide(c)
    \/ GrantApproval(c)
    \/ OrderExecution(c)

Spec == Init /\ [][Next]_vars

=============================================================================
