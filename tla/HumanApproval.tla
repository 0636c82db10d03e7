---------------------------- MODULE HumanApproval ----------------------------
(***************************************************************************)
(* HumanApprovalService of src/hitl/service.py behind the HTTP routes of   *)
(* src/hitl/api.py.  A request reads the thread under a lock of its own    *)
(* replica, decides whether to resume the interrupt, to publish again the  *)
(* order of an approved case, or to refuse, and runs the graph under a     *)
(* timeout.  Nothing orders the requests of different replicas.            *)
(***************************************************************************)
EXTENDS ForensicGraph

CONSTANT Replicas   \* processes that serve the approval API

VARIABLES
  request,     \* each HTTP request
  submitted    \* decisions of the "human.approval.submitted" audit records

approvalVars == <<request, submitted>>

-----------------------------------------------------------------------------
Outcomes ==
  {"none", "forbidden", "conflict", "timeout", "error", "crashed", "approved",
   "rejected", "execution_requested", "completed"}

(* A valid request carries the approver role and the id of the pending     *)
(* approval.                                                               *)
Credentials == {"valid", "no_role", "wrong_id"}

NewRequest ==
  [pc |-> "new", replica |-> "none", case |-> "none", decision |-> "none",
   credentials |-> "valid", mode |-> "none", outcome |-> "none"]

Active(q) == request[q].pc \in {"admitted", "running"}

ApprovalTypeOK ==
  /\ request \in
       [Requests ->
          [pc: {"new", "admitted", "running", "done"},
           replica: Replicas \cup {"none"}, case: Cases \cup {"none"},
           decision: Verdicts, credentials: Credentials, mode: {"none", "resume", "republish"},
           outcome: Outcomes]]
  /\ \A q \in Requests:
       Active(q) => /\ request[q].replica \in Replicas
                    /\ request[q].case \in Cases
                    /\ request[q].decision \in Decisions
  /\ submitted \subseteq Cases \X Decisions

ApprovalInit ==
  /\ request = [q \in Requests |-> NewRequest]
  /\ submitted = {}

(* A request that ends gives its lock back.                                *)
Ended(entry, outcome) ==
  [entry EXCEPT !.pc = "done", !.replica = "none", !.mode = "none",
                !.outcome = outcome]

Finish(q, outcome) ==
  request' = [request EXCEPT ![q] = Ended(@, outcome)]

(* _resume_locks: one asyncio.Lock per thread and process.                 *)
(* Mutant: no lock.                                                        *)
NoLock(r, c) == TRUE

LockFree(r, c) ==
  \A q \in Requests:
    Active(q) => ~(request[q].replica = r /\ request[q].case = c)

(* Mutants: the approval id is not compared; the stage of the approved case *)
(* is not.                                                                 *)
AdmissionAnyId(c, d, cred) ==
  IF thread[c].waiting THEN "resume" ELSE "conflict"

AdmissionAnyStage(c, d, cred) ==
  CASE cred = "wrong_id" -> "conflict"
    [] cred # "wrong_id" /\ thread[c].waiting -> "resume"
    [] cred # "wrong_id" /\ ~thread[c].waiting ->
         IF thread[c].values.decision = "approved" /\ d = "approved"
         THEN "republish" ELSE "conflict"

(* What the snapshot read under the lock allows.  The approval id is set   *)
(* together with the report and is the same for every report of the case.  *)
Admission(c, d, cred) ==
  LET v == thread[c].values
      idMatches == v.report # "none" /\ cred # "wrong_id"
  IN CASE idMatches /\ thread[c].waiting -> "resume"
       [] /\ idMatches /\ ~thread[c].waiting
          /\ v.stage = "approved" /\ v.decision = "approved" /\ d = "approved"
            -> "republish"
       [] OTHER -> "conflict"

-----------------------------------------------------------------------------
(* A request with a legal decision: it is refused, or enters the lock and  *)
(* reads the thread.                                                       *)
Submit(q, r, c, d, cred) ==
  /\ request[q].pc = "new"
  /\ \/ /\ cred = "no_role"
        /\ Finish(q, "forbidden")
     \/ /\ cred # "no_role"
        /\ LockFree(r, c)
        /\ Admission(c, d, cred) = "conflict"
        /\ Finish(q, "conflict")
     \/ /\ cred # "no_role"
        /\ LockFree(r, c)
        /\ Admission(c, d, cred) # "conflict"
        /\ request' = [request EXCEPT ![q] =
                         [pc |-> "admitted", replica |-> r, case |-> c,
                          decision |-> d, credentials |-> cred,
                          mode |-> Admission(c, d, cred), outcome |-> "none"]]
  /\ UNCHANGED <<submitted, transportVars, graphVars>>

(* Mutant: the decision is not audited before the graph runs.              *)
ResumeUnaudited(q) ==
  /\ request[q].pc = "admitted"
  /\ request[q].mode = "resume"
  /\ InvokeResume(q, request[q].case, request[q].decision)
  /\ request' = [request EXCEPT ![q].pc = "running"]
  /\ UNCHANGED <<submitted, transportVars>>

(* The decision is audited, then the graph is resumed.                     *)
ResumeInterrupt(q) ==
  /\ request[q].pc = "admitted"
  /\ request[q].mode = "resume"
  /\ submitted' = submitted \cup {<<request[q].case, request[q].decision>>}
  /\ InvokeResume(q, request[q].case, request[q].decision)
  /\ request' = [request EXCEPT ![q].pc = "running"]
  /\ UNCHANGED transportVars

(* The approval was checkpointed but its order was not published.          *)
RepublishOrder(q) ==
  /\ request[q].pc = "admitted"
  /\ request[q].mode = "republish"
  /\ InvokeInput(q, request[q].case, "approved")
  /\ request' = [request EXCEPT ![q].pc = "running"]
  /\ UNCHANGED <<submitted, transportVars>>

ResumeOutcome(stage) ==
  IF stage \in {"approved", "rejected", "execution_requested"}
  THEN stage ELSE "completed"

(* Mutant: only a graph that returns ends its request.                     *)
ResumeResultOnReturn(q) ==
  /\ request[q].pc = "running"
  /\ Returned(q)
  /\ Finish(q, ResumeOutcome(run[q].values.stage))
  /\ run' = [run EXCEPT ![q] = IdleRun]
  /\ UNCHANGED <<submitted, thread, transportVars>>

ResumeResult(q) ==
  /\ request[q].pc = "running"
  /\ \/ Returned(q) /\ Finish(q, ResumeOutcome(run[q].values.stage))
     \/ Raised(q) /\ Finish(q, "error")
  /\ run' = [run EXCEPT ![q] = IdleRun]
  /\ UNCHANGED <<submitted, thread, transportVars>>

(* asyncio.wait_for cancels the run wherever it is.                        *)
ResumeTimeout(q) ==
  /\ request[q].pc = "running"
  /\ run[q].node \in Nodes
  /\ Inject("timeout")
  /\ Finish(q, "timeout")
  /\ run' = [run EXCEPT ![q] = IdleRun]
  /\ UNCHANGED <<submitted, published, queue, deadLetters, ledger, thread>>

(* A replica dies with the requests it serves and their locks.             *)
ReplicaCrash(r) ==
  LET lost == {q \in Requests: Active(q) /\ request[q].replica = r} IN
  /\ lost # {}
  /\ Inject("crash")
  /\ request' = [q \in Requests |->
                   IF q \in lost
                   THEN Ended(request[q], "crashed")
                   ELSE request[q]]
  /\ run' = [a \in Runners |-> IF a \in lost THEN IdleRun ELSE run[a]]
  /\ UNCHANGED <<submitted, published, queue, deadLetters, ledger, thread>>

ApprovalStep(q) ==
  \/ ResumeInterrupt(q)
  \/ RepublishOrder(q)
  \/ ResumeResult(q)

-----------------------------------------------------------------------------
(* Mutant: an approved case is shown as completed.                         *)
CaseStatusEarly(c) ==
  IF thread[c].values.stage \in {"approved", "execution_requested"}
  THEN "completed" ELSE thread[c].values.stage

(* HumanApprovalService.status: what the API shows of a case.              *)
CaseStatus(c) ==
  LET t == thread[c] IN
  CASE t.values.stage = "none" -> "not_found"
    [] t.values.stage # "none" /\ t.waiting -> "awaiting_human"
    [] ~t.waiting /\ t.values.stage = "rejected" -> "rejected"
    [] ~t.waiting /\ t.values.stage = "approved" -> "execution_pending"
    [] ~t.waiting /\ t.values.stage = "execution_requested" -> "completed"
    [] OTHER -> "running"

=============================================================================
