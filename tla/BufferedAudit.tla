--------------------------- MODULE BufferedAudit ---------------------------
(***************************************************************************)
(* AuditService on BufferedAuditSink, src/audit/events.py, in the life of  *)
(* the application that opens and closes it (src/app/composition.py).      *)
(* emit puts an event into a bounded queue or raises; a daemon thread      *)
(* takes and delivers events until it takes None, and dies of an exception *)
(* of the sink it delivers to.  close puts None, waits until every event   *)
(* put is done, and closes the sink; nothing keeps callers from recording  *)
(* meanwhile.                                                              *)
(***************************************************************************)
EXTENDS Sequences, Naturals, FiniteSets

CONSTANTS
  Callers,     \* threads that record: the turns of the application
  MaxRecords,  \* bound on what each of them records
  MaxQueue,    \* max_queue
  None,        \* None in the queue, and in the worker's hand
  MaxFaults    \* bound on exceptions of the sink and crashes

ASSUME BoundsAssumption ==
  MaxRecords \in Nat /\ MaxQueue \in Nat \ {0} /\ MaxFaults \in Nat
ASSUME NoneAssumption == None \notin Callers \X (1..MaxRecords)

VARIABLES
  app,         \* "building", "up", "failed"
  recorded,    \* how many events each caller has recorded
  raised,      \* callers that met queue.Full
  buffer,      \* the queue
  unfinished,  \* the queue's count of events not yet done
  worker,      \* the delivery thread
  held,        \* the event it delivers
  delivered,   \* events the sink has taken
  closing,     \* how far close() is
  promised,    \* events accepted when close() was called
  gone,        \* events that died with their process
  faults

queueVars == <<buffer, unfinished>>
workerVars == <<worker, held, delivered>>
closeVars == <<closing, promised, gone>>
vars == <<app, recorded, raised, queueVars, workerVars, closeVars, faults>>

-----------------------------------------------------------------------------
AuditEvents == Callers \X (1..MaxRecords)

TypeOK ==
  /\ app \in {"building", "up", "failed"}
  /\ recorded \in [Callers -> 0..MaxRecords]
  /\ raised \subseteq Callers
  /\ buffer \in Seq(AuditEvents \cup {None}) /\ Len(buffer) <= MaxQueue
  /\ unfinished \in Nat
  /\ worker \in {"waiting", "delivering", "dead", "ended"}
  /\ held \in AuditEvents \cup {None}
  /\ delivered \subseteq AuditEvents
  /\ closing \in {"open", "putting", "joining", "closed"}
  /\ promised \subseteq AuditEvents
  /\ gone \subseteq AuditEvents
  /\ faults \in 0..MaxFaults

Init ==
  /\ app = "building"
  /\ recorded = [c \in Callers |-> 0]
  /\ raised = {}
  /\ delivered = {}
  /\ faults = 0
  /\ buffer = <<>> /\ unfinished = 0
  /\ worker = "waiting" /\ held = None
  /\ closing = "open" /\ promised = {} /\ gone = {}

Accepted == {e \in AuditEvents: e[2] <= recorded[e[1]]}

-----------------------------------------------------------------------------
Fault == faults < MaxFaults /\ faults' = faults + 1

(* Mutant: one place too many.                                             *)
RoomOffByOne == Len(buffer) <= MaxQueue

Room == Len(buffer) < MaxQueue

Put(item) ==
  /\ Room
  /\ buffer' = Append(buffer, item)
  /\ unfinished' = unfinished + 1

(* Mutant: a full queue drops the event and says nothing.                  *)
RecordOrDrop(c) ==
  /\ app = "up"
  /\ c \notin raised /\ recorded[c] < MaxRecords
  /\ recorded' = [recorded EXCEPT ![c] = @ + 1]
  /\ \/ Put(<<c, recorded[c] + 1>>)
     \/ ~Room /\ UNCHANGED queueVars
  /\ UNCHANGED <<app, raised, workerVars, closeVars, faults>>

(* AuditService.record: put_nowait takes the event or raises queue.Full.   *)
RecordEvent(c) ==
  /\ app = "up"
  /\ c \notin raised /\ recorded[c] < MaxRecords
  /\ \/ /\ Put(<<c, recorded[c] + 1>>)
        /\ recorded' = [recorded EXCEPT ![c] = @ + 1]
        /\ UNCHANGED raised
     \/ /\ ~Room
        /\ raised' = raised \cup {c}
        /\ UNCHANGED <<recorded, queueVars>>
  /\ UNCHANGED <<app, workerVars, closeVars, faults>>

(* build_rag_application: an exception closes the audit it has opened.     *)
Build ==
  /\ app = "building"
  /\ \/ app' = "up" /\ UNCHANGED closeVars
     \/ app' = "failed" /\ closing' = "putting" /\ UNCHANGED <<promised, gone>>
  /\ UNCHANGED <<recorded, raised, queueVars, workerVars, faults>>

(* RAGApplication.close, which does not wait for turns.                    *)
Close ==
  /\ app = "up"
  /\ closing = "open"
  /\ closing' = "putting"
  /\ promised' = Accepted \ gone
  /\ UNCHANGED <<app, gone, recorded, raised, queueVars, workerVars, faults>>

(* Queue.put(None) waits for room.                                         *)
PutNone ==
  /\ closing = "putting"
  /\ Put(None)
  /\ closing' = "joining"
  /\ UNCHANGED <<app, recorded, raised, workerVars, promised, gone, faults>>

(* Mutant: close does not join the queue, only the thread, with its        *)
(* timeout.                                                                *)
JoinSkipped == TRUE

AllDone == unfinished = 0

(* Queue.join waits for the count; then the worker is joined and the sink  *)
(* is closed.                                                              *)
Join ==
  /\ closing = "joining"
  /\ AllDone
  /\ closing' = "closed"
  /\ UNCHANGED <<app, recorded, raised, queueVars, workerVars, promised, gone, faults>>

-----------------------------------------------------------------------------
TakeEvent ==
  /\ worker = "waiting"
  /\ Len(buffer) > 0
  /\ Head(buffer) # None
  /\ held' = Head(buffer)
  /\ buffer' = Tail(buffer)
  /\ worker' = "delivering"
  /\ UNCHANGED <<app, recorded, raised, unfinished, delivered, closeVars, faults>>

(* Mutant: the thread returns before it counts None as done.               *)
TakeNoneUndone ==
  /\ worker = "waiting"
  /\ Len(buffer) > 0
  /\ Head(buffer) = None
  /\ buffer' = Tail(buffer)
  /\ worker' = "ended"
  /\ UNCHANGED <<app, recorded, raised, unfinished, held, delivered, closeVars, faults>>

(* None ends the thread; its finally clause counts None as done.           *)
TakeNone ==
  /\ worker = "waiting"
  /\ Len(buffer) > 0
  /\ Head(buffer) = None
  /\ buffer' = Tail(buffer)
  /\ unfinished' = unfinished - 1
  /\ worker' = "ended"
  /\ UNCHANGED <<app, recorded, raised, held, delivered, closeVars, faults>>

(* The finally clause, delivered or not.                                   *)
TaskDone ==
  /\ worker = "delivering"
  /\ unfinished' = unfinished - 1
  /\ held' = None
  /\ UNCHANGED <<app, recorded, raised, buffer, closeVars>>

Deliver ==
  /\ TaskDone
  /\ delivered' = delivered \cup {held}
  /\ worker' = "waiting"
  /\ UNCHANGED faults

SinkRaises ==
  /\ Fault
  /\ TaskDone
  /\ worker' = "dead"
  /\ UNCHANGED delivered

(* The process dies with its queue and is started again.                   *)
Crash ==
  /\ app = "up" /\ Fault
  /\ buffer' = <<>> /\ unfinished' = 0
  /\ worker' = "waiting" /\ held' = None
  /\ closing' = "open" /\ promised' = {}
  /\ gone' = gone \cup (Accepted \ delivered)
  /\ UNCHANGED <<app, recorded, raised, delivered>>

Worker == TakeEvent \/ TakeNone \/ Deliver

Next ==
  \/ \E c \in Callers: RecordEvent(c)
  \/ Build \/ Close \/ PutNone \/ Join
  \/ Worker \/ SinkRaises \/ Crash

Spec == Init /\ [][Next]_vars

(* The delivery thread and the thread in close() run on when they can.     *)
FairSpec == Spec /\ WF_vars(Worker) /\ WF_vars(PutNone) /\ WF_vars(Join)

-----------------------------------------------------------------------------
Accounted == {e \in AuditEvents: e \in delivered \/ e = held \/
                \E i \in 1..Len(buffer): buffer[i] = e}

(* When close() has returned, the sink has taken every event that was      *)
(* accepted before close() was called: an event it raised on would have    *)
(* killed the worker, and close() would still be waiting.                  *)
CloseFlushes == closing = "closed" => promised \subseteq delivered

(* No accepted event vanishes: it is delivered or on its way, except the   *)
(* one that killed the worker and those of a process that died.            *)
Vanished == Accepted \ (gone \cup Accounted)
NothingVanishes ==
  Cardinality(Vanished) = IF worker = "dead" THEN 1 ELSE 0

(* close() returns, unless the worker is dead or something was recorded    *)
(* behind its None, which nobody takes any more.                           *)
Stranded == worker = "dead" \/ (worker = "ended" /\ Len(buffer) > 0)
CloseReturns == closing = "putting" ~> (closing # "putting" /\ closing # "joining") \/ Stranded

=============================================================================
