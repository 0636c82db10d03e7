--------------------------- MODULE RagTurn_proofs ---------------------------
(***************************************************************************)
(* The turns of the question-answering application, for every number of    *)
(* turns and threads, all limits that the code admits, every profile and   *)
(* any number of faults.                                                   *)
(***************************************************************************)
EXTENDS RagTurn, TLAPS

-----------------------------------------------------------------------------
(* Windows stay windows: the operators of ConversationState are closed.    *)

(* The newest n of some elements are at most n of them.                     *)
LEMMA NewestMessages ==
  ASSUME NEW s \in Seq(Messages), NEW n \in Nat
  PROVE  /\ Newest(s, n) \in Seq(Messages)
         /\ Len(Newest(s, n)) = IF Len(s) <= n THEN Len(s) ELSE n
         /\ \A i \in 1..Len(Newest(s, n)):
              Newest(s, n)[i] = s[i + (Len(s) - Len(Newest(s, n)))]
PROOF
  <1>1. CASE Len(s) <= n
    BY <1>1 DEF Newest
  <1>2. CASE ~(Len(s) <= n)
    <2>1. Newest(s, n) = SubSeq(s, (Len(s) - n) + 1, Len(s))
      BY <1>2 DEF Newest
    <2>2. \A i \in (Len(s) - n) + 1..Len(s): s[i] \in Messages
      BY <1>2
    <2>. QED
      BY <1>2, <2>1, <2>2
  <1>. QED
    BY <1>1, <1>2

(* add_bounded_messages with one message: nothing leaves a window that has *)
(* room for it.                                                            *)
LEMMA MessageWindow ==
  ASSUME NEW w \in Windows, NEW m \in Messages
  PROVE  LET v == WithMessage(w, m) IN
         /\ v \in Windows /\ v.skipped = w.skipped
         /\ Len(v.active) <= MaxMessages /\ Len(v.active) <= Len(w.active) + 1
         /\ Len(w.active) < MaxMessages => Held(w) \subseteq Held(v)
PROOF
  <1>. DEFINE all == Append(w.active, m)
              active == Newest(all, MaxMessages)
              v == [w EXCEPT !.active = active]
  <1>1. /\ w.active \in Seq(Messages) /\ w.covered \in SUBSET Messages
        /\ MaxMessages \in Nat
    BY WindowAssumption DEF Windows
  <1>2. /\ all \in Seq(Messages) /\ Len(all) = Len(w.active) + 1
        /\ \A i \in 1..Len(w.active): all[i] = w.active[i]
    BY <1>1
  <1>3. WithMessage(w, m) = v
    BY DEF WithMessage
  <1>. HIDE DEF all
  <1>4. /\ active \in Seq(Messages) /\ Len(active) <= MaxMessages
        /\ Len(active) <= Len(w.active) + 1
        /\ Len(w.active) < MaxMessages => active = all
    <2>1. /\ active \in Seq(Messages)
          /\ Len(active) = IF Len(all) <= MaxMessages THEN Len(all) ELSE MaxMessages
      BY <1>1, <1>2, NewestMessages
    <2>2. Len(all) <= MaxMessages => active = all
      BY DEF Newest
    <2>3. Len(w.active) \in Nat
      BY <1>1
    <2>. HIDE DEF active
    <2>. QED
      BY <1>1, <1>2, <2>1, <2>2, <2>3
  <1>. HIDE DEF active
  <1>5. v \in Windows /\ v.active = active /\ v.covered = w.covered
        /\ v.skipped = w.skipped
    BY <1>4 DEF Windows
  <1>. HIDE DEF v
  <1>6. ASSUME Len(w.active) < MaxMessages
        PROVE  Held(w) \subseteq Held(v)
    <2>1. \A i \in 1..Len(w.active): i \in 1..Len(all) /\ w.active[i] = all[i]
      BY <1>1, <1>2
    <2>. QED
      BY <1>4, <1>5, <1>6, <2>1 DEF Held
  <1>. QED
    BY <1>3, <1>4, <1>5, <1>6

(* A question is a message, of a turn that manage_context has yet to see.  *)
LEMMA QuestionWindow ==
  ASSUME NEW w \in Windows, NEW t \in Turns
  PROVE  LET v == WithQuestion(w, t) IN
         /\ v \in Windows /\ v.skipped = w.skipped + 1
         /\ Len(v.active) <= MaxMessages /\ Len(v.active) <= Len(w.active) + 1
         /\ Len(w.active) < MaxMessages => Held(w) \subseteq Held(v)
PROOF
  <1>. DEFINE u == WithMessage(w, Question(t))
              v == [u EXCEPT !.skipped = u.skipped + 1]
  <1>1. Question(t) \in Messages
    BY DEF Question, Messages
  <1>2. /\ u \in Windows /\ u.skipped = w.skipped
        /\ Len(u.active) <= MaxMessages /\ Len(u.active) <= Len(w.active) + 1
        /\ Len(w.active) < MaxMessages => Held(w) \subseteq Held(u)
    BY <1>1, MessageWindow
  <1>3. WithQuestion(w, t) = v
    BY DEF WithQuestion
  <1>. HIDE DEF u
  <1>4. /\ v \in Windows /\ v.skipped = u.skipped + 1
        /\ v.active = u.active /\ v.covered = u.covered
    BY <1>2 DEF Windows
  <1>. HIDE DEF v
  <1>5. Held(v) = Held(u)
    BY <1>4 DEF Held
  <1>. QED
    BY <1>2, <1>3, <1>4, <1>5

(* A compaction keeps some newest messages and covers all others.          *)
LEMMA CompactedWindow ==
  ASSUME NEW w \in Windows, NEW kept \in KeptCounts(w)
  PROVE  LET c == Compacted(w, kept) IN
         /\ c \in Windows /\ c.skipped = w.skipped
         /\ Len(c.active) <= Managing
         /\ Held(w) \subseteq Held(c)
PROOF
  <1>. DEFINE active == Newest(w.active, kept)
              out == {w.active[i]: i \in 1..Len(w.active) - kept}
              c == [w EXCEPT !.active = active, !.covered = w.covered \cup out]
  <1>1. /\ w.active \in Seq(Messages) /\ w.covered \in SUBSET Messages
        /\ kept \in Nat /\ kept <= Len(w.active) /\ kept <= KeepMessages
    BY WindowAssumption DEF Windows, KeptCounts
  <1>2. /\ active \in Seq(Messages) /\ Len(active) = kept
        /\ \A i \in 1..kept: active[i] = w.active[i + (Len(w.active) - kept)]
    <2>1. /\ active \in Seq(Messages)
          /\ Len(active) = IF Len(w.active) <= kept THEN Len(w.active) ELSE kept
          /\ \A i \in 1..Len(active):
               active[i] = w.active[i + (Len(w.active) - Len(active))]
      BY <1>1, NewestMessages
    <2>2. Len(w.active) \in Nat
      BY <1>1
    <2>. HIDE DEF active
    <2>3. Len(active) = kept
      BY <1>1, <2>1, <2>2
    <2>. QED
      BY <2>1, <2>3
  <1>3. out \in SUBSET Messages
    BY <1>1
  <1>4. Compacted(w, kept) = c
    BY DEF Compacted
  <1>5. \A i \in 1..Len(w.active):
          w.active[i] \in out \/ \E k \in 1..kept: w.active[i] = active[k]
    <2>. SUFFICES ASSUME NEW i \in 1..Len(w.active)
                  PROVE  w.active[i] \in out \/ \E k \in 1..kept: w.active[i] = active[k]
      OBVIOUS
    <2>1. CASE i <= Len(w.active) - kept
      BY <1>1, <2>1
    <2>2. CASE ~(i <= Len(w.active) - kept)
      <3>. DEFINE k == i - (Len(w.active) - kept)
      <3>1. k \in 1..kept /\ k + (Len(w.active) - kept) = i
        BY <1>1, <2>2
      <3>. QED
        BY <1>2, <3>1
    <2>. QED
      BY <2>1, <2>2
  <1>. HIDE DEF active, out
  <1>6. /\ c \in Windows /\ c.active = active /\ c.covered = w.covered \cup out
        /\ c.skipped = w.skipped
    BY <1>2, <1>3 DEF Windows
  <1>. HIDE DEF c
  <1>7. kept <= Managing
    BY <1>1, WindowAssumption DEF Managing
  <1>8. Held(w) \subseteq Held(c)
    BY <1>2, <1>5, <1>6 DEF Held
  <1>. QED
    BY <1>2, <1>4, <1>6, <1>7, <1>8

(* What manage_context returns is the window, compacted or as it was, with *)
(* one turn less to come past it.                                          *)
LEMMA ManagedWindow ==
  ASSUME NEW w \in Windows, w.skipped > 0, NEW v \in Managed(w)
  PROVE  /\ v \in Windows /\ v.skipped = w.skipped - 1
         /\ Len(v.active) <= Managing
         /\ Held(w) \subseteq Held(v)
PROOF
  <1>1. PICK c: /\ v = [c EXCEPT !.skipped = c.skipped - 1]
                /\ \/ Len(w.active) <= TriggerMessages /\ c = w
                   \/ \E kept \in KeptCounts(w): c = Compacted(w, kept)
    <2>1. Len(w.active) <= TriggerMessages \/ Len(w.active) > TriggerMessages
      BY WindowAssumption DEF Windows
    <2>. QED
      BY <2>1 DEF Managed
  <1>2. /\ c \in Windows /\ c.skipped = w.skipped /\ w.skipped \in Nat
        /\ Len(c.active) <= Managing /\ Held(w) \subseteq Held(c)
    <2>1. CASE Len(w.active) <= TriggerMessages /\ c = w
      BY <2>1, WindowAssumption DEF Windows, Managing
    <2>2. CASE \E kept \in KeptCounts(w): c = Compacted(w, kept)
      BY <2>2, CompactedWindow DEF Windows
    <2>. QED
      BY <1>1, <2>1, <2>2
  <1>3. c.skipped - 1 \in Nat
    BY <1>2
  <1>4. /\ v \in Windows /\ v.skipped = c.skipped - 1
        /\ v.active = c.active /\ v.covered = c.covered
    BY <1>1, <1>2, <1>3 DEF Windows
  <1>5. Held(v) = Held(c)
    BY <1>4 DEF Held
  <1>. QED
    BY <1>2, <1>4, <1>5

-----------------------------------------------------------------------------
(* What the parts of a step make of the turn that takes it.                *)

(* The channels of a new thread and of a used one are channels.            *)
LEMMA NewThreadType ==
  /\ NewThread \in Values /\ UsedThread \in Values
  /\ \A s \in Statuses: [NewThread EXCEPT !.status = s] \in Values
                        /\ [NewThread EXCEPT !.status = s].status = s
PROOF
  <1>1. /\ NewThread.window \in Windows
        /\ \A i \in 1..3: <<NoTurn, i>> \in Messages
    BY DEF NewThread, NewWindow, Windows, Messages
  <1>2. <<<<NoTurn, 1>>, <<NoTurn, 2>>, <<NoTurn, 3>>>> \in Seq(Messages)
    BY <1>1
  <1>3. UsedThread.window \in Windows
    BY <1>2 DEF UsedThread, Windows
  <1>. QED
    BY <1>1, <1>3 DEF NewThread, UsedThread, Values, Statuses, Terminal

(* The parts of a turn have the types of the channels.                     *)
LEMMA TurnType ==
  ASSUME TypeOK, NEW t \in Turns
  PROVE  /\ turn[t] \in TurnStates /\ turn[t].thread \in Threads
         /\ turn[t].values \in Values /\ turn[t].values.status \in Statuses
         /\ turn[t].values.handle \in Turns \cup {NoTurn}
         /\ turn[t].values.window \in Windows
         /\ turn[t].docs \in Contexts
PROOF
  BY DEF TypeOK, TurnStates, Values

(* The end of a run changes no other turn, and keeps the thread it ran on. *)
LEMMA EndShape ==
  ASSUME TypeOK, NEW t \in Turns, NEW how \in Ended, NEW status \in Statuses,
         End(t, how, status)
  PROVE  /\ turn' \in [Turns -> TurnStates]
         /\ \A u \in Turns \ {t}: turn'[u] = turn[u]
         /\ turn'[t].at = how /\ turn'[t].thread = turn[t].thread
         /\ turn'[t].docs = "none" /\ turn'[t].answer = "none"
         /\ turn'[t].values.status = status
PROOF
  <1>. DEFINE values == [NewThread EXCEPT !.status = status]
              new == [turn[t] EXCEPT !.at = how, !.docs = "none", !.answer = "none",
                                     !.values = values]
  <1>1. values \in Values /\ values.status = status
    BY NewThreadType
  <1>2. turn' = [turn EXCEPT ![t] = new]
    BY DEF End
  <1>. HIDE DEF values
  <1>3. new \in TurnStates /\ new.at = how /\ new.thread = turn[t].thread
        /\ new.docs = "none" /\ new.answer = "none" /\ new.values = values
    BY <1>1, TurnType DEF TurnStates, Contexts
  <1>. HIDE DEF new
  <1>. QED
    BY <1>1, <1>2, <1>3 DEF TypeOK

(* A commit moves the turn and writes its thread, or the reducer refuses.  *)
Moved(t, next, new) ==
  /\ Admits(turn[t].values.status, new.values.status)
  /\ turn'[t].at = next /\ turn'[t].values = new.values
  /\ turn'[t].docs = new.docs /\ turn'[t].answer = new.answer
  /\ thread' = [thread EXCEPT ![turn[t].thread] = new.values]

Refused(t, new) ==
  /\ ~Admits(turn[t].values.status, new.values.status)
  /\ turn'[t].at = "refused" /\ turn'[t].answer = "none"
  /\ thread' = thread

(* A commit has one of these two outcomes, and changes no other turn.      *)
LEMMA CommitShape ==
  ASSUME TypeOK, NEW t \in Turns, NEW next \in Nodes, NEW new \in TurnStates,
         new.thread = turn[t].thread, Commit(t, next, new)
  PROVE  /\ turn' \in [Turns -> TurnStates] /\ thread' \in [Threads -> Values]
         /\ \A u \in Turns \ {t}: turn'[u] = turn[u]
         /\ turn'[t].thread = turn[t].thread
         /\ Moved(t, next, new) \/ Refused(t, new)
PROOF
  <1>1. CASE Admits(turn[t].values.status, new.values.status)
    <2>. DEFINE moved == [new EXCEPT !.at = next]
    <2>1. turn' = [turn EXCEPT ![t] = moved]
          /\ thread' = [thread EXCEPT ![turn[t].thread] = new.values]
      BY <1>1 DEF Commit
    <2>2. moved \in TurnStates /\ moved.at = next /\ moved.thread = new.thread
          /\ moved.values = new.values /\ moved.docs = new.docs
          /\ moved.answer = new.answer
      BY DEF TurnStates
    <2>3. new.values \in Values /\ turn[t].thread \in Threads
      BY TurnType DEF TurnStates
    <2>. HIDE DEF moved
    <2>. QED
      BY <1>1, <2>1, <2>2, <2>3 DEF TypeOK, Moved
  <1>2. CASE ~Admits(turn[t].values.status, new.values.status)
    <2>1. End(t, "refused", "none") /\ thread' = thread
      BY <1>2 DEF Commit
    <2>2. "refused" \in Ended /\ "none" \in Statuses
      BY DEF Ended, Statuses
    <2>. QED
      BY <1>2, <2>1, <2>2, EndShape DEF Refused, TypeOK
  <1>. QED
    BY <1>1, <1>2

(* WithStatus changes the status and nothing else.                         *)
LEMMA WithStatusShape ==
  ASSUME TypeOK, NEW t \in Turns, NEW status \in Statuses
  PROVE  LET new == WithStatus(t, status) IN
         /\ new \in TurnStates /\ new.thread = turn[t].thread
         /\ new.values.status = status
         /\ new.values.handle = turn[t].values.handle
         /\ new.values.window = turn[t].values.window
         /\ new.docs = turn[t].docs /\ new.answer = turn[t].answer
PROOF
  <1>. DEFINE values == [turn[t].values EXCEPT !.status = status]
              new == [turn[t] EXCEPT !.values = values]
  <1>1. values \in Values /\ values.status = status
        /\ values.handle = turn[t].values.handle /\ values.window = turn[t].values.window
    BY TurnType DEF Values
  <1>2. WithStatus(t, status) = new
    BY DEF WithStatus
  <1>. HIDE DEF values
  <1>3. new \in TurnStates /\ new.thread = turn[t].thread /\ new.values = values
        /\ new.docs = turn[t].docs /\ new.answer = turn[t].answer
    BY <1>1, TurnType DEF TurnStates
  <1>. QED
    BY <1>1, <1>2, <1>3

(* Blocked changes the status and adds a message; the handle stays.        *)
LEMMA BlockedShape ==
  ASSUME TypeOK, NEW t \in Turns
  PROVE  LET new == Blocked(t) IN
         /\ new \in TurnStates /\ new.thread = turn[t].thread
         /\ new.values.status = "blocked"
         /\ new.values.handle = turn[t].values.handle
         /\ new.values.window = WithMessage(turn[t].values.window, Answer(t))
         /\ new.docs = "none" /\ new.answer = "none"
PROOF
  <1>. DEFINE w == WithMessage(turn[t].values.window, Answer(t))
              marked == [turn[t].values EXCEPT !.status = "blocked"]
              values == [marked EXCEPT !.window = w]
              first == [turn[t] EXCEPT !.values = marked]
              second == [first EXCEPT !.values = values]
              new == [second EXCEPT !.docs = "none", !.answer = "none"]
  <1>1. w \in Windows
    BY TurnType, MessageWindow DEF Answer, Messages
  <1>2. marked.window = turn[t].values.window
    BY TurnType DEF Values
  <1>. HIDE DEF w
  <1>3. values \in Values /\ values.status = "blocked" /\ values.window = w
        /\ values.handle = turn[t].values.handle
    BY <1>1, TurnType DEF Values, Statuses, Terminal
  <1>4. marked \in Values
    BY TurnType DEF Values, Statuses, Terminal
  <1>5. first.values = marked
    BY TurnType DEF TurnStates
  <1>6. Blocked(t) = new
    BY <1>2, <1>5 DEF Blocked, w
  <1>. HIDE DEF marked, values
  <1>7. new \in TurnStates /\ new.thread = turn[t].thread /\ new.values = values
        /\ new.docs = "none" /\ new.answer = "none"
    BY <1>3, <1>4, TurnType DEF TurnStates, Contexts
  <1>. HIDE DEF new
  <1>. QED
    BY <1>3, <1>6, <1>7 DEF w


-----------------------------------------------------------------------------
(* The inductive invariant, turn by turn: what the node at which a turn    *)
(* stands says of its status, its handle, its window and its context.      *)

Governing == {"record_evidence", "append_evidence", "audit_evidence"}
AfterRetrieval ==
  {"guard_retrieval", "generate", "validate_output", "cleanup_context"} \cup Governing

StatusFits(t) ==
  LET status == turn[t].values.status
  IN /\ turn[t].at = "retrieve" => status = "received"
     /\ turn[t].at \in {"guard_retrieval", "generate"} => status = "retrieved"
     /\ turn[t].at = "validate_output" => status \in {"generated", "blocked"}
     /\ turn[t].at \in Governing => status \in {"validated", "blocked"}
     /\ turn[t].at \in {"cleanup_context", "returned"} => status \in Terminal

ContextFits(t) ==
  /\ turn[t].at \in {"guard_retrieval", "generate"} => turn[t].values.handle = t
  /\ cache[t] # NoEntry =>
       /\ cache[t].thread = turn[t].thread
       /\ turn[t].at \in AfterRetrieval \cup {"raised"}
       /\ turn[t].at \in AfterRetrieval => turn[t].values.handle = t
       /\ turn[t].at = "generate" => cache[t].docs # "poisoned"
  /\ turn[t].answer # "none" => turn[t].docs # "poisoned"

AsksFirst(t) == turn[t].at = "manage_context" => turn[t].values.window.skipped > 0

TurnFits(t) == AsksFirst(t) /\ StatusFits(t) /\ ContextFits(t)

(* What a step of turn t leaves alone: other turns, except that it may     *)
(* erase a context of theirs, and other threads.                           *)
Steps(t) ==
  /\ turn' \in [Turns -> TurnStates] /\ thread' \in [Threads -> Values]
  /\ \A u \in Turns \ {t}: turn'[u] = turn[u]
  /\ \A th \in Threads: th # turn[t].thread => thread'[th] = thread[th]
  /\ turn'[t].thread = turn[t].thread /\ turn'[t].at \in Nodes \cup Ended

(* A commit whose status the reducer takes is the update itself.           *)
LEMMA CommitSteps ==
  ASSUME TypeOK, NEW t \in Turns, NEW next \in Nodes, NEW new \in TurnStates,
         new.thread = turn[t].thread, Commit(t, next, new)
  PROVE  /\ Steps(t) /\ turn'[t].at # "returned"
         /\ Moved(t, next, new) \/ Refused(t, new)
PROOF
  <1>1. turn[t].thread \in Threads /\ new.values \in Values
    BY TurnType DEF TurnStates
  <1>2. turn'[t].at \in Nodes \cup Ended /\ turn'[t].at # "returned"
    BY CommitShape DEF Moved, Refused, Nodes, Ended
  <1>3. \A th \in Threads: th # turn[t].thread => thread'[th] = thread[th]
    BY <1>1, CommitShape DEF Moved, Refused, TypeOK
  <1>. QED
    BY <1>2, <1>3, CommitShape DEF Steps

(* A node that blocks the turn moves it on with its handle.                *)
LEMMA CommitBlocked ==
  ASSUME TypeOK, NEW t \in Turns, NEW next \in Nodes, Commit(t, next, Blocked(t))
  PROVE  /\ Steps(t) /\ turn'[t].at = next
         /\ turn'[t].values.status = "blocked"
         /\ turn'[t].values.handle = turn[t].values.handle
         /\ turn'[t].values.window = WithMessage(turn[t].values.window, Answer(t))
         /\ turn'[t].docs = "none" /\ turn'[t].answer = "none"
         /\ thread' = [thread EXCEPT ![turn[t].thread] = turn'[t].values]
PROOF
  <1>. DEFINE new == Blocked(t)
  <1>1. /\ new \in TurnStates /\ new.thread = turn[t].thread
        /\ new.values.status = "blocked"
        /\ new.values.handle = turn[t].values.handle
        /\ new.values.window = WithMessage(turn[t].values.window, Answer(t))
        /\ new.docs = "none" /\ new.answer = "none"
    BY BlockedShape
  <1>2. Commit(t, next, new)
    OBVIOUS
  <1>. HIDE DEF new
  <1>3. Admits(turn[t].values.status, new.values.status)
    BY <1>1 DEF Admits
  <1>4. Steps(t) /\ Moved(t, next, new)
    BY <1>1, <1>2, <1>3, CommitSteps DEF Refused
  <1>. QED
    BY <1>1, <1>4 DEF Moved

(* A node that only sets the status moves the turn on, or is refused.      *)
LEMMA CommitStatus ==
  ASSUME TypeOK, NEW t \in Turns, NEW next \in Nodes, NEW status \in Statuses,
         Commit(t, next, WithStatus(t, status))
  PROVE  /\ Steps(t) /\ turn'[t].at # "returned"
         /\ \/ /\ turn'[t].at = next
               /\ turn'[t].values.status = status
               /\ turn'[t].values.handle = turn[t].values.handle
               /\ turn'[t].values.window = turn[t].values.window
               /\ turn'[t].docs = turn[t].docs /\ turn'[t].answer = turn[t].answer
               /\ thread' = [thread EXCEPT ![turn[t].thread] = turn'[t].values]
            \/ /\ ~Admits(turn[t].values.status, status)
               /\ turn'[t].at = "refused" /\ turn'[t].answer = "none"
               /\ thread' = thread
PROOF
  <1>. DEFINE new == WithStatus(t, status)
  <1>1. /\ new \in TurnStates /\ new.thread = turn[t].thread
        /\ new.values.status = status
        /\ new.values.handle = turn[t].values.handle
        /\ new.values.window = turn[t].values.window
        /\ new.docs = turn[t].docs /\ new.answer = turn[t].answer
    BY WithStatusShape
  <1>2. Commit(t, next, new)
    OBVIOUS
  <1>. HIDE DEF new
  <1>3. Steps(t) /\ turn'[t].at # "returned" /\ (Moved(t, next, new) \/ Refused(t, new))
    BY <1>1, <1>2, CommitSteps
  <1>. QED
    BY <1>1, <1>3 DEF Moved, Refused

(* A turn that raises leaves its thread alone.                             *)
LEMMA RaiseSteps ==
  ASSUME TypeOK, NEW t \in Turns, Raise(t)
  PROVE  /\ Steps(t) /\ turn'[t].at = "raised" /\ turn'[t].answer = "none"
         /\ thread' = thread
PROOF
  <1>1. "raised" \in Ended /\ "none" \in Statuses
    BY DEF Ended, Statuses
  <1>2. End(t, "raised", "none") /\ thread' = thread
    BY DEF Raise
  <1>. QED
    BY <1>1, <1>2, EndShape DEF Steps, TypeOK

-----------------------------------------------------------------------------
(* Every step of a turn keeps what TurnFits says of it.                    *)

CacheSteps(t) ==
  /\ CacheTypeOK'
  /\ \A u \in Turns \ {t}: cache'[u] \in {cache[u], NoEntry}

(* A turn owes the conversation its answer from manage_context until it is *)
(* blocked or validated.                                                   *)
Owes(t) ==
  \/ turn[t].at \in {"guard_input", "retrieve", "guard_retrieval", "generate"}
  \/ turn[t].at = "validate_output" /\ turn[t].values.status # "blocked"

(* What a step does with the messages of the turn, and of its thread.      *)
Says(t) ==
  LET old == turn[t].values.window
      new == turn'[t].values.window
      th == turn[t].thread
  IN \/ turn'[t].at \in Ended /\ thread' = thread
     \/ /\ turn'[t].at \in Ended /\ Running(t)
        /\ thread' = [thread EXCEPT ![th] = turn[t].values]
     \/ /\ Running(t) /\ new = old /\ (Owes(t)' => Owes(t))
        /\ thread' = thread \/ thread' = [thread EXCEPT ![th] = turn'[t].values]
     \/ /\ thread' = [thread EXCEPT ![th] = turn'[t].values]
        /\ \/ Owes(t) /\ new = WithMessage(old, Answer(t)) /\ ~Owes(t)'
           \/ turn[t].at = "manage_context" /\ new \in Managed(old)
           \/ turn[t].at = "idle" /\ new = WithQuestion(thread[th].window, t) /\ ~Owes(t)'

Takes(t) ==
  /\ Steps(t) /\ CacheSteps(t) /\ Says(t) /\ TurnFits(t)'
  /\ turn'[t].at = "returned" => thread'[turn[t].thread].status \in Terminal

(* A step that leaves the cache alone.                                     *)
LEMMA CacheUnchanged ==
  ASSUME TypeOK, NEW t \in Turns, UNCHANGED cache
  PROVE  CacheSteps(t) /\ cache'[t] = cache[t]
PROOF
  BY DEF CacheSteps, TypeOK, CacheTypeOK

(* A turn that owes an answer and is blocked says so, and owes no more.    *)
LEMMA BlockedSays ==
  ASSUME TypeOK, NEW t \in Turns, Owes(t),
         NEW next \in {"validate_output", "record_evidence"}, Commit(t, next, Blocked(t))
  PROVE  Says(t)
PROOF
  <1>1. next \in Nodes
    BY DEF Nodes
  <1>2. /\ turn'[t].at = next /\ turn'[t].values.status = "blocked"
        /\ turn'[t].values.window = WithMessage(turn[t].values.window, Answer(t))
        /\ thread' = [thread EXCEPT ![turn[t].thread] = turn'[t].values]
    BY <1>1, CommitBlocked
  <1>. QED
    BY <1>2 DEF Says, Owes

(* A turn that raises says nothing.                                        *)
LEMMA RaiseSays ==
  ASSUME TypeOK, NEW t \in Turns, Raise(t)
  PROVE  Says(t)
PROOF
  BY RaiseSteps DEF Says, Ended

(* A node that leaves the messages alone.                                  *)
LEMMA SilentSays ==
  ASSUME NEW t \in Turns, Running(t), turn'[t].values.window = turn[t].values.window,
         Owes(t)' => Owes(t),
         thread' = thread \/ thread' = [thread EXCEPT ![turn[t].thread] = turn'[t].values]
  PROVE  Says(t)
PROOF
  BY DEF Says

(* invoke counts its turn among those that manage_context has yet to see.  *)
LEMMA BeginTakes ==
  ASSUME TypeOK, NEW t \in Turns, TurnFits(t), Begin(t)
  PROVE  Takes(t)
PROOF
  <1>. DEFINE th == turn[t].thread
              w == WithQuestion(thread[th].window, t)
              values == [thread[th] EXCEPT !.window = w]
              first == [turn[t] EXCEPT !.at = "manage_context"]
              new == [first EXCEPT !.values = values]
  <1>1. turn[t] \in TurnStates /\ th \in Threads /\ thread[th] \in Values
        /\ thread[th].window \in Windows
    BY TurnType DEF TypeOK, Values
  <1>2. w \in Windows /\ w.skipped > 0
    <2>1. thread[th].window.skipped \in Nat
      BY <1>1 DEF Windows
    <2>. QED
      BY <1>1, <2>1, QuestionWindow
  <1>3. turn' = [turn EXCEPT ![t] = new] /\ thread' = [thread EXCEPT ![th] = values]
    BY DEF Begin, TypeOK
  <1>. HIDE DEF w
  <1>4. values \in Values /\ values.window = w
    BY <1>1, <1>2 DEF Values
  <1>. HIDE DEF values
  <1>5. /\ new \in TurnStates /\ new.at = "manage_context" /\ new.values = values
        /\ new.thread = th /\ new.docs = turn[t].docs /\ new.answer = turn[t].answer
    BY <1>1, <1>4 DEF TurnStates, Nodes
  <1>. HIDE DEF new
  <1>6. turn'[t] = new
    BY <1>3 DEF TypeOK
  <1>7. Steps(t)
    BY <1>1, <1>3, <1>4, <1>5 DEF Steps, TypeOK, Nodes
  <1>8. CacheSteps(t) /\ cache'[t] = cache[t]
    BY CacheUnchanged DEF Begin, stores
  <1>9. TurnFits(t)'
    BY <1>2, <1>4, <1>5, <1>6, <1>8
       DEF TurnFits, AsksFirst, StatusFits, ContextFits, Begin, AfterRetrieval, Governing
  <1>10. Says(t)
    BY <1>3, <1>4, <1>5, <1>6 DEF Says, Owes, Begin, w
  <1>. QED
    BY <1>5, <1>6, <1>7, <1>8, <1>9, <1>10 DEF Takes

(* A turn that raises may leave its context, under its own thread.         *)
LEMMA CallRaisesTakes ==
  ASSUME TypeOK, NEW t \in Turns, TurnFits(t), CallRaises(t)
  PROVE  Takes(t)
PROOF
  <1>1. /\ Steps(t) /\ turn'[t].at = "raised" /\ turn'[t].answer = "none"
        /\ turn'[t].thread = turn[t].thread
    BY RaiseSteps DEF CallRaises, Steps
  <1>2. /\ CacheSteps(t)
        /\ cache'[t] # NoEntry => cache'[t].thread = turn[t].thread
    <2>1. CASE UNCHANGED cache
      BY <2>1, CacheUnchanged DEF TurnFits, ContextFits
    <2>2. CASE \E docs \in Contexts: Put(t, turn[t].thread, docs)
      BY <2>2, TurnType DEF CacheSteps, Put, CacheTypeOK, TypeOK, Entries
    <2>. QED
      BY <2>1, <2>2 DEF CallRaises
  <1>3. TurnFits(t)'
    BY <1>1, <1>2
       DEF TurnFits, AsksFirst, StatusFits, ContextFits, AfterRetrieval, Governing
  <1>. QED
    BY <1>1, <1>2, <1>3, RaiseSays DEF Takes, CallRaises

(* manage_context leaves the status alone, which the reducer takes.        *)
LEMMA ManageContextTakes ==
  ASSUME TypeOK, NEW t \in Turns, TurnFits(t), ManageContext(t)
  PROVE  Takes(t)
PROOF
  <1>1. PICK w \in Managed(turn[t].values.window):
          Commit(t, "guard_input", [turn[t] EXCEPT !.values.window = w])
    BY DEF ManageContext
  <1>2. turn[t].values.window.skipped > 0
    BY DEF ManageContext, TurnFits, AsksFirst
  <1>3. w \in Windows
    BY <1>2, ManagedWindow, TurnType
  <1>. DEFINE values == [turn[t].values EXCEPT !.window = w]
              new == [turn[t] EXCEPT !.values = values]
  <1>4. values \in Values /\ values.status = turn[t].values.status /\ values.window = w
    BY <1>3, TurnType DEF Values
  <1>5. Commit(t, "guard_input", new)
    BY <1>1
  <1>. HIDE DEF values
  <1>6. /\ new \in TurnStates /\ new.thread = turn[t].thread /\ new.values = values
        /\ new.docs = turn[t].docs /\ new.answer = turn[t].answer
    BY <1>4, TurnType DEF TurnStates
  <1>. HIDE DEF new
  <1>7. "guard_input" \in Nodes
    BY DEF Nodes
  <1>8. Admits(turn[t].values.status, new.values.status)
    BY <1>4, <1>6, TurnType DEF Admits, StatusOrder, Statuses, Terminal
  <1>9. Steps(t) /\ Moved(t, "guard_input", new)
    BY <1>5, <1>6, <1>7, <1>8, CommitSteps DEF Refused
  <1>10. CacheSteps(t) /\ cache'[t] = cache[t]
    BY CacheUnchanged DEF ManageContext, stores
  <1>11. TurnFits(t)'
    BY <1>6, <1>9, <1>10 DEF TurnFits, AsksFirst, StatusFits, ContextFits, Steps,
       Moved, ManageContext, AfterRetrieval, Governing
  <1>12. Says(t)
    BY <1>1, <1>4, <1>6, <1>9 DEF Says, Moved, ManageContext
  <1>. QED
    BY <1>9, <1>10, <1>11, <1>12 DEF Takes, Moved

(* Only here may the status be refused, and nothing is cached yet.         *)
LEMMA GuardInputTakes ==
  ASSUME TypeOK, NEW t \in Turns, TurnFits(t), GuardInput(t)
  PROVE  Takes(t)
PROOF
  <1>1. CacheSteps(t) /\ cache'[t] = cache[t]
    BY CacheUnchanged DEF GuardInput, stores
  <1>2. cache'[t] = NoEntry
    BY <1>1 DEF TurnFits, ContextFits, GuardInput, AfterRetrieval, Governing
  <1>3. {"record_evidence", "retrieve"} \subseteq Nodes /\ "received" \in Statuses
    BY DEF Nodes, Statuses
  <1>4. CASE Commit(t, "record_evidence", Blocked(t))
    <2>1. Says(t)
      BY <1>4, BlockedSays DEF GuardInput, Owes
    <2>. QED
      BY <1>1, <1>2, <1>3, <1>4, <2>1, CommitBlocked
         DEF Takes, TurnFits, AsksFirst, StatusFits, ContextFits, AfterRetrieval, Governing
  <1>5. CASE Commit(t, "retrieve", WithStatus(t, "received"))
    <2>1. /\ Steps(t) /\ turn'[t].at # "returned"
          /\ \/ turn'[t].at = "refused" /\ turn'[t].answer = "none"
             \/ /\ turn'[t].at = "retrieve" /\ turn'[t].values.status = "received"
                /\ turn'[t].docs = turn[t].docs /\ turn'[t].answer = turn[t].answer
      BY <1>3, <1>5, CommitStatus
    <2>2. Says(t)
      BY <1>3, <1>5, CommitStatus DEF Says, Owes, GuardInput, Running, Nodes, Ended
    <2>. QED
      BY <1>1, <1>2, <2>1, <2>2
         DEF Takes, TurnFits, AsksFirst, StatusFits, ContextFits, AfterRetrieval, Governing
  <1>. QED
    BY <1>4, <1>5 DEF GuardInput

(* retrieve puts its context under the handle that it commits.             *)
LEMMA RetrieveTakes ==
  ASSUME TypeOK, NEW t \in Turns, TurnFits(t), Retrieve(t)
  PROVE  Takes(t)
PROOF
  <1>1. turn[t].values.status = "received" /\ cache[t] = NoEntry
        /\ (turn[t].answer # "none" => turn[t].docs # "poisoned")
    BY DEF Retrieve, TurnFits, StatusFits, ContextFits, AfterRetrieval, Governing
  <1>2. {"record_evidence", "guard_retrieval"} \subseteq Nodes
    BY DEF Nodes
  <1>3. CASE Commit(t, "record_evidence", Blocked(t)) /\ UNCHANGED cache
    <2>1. Says(t)
      BY <1>3, BlockedSays DEF Retrieve, Owes
    <2>. QED
      BY <1>1, <1>2, <1>3, <2>1, CommitBlocked, CacheUnchanged
         DEF Takes, TurnFits, AsksFirst, StatusFits, ContextFits, AfterRetrieval, Governing
  <1>4. CASE /\ \E docs \in Contexts: Put(t, turn[t].thread, docs)
             /\ Commit(t, "guard_retrieval",
                       [WithStatus(t, "retrieved") EXCEPT !.values.handle = t])
    <2>. DEFINE base == WithStatus(t, "retrieved")
                values == [base.values EXCEPT !.handle = t]
                new == [base EXCEPT !.values = values]
    <2>1. /\ base \in TurnStates /\ base.thread = turn[t].thread
          /\ base.values.status = "retrieved"
          /\ base.values.window = turn[t].values.window
          /\ base.docs = turn[t].docs /\ base.answer = turn[t].answer
      BY WithStatusShape DEF Statuses
    <2>2. Commit(t, "guard_retrieval", new)
      BY <1>4
    <2>. HIDE DEF base
    <2>3. values \in Values /\ values.status = "retrieved" /\ values.handle = t
          /\ values.window = turn[t].values.window
      BY <2>1 DEF TurnStates, Values
    <2>. HIDE DEF values
    <2>4. /\ new \in TurnStates /\ new.thread = turn[t].thread /\ new.values = values
          /\ new.docs = turn[t].docs /\ new.answer = turn[t].answer
      BY <2>1, <2>3 DEF TurnStates
    <2>. HIDE DEF new
    <2>5. Admits(turn[t].values.status, new.values.status)
      BY <1>1, <2>3, <2>4 DEF Admits, StatusOrder, Terminal
    <2>6. Steps(t) /\ Moved(t, "guard_retrieval", new)
      BY <1>2, <2>2, <2>4, <2>5, CommitSteps DEF Refused
    <2>7. CacheSteps(t) /\ cache'[t].thread = turn[t].thread
      BY <1>4, TurnType DEF CacheSteps, Put, CacheTypeOK, TypeOK, Entries
    <2>8. Says(t)
      BY <2>3, <2>4, <2>6, SilentSays DEF Moved, Owes, Retrieve, Running, Nodes
    <2>. QED
      BY <1>1, <2>3, <2>4, <2>6, <2>7, <2>8
         DEF Takes, Steps, Moved, TurnFits, AsksFirst, StatusFits, ContextFits,
             AfterRetrieval, Governing
  <1>. QED
    BY <1>3, <1>4 DEF Retrieve

(* The context that generate will read again is this turn's own entry, and *)
(* it was clean when guard_retrieval read it.                              *)
LEMMA GuardRetrievalTakes ==
  ASSUME TypeOK, NEW t \in Turns, TurnFits(t), GuardRetrieval(t)
  PROVE  Takes(t)
PROOF
  <1>1. CacheSteps(t) /\ cache'[t] = cache[t]
    BY CacheUnchanged DEF GuardRetrieval, stores
  <1>2. /\ turn[t].values.handle = t /\ turn[t].values.status = "retrieved"
        /\ cache[t] # NoEntry => cache[t].thread = turn[t].thread
        /\ turn[t].answer # "none" => turn[t].docs # "poisoned"
        /\ turn[t] \in TurnStates
    BY TurnType DEF GuardRetrieval, TurnFits, StatusFits, ContextFits
  <1>3. {"record_evidence", "generate"} \subseteq Nodes
    BY DEF Nodes
  <1>4. CASE Commit(t, "record_evidence", Blocked(t))
    <2>1. Says(t)
      BY <1>4, BlockedSays DEF GuardRetrieval, Owes
    <2>. QED
      BY <1>1, <1>2, <1>3, <1>4, <2>1, CommitBlocked
         DEF Takes, Steps, TurnFits, AsksFirst, StatusFits, ContextFits, AfterRetrieval,
             Governing
  <1>5. CASE Available(t) /\ ~AttackIn(Documents(t)) /\ Commit(t, "generate", turn[t])
    <2>1. Admits(turn[t].values.status, turn[t].values.status)
      BY <1>2 DEF Admits, StatusOrder
    <2>2. Steps(t) /\ Moved(t, "generate", turn[t])
      BY <1>2, <1>3, <1>5, <2>1, CommitSteps DEF Refused
    <2>3. cache[t].docs # "poisoned"
      BY <1>2, <1>5 DEF AttackIn, Documents
    <2>4. Says(t)
      BY <2>2, SilentSays DEF Moved, Owes, GuardRetrieval, Running, Nodes
    <2>. QED
      BY <1>1, <1>2, <2>2, <2>3, <2>4
         DEF Takes, Steps, Moved, TurnFits, AsksFirst, StatusFits, ContextFits,
             AfterRetrieval, Governing
  <1>. QED
    BY <1>4, <1>5 DEF GuardRetrieval

(* generate finds the context that guard_retrieval saw, or none.           *)
LEMMA GenerateTakes ==
  ASSUME TypeOK, NEW t \in Turns, TurnFits(t), Generate(t)
  PROVE  Takes(t)
PROOF
  <1>1. CacheSteps(t) /\ cache'[t] = cache[t]
    BY CacheUnchanged DEF Generate, stores
  <1>2. /\ turn[t].at = "generate" /\ turn[t].values.handle = t
        /\ turn[t].values.status = "retrieved" /\ turn[t] \in TurnStates
        /\ cache[t] # NoEntry =>
             cache[t].thread = turn[t].thread /\ cache[t].docs # "poisoned"
    BY TurnType DEF Generate, TurnFits, StatusFits, ContextFits
  <1>3. "validate_output" \in Nodes
    BY DEF Nodes
  <1>4. CASE Commit(t, "validate_output", Blocked(t))
    <2>1. Says(t)
      BY <1>4, BlockedSays DEF Generate, Owes
    <2>. QED
      BY <1>1, <1>2, <1>3, <1>4, <2>1, CommitBlocked
         DEF Takes, Steps, TurnFits, AsksFirst, StatusFits, ContextFits, AfterRetrieval,
             Governing
  <1>5. CASE Raise(t)
    BY <1>1, <1>2, <1>5, RaiseSteps, RaiseSays
       DEF Takes, Steps, TurnFits, AsksFirst, StatusFits, ContextFits, AfterRetrieval,
           Governing
  <1>6. ASSUME Available(t), NEW answer \in AnswersTo(Documents(t)),
               Commit(t, "validate_output",
                      [WithStatus(t, "generated") EXCEPT
                         !.docs = Documents(t), !.answer = answer])
        PROVE  Takes(t)
    <2>1. Documents(t) = cache[t].docs /\ cache[t] # NoEntry
      BY <1>2, <1>6 DEF Documents, Available, Holds
    <2>2. cache[t].docs \in Contexts /\ cache[t].docs # "poisoned"
      BY <1>2, <2>1 DEF TypeOK, CacheTypeOK, Entries
    <2>3. answer \in Answers
      BY <1>6 DEF AnswersTo, Answers
    <2>. DEFINE base == WithStatus(t, "generated")
                new == [base EXCEPT !.docs = cache[t].docs, !.answer = answer]
    <2>4. /\ base \in TurnStates /\ base.thread = turn[t].thread
          /\ base.values.status = "generated"
          /\ base.values.handle = turn[t].values.handle
          /\ base.values.window = turn[t].values.window
      BY WithStatusShape DEF Statuses
    <2>5. Commit(t, "validate_output", new)
      BY <1>6, <2>1
    <2>. HIDE DEF base
    <2>6. /\ new \in TurnStates /\ new.thread = turn[t].thread
          /\ new.values = base.values /\ new.docs = cache[t].docs
      BY <2>2, <2>3, <2>4 DEF TurnStates
    <2>. HIDE DEF new
    <2>7. Admits(turn[t].values.status, new.values.status)
      BY <1>2, <2>4, <2>6 DEF Admits, StatusOrder
    <2>8. Steps(t) /\ Moved(t, "validate_output", new)
      BY <1>3, <2>4, <2>5, <2>6, <2>7, CommitSteps DEF Refused
    <2>9. Says(t)
      BY <1>2, <2>4, <2>6, <2>8, SilentSays DEF Moved, Owes, Running, Nodes
    <2>. QED
      BY <1>1, <1>2, <2>2, <2>4, <2>6, <2>8, <2>9
         DEF Takes, Steps, Moved, TurnFits, AsksFirst, StatusFits, ContextFits,
             AfterRetrieval, Governing
  <1>. QED
    BY <1>4, <1>5, <1>6 DEF Generate

(* validate_output ends what the turn holds of documents and answer.       *)
LEMMA ValidateOutputTakes ==
  ASSUME TypeOK, NEW t \in Turns, TurnFits(t), ValidateOutput(t)
  PROVE  Takes(t)
PROOF
  <1>1. CacheSteps(t) /\ cache'[t] = cache[t]
    BY CacheUnchanged DEF ValidateOutput, stores
  <1>2. /\ turn[t].at = "validate_output"
        /\ turn[t].values.status \in {"generated", "blocked"} /\ turn[t] \in TurnStates
        /\ turn[t].answer # "none" => turn[t].docs # "poisoned"
        /\ cache[t] # NoEntry => /\ cache[t].thread = turn[t].thread
                                 /\ turn[t].values.handle = t
    BY TurnType DEF ValidateOutput, TurnFits, StatusFits, ContextFits, AfterRetrieval
  <1>3. "record_evidence" \in Nodes
    BY DEF Nodes
  <1>4. CASE turn[t].values.status # "blocked" /\ Commit(t, "record_evidence", Blocked(t))
    <2>1. Says(t)
      BY <1>2, <1>4, BlockedSays DEF Owes
    <2>. QED
      BY <1>1, <1>2, <1>3, <1>4, <2>1, CommitBlocked
         DEF Takes, Steps, TurnFits, AsksFirst, StatusFits, ContextFits, AfterRetrieval,
             Governing
  <1>5. CASE Raise(t)
    BY <1>1, <1>2, <1>5, RaiseSteps, RaiseSays
       DEF Takes, Steps, TurnFits, AsksFirst, StatusFits, ContextFits, AfterRetrieval,
           Governing
  <1>6. CASE turn[t].values.status = "blocked" /\ Commit(t, "record_evidence", turn[t])
    <2>1. Admits(turn[t].values.status, turn[t].values.status)
      BY <1>6 DEF Admits
    <2>2. Steps(t) /\ Moved(t, "record_evidence", turn[t])
      BY <1>2, <1>3, <1>6, <2>1, CommitSteps DEF Refused
    <2>3. Says(t)
      BY <1>2, <2>2, SilentSays DEF Moved, Owes, Running, Nodes
    <2>. QED
      BY <1>1, <1>2, <1>6, <2>2, <2>3
         DEF Takes, Steps, Moved, TurnFits, AsksFirst, StatusFits, ContextFits,
             AfterRetrieval, Governing
  <1>7. CASE /\ turn[t].values.status # "blocked"
             /\ Commit(t, "record_evidence",
                       [WithStatus(t, "validated") EXCEPT
                          !.values.window = WithMessage(@, Answer(t)),
                          !.docs = "none", !.answer = "none"])
    <2>. DEFINE base == WithStatus(t, "validated")
                w == WithMessage(base.values.window, Answer(t))
                values == [base.values EXCEPT !.window = w]
                first == [base EXCEPT !.values = values]
                new == [first EXCEPT !.docs = "none", !.answer = "none"]
    <2>1. /\ base \in TurnStates /\ base.thread = turn[t].thread
          /\ base.values \in Values /\ base.values.status = "validated"
          /\ base.values.handle = turn[t].values.handle
          /\ base.values.window = turn[t].values.window
      BY WithStatusShape DEF Statuses, TurnStates
    <2>2. w \in Windows
      BY <2>1, MessageWindow DEF Values, Answer, Messages
    <2>3. Commit(t, "record_evidence", new)
      BY <1>7
    <2>. HIDE DEF base, w
    <2>4. values \in Values /\ values.status = "validated"
          /\ values.handle = turn[t].values.handle /\ values.window = w
      BY <2>1, <2>2 DEF Values
    <2>. HIDE DEF values
    <2>5. /\ new \in TurnStates /\ new.thread = turn[t].thread
          /\ new.values = values /\ new.answer = "none"
      BY <2>1, <2>4 DEF TurnStates, Contexts
    <2>. HIDE DEF new
    <2>6. Admits(turn[t].values.status, new.values.status)
      BY <1>2, <1>7, <2>4, <2>5 DEF Admits, StatusOrder
    <2>7. Steps(t) /\ Moved(t, "record_evidence", new)
      BY <1>3, <2>3, <2>5, <2>6, CommitSteps DEF Refused
    <2>8. turn'[t].values.window = WithMessage(turn[t].values.window, Answer(t))
      BY <2>1, <2>4, <2>5, <2>7 DEF Moved, w
    <2>9. Says(t)
      BY <1>2, <1>7, <2>5, <2>7, <2>8 DEF Says, Moved, Owes
    <2>. QED
      BY <1>1, <1>2, <2>4, <2>5, <2>7, <2>9
         DEF Takes, Steps, Moved, TurnFits, AsksFirst, StatusFits, ContextFits,
             AfterRetrieval, Governing
  <1>. QED
    BY <1>4, <1>5, <1>6, <1>7 DEF ValidateOutput

(* A step that only moves the turn from one part of the governance node to *)
(* the next.                                                               *)
LEMMA GoverningTakes ==
  ASSUME TypeOK, NEW t \in Turns, TurnFits(t), turn[t].at \in Governing,
         NEW next \in Governing, turn' = [turn EXCEPT ![t].at = next],
         UNCHANGED <<thread, cache>>
  PROVE  Takes(t)
PROOF
  <1>. DEFINE new == [turn[t] EXCEPT !.at = next]
  <1>1. turn' = [turn EXCEPT ![t] = new] /\ thread' = thread
    OBVIOUS
  <1>2. /\ new \in TurnStates /\ new.at = next /\ new.values = turn[t].values
        /\ new.thread = turn[t].thread /\ new.docs = turn[t].docs
        /\ new.answer = turn[t].answer
    BY TurnType DEF TurnStates, Governing, Nodes
  <1>. HIDE DEF new
  <1>3. turn'[t] = new
    BY <1>1 DEF TypeOK
  <1>4. Steps(t)
    BY <1>1, <1>2, <1>3 DEF Steps, TypeOK, Governing, Nodes
  <1>5. CacheSteps(t) /\ cache'[t] = cache[t]
    BY CacheUnchanged
  <1>6. TurnFits(t)'
    BY <1>2, <1>3, <1>5
       DEF TurnFits, AsksFirst, StatusFits, ContextFits, AfterRetrieval, Governing
  <1>7. Says(t)
    BY <1>1, <1>2, <1>3, SilentSays DEF Owes, Governing, Running, Nodes
  <1>. QED
    BY <1>2, <1>3, <1>4, <1>5, <1>6, <1>7 DEF Takes, Governing

(* record_evidence moves on, or raises for a journal it cannot read.       *)
LEMMA RecordEvidenceTakes ==
  ASSUME TypeOK, NEW t \in Turns, TurnFits(t), RecordEvidence(t)
  PROVE  Takes(t)
PROOF
  <1>1. turn[t].at = "record_evidence" /\ UNCHANGED cache
    BY DEF RecordEvidence
  <1>2. CASE turn' = [turn EXCEPT ![t].at = "append_evidence"] /\ UNCHANGED thread
    BY <1>1, <1>2, GoverningTakes DEF Governing
  <1>3. CASE Raise(t)
    BY <1>1, <1>3, RaiseSteps, RaiseSays, CacheUnchanged
       DEF Takes, Steps, TurnFits, AsksFirst, StatusFits, ContextFits, AfterRetrieval,
           Governing
  <1>. QED
    BY <1>2, <1>3 DEF RecordEvidence

(* The outcome of a decision is a terminal status, and admitted.           *)
LEMMA AuditEvidenceTakes ==
  ASSUME TypeOK, NEW t \in Turns, TurnFits(t), AuditEvidence(t)
  PROVE  Takes(t)
PROOF
  <1>. DEFINE status == Outcome[Decision(t)]
  <1>1. /\ turn[t].at = "audit_evidence" /\ UNCHANGED cache
        /\ turn[t].values.status \in {"validated", "blocked"}
    BY DEF AuditEvidence, stores, TurnFits, StatusFits, Governing
  <1>2. status \in Terminal /\ status \in Statuses
    BY DEF Outcome, Decision, Terminal, Statuses
  <1>3. Commit(t, "cleanup_context", WithStatus(t, status)) /\ "cleanup_context" \in Nodes
    BY DEF AuditEvidence, Nodes
  <1>. HIDE DEF status
  <1>4. Admits(turn[t].values.status, status)
    BY <1>1, <1>2 DEF Admits, StatusOrder, Terminal
  <1>5. /\ Steps(t) /\ turn'[t].at = "cleanup_context" /\ turn'[t].values.status = status
        /\ turn'[t].values.handle = turn[t].values.handle
        /\ turn'[t].docs = turn[t].docs /\ turn'[t].answer = turn[t].answer
        /\ turn'[t].values.window = turn[t].values.window
        /\ thread' = [thread EXCEPT ![turn[t].thread] = turn'[t].values]
    BY <1>2, <1>3, <1>4, CommitStatus
  <1>6. Says(t)
    BY <1>1, <1>5, SilentSays DEF Owes, Running, Nodes
  <1>. QED
    BY <1>1, <1>2, <1>5, <1>6, CacheUnchanged
       DEF Takes, Steps, TurnFits, AsksFirst, StatusFits, ContextFits, AfterRetrieval,
           Governing

(* The handle is this turn's own, so that nothing of it stays cached.      *)
LEMMA CleanupContextTakes ==
  ASSUME TypeOK, NEW t \in Turns, TurnFits(t), CleanupContext(t)
  PROVE  Takes(t)
PROOF
  <1>1. /\ turn[t].at = "cleanup_context" /\ turn[t].values.status \in Terminal
        /\ cache[t] # NoEntry => /\ cache[t].thread = turn[t].thread
                                 /\ turn[t].values.handle = t
        /\ turn[t].values \in Values /\ turn[t].thread \in Threads
        /\ turn[t].values.status \in Statuses
    BY TurnType DEF CleanupContext, TurnFits, StatusFits, ContextFits, AfterRetrieval
  <1>2. CacheSteps(t) /\ cache'[t] = NoEntry
    BY <1>1, IdentityAssumption
       DEF CleanupContext, CacheSteps, Delete, Holds, TypeOK, CacheTypeOK
  <1>3. /\ turn' \in [Turns -> TurnStates]
        /\ \A u \in Turns \ {t}: turn'[u] = turn[u]
        /\ turn'[t].at = "returned" /\ turn'[t].thread = turn[t].thread
        /\ turn'[t].answer = "none"
        /\ turn'[t].values.status = turn[t].values.status
    BY <1>1, EndShape DEF CleanupContext, Ended
  <1>4. thread' = [thread EXCEPT ![turn[t].thread] = turn[t].values]
    BY DEF CleanupContext
  <1>5. Says(t)
    BY <1>1, <1>3, <1>4 DEF Says, Running, Nodes, Ended
  <1>. QED
    BY <1>1, <1>2, <1>3, <1>4, <1>5
       DEF Takes, Steps, TypeOK, TurnFits, AsksFirst, StatusFits, ContextFits,
           AfterRetrieval, Governing, Ended

-----------------------------------------------------------------------------
(* The journal.  As long as no other process was inside append beside one  *)
(* of ours, at most one writer is inside, what it read is still the last   *)
(* hash, and every line links to the one before it.                        *)

JournalFits ==
  /\ JournalTypeOK
  /\ ~raced =>
       /\ \A u, w \in Writers: Appending(u) /\ Appending(w) => u = w
       /\ \A w \in Writers: Appending(w) => head[w] = LastHash
       /\ \A i \in 1..Len(journal): Linked(i)

JournalSteps ==
  \/ \E w \in Writers: ReadHead(w)
  \/ \E w \in Writers, d \in JournalDecisions: WriteRecord(w, d)
  \/ LoseWriters
  \/ \E t \in Turns: head' = [head EXCEPT ![t] = NotAppending] /\ UNCHANGED <<journal, raced>>
  \/ UNCHANGED journalVars

(* The last hash is a hash.                                                *)
LEMMA LastHashType ==
  ASSUME JournalTypeOK
  PROVE  LastHash \in Hashes
PROOF
  <1>1. Len(journal) \in Nat /\ journal \in Seq(JournalRecords)
    BY DEF JournalTypeOK
  <1>2. Len(journal) # 0 => journal[Len(journal)] \in JournalRecords
    BY <1>1
  <1>. QED
    BY <1>2 DEF LastHash, Hashes, JournalRecords

(* A line that its writer adds links to the last one, if the writer's      *)
(* hash is that of the last one.                                           *)
LEMMA AppendLinks ==
  ASSUME JournalTypeOK, NEW w \in Writers, head[w] \in Hashes,
         NEW d \in JournalDecisions, NEW whole \in BOOLEAN,
         journal' = Append(journal, Record(w, d, whole))
  PROVE  /\ journal' \in Seq(JournalRecords)
         /\ /\ head[w] = LastHash
            /\ \A i \in 1..Len(journal): Linked(i)
            => \A i \in 1..Len(journal'): Linked(i)'
PROOF
  <1>. DEFINE r == Record(w, d, whole)
  <1>1. r \in JournalRecords /\ r.prev = head[w]
    BY DEF Record, JournalRecords
  <1>. HIDE DEF r
  <1>2. /\ journal' \in Seq(JournalRecords) /\ Len(journal') = Len(journal) + 1
        /\ \A i \in 1..Len(journal): journal'[i] = journal[i]
        /\ journal'[Len(journal) + 1] = r /\ Len(journal) \in Nat
    BY <1>1 DEF JournalTypeOK, r
  <1>3. ASSUME head[w] = LastHash, \A i \in 1..Len(journal): Linked(i),
               NEW i \in 1..Len(journal')
        PROVE  Linked(i)'
    <2>1. CASE i \in 1..Len(journal)
      <3>1. i # 1 => i - 1 \in 1..Len(journal)
        BY <1>2, <2>1
      <3>. QED
        BY <1>2, <1>3, <2>1, <3>1 DEF Linked
    <2>2. CASE i = Len(journal) + 1
      <3>1. i # 1 => i - 1 \in 1..Len(journal) /\ i - 1 = Len(journal)
        BY <1>2, <2>2
      <3>2. i = 1 <=> Len(journal) = 0
        BY <1>2, <2>2
      <3>. QED
        BY <1>1, <1>2, <1>3, <2>2, <3>1, <3>2 DEF Linked, LastHash
    <2>. QED
      BY <1>2, <2>1, <2>2
  <1>. QED
    BY <1>2, <1>3

(* Whoever reads, appends, raises or dies, the journal stays as above.     *)
LEMMA JournalKept ==
  ASSUME JournalFits, JournalSteps
  PROVE  JournalFits'
PROOF
  <1>. USE DEF JournalTypeOK
  <1>1. ASSUME NEW w \in Writers, ReadHead(w)
        PROVE  JournalFits'
    <2>1. JournalTypeOK'
      BY <1>1, LastHashType DEF ReadHead, JournalFits
    <2>2. LastHash' = LastHash /\ (\A i \in 1..Len(journal): Linked(i)' <=> Linked(i))
      BY <1>1 DEF ReadHead, LastHash, Linked
    <2>3. ~raced' => \A u \in Writers: ~Appending(u)
      BY <1>1 DEF ReadHead, LockFree, Writers
    <2>. QED
      BY <1>1, <2>1, <2>2, <2>3 DEF JournalFits, ReadHead, Appending
  <1>2. ASSUME NEW w \in Writers, NEW d \in JournalDecisions, WriteRecord(w, d)
        PROVE  JournalFits'
    <2>1. head[w] \in Hashes
      BY <1>2 DEF JournalFits, WriteRecord, Appending
    <2>2. /\ journal' \in Seq(JournalRecords)
          /\ /\ head[w] = LastHash
             /\ \A i \in 1..Len(journal): Linked(i)
             => \A i \in 1..Len(journal'): Linked(i)'
      BY <1>2, <2>1, AppendLinks DEF JournalFits, WriteRecord
    <2>3. JournalTypeOK'
      BY <1>2, <2>2 DEF JournalFits, WriteRecord
    <2>4. ~raced => \A u \in Writers: ~Appending(u)'
      BY <1>2 DEF JournalFits, WriteRecord, Appending
    <2>. QED
      BY <1>2, <2>2, <2>3, <2>4 DEF JournalFits, WriteRecord
  <1>3. CASE LoseWriters
    <2>1. head' \in [Writers -> Hashes \cup {NotAppending}] /\ raced' = raced
      BY <1>3 DEF LoseWriters, JournalFits
    <2>2. \A u \in Writers: Appending(u)' => u = Foreign /\ Appending(u) /\ head'[u] = head[u]
      BY <1>3 DEF LoseWriters, Appending
    <2>3. CASE UNCHANGED journal
      <3>1. LastHash' = LastHash /\ (\A i \in 1..Len(journal): Linked(i)' <=> Linked(i))
        BY <2>3 DEF LastHash, Linked
      <3>. QED
        BY <2>1, <2>2, <2>3, <3>1 DEF JournalFits
    <2>4. ASSUME NEW t \in Turns, Appending(t), NEW d \in JournalDecisions,
                 journal' = Append(journal, Record(t, d, FALSE))
          PROVE  JournalFits'
      <3>1. t \in Writers /\ t # Foreign /\ head[t] \in Hashes
        BY <2>4, IdentityAssumption DEF JournalFits, Writers, Appending
      <3>2. /\ journal' \in Seq(JournalRecords)
            /\ /\ head[t] = LastHash
               /\ \A i \in 1..Len(journal): Linked(i)
               => \A i \in 1..Len(journal'): Linked(i)'
        BY <2>4, <3>1, AppendLinks DEF JournalFits
      <3>3. ~raced => \A u \in Writers: ~Appending(u)'
        BY <2>2, <2>4, <3>1 DEF JournalFits
      <3>. QED
        BY <2>1, <2>4, <3>1, <3>2, <3>3 DEF JournalFits
    <2>. QED
      BY <1>3, <2>3, <2>4 DEF LoseWriters
  <1>4. ASSUME NEW t \in Turns, head' = [head EXCEPT ![t] = NotAppending],
               UNCHANGED <<journal, raced>>
        PROVE  JournalFits'
    <2>1. LastHash' = LastHash /\ (\A i \in 1..Len(journal): Linked(i)' <=> Linked(i))
      BY <1>4 DEF LastHash, Linked
    <2>2. \A u \in Writers: Appending(u)' => Appending(u) /\ head'[u] = head[u]
      BY <1>4 DEF JournalFits, Appending, Writers
    <2>. QED
      BY <1>4, <2>1, <2>2 DEF JournalFits
  <1>5. CASE UNCHANGED journalVars
    <2>1. journal' = journal /\ head' = head /\ raced' = raced
      BY <1>5 DEF journalVars
    <2>2. LastHash' = LastHash /\ (\A i \in 1..Len(journal): Linked(i)' <=> Linked(i))
      BY <2>1 DEF LastHash, Linked
    <2>. QED
      BY <2>1, <2>2 DEF JournalFits, Appending
  <1>. QED
    BY <1>1, <1>2, <1>3, <1>4, <1>5 DEF JournalSteps

-----------------------------------------------------------------------------
(* The invariant holds at first and every step keeps it.                   *)

IInv == TypeOK /\ JournalFits /\ (\A t \in Turns: TurnFits(t)) /\ ThreadsReopen

(* New and used threads, no context and no line satisfy the invariant.     *)
LEMMA InitIInv ==
  ASSUME Init
  PROVE  IInv
PROOF
  <1>1. /\ turn \in [Turns -> TurnStates]
        /\ \A t \in Turns: turn[t].at = "idle" /\ turn[t].answer = "none"
    <2>1. [at: {"idle"}, thread: Threads, values: {NewThread}, docs: {"none"},
           answer: {"none"}] \subseteq TurnStates
      BY NewThreadType DEF TurnStates, Contexts
    <2>. QED
      BY <2>1 DEF Init
  <1>2. thread \in [Threads -> Values] /\ faults \in 0..MaxFaults
    BY NewThreadType, MaxFaultsAssumption DEF Init
  <1>3. CacheTypeOK
    BY DEF Init, CacheInit, CacheTypeOK
  <1>4. JournalTypeOK /\ Len(journal) = 0 /\ \A w \in Writers: ~Appending(w)
    <2>1. journal = <<>> /\ raced = FALSE /\ head = [w \in Writers |-> NotAppending]
      BY DEF Init, JournalInit
    <2>2. journal \in Seq(JournalRecords) /\ Len(journal) = 0
      BY <2>1
    <2>3. head \in [Writers -> Hashes \cup {NotAppending}]
      BY <2>1
    <2>. QED
      BY <2>1, <2>2, <2>3 DEF JournalTypeOK, Appending
  <1>5. JournalFits
    BY <1>4 DEF JournalFits
  <1>6. \A t \in Turns: TurnFits(t)
    BY <1>1 DEF Init, CacheInit, TurnFits, AsksFirst, StatusFits, ContextFits, Governing
  <1>7. ThreadsReopen
    <2>1. \A th \in Threads: thread[th].status \in {"none", "completed"}
      BY DEF Init, NewThread, UsedThread
    <2>. QED
      BY <2>1 DEF ThreadsReopen, Admits, Terminal, StatusOrder
  <1>8. overlapped \subseteq Threads
    BY DEF Init
  <1>. QED
    BY <1>1, <1>2, <1>3, <1>4, <1>5, <1>6, <1>7, <1>8 DEF IInv, TypeOK

(* A step of one turn keeps what the invariant says of all of them.        *)
LEMMA TurnKeeps ==
  ASSUME IInv, NEW t \in Turns, Takes(t), JournalSteps, faults' \in 0..MaxFaults,
         overlapped' \subseteq Threads
  PROVE  IInv'
PROOF
  <1>1. JournalFits'
    BY JournalKept DEF IInv
  <1>2. TypeOK'
    BY <1>1 DEF Takes, Steps, CacheSteps, TypeOK, JournalFits
  <1>3. ASSUME NEW u \in Turns
        PROVE  TurnFits(u)'
    <2>1. CASE u = t
      BY <2>1 DEF Takes
    <2>2. CASE u # t
      <3>1. turn'[u] = turn[u] /\ cache'[u] \in {cache[u], NoEntry} /\ TurnFits(u)
        BY <1>3, <2>2 DEF Takes, Steps, CacheSteps, IInv
      <3>. QED
        BY <3>1 DEF TurnFits, AsksFirst, StatusFits, ContextFits
    <2>. QED
      BY <2>1, <2>2
  <1>4. ASSUME NEW th \in Threads,
               \A u \in Turns: turn'[u].thread = th => turn'[u].at \in {"idle", "returned"}
        PROVE  Admits(thread'[th].status, "received")
    <2>1. CASE th = turn[t].thread
      <3>1. turn'[t].at = "returned"
        BY <1>4, <2>1 DEF Takes, Steps, Nodes, Ended
      <3>. QED
        BY <2>1, <3>1 DEF Takes, Admits
    <2>2. CASE th # turn[t].thread
      <3>1. thread'[th] = thread[th]
        BY <2>2 DEF Takes, Steps
      <3>2. \A u \in Turns: turn[u].thread = th => turn[u].at \in {"idle", "returned"}
        BY <1>4, <2>2 DEF Takes, Steps
      <3>. QED
        BY <3>1, <3>2 DEF IInv, ThreadsReopen
    <2>. QED
      BY <2>1, <2>2
  <1>5. ThreadsReopen'
    BY <1>4 DEF ThreadsReopen, Admits
  <1>. QED
    BY <1>1, <1>2, <1>3, <1>5 DEF IInv

(* Each step of a turn is one of the above, and one of the journal.        *)
LEMMA TurnStep ==
  ASSUME IInv, NEW t \in Turns, Begin(t) \/ Node(t) \/ CallRaises(t)
  PROVE  Takes(t) /\ JournalSteps /\ faults' \in 0..MaxFaults
PROOF
  <1>1. TypeOK /\ TurnFits(t) /\ faults \in 0..MaxFaults /\ t \in Writers
    BY DEF IInv, TypeOK, Writers
  <1>2. CASE Begin(t)
    BY <1>1, <1>2, BeginTakes DEF Begin, stores, JournalSteps
  <1>3. CASE CallRaises(t)
    <2>1. faults' \in 0..MaxFaults
      BY <1>1, <1>3, MaxFaultsAssumption DEF CallRaises, Fault
    <2>. QED
      BY <1>1, <1>3, <2>1, CallRaisesTakes DEF CallRaises, JournalSteps
  <1>4. CASE ManageContext(t)
    BY <1>1, <1>4, ManageContextTakes DEF ManageContext, stores, JournalSteps
  <1>5. CASE GuardInput(t)
    BY <1>1, <1>5, GuardInputTakes DEF GuardInput, stores, JournalSteps
  <1>6. CASE Retrieve(t)
    BY <1>1, <1>6, RetrieveTakes DEF Retrieve, stores, JournalSteps
  <1>7. CASE GuardRetrieval(t)
    BY <1>1, <1>7, GuardRetrievalTakes DEF GuardRetrieval, stores, JournalSteps
  <1>8. CASE Generate(t)
    BY <1>1, <1>8, GenerateTakes DEF Generate, stores, JournalSteps
  <1>9. CASE ValidateOutput(t)
    BY <1>1, <1>9, ValidateOutputTakes DEF ValidateOutput, stores, JournalSteps
  <1>10. CASE RecordEvidence(t)
    BY <1>1, <1>10, RecordEvidenceTakes DEF RecordEvidence, JournalSteps
  <1>11. CASE AppendEvidence(t)
    <2>1. Decision(t) \in JournalDecisions
      BY DEF Decision, JournalDecisions
    <2>2. Takes(t)
      BY <1>1, <1>11, GoverningTakes DEF AppendEvidence, Governing
    <2>. QED
      BY <1>1, <1>11, <2>1, <2>2 DEF AppendEvidence, JournalSteps
  <1>12. CASE AuditEvidence(t)
    BY <1>1, <1>12, AuditEvidenceTakes DEF AuditEvidence, stores, JournalSteps
  <1>13. CASE CleanupContext(t)
    BY <1>1, <1>13, CleanupContextTakes DEF CleanupContext, JournalSteps
  <1>. QED
    BY <1>2, <1>3, <1>4, <1>5, <1>6, <1>7, <1>8, <1>9, <1>10, <1>11, <1>12, <1>13 DEF Node

(* A crash ends the running turns where they are.                          *)
LEMMA CrashKeeps ==
  ASSUME IInv, Crash, overlapped' \subseteq Threads
  PROVE  IInv'
PROOF
  <1>. DEFINE ended(t) == [at |-> "raised", thread |-> turn[t].thread, values |-> NewThread,
                           docs |-> "none", answer |-> "none"]
  <1>1. \A t \in Turns: ended(t) \in TurnStates /\ ended(t).at = "raised"
          /\ ended(t).thread = turn[t].thread /\ ended(t).answer = "none"
    BY NewThreadType, TurnType DEF IInv, TurnStates, Ended, Contexts
  <1>2. turn' = [t \in Turns |-> IF Running(t) THEN ended(t) ELSE turn[t]]
        /\ thread' = thread /\ cache' = cache
    BY DEF Crash
  <1>. HIDE DEF ended
  <1>3. turn' \in [Turns -> TurnStates]
    BY <1>1, <1>2, TurnType DEF IInv
  <1>4. faults' \in 0..MaxFaults
    BY MaxFaultsAssumption DEF Crash, Fault, IInv, TypeOK
  <1>5. JournalFits'
    BY JournalKept DEF Crash, IInv, JournalSteps
  <1>6. TypeOK'
    BY <1>2, <1>3, <1>4, <1>5 DEF IInv, TypeOK, CacheTypeOK, JournalFits
  <1>7. \A t \in Turns: TurnFits(t)'
    BY <1>1, <1>2
       DEF IInv, TurnFits, AsksFirst, StatusFits, ContextFits, AfterRetrieval, Governing
  <1>8. ThreadsReopen'
    BY <1>1, <1>2 DEF IInv, ThreadsReopen, Admits
  <1>. QED
    BY <1>5, <1>6, <1>7, <1>8 DEF IInv

(* The invariant is inductive.                                             *)
LEMMA NextIInv ==
  ASSUME IInv, [Next]_vars
  PROVE  IInv'
PROOF
  <1>0. overlapped' \subseteq Threads
    <2>1. TypeOK
      BY DEF IInv
    <2>2. ASSUME NEW t \in Turns, Begin(t)
          PROVE  overlapped' \subseteq Threads
      BY <2>1, <2>2, TurnType DEF Begin, TypeOK
    <2>. QED
      BY <2>1, <2>2 DEF TypeOK, Next, vars
  <1>1. ASSUME NEW t \in Turns, Begin(t) \/ Node(t) \/ CallRaises(t)
        PROVE  IInv'
    BY <1>0, <1>1, TurnStep, TurnKeeps
  <1>2. ASSUME NEW th \in Threads, DeleteThread(th)
        PROVE  IInv'
    <2>1. JournalFits'
      BY <1>2, JournalKept DEF DeleteThread, stores, IInv, JournalSteps
    <2>2. TypeOK'
      BY <1>0, <1>2, <2>1, NewThreadType
         DEF DeleteThread, stores, IInv, TypeOK, CacheTypeOK, JournalFits
    <2>3. \A t \in Turns: TurnFits(t)'
      BY <1>2 DEF DeleteThread, stores, IInv, TurnFits, AsksFirst, StatusFits, ContextFits
    <2>4. NewThread.status = "none"
      BY DEF NewThread
    <2>5. ThreadsReopen'
      BY <1>2, <2>4
         DEF DeleteThread, IInv, TypeOK, ThreadsReopen, Admits, StatusOrder, Terminal
    <2>. QED
      BY <2>1, <2>2, <2>3, <2>5 DEF IInv
  <1>3. CASE Expiry
    <2>1. PICK t \in Turns: Expire(t)
      BY <1>3 DEF Expiry
    <2>2. CacheTypeOK' /\ (\A u \in Turns: cache'[u] \in {cache[u], NoEntry})
      BY <2>1 DEF Expire, IInv, TypeOK, CacheTypeOK
    <2>3. JournalFits'
      BY <1>3, JournalKept DEF Expiry, IInv, JournalSteps
    <2>4. TypeOK'
      BY <1>0, <1>3, <2>2, <2>3 DEF Expiry, IInv, TypeOK, JournalFits
    <2>5. \A u \in Turns: TurnFits(u)'
      BY <1>3, <2>2 DEF Expiry, IInv, TurnFits, AsksFirst, StatusFits, ContextFits
    <2>6. ThreadsReopen'
      BY <1>3 DEF Expiry, IInv, ThreadsReopen, Admits
    <2>. QED
      BY <2>3, <2>4, <2>5, <2>6 DEF IInv
  <1>4. CASE OtherProcess
    <2>1. JournalFits'
      BY <1>4, JournalKept
         DEF OtherProcess, ForeignRead, ForeignWrite, IInv, JournalSteps, Writers,
             JournalDecisions
    <2>2. TypeOK'
      BY <1>0, <1>4, <2>1 DEF OtherProcess, IInv, TypeOK, CacheTypeOK, JournalFits
    <2>3. (\A t \in Turns: TurnFits(t)') /\ ThreadsReopen'
      BY <1>4 DEF OtherProcess, IInv, TurnFits, AsksFirst, StatusFits, ContextFits,
                  ThreadsReopen, Admits
    <2>. QED
      BY <2>1, <2>2, <2>3 DEF IInv
  <1>5. CASE Crash
    BY <1>0, <1>5, CrashKeeps
  <1>6. CASE UNCHANGED vars
    <2>1. JournalFits'
      BY <1>6, JournalKept DEF vars, stores, IInv, JournalSteps
    <2>2. TypeOK'
      BY <1>0, <1>6, <2>1 DEF vars, stores, IInv, TypeOK, CacheTypeOK, JournalFits
    <2>3. (\A t \in Turns: TurnFits(t)') /\ ThreadsReopen'
      BY <1>6 DEF vars, stores, IInv, TurnFits, AsksFirst, StatusFits, ContextFits,
                  ThreadsReopen, Admits
    <2>. QED
      BY <2>1, <2>2, <2>3 DEF IInv
  <1>. QED
    BY <1>1, <1>2, <1>3, <1>4, <1>5, <1>6 DEF Next

(* In every reachable state the turns, their contexts, the threads and the *)
(* journal fit together as IInv says.                                      *)
THEOREM Invariant == Spec => []IInv
PROOF
  <1>1. Init => IInv
    BY InitIInv
  <1>2. IInv /\ [Next]_vars => IInv'
    BY NextIInv
  <1>. QED
    BY <1>1, <1>2, PTL DEF Spec

(* Every variable keeps its type: no node commits a status, a handle, a    *)
(* window or a document that the channels do not admit.                    *)
THEOREM TypeCorrect == Spec => []TypeOK
PROOF
  <1>1. IInv => TypeOK
    BY DEF IInv
  <1>. QED
    BY <1>1, Invariant, PTL

(* retrieve and generate read the cache twice, with guard_retrieval        *)
(* between: what the generator reads is what the guard let through.        *)
THEOREM GuardedDocumentsOnly == Spec => []GeneratorSeesGuarded
PROOF
  <1>1. IInv => GeneratorSeesGuarded
    BY DEF IInv, TurnFits, ContextFits, GeneratorSeesGuarded
  <1>. QED
    BY <1>1, Invariant, PTL

(* Whatever path a turn takes through the graph, when it has returned its  *)
(* context is not in the cache.                                            *)
THEOREM ContextsErased == Spec => []ContextErased
PROOF
  <1>1. IInv => ContextErased
    BY DEF IInv, TurnFits, ContextFits, ContextErased, AfterRetrieval, Governing
  <1>. QED
    BY <1>1, Invariant, PTL

(* The status that the turns of a thread leave when all have returned is   *)
(* one from which reduce_status takes the next turn.                       *)
THEOREM ThreadsAccept == Spec => []ThreadsReopen
PROOF
  <1>1. IInv => ThreadsReopen
    BY DEF IInv
  <1>. QED
    BY <1>1, Invariant, PTL

(* The lock of one process is enough for verify: only another process      *)
(* inside append, or a line that a crash cut, can break the chain.         *)
THEOREM ChainVerifies == Spec => []JournalVerifies
PROOF
  <1>1. IInv => JournalVerifies
    BY DEF IInv, JournalFits, JournalVerifies, Verifies
  <1>. QED
    BY <1>1, Invariant, PTL

-----------------------------------------------------------------------------
(* The messages.  A turn that gets through manage_context leaves room for  *)
(* its answer, each that does not may take one place more; a message is    *)
(* only dropped from a full window.  A turn that has its thread to itself  *)
(* works on everything that the checkpoint of the thread holds.            *)

WindowFits(w) ==
  Len(w.active) <= MaxMessages /\ Len(w.active) <= Managing + 1 + w.skipped

Room(w) == Len(w.active) <= Managing + w.skipped

WindowsFit ==
  /\ \A th \in Threads: WindowFits(thread[th].window)
  /\ \A t \in Turns:
       Running(t) => LET w == turn[t].values.window
                     IN WindowFits(w) /\ (Owes(t) => Room(w))

AloneFits ==
  \A t \in Turns:
    Running(t) /\ turn[t].thread \notin overlapped =>
      /\ Held(thread[turn[t].thread].window) \subseteq Held(turn[t].values.window)
      /\ \A u \in Turns: Running(u) /\ turn[u].thread = turn[t].thread => u = t

(* What the limits of the environment imply for the slack.                 *)
LEMMA ManagingType ==
  /\ Managing \in Nat /\ Managing >= 2 /\ Managing <= MaxMessages
  /\ Slack = (MaxMessages - 1) - Managing
  /\ MaxMessages \in Nat /\ MaxMessages >= 4
PROOF
  BY WindowAssumption DEF Managing, Slack

(* The windows of a new and of a used thread.                              *)
LEMMA FirstWindowsFit ==
  /\ WindowFits(NewThread.window) /\ WindowFits(UsedThread.window)
  /\ Held(NewThread.window) = {}
PROOF
  <1>1. /\ NewThread.window.active = <<>> /\ NewThread.window.skipped = 0
        /\ NewThread.window.covered = {}
        /\ Len(UsedThread.window.active) = 3 /\ UsedThread.window.skipped = 1
    BY DEF NewThread, NewWindow, UsedThread
  <1>. QED
    BY <1>1, ManagingType DEF WindowFits, Held

(* The answer has room, or more turns than the slack are missing.          *)
LEMMA AnswerFits ==
  ASSUME NEW w \in Windows, WindowFits(w), Room(w), NEW m \in Messages
  PROVE  LET v == WithMessage(w, m) IN
         WindowFits(v) /\ (Held(w) \subseteq Held(v) \/ v.skipped > Slack)
PROOF
  <1>. DEFINE v == WithMessage(w, m)
  <1>1. /\ v \in Windows /\ v.skipped = w.skipped
        /\ Len(v.active) <= MaxMessages /\ Len(v.active) <= Len(w.active) + 1
        /\ Len(w.active) < MaxMessages => Held(w) \subseteq Held(v)
    BY MessageWindow
  <1>. HIDE DEF v
  <1>2. w.skipped \in Nat /\ Len(w.active) \in Nat /\ Len(v.active) \in Nat
    BY <1>1 DEF Windows
  <1>3. WindowFits(v)
    BY <1>1, <1>2, ManagingType DEF WindowFits, Room
  <1>4. Len(w.active) < MaxMessages \/ v.skipped > Slack
    BY <1>1, <1>2, ManagingType DEF Room
  <1>. QED
    BY <1>1, <1>3, <1>4 DEF v

(* A question that finds the window full counts one turn too many.         *)
LEMMA QuestionFits ==
  ASSUME NEW w \in Windows, WindowFits(w), NEW t \in Turns
  PROVE  LET v == WithQuestion(w, t) IN
         WindowFits(v) /\ (Held(w) \subseteq Held(v) \/ v.skipped > Slack)
PROOF
  <1>. DEFINE v == WithQuestion(w, t)
  <1>1. /\ v \in Windows /\ v.skipped = w.skipped + 1
        /\ Len(v.active) <= MaxMessages /\ Len(v.active) <= Len(w.active) + 1
        /\ Len(w.active) < MaxMessages => Held(w) \subseteq Held(v)
    BY QuestionWindow
  <1>. HIDE DEF v
  <1>2. w.skipped \in Nat /\ Len(w.active) \in Nat /\ Len(v.active) \in Nat
    BY <1>1 DEF Windows
  <1>3. WindowFits(v)
    BY <1>1, <1>2, ManagingType DEF WindowFits
  <1>4. Len(w.active) < MaxMessages \/ v.skipped > Slack
    BY <1>1, <1>2, ManagingType DEF WindowFits
  <1>. QED
    BY <1>1, <1>3, <1>4 DEF v

(* What manage_context leaves has room for the answer.                     *)
LEMMA ManagedFits ==
  ASSUME NEW w \in Windows, w.skipped > 0, NEW v \in Managed(w)
  PROVE  WindowFits(v) /\ Room(v)
PROOF
  <1>1. v \in Windows /\ Len(v.active) <= Managing
    BY ManagedWindow
  <1>2. v.skipped \in Nat /\ Len(v.active) \in Nat
    BY <1>1 DEF Windows
  <1>. QED
    BY <1>1, <1>2, ManagingType DEF WindowFits, Room

(* What a step of turn t makes of its thread and of its own window.        *)
Grows(t) ==
  LET th == turn[t].thread
      old == turn[t].values.window
      new == turn'[t].values.window
      loss == th \in overlapped \/ thread'[th].window.skipped > Slack
  IN /\ Held(thread[th].window) \subseteq Held(thread'[th].window) \/ loss
     /\ WindowFits(thread'[th].window)
     /\ Running(t)' => /\ WindowFits(new) /\ (Owes(t)' => Room(new))
                       /\ \/ Held(thread'[th].window) \subseteq Held(new)
                          \/ th \in overlapped

LEMMA TurnGrows ==
  ASSUME IInv, WindowsFit, AloneFits, NEW t \in Turns,
         Begin(t) \/ Node(t) \/ CallRaises(t)
  PROVE  Grows(t)
PROOF
  <1>. DEFINE th == turn[t].thread
              old == turn[t].values.window
              new == turn'[t].values.window
  <1>1. /\ TypeOK /\ Steps(t) /\ Says(t) /\ AsksFirst(t) /\ th \in Threads
        /\ old \in Windows /\ thread[th].window \in Windows
    <2>1. TypeOK
      BY DEF IInv
    <2>. QED
      BY <2>1, TurnStep, TurnType DEF Takes, IInv, TurnFits, TypeOK, Values
  <1>2. WindowFits(thread[th].window)
    BY <1>1 DEF WindowsFit
  <1>3. Running(t) =>
          /\ WindowFits(old) /\ (Owes(t) => Room(old))
          /\ th \in overlapped \/ Held(thread[th].window) \subseteq Held(old)
    BY DEF WindowsFit, AloneFits
  <1>4. ~(turn'[t].at \in Ended /\ Running(t)')
    BY DEF Running, Nodes, Ended
  <1>5. CASE turn'[t].at \in Ended /\ thread' = thread
    BY <1>2, <1>4, <1>5 DEF Grows
  <1>6. CASE /\ turn'[t].at \in Ended /\ Running(t)
             /\ thread' = [thread EXCEPT ![th] = turn[t].values]
    <2>1. thread'[th].window = old
      BY <1>1, <1>6 DEF TypeOK
    <2>. QED
      BY <1>3, <1>4, <1>6, <2>1 DEF Grows
  <1>7. CASE /\ Running(t) /\ new = old /\ (Owes(t)' => Owes(t))
             /\ thread' = thread \/ thread' = [thread EXCEPT ![th] = turn'[t].values]
    <2>1. thread'[th].window \in {thread[th].window, new}
      BY <1>1, <1>7 DEF TypeOK
    <2>. QED
      BY <1>2, <1>3, <1>7, <2>1 DEF Grows
  <1>8. CASE /\ thread' = [thread EXCEPT ![th] = turn'[t].values]
             /\ \/ Owes(t) /\ new = WithMessage(old, Answer(t)) /\ ~Owes(t)'
                \/ turn[t].at = "manage_context" /\ new \in Managed(old)
                \/ turn[t].at = "idle" /\ new = WithQuestion(thread[th].window, t)
                   /\ ~Owes(t)'
    <2>1. thread'[th].window = new
      BY <1>1, <1>8 DEF TypeOK
    <2>2. CASE Owes(t) /\ new = WithMessage(old, Answer(t)) /\ ~Owes(t)'
      <3>1. Running(t)
        BY <2>2 DEF Owes, Running, Nodes
      <3>2. Answer(t) \in Messages
        BY DEF Answer, Messages
      <3>3. WindowFits(new) /\ (Held(old) \subseteq Held(new) \/ new.skipped > Slack)
        BY <1>1, <1>3, <2>2, <3>1, <3>2, AnswerFits
      <3>. QED
        BY <1>3, <2>1, <2>2, <3>1, <3>3 DEF Grows
    <2>3. CASE turn[t].at = "manage_context" /\ new \in Managed(old)
      <3>1. Running(t) /\ old.skipped > 0
        BY <1>1, <2>3 DEF Running, Nodes, AsksFirst
      <3>2. WindowFits(new) /\ Room(new) /\ Held(old) \subseteq Held(new)
        BY <1>1, <2>3, <3>1, ManagedFits, ManagedWindow
      <3>. QED
        BY <1>3, <2>1, <3>1, <3>2 DEF Grows
    <2>4. CASE new = WithQuestion(thread[th].window, t) /\ ~Owes(t)'
      <3>1. /\ WindowFits(new)
            /\ Held(thread[th].window) \subseteq Held(new) \/ new.skipped > Slack
        BY <1>1, <1>2, <2>4, QuestionFits
      <3>. QED
        BY <2>1, <2>4, <3>1 DEF Grows
    <2>. QED
      BY <1>8, <2>2, <2>3, <2>4
  <1>. QED
    BY <1>1, <1>5, <1>6, <1>7, <1>8 DEF Says

(* Every step keeps the windows of threads and running turns so.           *)
LEMMA NextWindowsFit ==
  ASSUME IInv, WindowsFit, AloneFits, [Next]_vars
  PROVE  WindowsFit'
PROOF
  <1>1. TypeOK
    BY DEF IInv
  <1>2. ASSUME NEW t \in Turns, Begin(t) \/ Node(t) \/ CallRaises(t)
        PROVE  WindowsFit'
    <2>1. Steps(t) /\ Grows(t) /\ turn[t].thread \in Threads
      BY <1>1, <1>2, TurnStep, TurnGrows, TurnType DEF Takes
    <2>2. \A u \in Turns \ {t}: turn'[u] = turn[u]
      BY <2>1 DEF Steps
    <2>3. \A th \in Threads: WindowFits(thread'[th].window)
      BY <2>1 DEF Steps, Grows, WindowsFit
    <2>4. \A u \in Turns:
            Running(u)' => /\ WindowFits(turn'[u].values.window)
                           /\ Owes(u)' => Room(turn'[u].values.window)
      BY <2>1, <2>2 DEF Grows, WindowsFit, Running, Owes
    <2>. QED
      BY <2>3, <2>4 DEF WindowsFit
  <1>3. ASSUME NEW th \in Threads, DeleteThread(th)
        PROVE  WindowsFit'
    BY <1>1, <1>3, FirstWindowsFit DEF DeleteThread, WindowsFit, TypeOK, Running, Owes
  <1>4. CASE turn' = turn /\ thread' = thread
    BY <1>4 DEF WindowsFit, Running, Owes
  <1>5. CASE Crash
    <2>1. thread' = thread /\ \A t \in Turns: Running(t)' => FALSE
      BY <1>5 DEF Crash, Running, Nodes
    <2>. QED
      BY <2>1 DEF WindowsFit
  <1>. QED
    BY <1>2, <1>3, <1>4, <1>5 DEF Next, Expiry, OtherProcess, vars

(* ... and a turn alone on its thread in possession of what it holds.      *)
LEMMA NextAloneFits ==
  ASSUME IInv, WindowsFit, AloneFits, [Next]_vars
  PROVE  AloneFits'
PROOF
  <1>1. TypeOK
    BY DEF IInv
  <1>2. ASSUME NEW t \in Turns, Begin(t) \/ Node(t) \/ CallRaises(t),
               overlapped \subseteq overlapped',
               Running(t)' /\ turn[t].thread \notin overlapped' =>
                 \A u \in Turns \ {t}: ~(Running(u) /\ turn[u].thread = turn[t].thread)
        PROVE  AloneFits'
    <2>. DEFINE th == turn[t].thread
    <2>1. /\ Steps(t) /\ Grows(t) /\ th \in Threads /\ turn'[t].thread = th
          /\ \A u \in Turns: turn'[u].thread = turn[u].thread /\ turn[u].thread \in Threads
      BY <1>1, <1>2, TurnStep, TurnGrows, TurnType DEF Takes, Steps
    <2>2. \A u \in Turns \ {t}: turn'[u] = turn[u] /\ (Running(u)' <=> Running(u))
      BY <2>1 DEF Steps, Running
    <2>3. ASSUME Running(t)', th \notin overlapped'
          PROVE  /\ Held(thread'[th].window) \subseteq Held(turn'[t].values.window)
                 /\ \A u \in Turns: Running(u)' /\ turn[u].thread = th => u = t
      BY <1>2, <2>1, <2>2, <2>3 DEF Grows
    <2>4. ASSUME NEW u \in Turns \ {t}, Running(u)', turn[u].thread \notin overlapped'
          PROVE  /\ Held(thread'[turn[u].thread].window)
                      \subseteq Held(turn'[u].values.window)
                 /\ \A v \in Turns: Running(v)' /\ turn[v].thread = turn[u].thread => v = u
      <3>1. Running(u) /\ turn[u].thread \notin overlapped
        BY <1>2, <2>2, <2>4
      <3>2. /\ Held(thread[turn[u].thread].window) \subseteq Held(turn[u].values.window)
            /\ \A v \in Turns: Running(v) /\ turn[v].thread = turn[u].thread => v = u
        BY <3>1 DEF AloneFits
      <3>3. turn[u].thread # th
        <4>. SUFFICES ASSUME turn[u].thread = th PROVE FALSE
          OBVIOUS
        <4>1. ~Running(t)
          BY <3>2
        <4>2. Begin(t)
          BY <1>2, <4>1 DEF Node, CallRaises, ManageContext, GuardInput, Retrieve,
             GuardRetrieval, Generate, ValidateOutput, RecordEvidence, AppendEvidence,
             AuditEvidence, CleanupContext, Running, Nodes
        <4>3. th \in overlapped'
          BY <3>1, <4>2 DEF Begin
        <4>. QED
          BY <2>4, <4>3
      <3>4. thread'[turn[u].thread] = thread[turn[u].thread] /\ turn'[u] = turn[u]
        BY <2>1, <2>2, <3>3 DEF Steps
      <3>5. \A v \in Turns: Running(v)' /\ turn[v].thread = turn[u].thread => v = u
        BY <2>2, <3>2, <3>3
      <3>. QED
        BY <3>2, <3>4, <3>5
    <2>. QED
      BY <2>1, <2>3, <2>4 DEF AloneFits
  <1>3. ASSUME NEW t \in Turns, Begin(t) PROVE AloneFits'
    BY <1>2, <1>3 DEF Begin
  <1>4. ASSUME NEW t \in Turns, Node(t) \/ CallRaises(t), UNCHANGED overlapped
        PROVE  AloneFits'
    <2>1. Running(t)
      BY <1>4 DEF Node, CallRaises, ManageContext, GuardInput, Retrieve,
         GuardRetrieval, Generate, ValidateOutput, RecordEvidence, AppendEvidence,
         AuditEvidence, CleanupContext, Running, Nodes
    <2>2. turn[t].thread \notin overlapped' =>
            \A u \in Turns \ {t}: ~(Running(u) /\ turn[u].thread = turn[t].thread)
      BY <1>4, <2>1 DEF AloneFits
    <2>. QED
      BY <1>2, <1>4, <2>2
  <1>5. ASSUME NEW th \in Threads, DeleteThread(th), UNCHANGED overlapped
        PROVE  AloneFits'
    <2>1. turn' = turn /\ thread' = [thread EXCEPT ![th] = NewThread]
      BY <1>5 DEF DeleteThread
    <2>2. \A u \in Turns: turn[u].thread \in Threads
      BY <1>1, TurnType
    <2>3. \A u \in Turns: \/ thread'[turn[u].thread] = thread[turn[u].thread]
                          \/ Held(thread'[turn[u].thread].window) = {}
      BY <1>1, <2>1, <2>2, FirstWindowsFit DEF TypeOK
    <2>. QED
      BY <1>5, <2>1, <2>3 DEF AloneFits, Running
  <1>6. CASE turn' = turn /\ thread' = thread /\ overlapped' = overlapped
    BY <1>6 DEF AloneFits, Running
  <1>7. CASE Crash
    <2>1. \A t \in Turns: Running(t)' => FALSE
      BY <1>7 DEF Crash, Running, Nodes
    <2>. QED
      BY <2>1 DEF AloneFits
  <1>. QED
    BY <1>3, <1>4, <1>5, <1>6, <1>7 DEF Next, Expiry, OtherProcess, vars

(* No checkpoint forgets a message that the one before it held, unless its *)
(* thread was deleted, had two turns at once, or more turns than the slack *)
(* ended before manage_context.                                            *)
THEOREM Remembered == Spec => NothingForgotten
PROOF
  <1>. DEFINE Step ==
         \A th \in Threads:
           Forgets(th) =>
             \/ thread'[th] = NewThread
             \/ th \in overlapped
             \/ thread'[th].window.skipped > Slack
  <1>1. Init => WindowsFit /\ AloneFits
    BY FirstWindowsFit DEF Init, WindowsFit, AloneFits, Running, Nodes
  <1>2. IInv /\ WindowsFit /\ AloneFits /\ [Next]_vars => WindowsFit' /\ AloneFits'
    BY NextWindowsFit, NextAloneFits
  <1>3. IInv /\ WindowsFit /\ AloneFits /\ [Next]_vars => [Step]_vars
    <2>. SUFFICES ASSUME IInv, WindowsFit, AloneFits, Next PROVE Step
      OBVIOUS
    <2>1. TypeOK
      BY DEF IInv
    <2>2. ASSUME NEW t \in Turns, Begin(t) \/ Node(t) \/ CallRaises(t) PROVE Step
      <3>1. Steps(t) /\ Grows(t)
        BY <2>1, <2>2, TurnStep, TurnGrows DEF Takes
      <3>. QED
        BY <3>1 DEF Steps, Grows, Forgets
    <2>3. ASSUME NEW th \in Threads, DeleteThread(th) PROVE Step
      BY <2>1, <2>3 DEF DeleteThread, Forgets, TypeOK
    <2>4. CASE thread' = thread
      BY <2>4 DEF Forgets
    <2>. QED
      BY <2>2, <2>3, <2>4 DEF Next, Expiry, OtherProcess, Crash
  <1>. HIDE DEF Step
  <1>4. NothingForgotten <=> [][Step]_vars
    BY DEF NothingForgotten, Step
  <1>. QED
    BY <1>1, <1>2, <1>3, <1>4, Invariant, PTL DEF Spec

-----------------------------------------------------------------------------
(* The refinement.  A turn is in the journal from append_evidence on, with *)
(* the decision that its status will be the outcome of.                    *)

Undecided ==
  {"idle", "manage_context", "guard_input", "retrieve", "guard_retrieval", "generate",
   "validate_output", "record_evidence", "append_evidence"}

DecisionFits(t) ==
  /\ turn[t].at \in Undecided => \A d \in JournalDecisions: ~Recorded(t, d)
  /\ turn[t].at = "audit_evidence" => Recorded(t, Decision(t))
  /\ turn[t].at = "cleanup_context" =>
       \E d \in JournalDecisions: Recorded(t, d) /\ turn[t].values.status = Outcome[d]

DecisionsFit == \A t \in Turns: DecisionFits(t)

decided == {e \in Turns \X JournalDecisions: Recorded(e[1], e[2])}

ReplyOf(t) ==
  CASE turn[t].at = "returned" -> turn[t].values.status
    [] turn[t].at \in {"raised", "refused"} -> "failed"
    [] OTHER -> "none"

(* The decision of a whole line is recorded with it, that of a cut one is  *)
(* not.                                                                    *)
LEMMA AppendRecords ==
  ASSUME JournalTypeOK, NEW r \in JournalRecords, journal' = Append(journal, r),
         NEW t \in Turns, NEW d \in JournalDecisions
  PROVE  Recorded(t, d)' <=>
           Recorded(t, d) \/ (r.writer = t /\ r.decision = d /\ r.whole)
PROOF
  <1>1. /\ Len(journal') = Len(journal) + 1 /\ Len(journal) \in Nat
        /\ \A i \in 1..Len(journal): journal'[i] = journal[i]
        /\ journal'[Len(journal) + 1] = r
    BY DEF JournalTypeOK
  <1>2. ASSUME Recorded(t, d)'
        PROVE  Recorded(t, d) \/ (r.writer = t /\ r.decision = d /\ r.whole)
    <2>1. PICK i \in 1..Len(journal'): /\ journal'[i].writer = t
                                       /\ journal'[i].decision = d /\ journal'[i].whole
      BY <1>2 DEF Recorded
    <2>2. i \in 1..Len(journal) \/ i = Len(journal) + 1
      BY <1>1
    <2>. QED
      BY <1>1, <2>1, <2>2 DEF Recorded
  <1>3. ASSUME Recorded(t, d)
        PROVE  Recorded(t, d)'
    <2>1. PICK i \in 1..Len(journal): /\ journal[i].writer = t
                                      /\ journal[i].decision = d /\ journal[i].whole
      BY <1>3 DEF Recorded
    <2>2. i \in 1..Len(journal') /\ journal'[i] = journal[i]
      BY <1>1
    <2>. QED
      BY <2>1, <2>2 DEF Recorded
  <1>4. ASSUME r.writer = t, r.decision = d, r.whole
        PROVE  Recorded(t, d)'
    <2>1. Len(journal) + 1 \in 1..Len(journal')
      BY <1>1
    <2>. QED
      BY <1>1, <1>4, <2>1 DEF Recorded
  <1>. QED
    BY <1>2, <1>3, <1>4

(* The same for the line that a writer adds.                               *)
LEMMA WriteRecords ==
  ASSUME JournalTypeOK, NEW w \in Writers, NEW e \in JournalDecisions,
         NEW whole \in BOOLEAN, Appending(w), journal' = Append(journal, Record(w, e, whole)),
         NEW t \in Turns, NEW d \in JournalDecisions
  PROVE  Recorded(t, d)' <=> Recorded(t, d) \/ (w = t /\ e = d /\ whole)
PROOF
  <1>. DEFINE r == Record(w, e, whole)
  <1>1. head[w] \in Hashes
    BY DEF JournalTypeOK, Appending
  <1>2. r \in JournalRecords /\ r.writer = w /\ r.decision = e /\ r.whole = whole
    BY <1>1 DEF Record, JournalRecords
  <1>3. journal' = Append(journal, r)
    OBVIOUS
  <1>. HIDE DEF r
  <1>. QED
    BY <1>2, <1>3, AppendRecords

(* A line of the journal is read the same as long as the journal is.       *)
LEMMA SameRecords ==
  ASSUME journal' = journal, NEW t \in Turns, NEW d \in JournalDecisions
  PROVE  Recorded(t, d)' <=> Recorded(t, d)
PROOF
  BY DEF Recorded

(* The nodes up to the governance node commit to one of them, or end.      *)
LEMMA CommitAt ==
  ASSUME TypeOK, NEW t \in Turns, turn' \in [Turns -> TurnStates], NEW next, NEW new,
         Commit(t, next, new)
  PROVE  turn'[t].at \in {next, "refused"}
PROOF
  <1>1. CASE Admits(turn[t].values.status, new.values.status)
    <2>1. turn'[t] = [new EXCEPT !.at = next]
      BY <1>1 DEF Commit, TypeOK
    <2>2. [new EXCEPT !.at = next] \in TurnStates
      BY <2>1
    <2>3. "at" \in DOMAIN new
      BY <2>2 DEF TurnStates
    <2>. QED
      BY <2>1, <2>3
  <1>2. CASE ~Admits(turn[t].values.status, new.values.status)
    BY <1>2, EndShape DEF Commit, Ended, Statuses
  <1>. QED
    BY <1>1, <1>2

Early(t) ==
  \/ Begin(t) \/ ManageContext(t) \/ GuardInput(t) \/ Retrieve(t) \/ GuardRetrieval(t)
  \/ Generate(t) \/ ValidateOutput(t) \/ RecordEvidence(t)

(* Before its governance node a turn leaves the journal as it is.          *)
LEMMA EarlyStays ==
  ASSUME IInv, NEW t \in Turns, Early(t)
  PROVE  /\ turn[t].at \in Undecided /\ journal' = journal
         /\ turn'[t].at \in (Undecided \ {"idle"}) \cup {"raised", "refused"}
PROOF
  <1>1. TypeOK /\ turn' \in [Turns -> TurnStates]
    BY TurnStep DEF Early, Node, IInv, Takes, Steps
  <1>2. turn[t].at \in Undecided /\ journal' = journal
    BY DEF Early, Begin, ManageContext, GuardInput, Retrieve, GuardRetrieval, Generate,
           ValidateOutput, RecordEvidence, Undecided, stores, journalVars, ReadHead
  <1>3. CASE Begin(t)
    <2>. DEFINE th == turn[t].thread
                values == [thread[th] EXCEPT !.window = WithQuestion(thread[th].window, t)]
                first == [turn[t] EXCEPT !.at = "manage_context"]
                new == [first EXCEPT !.values = values]
    <2>1. turn' = [turn EXCEPT ![t] = new]
      BY <1>1, <1>3 DEF Begin, TypeOK
    <2>. HIDE DEF values
    <2>2. new.at = "manage_context"
      BY <1>1, TurnType DEF TurnStates
    <2>. HIDE DEF new
    <2>3. turn'[t].at = "manage_context"
      BY <1>1, <2>1, <2>2 DEF TypeOK
    <2>. QED
      BY <1>2, <2>3 DEF Undecided
  <1>4. CASE Raise(t)
    BY <1>1, <1>2, <1>4, RaiseSteps
  <1>5. CASE RecordEvidence(t) /\ ~Raise(t)
    <2>1. turn' = [turn EXCEPT ![t].at = "append_evidence"]
      BY <1>5 DEF RecordEvidence
    <2>2. turn'[t].at = "append_evidence"
      BY <1>1, <2>1, TurnType DEF TypeOK, TurnStates
    <2>. QED
      BY <1>2, <2>2 DEF Undecided
  <1>6. CASE ~Begin(t) /\ ~RecordEvidence(t) /\ ~Raise(t)
    <2>. DEFINE Goes == turn'[t].at \in (Undecided \ {"idle"}) \cup {"raised", "refused"}
    <2>1. \A next \in Undecided \ {"idle"}: \A new: Commit(t, next, new) => Goes
      BY <1>1, CommitAt
    <2>. HIDE DEF Goes
    <2>2. {"guard_input", "retrieve", "guard_retrieval", "generate", "validate_output",
           "record_evidence"} \subseteq Undecided \ {"idle"}
      BY DEF Undecided
    <2>3. ManageContext(t) \/ GuardInput(t) \/ Retrieve(t) => Goes
      BY <2>1, <2>2 DEF ManageContext, GuardInput, Retrieve
    <2>4. GuardRetrieval(t) \/ Generate(t) => Goes
      BY <1>6, <2>1, <2>2 DEF GuardRetrieval, Generate
    <2>5. ValidateOutput(t) => Goes
      BY <1>6, <2>1, <2>2 DEF ValidateOutput
    <2>. QED
      BY <1>2, <1>6, <2>3, <2>4, <2>5 DEF Early, Goes
  <1>. QED
    BY <1>3, <1>4, <1>5, <1>6 DEF Early

(* What a step shows of the journal and of the replies decides which step  *)
(* of GovernedAnswers it is.                                               *)
RecordsKept == \A u \in Turns, d \in JournalDecisions: Recorded(u, d)' <=> Recorded(u, d)

(* Nothing recorded and nothing replied: no step.                          *)
LEMMA StepStutters ==
  ASSUME RecordsKept, \A u \in Turns: ReplyOf(u)' = ReplyOf(u)
  PROVE  UNCHANGED Answered!vars
PROOF
  <1>1. decided' = decided
    BY DEF RecordsKept, decided
  <1>2. [u \in Turns |-> ReplyOf(u)]' = [u \in Turns |-> ReplyOf(u)]
    OBVIOUS
  <1>. QED
    BY <1>1, <1>2 DEF Answered!vars, decided, ReplyOf

(* Nothing recorded, and some turns fail.                                  *)
LEMMA StepFails ==
  ASSUME RecordsKept, NEW failed \in SUBSET Turns,
         \A u \in failed: ReplyOf(u) = "none" /\ ReplyOf(u)' = "failed",
         \A u \in Turns \ failed: ReplyOf(u)' = ReplyOf(u)
  PROVE  Answered!Next
PROOF
  <1>1. decided' = decided
    BY DEF RecordsKept, decided
  <1>2. [u \in Turns |-> ReplyOf(u)]' =
          [u \in Turns |-> IF u \in failed THEN "failed" ELSE [v \in Turns |-> ReplyOf(v)][u]]
    OBVIOUS
  <1>3. Answered!Fail(failed)
    BY <1>1, <1>2 DEF Answered!Fail, decided, ReplyOf
  <1>. QED
    BY <1>3 DEF Answered!Next

(* One decision recorded of a turn that had none.                          *)
LEMMA StepDecides ==
  ASSUME NEW t \in Turns, NEW d \in JournalDecisions, ReplyOf(t) = "none",
         \A e \in JournalDecisions: ~Recorded(t, e),
         \A u \in Turns, e \in JournalDecisions:
           Recorded(u, e)' <=> Recorded(u, e) \/ (t = u /\ d = e),
         \A u \in Turns: ReplyOf(u)' = ReplyOf(u)
  PROVE  Answered!Next
PROOF
  <1>1. decided' = decided \cup {<<t, d>>}
    BY DEF decided
  <1>2. [u \in Turns |-> ReplyOf(u)]' = [u \in Turns |-> ReplyOf(u)]
    OBVIOUS
  <1>3. \A e \in JournalDecisions: <<t, e>> \notin decided
    BY DEF decided
  <1>4. DOMAIN Answered!Outcome = JournalDecisions
    BY DEF Answered!Outcome, JournalDecisions
  <1>5. [u \in Turns |-> ReplyOf(u)][t] = "none"
    OBVIOUS
  <1>6. Answered!Decide(t, d)
    BY <1>1, <1>2, <1>3, <1>4, <1>5 DEF Answered!Decide, decided, ReplyOf
  <1>. QED
    BY <1>4, <1>6 DEF Answered!Next

(* The outcome of a recorded decision is replied.                          *)
LEMMA StepReplies ==
  ASSUME NEW t \in Turns, NEW d \in JournalDecisions, ReplyOf(t) = "none",
         Recorded(t, d), RecordsKept, ReplyOf(t)' = Outcome[d],
         \A u \in Turns \ {t}: ReplyOf(u)' = ReplyOf(u)
  PROVE  Answered!Next
PROOF
  <1>. DEFINE reply == [u \in Turns |-> ReplyOf(u)]
  <1>1. decided' = decided
    BY DEF RecordsKept, decided
  <1>2. reply' = [reply EXCEPT ![t] = Answered!Outcome[d]]
    BY DEF Answered!Outcome, Outcome
  <1>3. <<t, d>> \in decided
    BY DEF decided
  <1>4. DOMAIN Answered!Outcome = JournalDecisions
    BY DEF Answered!Outcome, JournalDecisions
  <1>5. reply[t] = "none"
    OBVIOUS
  <1>6. Answered!Reply(t, d)
    BY <1>1, <1>2, <1>3, <1>5 DEF Answered!Reply, decided, ReplyOf
  <1>. QED
    BY <1>4, <1>6 DEF Answered!Next

(* A step of one turn leaves the decisions and the replies of the others.  *)
LEMMA OthersAnswer ==
  ASSUME NEW t \in Turns, NEW u \in Turns \ {t}, Steps(t), DecisionFits(u),
         \A d \in JournalDecisions: Recorded(u, d)' <=> Recorded(u, d)
  PROVE  DecisionFits(u)' /\ ReplyOf(u)' = ReplyOf(u)
PROOF
  <1>1. turn'[u] = turn[u]
    BY DEF Steps
  <1>2. Decision(u)' = Decision(u) /\ Decision(u) \in JournalDecisions
    BY <1>1 DEF Decision, JournalDecisions
  <1>. QED
    BY <1>1, <1>2 DEF DecisionFits, ReplyOf

(* Every step of a turn is a step of GovernedAnswers, or none.             *)
LEMMA TurnAnswers ==
  ASSUME IInv, DecisionsFit, NEW t \in Turns, Begin(t) \/ Node(t) \/ CallRaises(t)
  PROVE  DecisionsFit' /\ (Answered!Next \/ UNCHANGED Answered!vars)
PROOF
  <1>1. Steps(t) /\ TypeOK /\ JournalTypeOK /\ t \in Writers /\ DecisionFits(t)
    BY TurnStep DEF Takes, IInv, TypeOK, DecisionsFit, Writers
  <1>2. CASE \/ Early(t) /\ turn'[t].at \notin {"raised", "refused"}
    <2>1. /\ RecordsKept /\ turn[t].at \in Undecided
          /\ turn'[t].at \in Undecided \ {"idle"}
      BY <1>2, EarlyStays, SameRecords DEF RecordsKept
    <2>2. DecisionFits(t)' /\ ReplyOf(t)' = ReplyOf(t)
      BY <1>1, <2>1 DEF DecisionFits, ReplyOf, RecordsKept, Undecided
    <2>3. \A u \in Turns \ {t}: DecisionFits(u)' /\ ReplyOf(u)' = ReplyOf(u)
      BY <1>1, <2>1, OthersAnswer DEF DecisionsFit, RecordsKept
    <2>. QED
      BY <2>1, <2>2, <2>3, StepStutters DEF DecisionsFit
  <1>3. CASE \/ Early(t) /\ turn'[t].at \in {"raised", "refused"}
             \/ CallRaises(t)
    <2>1. /\ RecordsKept /\ turn'[t].at \in {"raised", "refused"}
          /\ turn[t].at \notin Ended
      BY <1>1, <1>3, EarlyStays, SameRecords, RaiseSteps
         DEF RecordsKept, CallRaises, Running, Nodes, Undecided, Ended
    <2>2. DecisionFits(t)' /\ ReplyOf(t) = "none" /\ ReplyOf(t)' = "failed"
      BY <2>1 DEF DecisionFits, ReplyOf, Undecided, Ended
    <2>3. \A u \in Turns \ {t}: DecisionFits(u)' /\ ReplyOf(u)' = ReplyOf(u)
      BY <1>1, <2>1, OthersAnswer DEF DecisionsFit, RecordsKept
    <2>4. Answered!Next
      BY <2>1, <2>2, <2>3, StepFails, {t} \in SUBSET Turns
    <2>. QED
      BY <2>2, <2>3, <2>4 DEF DecisionsFit
  <1>4. CASE AppendEvidence(t)
    <2>1. /\ turn' = [turn EXCEPT ![t].at = "audit_evidence"]
          /\ turn[t].at = "append_evidence" /\ WriteRecord(t, Decision(t))
      BY <1>4 DEF AppendEvidence
    <2>. DEFINE new == [turn[t] EXCEPT !.at = "audit_evidence"]
    <2>2. turn'[t] = new
      BY <1>1, <2>1 DEF TypeOK
    <2>3. new.at = "audit_evidence" /\ new.values = turn[t].values
      BY <1>1, TurnType DEF TurnStates
    <2>. HIDE DEF new
    <2>4. Decision(t)' = Decision(t) /\ Decision(t) \in JournalDecisions
      BY <2>2, <2>3 DEF Decision, JournalDecisions
    <2>5. \A u \in Turns, e \in JournalDecisions:
            Recorded(u, e)' <=> Recorded(u, e) \/ (t = u /\ Decision(t) = e)
      BY <1>1, <2>1, <2>4, WriteRecords DEF WriteRecord
    <2>6. /\ ReplyOf(t) = "none" /\ ReplyOf(t)' = "none"
          /\ \A e \in JournalDecisions: ~Recorded(t, e)
      BY <1>1, <2>1, <2>2, <2>3 DEF ReplyOf, DecisionFits, Undecided
    <2>7. DecisionFits(t)'
      BY <2>2, <2>3, <2>4, <2>5 DEF DecisionFits, Undecided
    <2>8. \A u \in Turns \ {t}: DecisionFits(u)' /\ ReplyOf(u)' = ReplyOf(u)
      BY <1>1, <2>5, OthersAnswer DEF DecisionsFit
    <2>9. Answered!Next
      BY <2>4, <2>5, <2>6, <2>8, StepDecides
    <2>. QED
      BY <2>7, <2>8, <2>9 DEF DecisionsFit
  <1>5. CASE AuditEvidence(t)
    <2>. DEFINE status == Outcome[Decision(t)]
    <2>1. /\ turn[t].at = "audit_evidence" /\ RecordsKept
          /\ turn[t].values.status \in {"validated", "blocked"}
      BY <1>5, SameRecords
         DEF AuditEvidence, stores, journalVars, RecordsKept, IInv, TurnFits, StatusFits,
             Governing
    <2>2. /\ Recorded(t, Decision(t)) /\ Decision(t) \in JournalDecisions
          /\ status \in Statuses /\ Admits(turn[t].values.status, status)
      BY <1>1, <2>1 DEF DecisionFits, Decision, JournalDecisions, Outcome, Statuses,
                        Terminal, Admits, StatusOrder
    <2>3. Commit(t, "cleanup_context", WithStatus(t, status)) /\ "cleanup_context" \in Nodes
      BY <1>5 DEF AuditEvidence, Nodes
    <2>4. turn'[t].at = "cleanup_context" /\ turn'[t].values.status = status
      BY <1>1, <2>2, <2>3, CommitStatus
    <2>5. DecisionFits(t)' /\ ReplyOf(t)' = ReplyOf(t)
      BY <2>1, <2>2, <2>4 DEF DecisionFits, ReplyOf, Undecided, RecordsKept
    <2>6. \A u \in Turns \ {t}: DecisionFits(u)' /\ ReplyOf(u)' = ReplyOf(u)
      BY <1>1, <2>1, OthersAnswer DEF DecisionsFit, RecordsKept
    <2>. QED
      BY <2>1, <2>5, <2>6, StepStutters DEF DecisionsFit
  <1>6. CASE CleanupContext(t)
    <2>1. PICK d \in JournalDecisions: Recorded(t, d) /\ turn[t].values.status = Outcome[d]
      BY <1>1, <1>6 DEF CleanupContext, DecisionFits
    <2>2. RecordsKept /\ turn[t].at = "cleanup_context"
      BY <1>6, SameRecords DEF CleanupContext, journalVars, RecordsKept
    <2>3. turn'[t].at = "returned" /\ turn'[t].values.status = turn[t].values.status
      BY <1>1, <1>6, EndShape, TurnType DEF CleanupContext, Ended
    <2>4. DecisionFits(t)' /\ ReplyOf(t) = "none" /\ ReplyOf(t)' = Outcome[d]
      BY <2>1, <2>2, <2>3 DEF DecisionFits, ReplyOf, Undecided
    <2>5. \A u \in Turns \ {t}: DecisionFits(u)' /\ ReplyOf(u)' = ReplyOf(u)
      BY <1>1, <2>2, OthersAnswer DEF DecisionsFit, RecordsKept
    <2>6. Answered!Next
      BY <2>1, <2>2, <2>4, <2>5, StepReplies
    <2>. QED
      BY <2>4, <2>5, <2>6 DEF DecisionsFit
  <1>. QED
    BY <1>2, <1>3, <1>4, <1>5, <1>6 DEF Early, Node

(* So is every step of the application, its crash and the other process.   *)
LEMMA NextAnswers ==
  ASSUME IInv, DecisionsFit, [Next]_vars
  PROVE  DecisionsFit' /\ [Answered!Next]_(Answered!vars)
PROOF
  <1>0. JournalTypeOK
    BY DEF IInv, TypeOK
  <1>1. ASSUME turn' = turn, RecordsKept
        PROVE  DecisionsFit' /\ UNCHANGED Answered!vars
    <2>1. \A u \in Turns: /\ ReplyOf(u)' = ReplyOf(u)
                          /\ Decision(u)' = Decision(u) /\ Decision(u) \in JournalDecisions
      BY <1>1 DEF ReplyOf, Decision, JournalDecisions
    <2>2. \A u \in Turns: DecisionFits(u)'
      BY <1>1, <2>1 DEF DecisionsFit, DecisionFits, RecordsKept
    <2>. QED
      BY <1>1, <2>1, <2>2, StepStutters DEF DecisionsFit
  <1>2. CASE turn' = turn /\ journal' = journal
    BY <1>1, <1>2, SameRecords DEF RecordsKept
  <1>3. CASE OtherProcess
    <2>1. ASSUME ForeignWrite
          PROVE  RecordsKept
      <3>1. Foreign \in Writers /\ "allow" \in JournalDecisions /\ Appending(Foreign)
            /\ journal' = Append(journal, Record(Foreign, "allow", TRUE))
        BY <2>1 DEF ForeignWrite, WriteRecord, Writers, JournalDecisions
      <3>. QED
        BY <1>0, <3>1, WriteRecords, IdentityAssumption DEF RecordsKept
    <2>2. CASE ForeignRead
      BY <1>2, <1>3, <2>2 DEF OtherProcess, ForeignRead, ReadHead
    <2>. QED
      BY <1>1, <1>3, <2>1, <2>2 DEF OtherProcess
  <1>4. CASE Crash
    <2>1. ASSUME NEW t \in Turns, Appending(t), NEW d \in JournalDecisions,
                 journal' = Append(journal, Record(t, d, FALSE))
          PROVE  RecordsKept
      BY <1>0, <2>1, WriteRecords DEF RecordsKept, Writers
    <2>2. RecordsKept
      BY <1>4, <2>1, SameRecords DEF Crash, LoseWriters, RecordsKept
    <2>. DEFINE failed == {u \in Turns: Running(u)}
    <2>3. \A u \in failed: turn'[u].at = "raised" /\ turn[u].at \in Nodes
      BY <1>4 DEF Crash, Running
    <2>4. \A u \in Turns \ failed: turn'[u] = turn[u]
      BY <1>4 DEF Crash
    <2>5. /\ \A u \in failed: ReplyOf(u) = "none" /\ ReplyOf(u)' = "failed"
          /\ \A u \in Turns \ failed: ReplyOf(u)' = ReplyOf(u)
      BY <2>3, <2>4 DEF ReplyOf, Nodes
    <2>6. \A u \in failed: DecisionFits(u)'
      BY <2>3 DEF DecisionFits, Undecided
    <2>7. ASSUME NEW u \in Turns \ failed
          PROVE  DecisionFits(u)'
      <3>1. Decision(u)' = Decision(u) /\ Decision(u) \in JournalDecisions
        BY <2>4 DEF Decision, JournalDecisions
      <3>. QED
        BY <2>2, <2>4, <3>1 DEF DecisionsFit, DecisionFits, RecordsKept
    <2>8. failed \in SUBSET Turns
      OBVIOUS
    <2>. HIDE DEF failed
    <2>9. Answered!Next
      BY <2>2, <2>5, <2>8, StepFails
    <2>. QED
      BY <2>6, <2>7, <2>9 DEF DecisionsFit
  <1>. QED
    BY <1>2, <1>3, <1>4, TurnAnswers
       DEF Next, DeleteThread, Expiry, vars, stores, journalVars

(* At first nothing is decided and nothing replied.                        *)
LEMMA InitAnswers ==
  ASSUME Init
  PROVE  DecisionsFit /\ Answered!Init
PROOF
  <1>1. \A t \in Turns, d \in JournalDecisions: ~Recorded(t, d)
    BY DEF Init, JournalInit, Recorded
  <1>2. \A t \in Turns: turn[t].at = "idle"
    BY DEF Init
  <1>3. decided = {} /\ [t \in Turns |-> ReplyOf(t)] = [t \in Turns |-> "none"]
    BY <1>1, <1>2 DEF decided, ReplyOf
  <1>4. DecisionsFit
    BY <1>1, <1>2 DEF DecisionsFit, DecisionFits
  <1>. QED
    BY <1>3, <1>4 DEF Answered!Init, decided, ReplyOf

(* Every behaviour of the application keeps the promise of                 *)
(* GovernedAnswers: a turn's decision is in the journal, once, before its  *)
(* caller has an answer, and the answer is the outcome of that decision,   *)
(* with turns that overlap, raise or die and another process beside them.  *)
THEOREM Refinement == Spec => ImplementsAnswers
PROOF
  <1>1. Init => DecisionsFit /\ Answered!Init
    BY InitAnswers
  <1>2. IInv /\ DecisionsFit /\ [Next]_vars => DecisionsFit' /\ [Answered!Next]_(Answered!vars)
    BY NextAnswers
  <1>. QED
    BY <1>1, <1>2, Invariant, PTL DEF Spec, ImplementsAnswers, Answered!Spec
=============================================================================
