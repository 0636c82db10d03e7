------------------------ MODULE BufferedAudit_proofs ------------------------
(***************************************************************************)
(* What the buffered audit sink guarantees, for any number of callers and  *)
(* events and any size of the queue: no accepted event vanishes without a  *)
(* trace, and close() returns only when all that it promised is delivered. *)
(***************************************************************************)
EXTENDS BufferedAudit, TLAPS, FiniteSetTheorems

-----------------------------------------------------------------------------
(* The queue's count is what lies in it and what is in the thread's hand.  *)
Queued(e) == \E i \in 1..Len(buffer): buffer[i] = e

CountFits ==
  /\ unfinished = Len(buffer) + (IF worker = "delivering" THEN 1 ELSE 0)
  /\ held # None <=> worker = "delivering"

(* An event is accepted once: it waits at one place, or is in the thread's *)
(* hand, or has left, one way or the other.                                *)
Waits(e) == e \in Accepted /\ e \notin delivered /\ e \notin gone

EventsFit ==
  /\ \A i, j \in 1..Len(buffer): buffer[i] = buffer[j] => i = j
  /\ \A i \in 1..Len(buffer):
       buffer[i] # None => Waits(buffer[i]) /\ buffer[i] # held
  /\ held # None => Waits(held)
  /\ delivered \subseteq Accepted /\ gone \subseteq Accepted

(* Only the event that killed the thread is lost.                          *)
LossFits ==
  IF worker = "dead" THEN \E e \in AuditEvents: Vanished = {e} ELSE Vanished = {}

(* What close() promised lies before its None, until the thread has taken  *)
(* that.  A dead thread never will.                                        *)
PromiseFits ==
  /\ app = "building" => closing = "open"
  /\ closing \in {"open", "putting"} => ~Queued(None) /\ worker # "ended"
  /\ closing = "open" => promised = {}
  /\ closing = "putting" =>
       worker = "dead" \/ \A e \in promised: e \in delivered \/ e = held \/ Queued(e)
  /\ closing = "joining" /\ worker # "ended" =>
       \E i \in 1..Len(buffer):
         /\ buffer[i] = None
         /\ worker = "dead" \/ \A e \in promised:
              e \in delivered \/ e = held \/ \E j \in 1..(i - 1): buffer[j] = e
  /\ closing = "closed" => worker = "ended"
  /\ worker = "ended" => promised \subseteq delivered /\ ~Queued(None)

AuditInv == TypeOK /\ CountFits /\ EventsFit /\ LossFits /\ PromiseFits

-----------------------------------------------------------------------------
(* The two ends of the queue.                                              *)
LEMMA AppendFacts ==
  ASSUME NEW S, NEW s \in Seq(S), NEW x \in S
  PROVE  /\ Append(s, x) \in Seq(S)
         /\ Len(Append(s, x)) = Len(s) + 1
         /\ \A i \in 1..Len(s): Append(s, x)[i] = s[i]
         /\ Append(s, x)[Len(s) + 1] = x
         /\ Len(s) \in Nat
PROOF
  OBVIOUS

LEMMA TailFacts ==
  ASSUME NEW S, NEW s \in Seq(S), Len(s) > 0
  PROVE  /\ Tail(s) \in Seq(S)
         /\ Len(Tail(s)) = Len(s) - 1
         /\ \A i \in 1..Len(Tail(s)): i + 1 \in 1..Len(s) /\ Tail(s)[i] = s[i + 1]
         /\ \A i \in 2..Len(s): i - 1 \in 1..Len(Tail(s)) /\ Tail(s)[i - 1] = s[i]
         /\ Head(s) = s[1] /\ Head(s) \in S
         /\ Len(s) \in Nat
PROOF
  OBVIOUS

LEMMA InitHolds == Init => AuditInv
PROOF
  <1>. SUFFICES ASSUME Init PROVE AuditInv
    OBVIOUS
  <1>. USE DEF Init
  <1>1. TypeOK
    BY BoundsAssumption DEF TypeOK
  <1>2. Accepted = {}
    BY DEF Accepted, AuditEvents
  <1>3. Len(buffer) = 0 /\ ~Queued(None)
    BY DEF Queued
  <1>4. CountFits /\ EventsFit
    BY <1>3 DEF CountFits, EventsFit
  <1>5. LossFits
    BY <1>2 DEF LossFits, Vanished
  <1>6. PromiseFits
    BY <1>3 DEF PromiseFits
  <1>. QED
    BY <1>1, <1>4, <1>5, <1>6 DEF AuditInv

-----------------------------------------------------------------------------
(* Taking what lies first and putting something last, in terms of places.  *)
LEMMA QueuedAfterPut ==
  ASSUME TypeOK, NEW x \in AuditEvents \cup {None}, Put(x)
  PROVE  /\ buffer' \in Seq(AuditEvents \cup {None}) /\ Len(buffer') <= MaxQueue
         /\ Len(buffer') = Len(buffer) + 1 /\ Len(buffer) \in Nat
         /\ \A i \in 1..Len(buffer): i \in 1..Len(buffer') /\ buffer'[i] = buffer[i]
         /\ \A i \in 1..Len(buffer'): i \in 1..Len(buffer) \/ i = Len(buffer')
         /\ Len(buffer') \in 1..Len(buffer') /\ buffer'[Len(buffer')] = x
         /\ \A e: Queued(e)' <=> Queued(e) \/ e = x
PROOF
  <1>1. buffer \in Seq(AuditEvents \cup {None}) /\ buffer' = Append(buffer, x)
    BY DEF TypeOK, Put
  <1>2. /\ buffer' \in Seq(AuditEvents \cup {None})
        /\ Len(buffer') = Len(buffer) + 1
        /\ \A i \in 1..Len(buffer): buffer'[i] = buffer[i]
        /\ buffer'[Len(buffer) + 1] = x
        /\ Len(buffer) \in Nat
    BY <1>1, AppendFacts
  <1>3. Len(buffer') <= MaxQueue
    BY <1>2, BoundsAssumption DEF Put, Room
  <1>4. /\ \A i \in 1..Len(buffer): i \in 1..Len(buffer')
        /\ \A i \in 1..Len(buffer'): i \in 1..Len(buffer) \/ i = Len(buffer')
        /\ Len(buffer') \in 1..Len(buffer')
    BY <1>2
  <1>5. \A e: Queued(e)' <=> Queued(e) \/ e = x
    BY <1>2, <1>4 DEF Queued
  <1>. QED
    BY <1>2, <1>3, <1>4, <1>5

LEMMA QueuedAfterTake ==
  ASSUME TypeOK, Len(buffer) > 0, buffer' = Tail(buffer)
  PROVE  /\ buffer' \in Seq(AuditEvents \cup {None}) /\ Len(buffer') <= MaxQueue
         /\ Len(buffer') = Len(buffer) - 1 /\ Len(buffer) \in Nat
         /\ 1 \in 1..Len(buffer) /\ Head(buffer) = buffer[1]
         /\ Head(buffer) \in AuditEvents \cup {None}
         /\ \A i \in 1..Len(buffer'): i + 1 \in 1..Len(buffer) /\ buffer'[i] = buffer[i + 1]
         /\ \A i \in 1..Len(buffer):
              i = 1 \/ (i - 1 \in 1..Len(buffer') /\ buffer'[i - 1] = buffer[i])
         /\ \A e: Queued(e) <=> Queued(e)' \/ e = Head(buffer)
PROOF
  <1>1. buffer \in Seq(AuditEvents \cup {None}) /\ Len(buffer) <= MaxQueue
    BY DEF TypeOK
  <1>2. /\ buffer' \in Seq(AuditEvents \cup {None})
        /\ Len(buffer') = Len(buffer) - 1
        /\ \A i \in 1..Len(buffer'): i + 1 \in 1..Len(buffer) /\ buffer'[i] = buffer[i + 1]
        /\ \A i \in 2..Len(buffer): i - 1 \in 1..Len(buffer') /\ buffer'[i - 1] = buffer[i]
        /\ Head(buffer) = buffer[1] /\ Head(buffer) \in AuditEvents \cup {None}
        /\ Len(buffer) \in Nat
    BY <1>1, TailFacts
  <1>3. 1 \in 1..Len(buffer) /\ \A i \in 1..Len(buffer): i = 1 \/ i \in 2..Len(buffer)
    BY <1>2
  <1>4. Len(buffer') <= MaxQueue
    BY <1>1, <1>2, BoundsAssumption
  <1>5. \A e: Queued(e) <=> Queued(e)' \/ e = Head(buffer)
    BY <1>2, <1>3 DEF Queued
  <1>. QED
    BY <1>2, <1>3, <1>4, <1>5

(* What is lost depends on nothing else.                                   *)
LEMMA LossKept ==
  ASSUME LossFits, Vanished' = Vanished, worker' = "dead" <=> worker = "dead"
  PROVE  LossFits'
PROOF
  BY DEF LossFits

LEMMA RecordKeeps ==
  ASSUME AuditInv, NEW c \in Callers, RecordEvent(c)
  PROVE  AuditInv'
PROOF
  <1>. DEFINE new == <<c, recorded[c] + 1>>
  <1>a. TypeOK /\ CountFits /\ EventsFit /\ LossFits /\ PromiseFits
    BY DEF AuditInv
  <1>b. /\ UNCHANGED <<app, worker, held, delivered, closing, promised, gone, faults>>
        /\ recorded[c] < MaxRecords
    BY DEF RecordEvent, workerVars, closeVars
  <1>1. CASE UNCHANGED <<recorded, queueVars>>
    <2>1. Accepted' = Accepted /\ \A e: Queued(e)' <=> Queued(e)
      BY <1>1 DEF Accepted, Queued, queueVars
    <2>2. Vanished' = Vanished
      BY <1>b, <2>1 DEF Vanished, Accounted, Queued
    <2>3. raised' \subseteq Callers
      BY <1>a DEF RecordEvent, TypeOK
    <2>4. TypeOK' /\ CountFits'
      BY <1>1, <1>a, <1>b, <2>3 DEF TypeOK, CountFits, queueVars
    <2>5. EventsFit'
      BY <1>1, <1>a, <1>b, <2>1 DEF EventsFit, Waits, queueVars
    <2>6. PromiseFits'
      BY <1>1, <1>a, <1>b, <2>1 DEF PromiseFits, queueVars
    <2>. QED
      BY <1>a, <1>b, <2>2, <2>4, <2>5, <2>6, LossKept DEF AuditInv
  <1>2. CASE Put(new) /\ recorded' = [recorded EXCEPT ![c] = @ + 1] /\ UNCHANGED raised
    <2>0. recorded[c] \in 0..MaxRecords /\ MaxRecords \in Nat
      BY <1>a, BoundsAssumption DEF TypeOK
    <2>1. new \in AuditEvents /\ new \notin Accepted /\ new # None
      BY <1>b, <2>0, NoneAssumption DEF AuditEvents, Accepted
    <2>2. recorded' \in [Callers -> 0..MaxRecords]
      BY <1>2, <1>a, <1>b, <2>0 DEF TypeOK
    <2>3. Accepted' = Accepted \cup {new}
      <3>1. \A e \in AuditEvents: e[2] <= recorded'[e[1]] <=> e[2] <= recorded[e[1]] \/ e = new
        <4>1. SUFFICES ASSUME NEW e \in AuditEvents
                       PROVE  e[2] <= recorded'[e[1]] <=> e[2] <= recorded[e[1]] \/ e = new
          OBVIOUS
        <4>2. e[1] \in Callers /\ e[2] \in 1..MaxRecords /\ e = <<e[1], e[2]>>
          BY DEF AuditEvents
        <4>3. recorded'[e[1]] = IF e[1] = c THEN recorded[c] + 1 ELSE recorded[e[1]]
          BY <1>2, <1>a, <4>2 DEF TypeOK
        <4>4. e = new <=> e[1] = c /\ e[2] = recorded[c] + 1
          BY <4>2
        <4>. QED
          BY <2>0, <4>2, <4>3, <4>4
      <3>. QED
        BY <2>1, <3>1 DEF Accepted
    <2>4. /\ buffer' \in Seq(AuditEvents \cup {None}) /\ Len(buffer') <= MaxQueue
          /\ Len(buffer') = Len(buffer) + 1 /\ Len(buffer) \in Nat
          /\ \A i \in 1..Len(buffer): i \in 1..Len(buffer') /\ buffer'[i] = buffer[i]
          /\ \A i \in 1..Len(buffer'): i \in 1..Len(buffer) \/ i = Len(buffer')
          /\ Len(buffer') \in 1..Len(buffer') /\ buffer'[Len(buffer')] = new
          /\ \A e: Queued(e)' <=> Queued(e) \/ e = new
      BY <1>2, <1>a, <2>1, QueuedAfterPut
    <2>5. TypeOK'
      BY <1>2, <1>a, <1>b, <2>2, <2>4 DEF TypeOK, Put
    <2>6. CountFits'
      BY <1>2, <1>a, <1>b, <2>4 DEF CountFits, Put, TypeOK
    <2>7. EventsFit'
      <3>1. \A i \in 1..Len(buffer): buffer[i] # new
        BY <1>a, <2>1 DEF EventsFit, Waits
      <3>2. new \notin delivered /\ new \notin gone /\ new # held
        BY <1>a, <2>1 DEF EventsFit, Waits
      <3>3. \A i, j \in 1..Len(buffer'): buffer'[i] = buffer'[j] => i = j
        BY <1>a, <2>4, <3>1 DEF EventsFit
      <3>4. \A i \in 1..Len(buffer'):
              buffer'[i] # None =>
                /\ buffer'[i] \in Accepted' /\ buffer'[i] \notin delivered
                /\ buffer'[i] \notin gone /\ buffer'[i] # held
        BY <1>a, <2>3, <2>4, <3>2 DEF EventsFit, Waits
      <3>5. held # None => held \in Accepted' /\ held \notin delivered /\ held \notin gone
        BY <1>a, <2>3 DEF EventsFit, Waits
      <3>6. delivered \subseteq Accepted' /\ gone \subseteq Accepted'
        BY <1>a, <2>3 DEF EventsFit
      <3>. QED
        BY <1>b, <3>3, <3>4, <3>5, <3>6 DEF EventsFit, Waits
    <2>8. Vanished' = Vanished
      BY <1>b, <2>3, <2>4, <2>1 DEF Vanished, Accounted, Queued
    <2>9. PromiseFits'
      BY <1>a, <1>b, <2>1, <2>4 DEF PromiseFits
    <2>. QED
      BY <1>a, <1>b, <2>5, <2>6, <2>7, <2>8, <2>9, LossKept DEF AuditInv
  <1>. QED
    BY <1>1, <1>2 DEF RecordEvent

-----------------------------------------------------------------------------
(* The steps that leave the events alone.                                  *)
LEMMA EventsUntouched ==
  ASSUME AuditInv, TypeOK', PromiseFits',
         UNCHANGED <<recorded, queueVars, worker, held, delivered, gone>>
  PROVE  AuditInv'
PROOF
  <1>1. Accepted' = Accepted
    BY DEF Accepted
  <1>2. Vanished' = Vanished
    BY <1>1 DEF Vanished, Accounted, queueVars
  <1>3. CountFits' /\ EventsFit'
    BY <1>1 DEF AuditInv, CountFits, EventsFit, Waits, queueVars
  <1>. QED
    BY <1>2, <1>3, LossKept DEF AuditInv

LEMMA BuildKeeps == ASSUME AuditInv, Build PROVE AuditInv'
PROOF
  <1>1. /\ UNCHANGED <<recorded, queueVars, worker, held, delivered, gone>>
        /\ UNCHANGED promised /\ app = "building"
        /\ app' \in {"up", "failed"} /\ closing' \in {closing, "putting"}
    BY DEF Build, workerVars, closeVars
  <1>2. TypeOK'
    BY <1>1 DEF AuditInv, TypeOK, Build, queueVars
  <1>3. \A e: Queued(e)' <=> Queued(e)
    BY <1>1 DEF Queued, queueVars
  <1>4. closing = "open" /\ promised = {} /\ ~Queued(None) /\ worker # "ended"
    BY <1>1 DEF AuditInv, PromiseFits
  <1>5. PromiseFits'
    BY <1>1, <1>3, <1>4 DEF PromiseFits
  <1>. QED
    BY <1>1, <1>2, <1>5, EventsUntouched

(* While the thread lives, every accepted event is accounted for.          *)
LEMMA CloseKeeps == ASSUME AuditInv, Close PROVE AuditInv'
PROOF
  <1>1. /\ UNCHANGED <<recorded, queueVars, worker, held, delivered, gone>>
        /\ closing = "open" /\ closing' = "putting" /\ app' = "up"
        /\ promised' = Accepted \ gone
    BY DEF Close, workerVars
  <1>2. TypeOK'
    BY <1>1 DEF AuditInv, TypeOK, Accepted, Close, queueVars
  <1>3. \A e: Queued(e)' <=> Queued(e)
    BY <1>1 DEF Queued, queueVars
  <1>4. ~Queued(None) /\ worker # "ended"
    BY <1>1 DEF AuditInv, PromiseFits
  <1>5. worker = "dead" \/ \A e \in promised': e \in delivered \/ e = held \/ Queued(e)
    BY <1>1 DEF AuditInv, LossFits, Vanished, Accounted, Queued
  <1>6. PromiseFits'
    BY <1>1, <1>3, <1>4, <1>5 DEF PromiseFits
  <1>. QED
    BY <1>1, <1>2, <1>6, EventsUntouched

(* None is put once, behind everything that was promised.                  *)
LEMMA PutNoneKeeps == ASSUME AuditInv, PutNone PROVE AuditInv'
PROOF
  <1>a. TypeOK /\ CountFits /\ EventsFit /\ LossFits /\ PromiseFits
    BY DEF AuditInv
  <1>b. /\ UNCHANGED <<app, recorded, raised, worker, held, delivered, promised, gone, faults>>
        /\ closing = "putting" /\ closing' = "joining" /\ Put(None)
    BY DEF PutNone, workerVars
  <1>1. /\ buffer' \in Seq(AuditEvents \cup {None}) /\ Len(buffer') <= MaxQueue
        /\ Len(buffer') = Len(buffer) + 1 /\ Len(buffer) \in Nat
        /\ \A i \in 1..Len(buffer): i \in 1..Len(buffer') /\ buffer'[i] = buffer[i]
        /\ \A i \in 1..Len(buffer'): i \in 1..Len(buffer) \/ i = Len(buffer')
        /\ Len(buffer') \in 1..Len(buffer') /\ buffer'[Len(buffer')] = None
        /\ \A e: Queued(e)' <=> Queued(e) \/ e = None
    BY <1>a, <1>b, QueuedAfterPut
  <1>2. ~Queued(None) /\ worker # "ended" /\ None \notin AuditEvents
    BY <1>a, <1>b, NoneAssumption DEF PromiseFits, AuditEvents
  <1>3. Accepted' = Accepted
    BY <1>b DEF Accepted
  <1>4. TypeOK' /\ CountFits'
    BY <1>a, <1>b, <1>1 DEF TypeOK, CountFits, Put
  <1>5. EventsFit'
    <2>1. \A i, j \in 1..Len(buffer'): buffer'[i] = buffer'[j] => i = j
      BY <1>a, <1>1, <1>2 DEF EventsFit, Queued
    <2>2. \A i \in 1..Len(buffer'):
            buffer'[i] # None => buffer'[i] \in Accepted /\ buffer'[i] \notin delivered
                                   /\ buffer'[i] \notin gone /\ buffer'[i] # held
      BY <1>a, <1>1 DEF EventsFit, Waits
    <2>. QED
      BY <1>a, <1>b, <1>3, <2>1, <2>2 DEF EventsFit, Waits
  <1>6. Vanished' = Vanished
    BY <1>b, <1>1, <1>2, <1>3 DEF Vanished, Accounted, Queued
  <1>7. PromiseFits'
    <2>. DEFINE n == Len(buffer')
    <2>1. Len(buffer) = n - 1 /\ \A j \in 1..(n - 1): buffer'[j] = buffer[j]
      BY <1>1
    <2>2. worker = "dead" \/ \A e \in promised:
             e \in delivered \/ e = held \/ \E j \in 1..(n - 1): buffer'[j] = e
      BY <1>a, <1>b, <2>1 DEF PromiseFits, Queued
    <2>3. \E i \in 1..Len(buffer'):
            /\ buffer'[i] = None
            /\ worker = "dead" \/ \A e \in promised:
                 e \in delivered \/ e = held \/ \E j \in 1..(i - 1): buffer'[j] = e
      BY <1>1, <2>2
    <2>. QED
      BY <1>a, <1>b, <1>2, <2>3 DEF PromiseFits
  <1>. QED
    BY <1>a, <1>b, <1>4, <1>5, <1>6, <1>7, LossKept DEF AuditInv

(* The queue is done only when the thread has taken None.                  *)
LEMMA JoinKeeps == ASSUME AuditInv, Join PROVE AuditInv'
PROOF
  <1>1. /\ UNCHANGED <<app, recorded, queueVars, worker, held, delivered, promised, gone>>
        /\ closing = "joining" /\ closing' = "closed" /\ unfinished = 0
    BY DEF Join, AllDone, workerVars
  <1>2. TypeOK'
    BY <1>1 DEF AuditInv, TypeOK, Join, queueVars
  <1>3. Len(buffer) = 0 /\ \A e: ~Queued(e)
    <2>1. Len(buffer) \in Nat
      BY DEF AuditInv, TypeOK
    <2>2. Len(buffer) = 0
      BY <1>1, <2>1 DEF AuditInv, CountFits
    <2>. QED
      BY <2>2 DEF Queued
  <1>4. worker = "ended"
    BY <1>1, <1>3 DEF AuditInv, PromiseFits
  <1>5. promised \subseteq delivered /\ ~Queued(None)' /\ app # "building"
    BY <1>1, <1>3, <1>4 DEF AuditInv, PromiseFits, Queued, queueVars
  <1>6. PromiseFits'
    BY <1>1, <1>4, <1>5 DEF PromiseFits
  <1>. QED
    BY <1>1, <1>2, <1>6, EventsUntouched

-----------------------------------------------------------------------------
(* The delivery thread.                                                    *)
LEMMA TakeEventKeeps == ASSUME AuditInv, TakeEvent PROVE AuditInv'
PROOF
  <1>. DEFINE e0 == Head(buffer)
  <1>a. TypeOK /\ CountFits /\ EventsFit /\ LossFits /\ PromiseFits
    BY DEF AuditInv
  <1>b. /\ UNCHANGED <<app, recorded, raised, unfinished, delivered, closing, promised, gone, faults>>
        /\ worker = "waiting" /\ worker' = "delivering" /\ held' = e0
        /\ e0 # None /\ Len(buffer) > 0 /\ buffer' = Tail(buffer)
    BY DEF TakeEvent, closeVars
  <1>1. /\ buffer' \in Seq(AuditEvents \cup {None}) /\ Len(buffer') <= MaxQueue
        /\ Len(buffer') = Len(buffer) - 1 /\ Len(buffer) \in Nat
        /\ 1 \in 1..Len(buffer) /\ e0 = buffer[1]
        /\ e0 \in AuditEvents \cup {None}
        /\ \A i \in 1..Len(buffer'): i + 1 \in 1..Len(buffer) /\ buffer'[i] = buffer[i + 1]
        /\ \A i \in 1..Len(buffer):
             i = 1 \/ (i - 1 \in 1..Len(buffer') /\ buffer'[i - 1] = buffer[i])
        /\ \A e: Queued(e) <=> Queued(e)' \/ e = e0
    BY <1>a, <1>b, QueuedAfterTake
  <1>2. held = None /\ None \notin AuditEvents
    BY <1>a, <1>b, NoneAssumption DEF CountFits, AuditEvents
  <1>3. Accepted' = Accepted
    BY <1>b DEF Accepted
  <1>4. TypeOK' /\ CountFits'
    <2>1. TypeOK'
      BY <1>a, <1>b, <1>1 DEF TypeOK
    <2>. QED
      BY <1>a, <1>b, <1>1, <2>1 DEF CountFits
  <1>5. EventsFit'
    <2>1. \A i, j \in 1..Len(buffer'): buffer'[i] = buffer'[j] => i = j
      <3>1. SUFFICES ASSUME NEW i \in 1..Len(buffer'), NEW j \in 1..Len(buffer'),
                            buffer'[i] = buffer'[j]
                     PROVE  i = j
        OBVIOUS
      <3>2. i + 1 \in 1..Len(buffer) /\ j + 1 \in 1..Len(buffer) /\ buffer[i + 1] = buffer[j + 1]
        BY <1>1, <3>1
      <3>3. i + 1 = j + 1
        BY <1>a, <3>2 DEF EventsFit
      <3>. QED
        BY <1>1, <3>3
    <2>2. \A i \in 1..Len(buffer'): buffer'[i] # e0
      <3>1. SUFFICES ASSUME NEW i \in 1..Len(buffer'), buffer'[i] = e0 PROVE FALSE
        OBVIOUS
      <3>2. i + 1 \in 1..Len(buffer) /\ buffer[i + 1] = buffer[1]
        BY <1>1, <3>1
      <3>3. i + 1 = 1
        BY <1>1, <1>a, <3>2 DEF EventsFit
      <3>. QED
        BY <1>1, <3>3
    <2>3. \A i \in 1..Len(buffer'):
            buffer'[i] # None => buffer'[i] \in Accepted /\ buffer'[i] \notin delivered
                                   /\ buffer'[i] \notin gone
      BY <1>a, <1>1 DEF EventsFit, Waits
    <2>4. e0 \in Accepted /\ e0 \notin delivered /\ e0 \notin gone
      BY <1>a, <1>b, <1>1 DEF EventsFit, Waits
    <2>. QED
      BY <1>a, <1>b, <1>3, <2>1, <2>2, <2>3, <2>4 DEF EventsFit, Waits
  <1>6. Vanished' = Vanished
    <2>1. \A e \in AuditEvents: e = held' \/ Queued(e)' <=> e = held \/ Queued(e)
      BY <1>b, <1>1, <1>2
    <2>. QED
      BY <1>b, <1>3, <2>1 DEF Vanished, Accounted, Queued
  <1>7. PromiseFits'
    <2>1. closing' = "putting" =>
            \A e \in promised': e \in delivered' \/ e = held' \/ Queued(e)'
      BY <1>a, <1>b, <1>1, <1>2 DEF PromiseFits, TypeOK
    <2>2. closing' = "joining" =>
            \E i \in 1..Len(buffer'):
              /\ buffer'[i] = None
              /\ \A e \in promised':
                   e \in delivered' \/ e = held' \/ \E j \in 1..(i - 1): buffer'[j] = e
      <3>1. SUFFICES ASSUME closing = "joining"
                     PROVE  \E i \in 1..Len(buffer'):
                              /\ buffer'[i] = None
                              /\ \A e \in promised:
                                   e \in delivered \/ e = e0 \/ \E j \in 1..(i - 1): buffer'[j] = e
        BY <1>b
      <3>2. PICK i \in 1..Len(buffer):
              /\ buffer[i] = None
              /\ \A e \in promised:
                   e \in delivered \/ e = held \/ \E j \in 1..(i - 1): buffer[j] = e
        BY <1>a, <1>b, <3>1 DEF PromiseFits
      <3>3. i - 1 \in 1..Len(buffer') /\ buffer'[i - 1] = None
        BY <1>b, <1>1, <3>2
      <3>4. ASSUME NEW e \in promised, e \notin delivered, e # e0
            PROVE  \E j \in 1..(i - 2): buffer'[j] = e
        <4>1. PICK j \in 1..(i - 1): buffer[j] = e
          BY <1>2, <1>a, <3>2, <3>4 DEF TypeOK
        <4>2. j \in 1..Len(buffer) /\ j # 1
          BY <1>1, <3>2, <3>4, <4>1
        <4>3. buffer'[j - 1] = e /\ j - 1 \in 1..(i - 2)
          BY <1>1, <4>1, <4>2
        <4>. QED
          BY <4>3
      <3>5. (i - 1) - 1 = i - 2
        OBVIOUS
      <3>. QED
        BY <3>3, <3>4, <3>5
    <2>3. ~Queued(None) => ~Queued(None)'
      BY <1>1
    <2>. QED
      BY <1>a, <1>b, <2>1, <2>2, <2>3 DEF PromiseFits
  <1>. QED
    BY <1>a, <1>b, <1>4, <1>5, <1>6, <1>7, LossKept DEF AuditInv

(* The thread takes None only after all that lay before it.                *)
LEMMA TakeNoneKeeps == ASSUME AuditInv, TakeNone PROVE AuditInv'
PROOF
  <1>a. TypeOK /\ CountFits /\ EventsFit /\ LossFits /\ PromiseFits
    BY DEF AuditInv
  <1>b. /\ UNCHANGED <<app, recorded, raised, held, delivered, closing, promised, gone, faults>>
        /\ worker = "waiting" /\ worker' = "ended" /\ unfinished' = unfinished - 1
        /\ Head(buffer) = None /\ Len(buffer) > 0 /\ buffer' = Tail(buffer)
    BY DEF TakeNone, closeVars
  <1>1. /\ buffer' \in Seq(AuditEvents \cup {None}) /\ Len(buffer') <= MaxQueue
        /\ Len(buffer') = Len(buffer) - 1 /\ Len(buffer) \in Nat
        /\ 1 \in 1..Len(buffer) /\ Head(buffer) = buffer[1]
        /\ \A i \in 1..Len(buffer'): i + 1 \in 1..Len(buffer) /\ buffer'[i] = buffer[i + 1]
        /\ \A e: Queued(e) <=> Queued(e)' \/ e = Head(buffer)
    BY <1>a, <1>b, QueuedAfterTake
  <1>2. held = None /\ None \notin AuditEvents
    BY <1>a, <1>b, NoneAssumption DEF CountFits, AuditEvents
  <1>3. Accepted' = Accepted
    BY <1>b DEF Accepted
  <1>4. TypeOK' /\ CountFits'
    <2>1. unfinished = Len(buffer)
      BY <1>a, <1>b DEF CountFits
    <2>2. unfinished' = Len(buffer') /\ unfinished' \in Nat
      BY <1>1, <1>b, <2>1
    <2>3. TypeOK'
      BY <1>a, <1>b, <1>1, <2>2 DEF TypeOK
    <2>. QED
      BY <1>a, <1>b, <1>1, <1>2, <2>2, <2>3 DEF CountFits
  <1>5. \A i, j \in 1..Len(buffer'): buffer'[i] = buffer'[j] => i = j
    <2>1. SUFFICES ASSUME NEW i \in 1..Len(buffer'), NEW j \in 1..Len(buffer'),
                          buffer'[i] = buffer'[j]
                   PROVE  i = j
      OBVIOUS
    <2>2. i + 1 \in 1..Len(buffer) /\ j + 1 \in 1..Len(buffer) /\ buffer[i + 1] = buffer[j + 1]
      BY <1>1, <2>1
    <2>3. i + 1 = j + 1
      BY <1>a, <2>2 DEF EventsFit
    <2>. QED
      BY <1>1, <2>3
  <1>6. ~Queued(None)'
    <2>1. SUFFICES ASSUME NEW i \in 1..Len(buffer'), buffer'[i] = None PROVE FALSE
      BY DEF Queued
    <2>2. i + 1 \in 1..Len(buffer) /\ buffer[i + 1] = buffer[1]
      BY <1>b, <1>1, <2>1
    <2>3. i + 1 = 1
      BY <1>1, <1>a, <2>2 DEF EventsFit
    <2>. QED
      BY <1>1, <2>3
  <1>7. EventsFit'
    <2>1. \A i \in 1..Len(buffer'):
            buffer'[i] # None => buffer'[i] \in Accepted /\ buffer'[i] \notin delivered
                                   /\ buffer'[i] \notin gone /\ buffer'[i] # held
      BY <1>a, <1>1 DEF EventsFit, Waits
    <2>. QED
      BY <1>a, <1>b, <1>3, <1>5, <2>1 DEF EventsFit, Waits
  <1>8. Vanished' = Vanished
    <2>1. \A e \in AuditEvents: Queued(e)' <=> Queued(e)
      BY <1>b, <1>1, <1>2
    <2>. QED
      BY <1>b, <1>3, <2>1 DEF Vanished, Accounted, Queued
  <1>9. PromiseFits'
    <2>1. Queued(None)
      BY <1>b, <1>1
    <2>2. closing = "joining"
      BY <1>a, <1>b, <2>1 DEF PromiseFits, TypeOK
    <2>3. PICK i \in 1..Len(buffer):
            /\ buffer[i] = None
            /\ \A e \in promised:
                 e \in delivered \/ e = held \/ \E j \in 1..(i - 1): buffer[j] = e
      BY <1>a, <1>b, <2>2 DEF PromiseFits
    <2>4. i = 1
      BY <1>a, <1>b, <1>1, <2>3 DEF EventsFit
    <2>5. promised \subseteq delivered
      BY <1>a, <1>2, <2>3, <2>4 DEF TypeOK
    <2>. QED
      BY <1>b, <1>6, <2>2, <2>5, <1>a DEF PromiseFits
  <1>. QED
    BY <1>a, <1>b, <1>4, <1>7, <1>8, <1>9, LossKept DEF AuditInv

(* What the thread leaves of an event it is done with.                     *)
LEMMA DoneFacts ==
  ASSUME AuditInv, TaskDone
  PROVE  /\ held \in AuditEvents /\ Waits(held) /\ ~Queued(held) /\ Vanished = {}
         /\ Accepted' = Accepted /\ \A e: Queued(e)' <=> Queued(e)
         /\ unfinished' = Len(buffer) /\ Len(buffer) \in Nat /\ held' = None
         /\ UNCHANGED <<app, recorded, raised, buffer, closing, promised, gone>>
         /\ worker = "delivering"
PROOF
  <1>1. /\ UNCHANGED <<app, recorded, raised, buffer, closing, promised, gone>>
        /\ worker = "delivering" /\ held' = None /\ unfinished' = unfinished - 1
    BY DEF TaskDone, closeVars
  <1>2. held # None /\ unfinished = Len(buffer) + 1 /\ Len(buffer) \in Nat
    BY <1>1 DEF AuditInv, CountFits, TypeOK
  <1>3. held \in AuditEvents /\ Waits(held)
    BY <1>2 DEF AuditInv, TypeOK, EventsFit
  <1>4. ~Queued(held)
    BY <1>2 DEF AuditInv, EventsFit, Queued
  <1>5. Vanished = {}
    BY <1>1 DEF AuditInv, LossFits
  <1>6. Accepted' = Accepted /\ \A e: Queued(e)' <=> Queued(e)
    BY <1>1 DEF Accepted, Queued
  <1>7. unfinished' = Len(buffer)
    BY <1>1, <1>2
  <1>. QED
    BY <1>1, <1>2, <1>3, <1>4, <1>5, <1>6, <1>7

LEMMA DeliverKeeps == ASSUME AuditInv, Deliver PROVE AuditInv'
PROOF
  <1>a. TypeOK /\ CountFits /\ EventsFit /\ LossFits /\ PromiseFits
    BY DEF AuditInv
  <1>b. /\ held \in AuditEvents /\ Waits(held) /\ ~Queued(held) /\ Vanished = {}
        /\ Accepted' = Accepted /\ \A e: Queued(e)' <=> Queued(e)
        /\ unfinished' = Len(buffer) /\ Len(buffer) \in Nat /\ held' = None
        /\ UNCHANGED <<app, recorded, raised, buffer, closing, promised, gone>>
        /\ worker = "delivering"
    BY DoneFacts DEF Deliver
  <1>c. worker' = "waiting" /\ delivered' = delivered \cup {held} /\ UNCHANGED faults
    BY DEF Deliver
  <1>1. TypeOK' /\ CountFits'
    BY <1>a, <1>b, <1>c DEF TypeOK, CountFits
  <1>2. EventsFit'
    BY <1>a, <1>b, <1>c DEF EventsFit, Waits, Queued
  <1>3. LossFits'
    <2>1. Vanished' = {}
      BY <1>b, <1>c DEF Vanished, Accounted
    <2>. QED
      BY <1>c, <2>1 DEF LossFits
  <1>4. PromiseFits'
    <2>1. closing' = "putting" =>
            \A e \in promised': e \in delivered' \/ e = held' \/ Queued(e)'
      BY <1>a, <1>b, <1>c DEF PromiseFits
    <2>2. closing' = "joining" =>
            \E i \in 1..Len(buffer'):
              /\ buffer'[i] = None
              /\ \A e \in promised':
                   e \in delivered' \/ e = held' \/ \E j \in 1..(i - 1): buffer'[j] = e
      BY <1>a, <1>b, <1>c DEF PromiseFits
    <2>. QED
      BY <1>a, <1>b, <1>c, <2>1, <2>2 DEF PromiseFits
  <1>. QED
    BY <1>1, <1>2, <1>3, <1>4 DEF AuditInv

(* The event the sink raised on is the one that is lost.                   *)
LEMMA SinkRaisesKeeps == ASSUME AuditInv, SinkRaises PROVE AuditInv'
PROOF
  <1>a. TypeOK /\ CountFits /\ EventsFit /\ LossFits /\ PromiseFits
    BY DEF AuditInv
  <1>b. /\ held \in AuditEvents /\ Waits(held) /\ ~Queued(held) /\ Vanished = {}
        /\ Accepted' = Accepted /\ \A e: Queued(e)' <=> Queued(e)
        /\ unfinished' = Len(buffer) /\ Len(buffer) \in Nat /\ held' = None
        /\ UNCHANGED <<app, recorded, raised, buffer, closing, promised, gone>>
        /\ worker = "delivering"
    BY DoneFacts DEF SinkRaises
  <1>c. worker' = "dead" /\ UNCHANGED delivered /\ faults < MaxFaults /\ faults' = faults + 1
    BY DEF SinkRaises, Fault
  <1>1. TypeOK' /\ CountFits'
    <2>1. faults' \in 0..MaxFaults
      BY <1>a, <1>c, BoundsAssumption DEF TypeOK
    <2>. QED
      BY <1>a, <1>b, <1>c, <2>1 DEF TypeOK, CountFits
  <1>2. EventsFit'
    BY <1>a, <1>b, <1>c DEF EventsFit, Waits
  <1>3. LossFits'
    <2>1. None \notin AuditEvents
      BY NoneAssumption DEF AuditEvents
    <2>2. Vanished' = {held}
      BY <1>b, <1>c, <2>1 DEF Vanished, Accounted, Waits, Queued
    <2>. QED
      BY <1>b, <1>c, <2>2 DEF LossFits
  <1>4. PromiseFits'
    BY <1>a, <1>b, <1>c DEF PromiseFits
  <1>. QED
    BY <1>1, <1>2, <1>3, <1>4 DEF AuditInv

LEMMA CrashKeeps == ASSUME AuditInv, Crash PROVE AuditInv'
PROOF
  <1>1. /\ app = "up" /\ faults < MaxFaults /\ faults' = faults + 1
        /\ buffer' = <<>> /\ unfinished' = 0 /\ worker' = "waiting" /\ held' = None
        /\ closing' = "open" /\ promised' = {}
        /\ gone' = gone \cup (Accepted \ delivered)
        /\ UNCHANGED <<app, recorded, raised, delivered>>
    BY DEF Crash, Fault
  <1>2. Accepted' = Accepted /\ Accepted \subseteq AuditEvents
    BY <1>1 DEF Accepted
  <1>3. Len(buffer') = 0 /\ ~Queued(None)'
    BY <1>1 DEF Queued
  <1>4. TypeOK'
    <2>1. faults' \in 0..MaxFaults
      BY <1>1, BoundsAssumption DEF AuditInv, TypeOK
    <2>. QED
      BY <1>1, <1>2, <1>3, <2>1, BoundsAssumption DEF AuditInv, TypeOK
  <1>5. CountFits' /\ EventsFit'
    BY <1>1, <1>2, <1>3 DEF AuditInv, CountFits, EventsFit
  <1>6. LossFits'
    BY <1>1, <1>2 DEF LossFits, Vanished, Accounted
  <1>7. PromiseFits'
    BY <1>1, <1>3 DEF PromiseFits
  <1>. QED
    BY <1>4, <1>5, <1>6, <1>7 DEF AuditInv

LEMMA AuditInvKept == AuditInv /\ [Next]_vars => AuditInv'
PROOF
  <1>1. ASSUME AuditInv, UNCHANGED vars PROVE AuditInv'
    <2>1. TypeOK' /\ PromiseFits'
      BY <1>1 DEF AuditInv, TypeOK, PromiseFits, Queued, vars, queueVars, workerVars, closeVars
    <2>. QED
      BY <1>1, <2>1, EventsUntouched DEF vars, workerVars, closeVars
  <1>. QED
    BY <1>1, RecordKeeps, BuildKeeps, CloseKeeps, PutNoneKeeps, JoinKeeps, TakeEventKeeps,
       TakeNoneKeeps, DeliverKeeps, SinkRaisesKeeps, CrashKeeps
       DEF Next, Worker

LEMMA AuditInvAlways == Spec => []AuditInv
PROOF
  <1>. QED
    BY InitHolds, AuditInvKept, PTL DEF Spec

-----------------------------------------------------------------------------
(* Every variable of the sink keeps its type; the queue is never fuller    *)
(* than max_queue.                                                         *)
THEOREM TypeCorrect == Spec => []TypeOK
PROOF
  <1>1. AuditInv => TypeOK
    BY DEF AuditInv
  <1>. QED
    BY <1>1, AuditInvAlways, PTL

(* close() returns only when the sink has taken every event accepted       *)
(* before close() was called.                                              *)
THEOREM CloseDelivers == Spec => []CloseFlushes
PROOF
  <1>1. AuditInv => CloseFlushes
    BY DEF AuditInv, PromiseFits, CloseFlushes
  <1>. QED
    BY <1>1, AuditInvAlways, PTL

(* No accepted event vanishes: the one that killed the thread is the only  *)
(* one that is neither delivered, nor on its way, nor lost in a crash.     *)
THEOREM NothingLost == Spec => []NothingVanishes
PROOF
  <1>1. AuditInv => NothingVanishes
    BY FS_EmptySet, FS_Singleton DEF AuditInv, LossFits, NothingVanishes
  <1>. QED
    BY <1>1, AuditInvAlways, PTL

=============================================================================
