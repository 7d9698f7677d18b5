------------------------ MODULE EventDispatcherProofs ------------------------
(***************************************************************************)
(* Proofs about TimedEventQueue, for every tolerance, clock resolution,    *)
(* start time and set of event times and for any number of events, and     *)
(* about EventDispatcher: what the discipline of run() adds to the         *)
(* guarantees of the queue, for any predictor and any number of            *)
(* subscribers.                                                            *)
(***************************************************************************)
EXTENDS EventDispatcher, SequenceTheorems, TLAPS

-----------------------------------------------------------------------------
(* Lists.                                                                  *)

(* What list insertion, the last line of push(), does to a sequence.       *)
LEMMA InsertAtProperties ==
    ASSUME NEW S, NEW q \in Seq(S), NEW e \in S, NEW k \in 1..(Len(q) + 1)
    PROVE  /\ InsertAt(q, k, e) \in Seq(S)
           /\ Len(InsertAt(q, k, e)) = Len(q) + 1
           /\ \A i \in 1..(Len(q) + 1) :
                InsertAt(q, k, e)[i] = IF i < k THEN q[i]
                                       ELSE IF i = k THEN e ELSE q[i - 1]
<1> DEFINE front == SubSeq(q, 1, k - 1)
           back == SubSeq(q, k, Len(q))
           left == front \o <<e>>
<1>0. Len(q) \in Nat /\ k \in Int
  OBVIOUS
<1>1. /\ front \in Seq(S)
      /\ Len(front) = k - 1
      /\ \A i \in 1..(k - 1) : front[i] = q[i]
  OBVIOUS
<1>2. /\ back \in Seq(S)
      /\ Len(back) = Len(q) - k + 1
      /\ \A i \in 1..(Len(q) - k + 1) : back[i] = q[k + i - 1]
  OBVIOUS
<1>3. /\ left \in Seq(S)
      /\ Len(left) = k
      /\ \A i \in 1..k : left[i] = IF i < k THEN q[i] ELSE e
  <2> HIDE DEF front
  <2> QED BY <1>1
<1>4. InsertAt(q, k, e) = left \o back
  BY DEF InsertAt
<1> HIDE DEF left, back
<1>5. /\ left \o back \in Seq(S)
      /\ Len(left \o back) = Len(q) + 1
      /\ \A i \in 1..(Len(q) + 1) :
           (left \o back)[i] = IF i <= k THEN left[i] ELSE back[i - k]
  <2>1. /\ left \o back \in Seq(S)
        /\ Len(left \o back) = Len(left) + Len(back)
        /\ \A i \in 1..(Len(left) + Len(back)) :
             (left \o back)[i] = IF i <= Len(left) THEN left[i]
                                 ELSE back[i - Len(left)]
    BY <1>2, <1>3, ConcatProperties
  <2>2. Len(left) = k /\ Len(left) + Len(back) = Len(q) + 1
    BY <1>0, <1>2, <1>3
  <2> QED BY <2>1, <2>2
<1>6. ASSUME NEW i \in 1..(Len(q) + 1)
      PROVE  (left \o back)[i] = IF i < k THEN q[i]
                                 ELSE IF i = k THEN e ELSE q[i - 1]
  <2>1. CASE i <= k
    BY <2>1, <1>3, <1>5
  <2>2. CASE i > k
    <3>1. i - k \in 1..(Len(q) - k + 1)
      BY <2>2
    <3>2. (left \o back)[i] = back[i - k]
      BY <2>2, <1>5
    <3>3. back[i - k] = q[k + (i - k) - 1]
      BY <3>1, <1>2
    <3> QED BY <2>2, <3>2, <3>3
  <2>3. i <= k \/ i > k
    BY <1>0
  <2> QED BY <2>1, <2>2, <2>3
<1> QED
  BY <1>4, <1>5, <1>6

(* What erase(begin()) and pop_front() do to a sequence.                   *)
LEMMA TailProperties ==
    ASSUME NEW S, NEW q \in Seq(S), q # <<>>
    PROVE  /\ Tail(q) \in Seq(S)
           /\ Head(q) \in S
           /\ Head(q) = q[1]
           /\ Len(q) \in Nat \ {0}
           /\ Len(Tail(q)) = Len(q) - 1
           /\ \A i \in 1..(Len(q) - 1) : Tail(q)[i] = q[i + 1]
  OBVIOUS

(* The entries of a queue are records with the declared fields.            *)
LEMMA EntryFields ==
    ASSUME NEW q \in Seq(Entry), NEW i \in 1..Len(q)
    PROVE  /\ q[i] \in Entry
           /\ q[i].id \in Nat
           /\ q[i].time \in Int
           /\ q[i].predicted \in BOOLEAN
<1>1. q[i] \in Entry
  BY ElementOfSeq
<1> QED BY <1>1 DEF Entry

(* The front of a queue is its first entry.                                *)
LEMMA FrontEntry ==
    ASSUME NEW q \in Seq(Entry), q # <<>>
    PROVE  /\ 1 \in 1..Len(q)
           /\ Head(q) = q[1]
           /\ q[1] \in Entry
           /\ q[1].time \in Int
           /\ IsPrediction(q) <=> q[1].predicted
<1>1. 1 \in 1..Len(q) /\ Head(q) = q[1]
  BY TailProperties
<1> QED BY <1>1, EntryFields DEF IsPrediction

(* Erasing the front entry keeps the queue consistent and ordered, and     *)
(* leaves no prediction behind.                                            *)
LEMMA TailPreserves ==
    ASSUME NEW q \in Seq(Entry), q # <<>>,
           isQueuePredictionConsistent(q), InOrder(q)
    PROVE  /\ Tail(q) \in Seq(Entry)
           /\ isQueuePredictionConsistent(Tail(q))
           /\ InOrder(Tail(q))
           /\ \A i \in 1..Len(Tail(q)) : ~Tail(q)[i].predicted
<1>1. /\ Len(q) \in Nat
      /\ Tail(q) \in Seq(Entry)
      /\ Len(Tail(q)) = Len(q) - 1
      /\ \A i \in 1..(Len(q) - 1) : Tail(q)[i] = q[i + 1]
  BY TailProperties
<1>2. ASSUME NEW i \in 1..Len(Tail(q))
      PROVE  Tail(q)[i] = q[i + 1] /\ i + 1 \in 2..Len(q)
  BY <1>1
<1>3. \A i \in 1..Len(Tail(q)) : ~Tail(q)[i].predicted
  BY <1>2 DEF isQueuePredictionConsistent
<1>4. isQueuePredictionConsistent(Tail(q))
  BY <1>1, <1>3 DEF isQueuePredictionConsistent
<1>5. InOrder(Tail(q))
  <2> SUFFICES ASSUME NEW i \in 1..Len(Tail(q)), NEW j \in 1..Len(Tail(q)),
                      i < j, ~Tail(q)[i].predicted
               PROVE  Tail(q)[i].time <= Tail(q)[j].time + Eps
    BY DEF InOrder
  <2>1. Tail(q)[i] = q[i + 1] /\ Tail(q)[j] = q[j + 1]
    BY <1>2
  <2>2. i + 1 \in 1..Len(q) /\ j + 1 \in 1..Len(q) /\ i + 1 < j + 1
    BY <1>1, <1>2
  <2> QED BY <2>1, <2>2 DEF InOrder
<1> QED BY <1>1, <1>3, <1>4, <1>5
-----------------------------------------------------------------------------
(* The steps of add().                                                     *)

(* removeFuturPredictions() leaves a well-formed queue whose prediction,   *)
(* if there still is one, is not later than the new event by more than Eps.*)
LEMMA RemoveFuturPreserves ==
    ASSUME NEW q \in Seq(Entry), NEW time \in Int,
           isQueuePredictionConsistent(q), InOrder(q),
           NEW r, r = removeFuturPredictions(q, time)
    PROVE  /\ r \in Seq(Entry)
           /\ isQueuePredictionConsistent(r)
           /\ InOrder(r)
           /\ IsPrediction(r) => r = q /\ r[1].time <= time + Eps
<1>1. CASE IsPrediction(q) /\ Head(q).time > time + Eps
  <2>1. r = Tail(q) /\ q # <<>>
    BY <1>1 DEF removeFuturPredictions, IsPrediction
  <2>2. ~IsPrediction(r)
    BY <2>1, TailPreserves, TailProperties DEF IsPrediction
  <2> QED BY <2>1, <2>2, TailPreserves
<1>2. CASE ~(IsPrediction(q) /\ Head(q).time > time + Eps)
  <2>1. r = q
    BY <1>2 DEF removeFuturPredictions
  <2>2. IsPrediction(q) => q[1].time <= time + Eps
    BY <1>2, FrontEntry, EpsAssumption DEF IsPrediction
  <2> QED BY <2>1, <2>2
<1> QED BY <1>1, <1>2

(* Once it is known that no prior event forbids a new prediction,          *)
(* removeConcurrentPrediction() removes whatever prediction is left: this  *)
(* is the first assertion of push().                                       *)
LEMMA RemoveConcurrentClears ==
    ASSUME NEW q \in Seq(Entry), NEW time \in Int,
           isQueuePredictionConsistent(q), InOrder(q),
           IsPrediction(q) => q[1].time <= time + Eps,
           ~hasPriorEvents(q, time),
           NEW r, r = removeConcurrentPrediction(q, time)
    PROVE  /\ r \in Seq(Entry)
           /\ isQueuePredictionConsistent(r)
           /\ InOrder(r)
           /\ ~IsPrediction(r)
<1>1. CASE IsPrediction(q)
  <2>1. q # <<>> /\ Head(q) = q[1] /\ Head(q).time \in Int
    BY <1>1, FrontEntry DEF IsPrediction
  <2>2. Head(q).time - time <= Eps /\ time - Head(q).time <= Eps
    BY <1>1, <2>1, EpsAssumption DEF hasPriorEvents
  <2>3. r = Tail(q)
    BY <1>1, <2>2 DEF removeConcurrentPrediction
  <2>4. ~IsPrediction(r)
    <3>1. Tail(q) \in Seq(Entry) /\ \A i \in 1..Len(Tail(q)) : ~Tail(q)[i].predicted
      BY <2>1, TailPreserves
    <3> QED BY <2>3, <3>1, FrontEntry DEF IsPrediction
  <2> QED BY <2>1, <2>3, <2>4, TailPreserves
<1>2. CASE ~IsPrediction(q)
  BY <1>2 DEF removeConcurrentPrediction
<1> QED BY <1>1, <1>2

(* push() keeps the queue consistent and ordered.  An external event never *)
(* slips in front of a prediction, because every prediction that is later  *)
(* than it by more than Eps has been removed before.                       *)
LEMMA PushPreserves ==
    ASSUME NEW q \in Seq(Entry), NEW ev \in Entry,
           isQueuePredictionConsistent(q), InOrder(q),
           IF ev.predicted THEN ~IsPrediction(q)
                           ELSE IsPrediction(q) => q[1].time <= ev.time + Eps,
           NEW pos \in pushPositions(q, ev),
           NEW r, r = InsertAt(q, pos, ev)
    PROVE  /\ r \in Seq(Entry)
           /\ isQueuePredictionConsistent(r)
           /\ InOrder(r)
<1>0. Len(q) \in Nat /\ ev.time \in Int /\ pos \in 1..(Len(q) + 1) /\ Eps \in Nat
  BY EpsAssumption DEF pushPositions, Entry
<1>1. /\ r \in Seq(Entry)
      /\ Len(r) = Len(q) + 1
      /\ \A i \in 1..(Len(q) + 1) :
           r[i] = IF i < pos THEN q[i] ELSE IF i = pos THEN ev ELSE q[i - 1]
  BY <1>0, InsertAtProperties
<1>2. \A i \in 1..Len(q) : q[i] \in Entry /\ q[i].time \in Int
  BY EntryFields
<1>3. q # <<>> => (IsPrediction(q) <=> q[1].predicted)
  BY FrontEntry
<1>4. isQueuePredictionConsistent(r)
  <2> SUFFICES ASSUME NEW i \in 2..(Len(q) + 1)
               PROVE  ~r[i].predicted
    BY <1>1 DEF isQueuePredictionConsistent
  <2>1. CASE i < pos
    BY <2>1, <1>0, <1>1 DEF isQueuePredictionConsistent
  <2>2. CASE i = pos
    BY <2>2, <1>0, <1>1 DEF pushPositions
  <2>3. CASE i > pos
    <3>1. r[i] = q[i - 1] /\ i - 1 \in 1..Len(q)
      BY <2>3, <1>0, <1>1
    <3>2. CASE i - 1 \in 2..Len(q)
      BY <3>1, <3>2 DEF isQueuePredictionConsistent
    <3>3. CASE i - 1 = 1
      <4>1. pos = 1 /\ q # <<>>
        BY <2>3, <3>1, <3>3, <1>0
      <4>2. CASE ev.predicted
        BY <3>1, <3>3, <4>1, <4>2, <1>3
      <4>3. CASE ~ev.predicted
        BY <3>1, <3>3, <4>1, <4>3, <1>0, <1>2, <1>3 DEF pushPositions
      <4> QED BY <4>2, <4>3
    <3> QED BY <3>1, <3>2, <3>3, <1>0
  <2> QED BY <2>1, <2>2, <2>3, <1>0
<1>5. InOrder(r)
  <2> SUFFICES ASSUME NEW i \in 1..(Len(q) + 1), NEW j \in 1..(Len(q) + 1),
                      i < j, ~r[i].predicted
               PROVE  r[i].time <= r[j].time + Eps
    BY <1>1 DEF InOrder
  <2>1. CASE i # pos /\ j # pos
    <3> DEFINE a == IF i < pos THEN i ELSE i - 1
               b == IF j < pos THEN j ELSE j - 1
    <3>1. a \in 1..Len(q) /\ b \in 1..Len(q) /\ a < b
      BY <2>1, <1>0
    <3>2. r[i] = q[a] /\ r[j] = q[b]
      BY <2>1, <1>1
    <3> HIDE DEF a, b
    <3> QED BY <3>1, <3>2 DEF InOrder
  <2>2. CASE j = pos
    <3>1. ~ev.predicted
      BY <2>2, <1>0 DEF pushPositions
    <3>2. r[i] = q[i] /\ r[j] = ev /\ i \in 1..(pos - 1)
      BY <2>2, <1>0, <1>1
    <3> QED BY <3>1, <3>2 DEF pushPositions
  <2>3. CASE i = pos
    <3>1. ~ev.predicted /\ r[i] = ev
      BY <2>3, <1>1
    <3>2. /\ r[j] = q[j - 1]
          /\ j - 1 \in 1..Len(q)
          /\ pos \in 1..Len(q)
          /\ pos <= j - 1
      BY <2>3, <1>0, <1>1
    <3>3. q[pos].time > ev.time + Eps
      BY <3>1, <3>2 DEF pushPositions
    <3>4. CASE pos = j - 1
      BY <3>1, <3>2, <3>3, <3>4, <1>0, <1>2
    <3>5. CASE pos < j - 1
      <4>1. ~q[pos].predicted
        BY <3>1, <3>2, <3>3, <1>0, <1>2, <1>3 DEF isQueuePredictionConsistent
      <4>2. q[pos].time <= q[j - 1].time + Eps
        BY <3>2, <3>5, <4>1 DEF InOrder
      <4>3. q[pos].time \in Int /\ q[j - 1].time \in Int
        BY <3>2, <1>2
      <4>4. ev.time <= q[j - 1].time + Eps
        BY <3>3, <4>2, <4>3, <1>0
      <4> QED BY <3>1, <3>2, <4>4
    <3> QED BY <3>2, <3>4, <3>5, <1>0
  <2> QED BY <2>1, <2>2, <2>3
<1> QED BY <1>1, <1>4, <1>5

-----------------------------------------------------------------------------
(* The invariant of the queue.                                             *)

(* The part of the state that decides which events get() returns.          *)
QueueInv ==
    /\ TypeOK
    /\ PredictionConsistent
    /\ ExternalsOrdered
    /\ NothingBeforeInit

(* add() as a whole, whoever calls it and whatever the time of the event.  *)
LEMMA AddPreservesQueue ==
    ASSUME TypeOK, PredictionConsistent, ExternalsOrdered,
           NEW time \in Int, NEW predicted \in BOOLEAN, add(time, predicted)
    PROVE  TypeOK' /\ PredictionConsistent' /\ ExternalsOrdered'
<1> DEFINE ev == [id |-> nextId, time |-> time, predicted |-> predicted]
           kept == removeFuturPredictions(queue, time)
           rest == IF ev.predicted THEN removeConcurrentPrediction(kept, ev.time)
                                   ELSE kept
<1>1. ev \in Entry /\ ev.time = time /\ ev.predicted = predicted
  BY DEF TypeOK, Entry
<1>2. /\ kept \in Seq(Entry)
      /\ isQueuePredictionConsistent(kept)
      /\ InOrder(kept)
      /\ IsPrediction(kept) => kept[1].time <= time + Eps
  BY RemoveFuturPreserves DEF TypeOK, PredictionConsistent, ExternalsOrdered
<1>3. /\ refuseOutdated(ev, kept) \/ acceptEvent(ev, kept)
      /\ nextId' = nextId + 1
      /\ UNCHANGED <<localEpoch, initPhase, initialized, clock, wakeAt, returned>>
  BY DEF add
<1> HIDE DEF ev, kept
<1>4. CASE refuseOutdated(ev, kept)
  <2>1. queue' = kept /\ getter' = getter
    BY <1>4 DEF refuseOutdated
  <2>2. outdated' \subseteq Entry
    <3>1. ToSet(queue) \subseteq Entry
      BY DEF TypeOK, ToSet
    <3> QED BY <1>1, <1>4, <3>1 DEF refuseOutdated, TypeOK
  <2>3. TypeOK'
    BY <1>2, <1>3, <2>1, <2>2 DEF TypeOK
  <2> QED
    BY <1>2, <2>1, <2>3 DEF PredictionConsistent, ExternalsOrdered
<1>5. CASE acceptEvent(ev, kept)
  <2>1. ~(ev.predicted /\ hasPriorEvents(kept, ev.time))
    BY <1>5 DEF acceptEvent
  <2>2. /\ rest \in Seq(Entry)
        /\ isQueuePredictionConsistent(rest)
        /\ InOrder(rest)
        /\ IF ev.predicted THEN ~IsPrediction(rest)
                           ELSE IsPrediction(rest) => rest[1].time <= ev.time + Eps
    <3>1. CASE ev.predicted
      BY <3>1, <1>1, <1>2, <2>1, RemoveConcurrentClears
    <3>2. CASE ~ev.predicted
      BY <3>2, <1>1, <1>2
    <3> QED BY <3>1, <3>2
  <2>3. PICK pos \in pushPositions(rest, ev) : queue' = InsertAt(rest, pos, ev)
    BY <1>5 DEF acceptEvent
  <2>4. /\ outdated' = outdated \cup (ToSet(queue) \ ToSet(rest))
        /\ getter' = notified(getter)
    BY <1>5 DEF acceptEvent
  <2> HIDE DEF rest
  <2>5. /\ queue' \in Seq(Entry)
        /\ isQueuePredictionConsistent(queue')
        /\ InOrder(queue')
    BY <1>1, <2>2, <2>3, PushPreserves
  <2>6. outdated' \subseteq Entry
    <3>1. ToSet(queue) \subseteq Entry
      BY DEF TypeOK, ToSet
    <3> QED BY <2>4, <3>1 DEF TypeOK
  <2>7. getter' \in GetterStates
    BY <2>4 DEF notified, GetterStates, TypeOK
  <2>8. TypeOK'
    BY <1>3, <2>5, <2>6, <2>7 DEF TypeOK
  <2> QED
    BY <2>5, <2>8 DEF PredictionConsistent, ExternalsOrdered
<1> QED BY <1>3, <1>4, <1>5
(* initStartTimeNow() preserves the invariant.                             *)
LEMMA StartUpPreservesQueue ==
    ASSUME QueueInv, startUp
    PROVE  QueueInv'
<1>1. UNCHANGED <<queue, clock, getter, wakeAt, returned, outdated, nextId>>
  BY DEF startUp, setPreliminaryEpoch, correctEpoch, notifyInitialized
<1>2. /\ initPhase' \in InitPhases
      /\ initialized' \in BOOLEAN
      /\ initialized' <=> initPhase' = "done"
  <2>1. initialized \in BOOLEAN /\ (initialized <=> initPhase = "done")
    BY DEF QueueInv, TypeOK, NothingBeforeInit
  <2>2. CASE setPreliminaryEpoch
    BY <2>1, <2>2 DEF setPreliminaryEpoch, InitPhases
  <2>3. CASE correctEpoch
    BY <2>1, <2>3 DEF correctEpoch, InitPhases
  <2>4. CASE notifyInitialized
    BY <2>4 DEF notifyInitialized, InitPhases
  <2> QED BY <2>2, <2>3, <2>4 DEF startUp
<1>3. localEpoch' \in Int
  <2>1. getRelativeTime(StartTime) \in Int
    BY StartTimeAssumption, ResolutionAssumption DEF getRelativeTime
  <2>2. CASE setPreliminaryEpoch
    BY <2>2 DEF setPreliminaryEpoch, QueueInv, TypeOK
  <2>3. CASE correctEpoch
    BY <2>1, <2>3 DEF correctEpoch, QueueInv, TypeOK
  <2>4. CASE notifyInitialized
    BY <2>4 DEF notifyInitialized, QueueInv, TypeOK
  <2> QED BY <2>2, <2>3, <2>4 DEF startUp
<1>4. ~initialized
  BY DEF startUp, setPreliminaryEpoch, correctEpoch, notifyInitialized,
         QueueInv, NothingBeforeInit
<1>5. TypeOK'
  BY <1>1, <1>2, <1>3 DEF QueueInv, TypeOK
<1>6. NothingBeforeInit'
  BY <1>1, <1>2, <1>4 DEF QueueInv, NothingBeforeInit
<1> QED
  BY <1>1, <1>5, <1>6 DEF QueueInv, PredictionConsistent, ExternalsOrdered

(* add() preserves the invariant.                                          *)
LEMMA AddPreservesInv ==
    ASSUME QueueInv, NEW time \in Int, NEW predicted \in BOOLEAN,
           add(time, predicted)
    PROVE  QueueInv'
<1>1. TypeOK' /\ PredictionConsistent' /\ ExternalsOrdered'
  BY AddPreservesQueue DEF QueueInv
<1>2. initialized /\ UNCHANGED <<initPhase, initialized>>
  BY DEF add, waitIfUninitialized
<1>3. NothingBeforeInit'
  BY <1>2 DEF NothingBeforeInit, QueueInv
<1> QED BY <1>1, <1>3 DEF QueueInv

(* The steps of get() that leave the list alone, the condition variable    *)
(* and the clock preserve the invariant.                                   *)
LEMMA WaitingPreservesQueue ==
    ASSUME QueueInv,
           \/ getEnter \/ getWait \/ getTimedWait
           \/ timeout \/ spuriousWakeup \/ Tick
    PROVE  QueueInv'
<1>1. UNCHANGED <<queue, localEpoch, initPhase, initialized, returned,
                  outdated, nextId>>
  BY DEF getEnter, getWait, getTimedWait, timeout, spuriousWakeup, Tick
<1>2. getter' \in GetterStates
  BY DEF getEnter, getWait, getTimedWait, timeout, spuriousWakeup, Tick,
         QueueInv, TypeOK, GetterStates
<1>3. clock' \in Int
  BY DEF getEnter, getWait, getTimedWait, timeout, spuriousWakeup, Tick,
         QueueInv, TypeOK
<1>4. wakeAt' \in Int
  <2>1. CASE getTimedWait
    <3>1. queue # <<>> /\ wakeAt' = getSystemTime(Head(queue))
      BY <2>1 DEF getTimedWait
    <3>2. Head(queue).time \in Int
      BY <3>1, FrontEntry DEF QueueInv, TypeOK
    <3> QED BY <3>1, <3>2, ResolutionAssumption
            DEF getSystemTime, getRelativeTime, QueueInv, TypeOK
  <2>2. CASE ~getTimedWait
    BY <2>2 DEF getEnter, getWait, timeout, spuriousWakeup, Tick,
                QueueInv, TypeOK
  <2> QED BY <2>1, <2>2
<1>5. ~initialized => getter' = "out"
  BY DEF getEnter, getWait, getTimedWait, timeout, spuriousWakeup, Tick,
         waitIfUninitialized, QueueInv, NothingBeforeInit
<1>6. TypeOK'
  BY <1>1, <1>2, <1>3, <1>4 DEF QueueInv, TypeOK
<1>7. NothingBeforeInit'
  BY <1>1, <1>5 DEF QueueInv, NothingBeforeInit
<1> QED
  BY <1>1, <1>6, <1>7 DEF QueueInv, PredictionConsistent, ExternalsOrdered

(* The step of get() that returns an event preserves the invariant.        *)
LEMMA PopPreservesQueue ==
    ASSUME QueueInv, getPop
    PROVE  QueueInv'
<1>1. /\ queue \in Seq(Entry)
      /\ queue # <<>>
      /\ isQueuePredictionConsistent(queue)
      /\ InOrder(queue)
  BY DEF QueueInv, TypeOK, PredictionConsistent, ExternalsOrdered, getPop
<1>2. /\ queue' = Tail(queue)
      /\ getter' = "out"
      /\ returned' = returned \cup {Head(queue)}
      /\ UNCHANGED <<localEpoch, initPhase, initialized, clock, wakeAt,
                     outdated, nextId>>
  BY DEF getPop
<1>3. /\ queue' \in Seq(Entry)
      /\ isQueuePredictionConsistent(queue')
      /\ InOrder(queue')
  BY <1>1, <1>2, TailPreserves
<1>4. returned' \subseteq Entry
  BY <1>1, <1>2, FrontEntry DEF QueueInv, TypeOK
<1>5. TypeOK'
  BY <1>2, <1>3, <1>4 DEF QueueInv, TypeOK, GetterStates
<1>6. NothingBeforeInit'
  BY <1>1, <1>2 DEF QueueInv, NothingBeforeInit
<1> QED
  BY <1>3, <1>5, <1>6 DEF QueueInv, PredictionConsistent, ExternalsOrdered
-----------------------------------------------------------------------------
(* The theorems about QueueSpec.                                           *)

(* Every behaviour of the queue, under the most liberal clients, keeps to  *)
(* the types, holds at most one prediction at its front, holds externals   *)
(* in order up to Eps and stays closed until initStartTimeNow() is done.   *)
THEOREM QueueCorrect == QueueSpec => []QueueInv
<1>1. QueueInit => QueueInv
  <2> SUFFICES ASSUME QueueInit PROVE QueueInv
    OBVIOUS
  <2>1. queue = <<>> /\ Len(queue) = 0
    BY DEF QueueInit
  <2>2. PredictionConsistent /\ ExternalsOrdered
    BY <2>1 DEF PredictionConsistent, ExternalsOrdered, InOrder,
                isQueuePredictionConsistent
  <2>3. TypeOK
    <3>1. initialized \in BOOLEAN
      BY DEF QueueInit
    <3> QED BY <3>1 DEF QueueInit, TypeOK, InitPhases, GetterStates
  <2>4. NothingBeforeInit
    BY DEF QueueInit, NothingBeforeInit
  <2> QED BY <2>2, <2>3, <2>4 DEF QueueInv
<1>2. QueueInv /\ [QueueNext]_queueVars => QueueInv'
  <2> SUFFICES ASSUME QueueInv, [QueueNext]_queueVars PROVE QueueInv'
    OBVIOUS
  <2>1. CASE startUp
    BY <2>1, StartUpPreservesQueue
  <2>2. ASSUME NEW time \in Times, add(time, TRUE) \/ add(time, FALSE)
        PROVE  QueueInv'
    BY <2>2, TimesAssumption, AddPreservesInv
  <2>3. CASE getEnter \/ getWait \/ getTimedWait \/ timeout \/ spuriousWakeup
             \/ Tick
    BY <2>3, WaitingPreservesQueue
  <2>4. CASE getPop
    BY <2>4, PopPreservesQueue
  <2>5. CASE UNCHANGED queueVars
    BY <2>5 DEF QueueInv, TypeOK, PredictionConsistent, ExternalsOrdered,
                NothingBeforeInit, isQueuePredictionConsistent, InOrder,
                queueVars
  <2> QED
    BY <2>1, <2>2, <2>3, <2>4, <2>5 DEF QueueNext, pushExternalEvent, getLoop
<1> QED BY <1>1, <1>2, PTL DEF QueueSpec

(* The type invariant of the queue.                                        *)
THEOREM QueueTypeCorrect == QueueSpec => []TypeOK
<1>1. QueueInv => TypeOK
  BY DEF QueueInv
<1> QED BY <1>1, QueueCorrect, PTL

(* The assertions on the position of predictions never fail.               *)
THEOREM QueuePredictionConsistent == QueueSpec => []PredictionConsistent
<1>1. QueueInv => PredictionConsistent
  BY DEF QueueInv
<1> QED BY <1>1, QueueCorrect, PTL

(* External events are held in order up to Eps, pair by pair.              *)
THEOREM QueueExternalsOrdered == QueueSpec => []ExternalsOrdered
<1>1. QueueInv => ExternalsOrdered
  BY DEF QueueInv
<1> QED BY <1>1, QueueCorrect, PTL

(* Before the barrier opens no event is queued and nobody is inside get(). *)
THEOREM QueueNothingBeforeInit == QueueSpec => []NothingBeforeInit
<1>1. QueueInv => NothingBeforeInit
  BY DEF QueueInv
<1> QED BY <1>1, QueueCorrect, PTL

(* The epoch is final when the barrier opens.                              *)
THEOREM QueueEpochFixed == QueueSpec => EpochFixed
<1>1. QueueInv /\ [QueueNext]_queueVars
        => [initialized => localEpoch' = localEpoch]_localEpoch
  <2> SUFFICES ASSUME QueueInv, [QueueNext]_queueVars, initialized
               PROVE  localEpoch' = localEpoch
    OBVIOUS
  <2>1. initPhase = "done"
    BY DEF QueueInv, NothingBeforeInit
  <2> QED
    BY <2>1 DEF QueueNext, startUp, setPreliminaryEpoch, correctEpoch,
                notifyInitialized, pushExternalEvent, add, getEnter, getLoop,
                getWait, getTimedWait, getPop, timeout, spuriousWakeup, Tick,
                queueVars
<1> QED BY <1>1, QueueCorrect, PTL DEF QueueSpec, EpochFixed
-----------------------------------------------------------------------------
(* No oversleeping.                                                        *)

(* While the consumer sleeps nobody can change the queue without waking it,*)
(* so a sleeper's deadline still is that of the front entry.               *)
THEOREM QueueNeverOversleeps == QueueSpec => []NeverOversleeps
<1>1. QueueInit => NeverOversleeps
  BY DEF QueueInit, NeverOversleeps
<1>2. QueueInv /\ NeverOversleeps /\ [QueueNext]_queueVars => NeverOversleeps'
  <2> SUFFICES ASSUME QueueInv, NeverOversleeps, [QueueNext]_queueVars
               PROVE  NeverOversleeps'
    OBVIOUS
  <2>1. CASE startUp
    <3>1. getter' = "out"
      BY <2>1 DEF startUp, setPreliminaryEpoch, correctEpoch,
                  notifyInitialized, QueueInv, NothingBeforeInit
    <3> QED BY <3>1 DEF NeverOversleeps
  <2>2. ASSUME NEW time \in Times, getter = "out", add(time, TRUE)
        PROVE  NeverOversleeps'
    <3>1. getter' = "out"
      BY <2>2 DEF add, refuseOutdated, acceptEvent, notified
    <3> QED BY <3>1 DEF NeverOversleeps
  <2>3. ASSUME NEW time \in Times, add(time, FALSE)
        PROVE  NeverOversleeps'
    <3>1. getter' = notified(getter)
      BY <2>3 DEF add, refuseOutdated, acceptEvent
    <3>2. getter' # "wait" /\ getter' # "timed_wait"
      BY <3>1 DEF notified
    <3> QED BY <3>2 DEF NeverOversleeps
  <2>4. CASE getEnter \/ getPop \/ timeout \/ spuriousWakeup
    <3>1. getter' \in {"loop", "out"}
      BY <2>4 DEF getEnter, getPop, timeout, spuriousWakeup
    <3> QED BY <3>1 DEF NeverOversleeps
  <2>5. CASE getWait
    BY <2>5 DEF getWait, NeverOversleeps
  <2>6. CASE getTimedWait
    <3>1. /\ queue' = queue /\ queue # <<>>
          /\ localEpoch' = localEpoch
          /\ getter' = "timed_wait"
          /\ wakeAt' = getSystemTime(Head(queue))
      BY <2>6 DEF getTimedWait
    <3>2. getSystemTime(Head(queue))' = getSystemTime(Head(queue))
      BY <3>1 DEF getSystemTime, getRelativeTime
    <3>3. wakeAt' \in Int
      BY <2>6, WaitingPreservesQueue DEF QueueInv, TypeOK
    <3> QED BY <3>1, <3>2, <3>3 DEF NeverOversleeps
  <2>7. CASE Tick \/ UNCHANGED queueVars
    BY <2>7 DEF Tick, queueVars, NeverOversleeps, getSystemTime,
                getRelativeTime
  <2> QED
    BY <2>1, <2>2, <2>3, <2>4, <2>5, <2>6, <2>7
       DEF QueueNext, pushExternalEvent, getLoop
<1> QED BY <1>1, <1>2, QueueCorrect, PTL DEF QueueSpec
-----------------------------------------------------------------------------
(* Ownership of the event objects.                                         *)

(* The elements of a non-empty list are its head and those of its tail.    *)
LEMMA ToSetTail ==
    ASSUME NEW S, NEW q \in Seq(S), q # <<>>
    PROVE  ToSet(q) = {Head(q)} \cup ToSet(Tail(q))
<1>1. /\ Len(q) \in Nat \ {0} /\ Tail(q) \in Seq(S) /\ Head(q) = q[1]
      /\ Len(Tail(q)) = Len(q) - 1
      /\ \A i \in 1..(Len(q) - 1) : Tail(q)[i] = q[i + 1]
  BY TailProperties
<1>2. ASSUME NEW x \in ToSet(q) PROVE x \in {Head(q)} \cup ToSet(Tail(q))
  <2>1. PICK i \in 1..Len(q) : x = q[i]
    BY DEF ToSet
  <2>2. CASE i = 1
    BY <1>1, <2>1, <2>2
  <2>3. CASE i # 1
    <3>1. i - 1 \in 1..(Len(q) - 1) /\ (i - 1) + 1 = i
      BY <1>1, <2>3
    <3>2. x = Tail(q)[i - 1]
      BY <1>1, <2>1, <3>1
    <3>3. i - 1 \in DOMAIN Tail(q)
      BY <1>1, <3>1
    <3>4. x \in ToSet(Tail(q))
      BY <3>2, <3>3 DEF ToSet
    <3> QED BY <3>4
  <2> QED BY <2>2, <2>3
<1>3. ASSUME NEW x \in ToSet(Tail(q)) PROVE x \in ToSet(q)
  <2>1. PICK i \in 1..Len(Tail(q)) : x = Tail(q)[i]
    BY DEF ToSet
  <2>2. x = q[i + 1] /\ i + 1 \in 1..Len(q)
    BY <1>1, <2>1
  <2> QED BY <2>2 DEF ToSet
<1>4. Head(q) \in ToSet(q)
  BY <1>1 DEF ToSet
<1> QED BY <1>2, <1>3, <1>4

(* Insertion adds exactly the inserted element.                            *)
LEMMA ToSetInsertAt ==
    ASSUME NEW S, NEW q \in Seq(S), NEW e \in S, NEW k \in 1..(Len(q) + 1)
    PROVE  ToSet(InsertAt(q, k, e)) = ToSet(q) \cup {e}
<1> DEFINE r == InsertAt(q, k, e)
<1>0. Len(q) \in Nat
  OBVIOUS
<1>1. /\ Len(r) = Len(q) + 1
      /\ \A i \in 1..(Len(q) + 1) :
           r[i] = IF i < k THEN q[i] ELSE IF i = k THEN e ELSE q[i - 1]
      /\ r \in Seq(S)
  BY InsertAtProperties
<1> HIDE DEF r
<1>2. ASSUME NEW x \in ToSet(r) PROVE x \in ToSet(q) \cup {e}
  <2>1. PICK i \in 1..(Len(q) + 1) : x = r[i]
    BY <1>1 DEF ToSet
  <2>2. CASE i < k
    BY <2>1, <2>2, <1>0, <1>1 DEF ToSet
  <2>3. CASE i = k
    BY <2>1, <2>3, <1>1
  <2>4. CASE i > k
    <3>1. i - 1 \in 1..Len(q) /\ x = q[i - 1]
      BY <2>1, <2>4, <1>0, <1>1
    <3> QED BY <3>1 DEF ToSet
  <2> QED BY <2>2, <2>3, <2>4, <1>0
<1>3. ASSUME NEW x \in ToSet(q) PROVE x \in ToSet(r)
  <2>1. PICK i \in 1..Len(q) : x = q[i]
    BY DEF ToSet
  <2>2. CASE i < k
    <3>1. i \in 1..Len(r) /\ x = r[i]
      BY <2>1, <2>2, <1>0, <1>1
    <3> QED BY <3>1 DEF ToSet
  <2>3. CASE i >= k
    <3>1. i + 1 \in 1..(Len(q) + 1) /\ ~(i + 1 < k) /\ i + 1 # k
          /\ (i + 1) - 1 = i
      BY <2>3, <1>0
    <3>2. x = r[i + 1]
      BY <2>1, <3>1, <1>1
    <3> QED BY <3>1, <3>2, <1>1 DEF ToSet
  <2> QED BY <2>2, <2>3, <1>0
<1>4. e \in ToSet(r)
  <2>1. k \in 1..Len(r) /\ r[k] = e
    BY <1>0, <1>1
  <2> QED BY <2>1 DEF ToSet
<1>5. ToSet(r) = ToSet(q) \cup {e}
  BY <1>2, <1>3, <1>4
<1> QED BY <1>5 DEF r

(* The front entry of a queue without duplicates occurs nowhere else.      *)
LEMMA DistinctTail ==
    ASSUME NEW q \in Seq(Entry), q # <<>>, DistinctIds(q)
    PROVE  /\ DistinctIds(Tail(q))
           /\ Head(q).id \notin Ids(ToSet(Tail(q)))
<1>1. /\ Len(q) \in Nat \ {0} /\ Tail(q) \in Seq(Entry) /\ Head(q) = q[1]
      /\ Len(Tail(q)) = Len(q) - 1
      /\ \A i \in 1..(Len(q) - 1) : Tail(q)[i] = q[i + 1]
  BY TailProperties
<1>2. ASSUME NEW i \in 1..Len(Tail(q))
      PROVE  Tail(q)[i] = q[i + 1] /\ i + 1 \in 1..Len(q) /\ i + 1 # 1
  BY <1>1
<1>3. DistinctIds(Tail(q))
  <2> SUFFICES ASSUME NEW i \in 1..Len(Tail(q)), NEW j \in 1..Len(Tail(q)),
                      i # j
               PROVE  Tail(q)[i].id # Tail(q)[j].id
    BY DEF DistinctIds
  <2>1. i + 1 # j + 1
    BY <1>1
  <2> QED BY <1>2, <2>1 DEF DistinctIds
<1>4. ASSUME Head(q).id \in Ids(ToSet(Tail(q))) PROVE FALSE
  <2>1. PICK x \in ToSet(Tail(q)) : Head(q).id = x.id
    BY <1>4 DEF Ids
  <2>2. PICK i \in 1..Len(Tail(q)) : x = Tail(q)[i]
    BY <2>1 DEF ToSet
  <2>3. q[1].id = q[i + 1].id
    BY <1>1, <1>2, <2>1, <2>2
  <2>4. 1 \in 1..Len(q)
    BY <1>1
  <2> QED BY <1>2, <2>3, <2>4 DEF DistinctIds
<1> QED BY <1>3, <1>4

(* Inserting an entry with a fresh identity makes no duplicate.            *)
LEMMA DistinctInsertAt ==
    ASSUME NEW q \in Seq(Entry), NEW e \in Entry, NEW k \in 1..(Len(q) + 1),
           DistinctIds(q), e.id \notin Ids(ToSet(q))
    PROVE  DistinctIds(InsertAt(q, k, e))
<1> DEFINE r == InsertAt(q, k, e)
<1>0. Len(q) \in Nat
  OBVIOUS
<1>1. /\ Len(r) = Len(q) + 1
      /\ \A i \in 1..(Len(q) + 1) :
           r[i] = IF i < k THEN q[i] ELSE IF i = k THEN e ELSE q[i - 1]
  BY InsertAtProperties
<1> HIDE DEF r
<1>2. \A i \in 1..Len(q) : q[i].id # e.id
  BY DEF Ids, ToSet
<1>3. ASSUME NEW i \in 1..(Len(q) + 1), i # k
      PROVE  \E a \in 1..Len(q) :
               r[i] = q[a] /\ a = IF i < k THEN i ELSE i - 1
  BY <1>0, <1>1, <1>3
<1>4. DistinctIds(r)
  <2> SUFFICES ASSUME NEW i \in 1..(Len(q) + 1), NEW j \in 1..(Len(q) + 1),
                      i # j
               PROVE  r[i].id # r[j].id
    BY <1>1 DEF DistinctIds
  <2>1. CASE i = k
    BY <2>1, <1>1, <1>2, <1>3
  <2>2. CASE j = k
    BY <2>2, <1>1, <1>2, <1>3
  <2>3. CASE i # k /\ j # k
    <3>1. PICK a \in 1..Len(q) : r[i] = q[a] /\ a = IF i < k THEN i ELSE i - 1
      BY <2>3, <1>3
    <3>2. PICK b \in 1..Len(q) : r[j] = q[b] /\ b = IF j < k THEN j ELSE j - 1
      BY <2>3, <1>3
    <3>3. a # b
      BY <2>3, <3>1, <3>2, <1>0
    <3> QED BY <3>1, <3>2, <3>3 DEF DistinctIds
  <2> QED BY <2>1, <2>2, <2>3
<1> QED BY <1>4 DEF r
(* What add() erases is at most the prediction at the front.               *)
LEMMA ErasesOnlyFrontPrediction ==
    ASSUME NEW q \in Seq(Entry), NEW time \in Int, NEW kept, NEW rest,
           isQueuePredictionConsistent(q), InOrder(q),
           kept = removeFuturPredictions(q, time),
           rest \in {kept, removeConcurrentPrediction(kept, time)}
    PROVE  /\ kept = q \/ (kept = Tail(q) /\ IsPrediction(q))
           /\ rest = q \/ (rest = Tail(q) /\ IsPrediction(q))
<1>1. kept = q \/ (kept = Tail(q) /\ IsPrediction(q))
  BY DEF removeFuturPredictions
<1>2. rest = kept \/ (rest = Tail(kept) /\ IsPrediction(kept))
  BY DEF removeConcurrentPrediction
<1>3. IsPrediction(kept) => kept = q
  BY RemoveFuturPreserves
<1> QED BY <1>1, <1>2, <1>3

(* The queue destroys predictions only.                                    *)
THEOREM QueueOnlyPredictionsOutdated == QueueSpec => []OnlyPredictionsOutdated
<1>1. QueueInit => OnlyPredictionsOutdated
  BY DEF QueueInit, OnlyPredictionsOutdated
<1>2. QueueInv /\ OnlyPredictionsOutdated /\ [QueueNext]_queueVars
        => OnlyPredictionsOutdated'
  <2> SUFFICES ASSUME QueueInv, OnlyPredictionsOutdated, [QueueNext]_queueVars
               PROVE  OnlyPredictionsOutdated'
    OBVIOUS
  <2>1. ASSUME NEW time \in Times, NEW predicted \in BOOLEAN,
               add(time, predicted)
        PROVE  OnlyPredictionsOutdated'
    <3> DEFINE ev == [id |-> nextId, time |-> time, predicted |-> predicted]
               kept == removeFuturPredictions(queue, time)
               rest == IF ev.predicted
                       THEN removeConcurrentPrediction(kept, ev.time)
                       ELSE kept
    <3>1. time \in Int /\ ev.time = time /\ ev.predicted = predicted
      BY TimesAssumption
    <3>2. /\ queue \in Seq(Entry)
          /\ isQueuePredictionConsistent(queue)
          /\ InOrder(queue)
      BY DEF QueueInv, TypeOK, PredictionConsistent, ExternalsOrdered
    <3>3. /\ kept = queue \/ (kept = Tail(queue) /\ IsPrediction(queue))
          /\ rest = queue \/ (rest = Tail(queue) /\ IsPrediction(queue))
      BY <3>1, <3>2, ErasesOnlyFrontPrediction
    <3>4. ASSUME NEW r, r = queue \/ (r = Tail(queue) /\ IsPrediction(queue))
          PROVE  \A e \in ToSet(queue) \ ToSet(r) : e.predicted
      <4>1. CASE r = queue
        BY <4>1
      <4>2. CASE r = Tail(queue) /\ IsPrediction(queue)
        <5>1. queue # <<>> /\ Head(queue).predicted
          BY <4>2 DEF IsPrediction
        <5>2. ToSet(queue) = {Head(queue)} \cup ToSet(Tail(queue))
          BY <3>2, <5>1, ToSetTail
        <5> QED BY <4>2, <5>1, <5>2
      <4> QED BY <3>4, <4>1, <4>2
    <3>5. refuseOutdated(ev, kept) \/ acceptEvent(ev, kept)
      BY <2>1 DEF add
    <3>6. \/ /\ outdated' = outdated \cup (ToSet(queue) \ ToSet(kept)) \cup {ev}
             /\ ev.predicted
          \/ outdated' = outdated \cup (ToSet(queue) \ ToSet(rest))
      BY <3>5 DEF refuseOutdated, acceptEvent
    <3> HIDE DEF ev, kept, rest
    <3> QED BY <3>3, <3>4, <3>6 DEF OnlyPredictionsOutdated
  <2>2. CASE outdated' = outdated
    BY <2>2 DEF OnlyPredictionsOutdated
  <2>3. outdated' = outdated
        \/ \E time \in Times : add(time, TRUE) \/ add(time, FALSE)
    BY DEF QueueNext, startUp, setPreliminaryEpoch, correctEpoch,
           notifyInitialized, pushExternalEvent, getEnter, getLoop, getWait,
           getTimedWait, getPop, timeout, spuriousWakeup, Tick, queueVars
  <2> QED BY <2>1, <2>2, <2>3
<1> QED BY <1>1, <1>2, QueueCorrect, PTL DEF QueueSpec
(* The identities of the entries that are erased from a queue without      *)
(* duplicates, and of those that stay.                                     *)
LEMMA ErasedIds ==
    ASSUME NEW q \in Seq(Entry), NEW r, DistinctIds(q),
           r = q \/ (r = Tail(q) /\ IsPrediction(q))
    PROVE  /\ r \in Seq(Entry)
           /\ DistinctIds(r)
           /\ Ids(ToSet(r)) \cup Ids(ToSet(q) \ ToSet(r)) = Ids(ToSet(q))
           /\ Ids(ToSet(r)) \cap Ids(ToSet(q) \ ToSet(r)) = {}
<1>1. CASE r = q
  BY <1>1 DEF Ids
<1>2. CASE r = Tail(q) /\ IsPrediction(q)
  <2>1. q # <<>>
    BY <1>2 DEF IsPrediction
  <2>2. r \in Seq(Entry) /\ DistinctIds(r) /\ Head(q).id \notin Ids(ToSet(r))
    BY <1>2, <2>1, TailProperties, DistinctTail
  <2>3. ToSet(q) = {Head(q)} \cup ToSet(r)
    BY <1>2, <2>1, ToSetTail
  <2>4. ToSet(q) \ ToSet(r) = {Head(q)}
    BY <2>2, <2>3 DEF Ids
  <2> QED BY <2>2, <2>3, <2>4 DEF Ids
<1> QED BY <1>1, <1>2

(* The bookkeeping of add() on identities: Q queued, R returned and O      *)
(* destroyed, of which K stay, D are destroyed and n is new.               *)
LEMMA MoveIds ==
    ASSUME NEW Q, NEW R, NEW O, NEW N, NEW K, NEW D, NEW n,
           Q \cap R = {}, Q \cap O = {}, R \cap O = {}, Q \cup R \cup O = N,
           n \notin N, K \cup D = Q, K \cap D = {},
           NEW Q1, NEW O1,
           \/ Q1 = K \cup {n} /\ O1 = O \cup D
           \/ Q1 = K /\ O1 = O \cup D \cup {n}
    PROVE  /\ Q1 \cap R = {} /\ Q1 \cap O1 = {} /\ R \cap O1 = {}
           /\ Q1 \cup R \cup O1 = N \cup {n}
  OBVIOUS

(* add() owns the new event once, in the queue or among the outdated ones. *)
LEMMA AddKeepsOwnership ==
    ASSUME QueueInv, EventsOwnedOnce,
           NEW time \in Int, NEW predicted \in BOOLEAN, add(time, predicted)
    PROVE  EventsOwnedOnce'
<1>0. /\ queue \in Seq(Entry)
      /\ isQueuePredictionConsistent(queue)
      /\ InOrder(queue)
      /\ nextId \in Nat
  BY DEF QueueInv, TypeOK, PredictionConsistent, ExternalsOrdered
<1> DEFINE ev == [id |-> nextId, time |-> time, predicted |-> predicted]
           kept == removeFuturPredictions(queue, time)
           rest == IF ev.predicted
                   THEN removeConcurrentPrediction(kept, ev.time)
                   ELSE kept
<1>1. /\ time \in Int
      /\ ev \in Entry
      /\ ev.time = time
      /\ ev.predicted = predicted
      /\ ev.id = nextId
  BY <1>0 DEF Entry
<1>2. /\ kept = queue \/ (kept = Tail(queue) /\ IsPrediction(queue))
      /\ rest = queue \/ (rest = Tail(queue) /\ IsPrediction(queue))
  BY <1>0, <1>1, ErasesOnlyFrontPrediction
<1>3. /\ refuseOutdated(ev, kept) \/ acceptEvent(ev, kept)
      /\ nextId' = nextId + 1
      /\ returned' = returned
  BY DEF add
<1>4. 0..(nextId' - 1) = 0..(nextId - 1) \cup {nextId}
      /\ nextId \notin 0..(nextId - 1)
  BY <1>0, <1>3
<1>5. /\ nextId \notin Ids(ToSet(queue))
      /\ nextId \notin Ids(returned)
      /\ nextId \notin Ids(outdated)
  BY <1>4 DEF EventsOwnedOnce
<1> HIDE DEF ev, kept, rest
<1>6. CASE refuseOutdated(ev, kept)
  <2>1. /\ queue' = kept
        /\ outdated' = outdated \cup (ToSet(queue) \ ToSet(kept)) \cup {ev}
    BY <1>6 DEF refuseOutdated
  <2>2. /\ DistinctIds(kept)
        /\ Ids(ToSet(kept)) \cup Ids(ToSet(queue) \ ToSet(kept))
             = Ids(ToSet(queue))
        /\ Ids(ToSet(kept)) \cap Ids(ToSet(queue) \ ToSet(kept)) = {}
    BY <1>0, <1>2, ErasedIds DEF EventsOwnedOnce
  <2>3. Ids(outdated') = Ids(outdated) \cup Ids(ToSet(queue) \ ToSet(kept))
                           \cup {nextId}
    BY <1>1, <2>1 DEF Ids
  <2>4. /\ Ids(ToSet(kept)) \cap Ids(returned) = {}
        /\ Ids(ToSet(kept)) \cap Ids(outdated') = {}
        /\ Ids(returned) \cap Ids(outdated') = {}
        /\ Ids(ToSet(kept)) \cup Ids(returned) \cup Ids(outdated')
             = 0..(nextId - 1) \cup {nextId}
    <3> DEFINE Q == Ids(ToSet(queue))
               R == Ids(returned)
               O == Ids(outdated)
               N == 0..(nextId - 1)
               K == Ids(ToSet(kept))
               D == Ids(ToSet(queue) \ ToSet(kept))
               O1 == Ids(outdated')
    <3>1. /\ Q \cap R = {} /\ Q \cap O = {} /\ R \cap O = {}
          /\ Q \cup R \cup O = N
      BY DEF EventsOwnedOnce
    <3>2. nextId \notin N /\ K \cup D = Q /\ K \cap D = {}
      BY <1>4, <2>2
    <3>3. O1 = O \cup D \cup {nextId}
      BY <2>3
    <3> HIDE DEF Q, R, O, N, K, D, O1
    <3>4. /\ K \cap R = {} /\ K \cap O1 = {} /\ R \cap O1 = {}
          /\ K \cup R \cup O1 = N \cup {nextId}
      BY <3>1, <3>2, <3>3, MoveIds
    <3> QED BY <3>4 DEF K, R, O1, N
  <2> QED
    BY <1>3, <1>4, <2>1, <2>2, <2>4 DEF EventsOwnedOnce
<1>7. CASE acceptEvent(ev, kept)
  <2>1. PICK pos \in pushPositions(rest, ev) :
          queue' = InsertAt(rest, pos, ev)
    BY <1>7 DEF acceptEvent, rest
  <2>2. outdated' = outdated \cup (ToSet(queue) \ ToSet(rest))
    BY <1>7 DEF acceptEvent, rest
  <2>3. /\ rest \in Seq(Entry)
        /\ DistinctIds(rest)
        /\ Ids(ToSet(rest)) \cup Ids(ToSet(queue) \ ToSet(rest))
             = Ids(ToSet(queue))
        /\ Ids(ToSet(rest)) \cap Ids(ToSet(queue) \ ToSet(rest)) = {}
    BY <1>0, <1>2, ErasedIds DEF EventsOwnedOnce
  <2>4. pos \in 1..(Len(rest) + 1)
    BY <2>1, <2>3 DEF pushPositions
  <2>5. DistinctIds(queue') /\ ToSet(queue') = ToSet(rest) \cup {ev}
    <3>1. ev.id \notin Ids(ToSet(rest))
      BY <1>1, <1>5, <2>3
    <3> QED BY <1>1, <2>1, <2>3, <2>4, <3>1, DistinctInsertAt,
               ToSetInsertAt
  <2>6. Ids(ToSet(queue')) = Ids(ToSet(rest)) \cup {nextId}
    BY <1>1, <2>5 DEF Ids
  <2>7. Ids(outdated') = Ids(outdated) \cup Ids(ToSet(queue) \ ToSet(rest))
    BY <2>2 DEF Ids
  <2>8. /\ Ids(ToSet(queue')) \cap Ids(returned) = {}
        /\ Ids(ToSet(queue')) \cap Ids(outdated') = {}
        /\ Ids(returned) \cap Ids(outdated') = {}
        /\ Ids(ToSet(queue')) \cup Ids(returned) \cup Ids(outdated')
             = 0..(nextId - 1) \cup {nextId}
    <3> DEFINE Q == Ids(ToSet(queue))
               R == Ids(returned)
               O == Ids(outdated)
               N == 0..(nextId - 1)
               K == Ids(ToSet(rest))
               D == Ids(ToSet(queue) \ ToSet(rest))
               Q1 == Ids(ToSet(queue'))
               O1 == Ids(outdated')
    <3>1. /\ Q \cap R = {} /\ Q \cap O = {} /\ R \cap O = {}
          /\ Q \cup R \cup O = N
      BY DEF EventsOwnedOnce
    <3>2. nextId \notin N
      BY <1>4
    <3>3. K \cup D = Q /\ K \cap D = {}
      BY <2>3
    <3>4. Q1 = K \cup {nextId} /\ O1 = O \cup D
      BY <2>6, <2>7
    <3> HIDE DEF Q, R, O, N, K, D, Q1, O1
    <3>5. /\ Q1 \cap R = {} /\ Q1 \cap O1 = {} /\ R \cap O1 = {}
          /\ Q1 \cup R \cup O1 = N \cup {nextId}
      BY <3>1, <3>2, <3>3, <3>4, MoveIds
    <3> QED BY <3>5 DEF Q1, R, O1, N
  <2> QED
    BY <1>3, <1>4, <2>5, <2>8 DEF EventsOwnedOnce
<1> QED BY <1>3, <1>6, <1>7

(* get() hands the ownership of the front event to its caller.             *)
LEMMA PopKeepsOwnership ==
    ASSUME QueueInv, EventsOwnedOnce, getPop
    PROVE  EventsOwnedOnce'
<1>0. /\ queue \in Seq(Entry)
      /\ isQueuePredictionConsistent(queue)
      /\ InOrder(queue)
      /\ nextId \in Nat
  BY DEF QueueInv, TypeOK, PredictionConsistent, ExternalsOrdered
<1>1. /\ queue # <<>>
      /\ queue' = Tail(queue)
      /\ returned' = returned \cup {Head(queue)}
      /\ UNCHANGED <<outdated, nextId>>
  BY DEF getPop
<1>2. /\ DistinctIds(queue')
      /\ Head(queue).id \notin Ids(ToSet(queue'))
      /\ ToSet(queue) = {Head(queue)} \cup ToSet(queue')
  BY <1>0, <1>1, DistinctTail, ToSetTail DEF EventsOwnedOnce
<1>3. /\ Ids(ToSet(queue)) = {Head(queue).id} \cup Ids(ToSet(queue'))
      /\ Ids(returned') = Ids(returned) \cup {Head(queue).id}
  BY <1>1, <1>2 DEF Ids
<1> QED BY <1>1, <1>2, <1>3 DEF EventsOwnedOnce

(* Initially there is no event.                                            *)
LEMMA OwnedInitially == QueueInit => EventsOwnedOnce
<1> SUFFICES ASSUME QueueInit PROVE EventsOwnedOnce
  OBVIOUS
<1>1. queue = <<>> /\ returned = {} /\ outdated = {} /\ nextId = 0
  BY DEF QueueInit
<1>2. ToSet(queue) = {} /\ DistinctIds(queue)
  BY <1>1 DEF ToSet, DistinctIds
<1>3. 0..(nextId - 1) = {}
  BY <1>1
<1> QED BY <1>1, <1>2, <1>3 DEF EventsOwnedOnce, Ids

(* Each event is owned exactly once.                                       *)
THEOREM QueueEventsOwnedOnce == QueueSpec => []EventsOwnedOnce
<1>1. QueueInit => EventsOwnedOnce
  BY OwnedInitially
<1>2. QueueInv /\ EventsOwnedOnce /\ [QueueNext]_queueVars => EventsOwnedOnce'
  <2> SUFFICES ASSUME QueueInv, EventsOwnedOnce, [QueueNext]_queueVars
               PROVE  EventsOwnedOnce'
    OBVIOUS
  <2>1. CASE \E time \in Times : add(time, TRUE) \/ add(time, FALSE)
    BY <2>1, TimesAssumption, AddKeepsOwnership
  <2>2. CASE getPop
    BY <2>2, PopKeepsOwnership
  <2>3. CASE UNCHANGED <<queue, returned, outdated, nextId>>
    BY <2>3 DEF EventsOwnedOnce, DistinctIds, Ids, ToSet
  <2>4. \/ UNCHANGED <<queue, returned, outdated, nextId>>
        \/ getPop
        \/ \E time \in Times : add(time, TRUE) \/ add(time, FALSE)
    BY DEF QueueNext, startUp, setPreliminaryEpoch, correctEpoch,
           notifyInitialized, pushExternalEvent, getEnter, getLoop, getWait,
           getTimedWait, timeout, spuriousWakeup, Tick, queueVars
  <2> QED BY <2>1, <2>2, <2>3, <2>4
<1> QED BY <1>1, <1>2, QueueCorrect, PTL DEF QueueSpec

-----------------------------------------------------------------------------
(* The dispatcher.                                                         *)

NoPrediction(q) == \A i \in 1..Len(q) : ~q[i].predicted

(* A queue of external events in order is ascending.                       *)
LEMMA ExternalsAscend ==
    ASSUME NEW q \in Seq(Entry), InOrder(q), NoPrediction(q)
    PROVE  Ascending(q)
<1> SUFFICES ASSUME NEW i \in 2..Len(q)
             PROVE  q[i - 1].time <= q[i].time + Eps
  BY DEF Ascending
<1>1. i - 1 \in 1..Len(q) /\ i \in 1..Len(q) /\ i - 1 < i
  OBVIOUS
<1> QED BY <1>1 DEF InOrder, NoPrediction

(* In a well-formed queue only the neighbour of the front can be out of    *)
(* order.                                                                  *)
LEMMA FrontDecides ==
    ASSUME NEW q \in Seq(Entry), isQueuePredictionConsistent(q), InOrder(q),
           Len(q) >= 2 => q[1].time <= q[2].time + Eps
    PROVE  Ascending(q)
<1> SUFFICES ASSUME NEW i \in 2..Len(q)
             PROVE  q[i - 1].time <= q[i].time + Eps
  BY DEF Ascending
<1>1. CASE i = 2
  BY <1>1
<1>2. CASE i > 2
  <2>1. i - 1 \in 2..Len(q) /\ i - 1 \in 1..Len(q) /\ i \in 1..Len(q)
        /\ i - 1 < i
    BY <1>2
  <2>2. ~q[i - 1].predicted
    BY <2>1 DEF isQueuePredictionConsistent
  <2> QED BY <2>1, <2>2 DEF InOrder
<1> QED BY <1>1, <1>2

(* A prediction is added to a queue of external events: it is refused, or  *)
(* it is not later than the next event by more than Eps.                   *)
LEMMA AddPrediction ==
    ASSUME QueueInv, NEW time \in Int, add(time, TRUE), NoPrediction(queue)
    PROVE  Ascending(queue') /\ queue' # <<>>
<1> DEFINE ev == [id |-> nextId, time |-> time, predicted |-> TRUE]
           kept == removeFuturPredictions(queue, time)
<1>1. /\ queue \in Seq(Entry) /\ InOrder(queue)
      /\ isQueuePredictionConsistent(queue) /\ ev \in Entry
  BY DEF QueueInv, TypeOK, ExternalsOrdered, PredictionConsistent, Entry
<1>2. ~IsPrediction(queue)
  BY <1>1, FrontEntry DEF IsPrediction, NoPrediction
<1>3. kept = queue
  BY <1>2 DEF removeFuturPredictions
<1>4. refuseOutdated(ev, kept) \/ acceptEvent(ev, kept)
  BY DEF add
<1>5. CASE refuseOutdated(ev, kept)
  <2>1. queue' = queue /\ queue # <<>>
    BY <1>3, <1>5 DEF refuseOutdated, hasPriorEvents
  <2> QED BY <2>1, <1>1, ExternalsAscend
<1>6. CASE acceptEvent(ev, kept)
  <2>1. removeConcurrentPrediction(kept, ev.time) = queue
    BY <1>2, <1>3 DEF removeConcurrentPrediction
  <2>2. ~hasPriorEvents(queue, time)
    BY <1>3, <1>6 DEF acceptEvent
  <2>3. queue' = InsertAt(queue, 1, ev)
    BY <1>6, <2>1 DEF acceptEvent, pushPositions
  <2>4. /\ Len(queue') = Len(queue) + 1
        /\ queue'[1] = ev
        /\ Len(queue) >= 1 => queue'[2] = queue[1]
    <3>1. Len(queue) \in Nat /\ 1 \in 1..(Len(queue) + 1)
      BY <1>1
    <3> HIDE DEF ev
    <3>2. /\ Len(queue') = Len(queue) + 1
          /\ \A i \in 1..(Len(queue) + 1) :
               queue'[i] = IF i < 1 THEN queue[i]
                           ELSE IF i = 1 THEN ev ELSE queue[i - 1]
      BY <1>1, <2>3, <3>1, InsertAtProperties
    <3> QED BY <3>1, <3>2
  <2>5. /\ queue' \in Seq(Entry)
        /\ isQueuePredictionConsistent(queue')
        /\ InOrder(queue')
    BY AddPreservesInv
       DEF QueueInv, TypeOK, PredictionConsistent, ExternalsOrdered
  <2>6. Len(queue') >= 2 => queue'[1].time <= queue'[2].time + Eps
    <3> SUFFICES ASSUME Len(queue') >= 2
                 PROVE  queue'[1].time <= queue'[2].time + Eps
      OBVIOUS
    <3>1. Len(queue) \in Nat /\ Len(queue) >= 1 /\ queue # <<>>
      BY <1>1, <2>4
    <3>2. queue[1].time \in Int /\ Head(queue) = queue[1]
      BY <1>1, <3>1, FrontEntry
    <3>3. time - Eps <= queue[1].time
      BY <2>2, <3>1, <3>2, EpsAssumption DEF hasPriorEvents
    <3> QED BY <2>4, <3>1, <3>2, <3>3, EpsAssumption
  <2>7. queue' # <<>>
    BY <1>1, <2>4
  <2> QED BY <2>5, <2>6, <2>7, FrontDecides
<1> QED BY <1>4, <1>5, <1>6
(* An external event reaches an ascending queue: the queue stays ascending *)
(* and no prediction appears where there was none.                         *)
LEMMA AddExternal ==
    ASSUME QueueInv, NEW time \in Int, add(time, FALSE), Ascending(queue)
    PROVE  /\ Ascending(queue')
           /\ queue' # <<>>
           /\ NoPrediction(queue) => NoPrediction(queue')
<1> DEFINE ev == [id |-> nextId, time |-> time, predicted |-> FALSE]
           kept == removeFuturPredictions(queue, time)
<1>1. /\ queue \in Seq(Entry) /\ InOrder(queue)
      /\ isQueuePredictionConsistent(queue)
      /\ ev \in Entry /\ ev.time = time /\ ~ev.predicted
  BY DEF QueueInv, TypeOK, ExternalsOrdered, PredictionConsistent, Entry
<1>2. /\ kept \in Seq(Entry)
      /\ isQueuePredictionConsistent(kept)
      /\ InOrder(kept)
      /\ IsPrediction(kept) => kept = queue /\ kept[1].time <= time + Eps
  BY <1>1, RemoveFuturPreserves
<1>3. PICK pos \in pushPositions(kept, ev) : queue' = InsertAt(kept, pos, ev)
  BY <1>1 DEF add, refuseOutdated, acceptEvent
<1> HIDE DEF ev
<1>4. NoPrediction(queue) => kept = queue
  BY <1>1, FrontEntry DEF NoPrediction, removeFuturPredictions, IsPrediction
<1> HIDE DEF kept
<1>5. /\ Len(kept) \in Nat
      /\ pos \in 1..(Len(kept) + 1)
      /\ \A j \in 1..(pos - 1) : kept[j].time <= time + Eps
      /\ pos <= Len(kept) => kept[pos].time > time + Eps
  BY <1>1, <1>2 DEF pushPositions
<1>6. /\ Len(queue') = Len(kept) + 1
      /\ \A i \in 1..(Len(kept) + 1) :
           queue'[i] = IF i < pos THEN kept[i]
                       ELSE IF i = pos THEN ev ELSE kept[i - 1]
  BY <1>1, <1>2, <1>3, <1>5, InsertAtProperties
<1>7. /\ queue' \in Seq(Entry)
      /\ isQueuePredictionConsistent(queue')
      /\ InOrder(queue')
  BY AddPreservesInv DEF QueueInv, TypeOK, PredictionConsistent, ExternalsOrdered
<1>8. queue' # <<>>
  BY <1>5, <1>6, <1>7
<1>9. NoPrediction(queue) => NoPrediction(queue')
  <2> SUFFICES ASSUME NoPrediction(queue), NEW i \in 1..Len(queue')
               PROVE  ~queue'[i].predicted
    BY DEF NoPrediction
  <2>1. CASE i = pos
    BY <1>1, <1>6, <2>1
  <2>2. CASE i # pos
    <3> DEFINE a == IF i < pos THEN i ELSE i - 1
    <3>1. a \in 1..Len(queue) /\ queue'[i] = queue[a]
      BY <1>4, <1>5, <1>6, <2>2
    <3> HIDE DEF a
    <3> QED BY <3>1 DEF NoPrediction
  <2> QED BY <2>1, <2>2
<1>10. Len(queue') >= 2 => queue'[1].time <= queue'[2].time + Eps
  <2> SUFFICES ASSUME Len(queue') >= 2
               PROVE  queue'[1].time <= queue'[2].time + Eps
    OBVIOUS
  <2>1. 1 \in 1..Len(queue') /\ 2 \in 1..Len(queue')
    BY <1>5, <1>6
  <2>2. CASE queue'[1].predicted
    <3>1. pos # 1
      BY <1>1, <1>6, <2>1, <2>2
    <3>2. queue'[1] = kept[1] /\ 1 \in 1..Len(kept)
      BY <1>5, <1>6, <2>1, <3>1
    <3>3. kept = queue
      BY <1>2, <2>2, <3>2, FrontEntry
    <3>4. CASE pos = 2
      <4>1. queue'[2] = ev
        BY <1>6, <2>1, <3>4
      <4>2. kept[1].time <= time + Eps
        BY <1>5, <3>4
      <4> QED BY <1>1, <3>2, <4>1, <4>2
    <3>5. CASE pos > 2
      <4>1. queue'[2] = kept[2] /\ 2 \in 2..Len(kept)
        BY <1>5, <1>6, <2>1, <3>5
      <4>2. queue[2 - 1].time <= queue[2].time + Eps
        BY <3>3, <4>1 DEF Ascending
      <4> QED BY <3>2, <3>3, <4>1, <4>2
    <3> QED BY <1>5, <3>1, <3>4, <3>5
  <2>3. CASE ~queue'[1].predicted
    BY <1>7, <2>1, <2>3 DEF InOrder
  <2> QED BY <2>2, <2>3
<1> QED BY <1>7, <1>8, <1>9, <1>10, FrontDecides
-----------------------------------------------------------------------------
(* The inductive invariant.                                                *)

(* The dispatcher thread has left "start" exactly when the barrier is open *)
(* and is inside the loop of get() only while run() is at that call.       *)
ThreadInv ==
    /\ initialized <=> pc # "start"
    /\ getter # "out" => pc = "get"

(* A stamp exists only after initialisation and fits the epoch.            *)
StampInv ==
    \A s \in Sources :
        source[s].phase = "stamped" =>
            initialized /\ source[s].time = getSimulationTime(source[s].sysTime)

DispatcherInv ==
    /\ QueueInv
    /\ DispatcherTypeOK
    /\ ThreadInv
    /\ NoStalePrediction
    /\ NeighboursOrdered
    /\ GetNeverStarves
    /\ StampInv

(* A step that leaves the queue's state alone keeps the queue's invariants.*)
LEMMA QueueUntouched ==
    ASSUME QueueInv, NeighboursOrdered, UNCHANGED queueVars
    PROVE  QueueInv' /\ NeighboursOrdered'
  BY DEF QueueInv, TypeOK, PredictionConsistent, ExternalsOrdered,
         NothingBeforeInit, isQueuePredictionConsistent, InOrder,
         NeighboursOrdered, Ascending, queueVars

(* Stamps stay valid as long as neither they nor the epoch change.         *)
LEMMA StampsUntouched ==
    ASSUME StampInv, UNCHANGED <<source, localEpoch>>, initialized => initialized'
    PROVE  StampInv'
  BY DEF StampInv, getSimulationTime

(* The invariant holds initially.                                          *)
LEMMA DispatcherInit == Init => DispatcherInv
<1> SUFFICES ASSUME Init PROVE DispatcherInv
  OBVIOUS
<1>1. queue = <<>> /\ Len(queue) = 0
  BY DEF Init, QueueInit
<1>2. PredictionConsistent /\ ExternalsOrdered
  BY <1>1 DEF PredictionConsistent, ExternalsOrdered, InOrder,
              isQueuePredictionConsistent
<1>3. TypeOK
  <2>1. initialized \in BOOLEAN
    BY DEF Init, QueueInit
  <2> QED BY <2>1 DEF Init, QueueInit, TypeOK, InitPhases, GetterStates
<1>4. NothingBeforeInit /\ ThreadInv
  BY DEF Init, QueueInit, NothingBeforeInit, ThreadInv
<1>5. NoStalePrediction /\ NeighboursOrdered /\ GetNeverStarves
  BY <1>1 DEF Init, NoStalePrediction, NeighboursOrdered, Ascending,
              GetNeverStarves
<1>6. StampInv
  BY DEF Init, StampInv
<1>7. DispatcherTypeOK
  <2>1. current \in Entry
    BY DEF Init, NoEvent, Entry
  <2>2. source \in [Sources -> SourceState]
    BY DEF Init, SourceState
  <2> QED BY <1>3, <2>1, <2>2 DEF Init, DispatcherTypeOK, PCs
<1> QED BY <1>2, <1>3, <1>4, <1>5, <1>6, <1>7 DEF DispatcherInv, QueueInv

(* initStartTimeNow() preserves the invariant.                             *)
LEMMA InitStartTimeNowPreserves ==
    ASSUME DispatcherInv, initStartTimeNow
    PROVE  DispatcherInv'
<1>1. /\ startUp /\ pc = "start" /\ ~initialized
      /\ pc' = IF initialized' THEN "predict" ELSE "start"
      /\ UNCHANGED <<prediction, current, predictions, source>>
  BY DEF initStartTimeNow, DispatcherInv, ThreadInv
<1>2. QueueInv'
  BY <1>1, StartUpPreservesQueue DEF DispatcherInv
<1>3. queue' = queue /\ queue = <<>> /\ getter' = getter /\ getter = "out"
  BY <1>1 DEF startUp, setPreliminaryEpoch, correctEpoch, notifyInitialized,
              DispatcherInv, QueueInv, NothingBeforeInit
<1>4. ThreadInv'
  BY <1>1, <1>3 DEF ThreadInv
<1>5. NoStalePrediction' /\ NeighboursOrdered' /\ GetNeverStarves'
  BY <1>1, <1>3 DEF NoStalePrediction, NeighboursOrdered, Ascending,
                    GetNeverStarves
<1>6. StampInv'
  BY <1>1 DEF DispatcherInv, StampInv
<1>7. DispatcherTypeOK'
  BY <1>1, <1>2 DEF DispatcherInv, DispatcherTypeOK, QueueInv, PCs
<1> QED BY <1>2, <1>4, <1>5, <1>6, <1>7 DEF DispatcherInv

(* The steps of run() outside the queue preserve the invariant.            *)
LEMMA RunPreserves ==
    ASSUME DispatcherInv,
           \/ \E time \in Times : runPredict(time)
           \/ runPredictThrows \/ processEvent \/ processEventThrows
           \/ Terminated
    PROVE  DispatcherInv'
<1>1. UNCHANGED <<queueVars, source>> /\ UNCHANGED current
  BY DEF runPredict, runPredictThrows, processEvent, processEventThrows,
         Terminated, vars, dispatcherVars
<1>2. UNCHANGED <<queue, getter, initialized, localEpoch>>
  BY <1>1 DEF queueVars
<1>3. /\ pc # "get" /\ pc' # "get" /\ pc # "start"
      /\ pc' \in PCs \ {"start", "get"}
  BY DEF runPredict, runPredictThrows, processEvent, processEventThrows,
         Terminated, PCs, vars, dispatcherVars
<1>4. QueueInv' /\ NeighboursOrdered'
  BY <1>1, QueueUntouched DEF DispatcherInv
<1>5. ThreadInv'
  BY <1>2, <1>3 DEF DispatcherInv, ThreadInv
<1>6. NoStalePrediction' /\ GetNeverStarves'
  BY <1>2, <1>3 DEF DispatcherInv, NoStalePrediction, GetNeverStarves
<1>7. StampInv'
  BY <1>1, <1>2, StampsUntouched DEF DispatcherInv
<1>8. DispatcherTypeOK'
  <2>1. prediction' \in Int /\ predictions' \in Nat
    BY TimesAssumption
       DEF runPredict, runPredictThrows, processEvent, processEventThrows,
           Terminated, vars, dispatcherVars, DispatcherInv, DispatcherTypeOK
  <2> QED BY <1>1, <1>3, <1>4, <2>1
          DEF DispatcherInv, DispatcherTypeOK, QueueInv
<1> QED BY <1>4, <1>5, <1>6, <1>7, <1>8 DEF DispatcherInv
(* queue_->add(prediction, true) preserves the invariant.                  *)
LEMMA AddPredictionPreserves ==
    ASSUME DispatcherInv, addPrediction
    PROVE  DispatcherInv'
<1>1. /\ pc = "add" /\ pc' = "get"
      /\ add(prediction, TRUE)
      /\ prediction \in Int
      /\ UNCHANGED <<prediction, current, predictions, source>>
  BY DEF addPrediction, DispatcherInv, DispatcherTypeOK
<1>2. UNCHANGED <<localEpoch, initialized>> /\ initialized
  BY <1>1 DEF add, waitIfUninitialized
<1>3. getter = "out" /\ getter' = "out"
  <2>1. getter = "out"
    BY <1>1 DEF DispatcherInv, ThreadInv
  <2> QED BY <1>1, <2>1 DEF add, refuseOutdated, acceptEvent, notified
<1>4. QueueInv'
  BY <1>1, AddPreservesInv DEF DispatcherInv
<1>5. Ascending(queue') /\ queue' # <<>>
  <2>1. NoPrediction(queue)
    BY <1>1 DEF DispatcherInv, NoStalePrediction, NoPrediction
  <2> QED BY <1>1, <2>1, AddPrediction DEF DispatcherInv
<1>6. NeighboursOrdered' /\ GetNeverStarves' /\ NoStalePrediction'
  BY <1>1, <1>3, <1>5 DEF NeighboursOrdered, GetNeverStarves,
                          NoStalePrediction
<1>7. ThreadInv'
  BY <1>1, <1>2 DEF ThreadInv
<1>8. StampInv'
  BY <1>1, <1>2, StampsUntouched DEF DispatcherInv
<1>9. DispatcherTypeOK'
  BY <1>1, <1>4 DEF DispatcherInv, DispatcherTypeOK, QueueInv, PCs
<1> QED BY <1>4, <1>6, <1>7, <1>8, <1>9 DEF DispatcherInv

(* The waiting steps of get(), the wake-ups and the clock preserve the     *)
(* invariant.                                                              *)
LEMMA WaitingPreserves ==
    ASSUME DispatcherInv, getBlocks \/ wakeUp \/ timePasses
    PROVE  DispatcherInv'
<1>1. /\ \/ getEnter \/ getWait \/ getTimedWait
         \/ timeout \/ spuriousWakeup \/ Tick
      /\ UNCHANGED <<dispatcherVars, source>>
  BY DEF getBlocks, wakeUp, timePasses
<1>2. UNCHANGED <<queue, localEpoch, initialized>>
  BY <1>1 DEF getEnter, getWait, getTimedWait, timeout, spuriousWakeup, Tick
<1>3. QueueInv'
  BY <1>1, WaitingPreservesQueue DEF DispatcherInv
<1>4. getter' # "out" => pc = "get"
  BY DEF getBlocks, wakeUp, timePasses, timeout, spuriousWakeup, Tick,
         DispatcherInv, ThreadInv
<1>5. pc = "get" => getter' # "wait"
  <2> SUFFICES ASSUME pc = "get" PROVE getter' # "wait"
    OBVIOUS
  <2>1. queue # <<>> /\ getter # "wait"
    BY DEF DispatcherInv, GetNeverStarves
  <2> QED
    BY <1>1, <2>1 DEF getEnter, getWait, getTimedWait, timeout,
                      spuriousWakeup, Tick
<1>6. UNCHANGED <<pc, prediction, current, predictions>>
  BY <1>1 DEF dispatcherVars
<1>7. ThreadInv'
  BY <1>2, <1>4, <1>6 DEF DispatcherInv, ThreadInv
<1>8. NeighboursOrdered' /\ NoStalePrediction' /\ GetNeverStarves'
  BY <1>2, <1>5, <1>6 DEF DispatcherInv, NeighboursOrdered, Ascending,
                          NoStalePrediction, GetNeverStarves
<1>9. StampInv'
  BY <1>1, <1>2, StampsUntouched DEF DispatcherInv
<1>10. DispatcherTypeOK'
  BY <1>1, <1>3, <1>6 DEF DispatcherInv, DispatcherTypeOK, QueueInv
<1> QED BY <1>3, <1>7, <1>8, <1>9, <1>10 DEF DispatcherInv

(* The return of get() preserves the invariant.                            *)
LEMMA GetNextPreserves ==
    ASSUME DispatcherInv, getNext
    PROVE  DispatcherInv'
<1>1. /\ getPop /\ pc = "get" /\ pc' = "process"
      /\ current' = Head(queue)
      /\ UNCHANGED <<prediction, predictions, source>>
  BY DEF getNext
<1>2. /\ queue # <<>>
      /\ queue' = Tail(queue)
      /\ getter' = "out"
      /\ UNCHANGED <<localEpoch, initialized>>
  BY <1>1 DEF getPop
<1>3. /\ queue \in Seq(Entry)
      /\ isQueuePredictionConsistent(queue)
      /\ InOrder(queue)
  BY DEF DispatcherInv, QueueInv, TypeOK, PredictionConsistent,
         ExternalsOrdered
<1>4. QueueInv'
  BY <1>1, PopPreservesQueue DEF DispatcherInv
<1>5. NoPrediction(queue')
  BY <1>2, <1>3, TailPreserves DEF NoPrediction
<1>6. Ascending(queue')
  BY <1>4, <1>5, ExternalsAscend DEF QueueInv, TypeOK, ExternalsOrdered
<1>7. NeighboursOrdered' /\ NoStalePrediction' /\ GetNeverStarves'
  BY <1>1, <1>5, <1>6 DEF NeighboursOrdered, NoStalePrediction,
                          GetNeverStarves, NoPrediction
<1>8. ThreadInv'
  BY <1>1, <1>2 DEF DispatcherInv, ThreadInv
<1>9. StampInv'
  BY <1>1, <1>2, StampsUntouched DEF DispatcherInv
<1>10. current' \in Entry
  BY <1>1, <1>2, <1>3, FrontEntry
<1>11. DispatcherTypeOK'
  BY <1>1, <1>4, <1>10 DEF DispatcherInv, DispatcherTypeOK, QueueInv, PCs
<1> QED BY <1>4, <1>7, <1>8, <1>9, <1>11 DEF DispatcherInv

(* The steps of a subscriber thread preserve the invariant.                *)
LEMMA SourcePreserves ==
    ASSUME DispatcherInv, NEW s \in Sources,
           readClock(s) \/ getTimeStampNow(s) \/ pushEvent(s)
    PROVE  DispatcherInv'
<1>0. /\ source \in [Sources -> SourceState]
      /\ source[s].sysTime \in Int /\ source[s].time \in Int
      /\ clock \in Int /\ localEpoch \in Int
  BY DEF DispatcherInv, DispatcherTypeOK, TypeOK, SourceState
<1>1. CASE readClock(s)
  <2>1. /\ UNCHANGED <<queueVars, dispatcherVars>>
        /\ source' = [source EXCEPT ![s].phase = "read", ![s].sysTime = clock]
    BY <1>1 DEF readClock
  <2>2. QueueInv' /\ NeighboursOrdered'
    BY <2>1, QueueUntouched DEF DispatcherInv
  <2>3. ThreadInv' /\ NoStalePrediction' /\ GetNeverStarves'
    BY <2>1 DEF queueVars, dispatcherVars, DispatcherInv, ThreadInv,
                NoStalePrediction, GetNeverStarves
  <2>4. source' \in [Sources -> SourceState]
    BY <1>0, <2>1 DEF SourceState
  <2>5. StampInv'
    BY <1>0, <2>1 DEF queueVars, DispatcherInv, StampInv, getSimulationTime
  <2>6. DispatcherTypeOK'
    BY <2>1, <2>2, <2>4 DEF DispatcherInv, DispatcherTypeOK, QueueInv,
                            dispatcherVars
  <2> QED BY <2>2, <2>3, <2>5, <2>6 DEF DispatcherInv
<1>2. CASE getTimeStampNow(s)
  <2>1. /\ UNCHANGED <<queueVars, dispatcherVars>>
        /\ initialized
        /\ source' = [source EXCEPT ![s].phase = "stamped",
                        ![s].time = getSimulationTime(source[s].sysTime)]
    BY <1>2 DEF getTimeStampNow, waitIfUninitialized
  <2>2. QueueInv' /\ NeighboursOrdered'
    BY <2>1, QueueUntouched DEF DispatcherInv
  <2>3. ThreadInv' /\ NoStalePrediction' /\ GetNeverStarves'
    BY <2>1 DEF queueVars, dispatcherVars, DispatcherInv, ThreadInv,
                NoStalePrediction, GetNeverStarves
  <2>4. getSimulationTime(source[s].sysTime) \in Int
    BY <1>0, ResolutionAssumption DEF getSimulationTime
  <2>5. source' \in [Sources -> SourceState]
    BY <1>0, <2>1, <2>4 DEF SourceState
  <2>6. StampInv'
    BY <1>0, <2>1 DEF queueVars, DispatcherInv, StampInv, getSimulationTime
  <2>7. DispatcherTypeOK'
    BY <2>1, <2>2, <2>5 DEF DispatcherInv, DispatcherTypeOK, QueueInv,
                            dispatcherVars
  <2> QED BY <2>2, <2>3, <2>6, <2>7 DEF DispatcherInv
<1>3. CASE pushEvent(s)
  <2>1. /\ add(source[s].time, FALSE)
        /\ source' = [source EXCEPT ![s].phase = "idle",
                        ![s].pushed = source[s].pushed + 1]
        /\ UNCHANGED <<pc, prediction, current, predictions>>
    BY <1>3 DEF pushEvent, pushExternalEvent, dispatcherVars
  <2>2. UNCHANGED <<localEpoch, initialized>> /\ initialized
    BY <2>1 DEF add, waitIfUninitialized
  <2>3. getter' = notified(getter)
    BY <2>1 DEF add, refuseOutdated, acceptEvent
  <2>4. QueueInv'
    BY <1>0, <2>1, AddPreservesInv DEF DispatcherInv
  <2>5. /\ Ascending(queue') /\ queue' # <<>>
        /\ NoPrediction(queue) => NoPrediction(queue')
    BY <1>0, <2>1, AddExternal DEF DispatcherInv, NeighboursOrdered
  <2>6. NeighboursOrdered' /\ NoStalePrediction'
    BY <2>1, <2>5 DEF DispatcherInv, NeighboursOrdered, NoStalePrediction,
                      NoPrediction
  <2>7. ThreadInv' /\ GetNeverStarves'
    BY <2>1, <2>2, <2>3, <2>5 DEF DispatcherInv, ThreadInv, GetNeverStarves,
                                  notified
  <2>8. source' \in [Sources -> SourceState]
    BY <1>0, <2>1 DEF SourceState
  <2>9. StampInv'
    BY <1>0, <2>1, <2>2 DEF DispatcherInv, StampInv, getSimulationTime
  <2>10. DispatcherTypeOK'
    BY <2>1, <2>4, <2>8 DEF DispatcherInv, DispatcherTypeOK, QueueInv
  <2> QED BY <2>4, <2>6, <2>7, <2>9, <2>10 DEF DispatcherInv
<1> QED BY <1>1, <1>2, <1>3
-----------------------------------------------------------------------------
(* The theorems about Spec.                                                *)

(* The invariant holds in every behaviour of the dispatcher.               *)
THEOREM DispatcherCorrect == Spec => []DispatcherInv
<1>1. DispatcherInv /\ [Next]_vars => DispatcherInv'
  <2> SUFFICES ASSUME DispatcherInv, [Next]_vars PROVE DispatcherInv'
    OBVIOUS
  <2>1. CASE initStartTimeNow
    BY <2>1, InitStartTimeNowPreserves
  <2>2. CASE \/ \E time \in Times : runPredict(time)
             \/ runPredictThrows \/ processEvent \/ processEventThrows
             \/ Terminated
    BY <2>2, RunPreserves
  <2>3. CASE addPrediction
    BY <2>3, AddPredictionPreserves
  <2>4. CASE getBlocks \/ wakeUp \/ timePasses
    BY <2>4, WaitingPreserves
  <2>5. CASE getNext
    BY <2>5, GetNextPreserves
  <2>6. CASE \E s \in Sources :
               readClock(s) \/ getTimeStampNow(s) \/ pushEvent(s)
    BY <2>6, SourcePreserves
  <2>7. CASE UNCHANGED vars
    <3>1. UNCHANGED <<queueVars, source>>
          /\ UNCHANGED <<pc, prediction, current, predictions>>
      BY <2>7 DEF vars, dispatcherVars
    <3>2. QueueInv' /\ NeighboursOrdered'
      BY <3>1, QueueUntouched DEF DispatcherInv
    <3>3. ThreadInv' /\ NoStalePrediction' /\ GetNeverStarves'
      BY <3>1 DEF queueVars, DispatcherInv, ThreadInv, NoStalePrediction,
                  GetNeverStarves
    <3>4. StampInv' /\ DispatcherTypeOK'
      BY <3>1, <3>2, StampsUntouched
         DEF queueVars, DispatcherInv, DispatcherTypeOK, QueueInv
    <3> QED BY <3>2, <3>3, <3>4 DEF DispatcherInv
  <2> QED
    BY <2>1, <2>2, <2>3, <2>4, <2>5, <2>6, <2>7 DEF Next
<1> QED BY <1>1, DispatcherInit, PTL DEF Spec

(* The type invariant of the dispatcher, its queue and the subscribers.    *)
THEOREM DispatcherTypeCorrect == Spec => []DispatcherTypeOK
<1>1. DispatcherInv => DispatcherTypeOK
  BY DEF DispatcherInv
<1> QED BY <1>1, DispatcherCorrect, PTL

(* No prediction outlives the round of run() in which it was made.         *)
THEOREM DispatcherNoStalePrediction == Spec => []NoStalePrediction
<1>1. DispatcherInv => NoStalePrediction
  BY DEF DispatcherInv
<1> QED BY <1>1, DispatcherCorrect, PTL

(* get() always has an event to wait for.                                  *)
THEOREM DispatcherGetNeverStarves == Spec => []GetNeverStarves
<1>1. DispatcherInv => GetNeverStarves
  BY DEF DispatcherInv
<1> QED BY <1>1, DispatcherCorrect, PTL

(* The assertion inside the loop of push() never fails.                    *)
THEOREM DispatcherNeighboursOrdered == Spec => []NeighboursOrdered
<1>1. DispatcherInv => NeighboursOrdered
  BY DEF DispatcherInv
<1> QED BY <1>1, DispatcherCorrect, PTL

(* Every stamp fits the epoch of the queue.                                *)
THEOREM DispatcherStampsOnFinalEpoch == Spec => []StampsOnFinalEpoch
<1>1. DispatcherInv => StampsOnFinalEpoch
  BY DEF DispatcherInv, StampInv, StampsOnFinalEpoch
<1> QED BY <1>1, DispatcherCorrect, PTL

(* In a well-formed ascending queue nothing is earlier than the front      *)
(* entry by more than two Eps.                                             *)
LEMMA FrontWithinTwoEps ==
    ASSUME NEW q \in Seq(Entry), isQueuePredictionConsistent(q), InOrder(q),
           Ascending(q), NEW i \in 2..Len(q)
    PROVE  q[1].time <= q[i].time + 2 * Eps
<1>1. /\ 1 \in 1..Len(q) /\ 2 \in 1..Len(q) /\ i \in 1..Len(q)
      /\ 2 \in 2..Len(q)
  OBVIOUS
<1>2. q[1].time \in Int /\ q[2].time \in Int /\ q[i].time \in Int
  BY <1>1, EntryFields
<1>3. q[1].time <= q[2].time + Eps
  <2>1. q[2 - 1].time <= q[2].time + Eps
    BY <1>1 DEF Ascending
  <2> QED BY <2>1
<1>4. CASE i = 2
  BY <1>2, <1>3, <1>4, EpsAssumption
<1>5. CASE i > 2
  <2>1. ~q[2].predicted
    BY <1>1 DEF isQueuePredictionConsistent
  <2>2. q[2].time <= q[i].time + Eps
    BY <1>1, <1>5, <2>1 DEF InOrder
  <2> QED BY <1>2, <1>3, <2>2, EpsAssumption
<1> QED BY <1>4, <1>5

(* A queued prediction is never later than a queued external event by more *)
(* than two Eps.                                                           *)
THEOREM DispatcherPredictionWithinTwoEps == Spec => []PredictionWithinTwoEps
<1>1. DispatcherInv => PredictionWithinTwoEps
  <2> SUFFICES ASSUME DispatcherInv, NEW i \in 2..Len(queue)
               PROVE  queue[1].time <= queue[i].time + 2 * Eps
    BY DEF PredictionWithinTwoEps
  <2> QED
    BY FrontWithinTwoEps
       DEF DispatcherInv, QueueInv, TypeOK, PredictionConsistent,
           ExternalsOrdered, NeighboursOrdered
<1> QED BY <1>1, DispatcherCorrect, PTL

(* Events are distributed in order up to two Eps.                          *)
THEOREM DispatcherDistributesInOrder == Spec => DistributedInOrder
<1>1. DispatcherInv /\ [Next]_vars
        => [getNext => \A i \in 1..Len(queue') :
              current'.time <= queue'[i].time + 2 * Eps]_vars
  <2> SUFFICES ASSUME DispatcherInv, getNext, NEW i \in 1..Len(queue')
               PROVE  current'.time <= queue'[i].time + 2 * Eps
    OBVIOUS
  <2>1. /\ queue \in Seq(Entry) /\ isQueuePredictionConsistent(queue)
        /\ InOrder(queue) /\ Ascending(queue)
    BY DEF DispatcherInv, QueueInv, TypeOK, PredictionConsistent,
           ExternalsOrdered, NeighboursOrdered
  <2>2. queue # <<>> /\ queue' = Tail(queue) /\ current' = Head(queue)
    BY DEF getNext, getPop
  <2>3. Head(queue) = queue[1] /\ i + 1 \in 2..Len(queue)
        /\ queue'[i] = queue[i + 1]
    BY <2>1, <2>2, TailProperties
  <2> QED BY <2>1, <2>2, <2>3, FrontWithinTwoEps
<1> QED BY <1>1, DispatcherCorrect, PTL DEF Spec, DistributedInOrder

-----------------------------------------------------------------------------
(* The front of the queue and the prediction horizon.                      *)

(* The next event is the prediction made for the horizon itself, or an     *)
(* external event that is not after the horizon.                           *)
FrontWithin(q, horizon) ==
    /\ q # <<>>
    /\ Head(q).time <= horizon
    /\ Head(q).predicted => Head(q).time = horizon

(* Adding the prediction itself establishes this: the prediction is put in *)
(* front, or it is refused because the front event is earlier.             *)
LEMMA PredictionSetsHorizon ==
    ASSUME QueueInv, NEW time \in Int, add(time, TRUE), NoPrediction(queue)
    PROVE  FrontWithin(queue', time)
<1> DEFINE ev == [id |-> nextId, time |-> time, predicted |-> TRUE]
           kept == removeFuturPredictions(queue, time)
<1>1. queue \in Seq(Entry) /\ ev \in Entry /\ ev.predicted /\ ev.time = time
  BY DEF QueueInv, TypeOK, Entry
<1>2. ~IsPrediction(queue)
  BY <1>1, FrontEntry DEF IsPrediction, NoPrediction
<1>3. kept = queue
  BY <1>2 DEF removeFuturPredictions
<1>4. refuseOutdated(ev, kept) \/ acceptEvent(ev, kept)
  BY DEF add
<1>5. CASE refuseOutdated(ev, kept)
  <2>1. queue' = queue /\ queue # <<>> /\ Head(queue).time < time - Eps
    BY <1>1, <1>3, <1>5 DEF refuseOutdated, hasPriorEvents
  <2>2. ~Head(queue).predicted /\ Head(queue).time \in Int
    BY <1>1, <1>2, <2>1, FrontEntry DEF IsPrediction
  <2> QED BY <2>1, <2>2, EpsAssumption DEF FrontWithin
<1>6. CASE acceptEvent(ev, kept)
  <2>1. removeConcurrentPrediction(queue, time) = queue
    BY <1>2 DEF removeConcurrentPrediction
  <2>2. queue' = InsertAt(queue, 1, ev)
    BY <1>1, <1>3, <1>6, <2>1 DEF acceptEvent, pushPositions
  <2>3. 1 \in 1..(Len(queue) + 1)
    BY <1>1
  <2>4. /\ queue' \in Seq(Entry)
        /\ Len(queue') = Len(queue) + 1
        /\ queue'[1] = ev
    BY <1>1, <2>2, <2>3, InsertAtProperties
  <2>5. queue' # <<>> /\ Head(queue') = ev
    BY <1>1, <2>4
  <2> QED BY <1>1, <2>5 DEF FrontWithin
<1> QED BY <1>4, <1>5, <1>6

(* An external event keeps it: a prediction loses the front only to an     *)
(* event that is earlier.                                                  *)
LEMMA ExternalKeepsHorizon ==
    ASSUME QueueInv, NEW time \in Int, add(time, FALSE),
           NEW horizon \in Int, FrontWithin(queue, horizon)
    PROVE  FrontWithin(queue', horizon)
<1> DEFINE ev == [id |-> nextId, time |-> time, predicted |-> FALSE]
           kept == removeFuturPredictions(queue, time)
<1>1. /\ queue \in Seq(Entry) /\ InOrder(queue)
      /\ isQueuePredictionConsistent(queue)
      /\ ev \in Entry /\ ev.time = time /\ ~ev.predicted
  BY DEF QueueInv, TypeOK, ExternalsOrdered, PredictionConsistent, Entry
<1>2. kept \in Seq(Entry)
  BY <1>1, RemoveFuturPreserves
<1>3. PICK pos \in pushPositions(kept, ev) : queue' = InsertAt(kept, pos, ev)
  BY <1>1 DEF add, refuseOutdated, acceptEvent
<1> HIDE DEF ev
<1>4. Head(queue) = queue[1] /\ Head(queue).time \in Int /\ queue # <<>>
  BY <1>1, FrontEntry DEF FrontWithin
<1>5. \/ kept = queue /\ (Head(queue).predicted => Head(queue).time <= time + Eps)
      \/ kept = Tail(queue) /\ time < horizon - Eps
  BY <1>1, <1>4, EpsAssumption
     DEF removeFuturPredictions, IsPrediction, FrontWithin
<1>6. kept = Tail(queue) => NoPrediction(kept)
  BY <1>1, <1>4, TailPreserves DEF NoPrediction
<1> HIDE DEF kept
<1>7. /\ Len(kept) \in Nat
      /\ pos \in 1..(Len(kept) + 1)
      /\ \A j \in 1..(pos - 1) : kept[j].time <= time + Eps
      /\ pos <= Len(kept) => kept[pos].time > time + Eps
  BY <1>1, <1>2 DEF pushPositions
<1>8. /\ queue' \in Seq(Entry)
      /\ Len(queue') = Len(kept) + 1
      /\ queue'[1] = IF 1 < pos THEN kept[1] ELSE ev
  <2>0. queue' \in Seq(Entry)
    BY AddPreservesInv DEF QueueInv, TypeOK
  <2>1. /\ Len(queue') = Len(kept) + 1
        /\ \A i \in 1..(Len(kept) + 1) :
             queue'[i] = IF i < pos THEN kept[i]
                         ELSE IF i = pos THEN ev ELSE kept[i - 1]
    <3>1. ev \in Entry /\ pos \in 1..(Len(kept) + 1)
      BY <1>1, <1>7
    <3> QED BY <1>2, <1>3, <3>1, InsertAtProperties
  <2>2. 1 \in 1..(Len(kept) + 1) /\ (1 < pos \/ 1 = pos)
    BY <1>7
  <2> QED BY <2>0, <2>1, <2>2
<1>9. queue' # <<>> /\ Head(queue') = queue'[1]
  <2>1. queue' # <<>>
    BY <1>7, <1>8
  <2> QED BY <1>8, <2>1, FrontEntry
<1>10. CASE pos = 1
  <2>1. Head(queue') = ev
    BY <1>8, <1>9, <1>10
  <2>2. time <= horizon
    <3>1. CASE kept = queue
      <4>1. 1 \in 1..Len(queue) /\ kept[1].time > time + Eps
        BY <1>1, <1>4, <1>7, <1>10, <3>1, FrontEntry
      <4> QED BY <1>4, <3>1, <4>1, EpsAssumption DEF FrontWithin
    <3>2. CASE time < horizon - Eps
      BY <3>2, EpsAssumption
    <3> QED BY <1>5, <3>1, <3>2
  <2> QED BY <1>1, <1>9, <2>1, <2>2 DEF FrontWithin
<1>11. CASE pos > 1
  <2>1. Head(queue') = kept[1] /\ 1 \in 1..Len(kept) /\ 1 \in 1..(pos - 1)
    BY <1>7, <1>8, <1>9, <1>11
  <2>2. kept[1].time <= time + Eps /\ kept[1].time \in Int
    BY <1>2, <1>7, <2>1, EntryFields
  <2>3. CASE kept = queue
    BY <1>4, <1>9, <2>1, <2>3 DEF FrontWithin
  <2>4. CASE kept = Tail(queue) /\ time < horizon - Eps
    <3>1. ~kept[1].predicted
      BY <1>6, <2>1, <2>4 DEF NoPrediction
    <3> QED BY <1>9, <2>1, <2>2, <2>4, <3>1, EpsAssumption DEF FrontWithin
  <2> QED BY <1>5, <2>3, <2>4
<1> QED BY <1>7, <1>10, <1>11

-----------------------------------------------------------------------------
(* The queue inside the program.  The dispatcher and the subscribers push  *)
(* stamps that need not be in Times, so that QueueSpec does not cover      *)
(* them; the steps of the queue are the same.                              *)

(* What the program does to the queue in a step.                           *)
LEMMA DispatcherQueueSteps ==
    ASSUME DispatcherInv, [Next]_vars
    PROVE  \/ UNCHANGED <<queue, initialized, returned, outdated, nextId>>
           \/ notifyInitialized \/ getPop
           \/ \E time \in Int : \/ add(time, TRUE) /\ NoPrediction(queue)
                               \/ add(time, FALSE)
<1>1. CASE initStartTimeNow
  BY <1>1 DEF initStartTimeNow, startUp, setPreliminaryEpoch, correctEpoch
<1>2. CASE addPrediction
  BY <1>2 DEF addPrediction, DispatcherInv, DispatcherTypeOK,
              NoStalePrediction, NoPrediction
<1>3. CASE getNext
  BY <1>3 DEF getNext
<1>4. CASE \E s \in Sources : pushEvent(s)
  <2>1. PICK s \in Sources : pushExternalEvent(source[s].time)
    BY <1>4 DEF pushEvent
  <2>2. source[s].time \in Int
    BY DEF DispatcherInv, DispatcherTypeOK, SourceState
  <2> QED BY <2>1, <2>2 DEF pushExternalEvent
<1>5. CASE getBlocks \/ wakeUp \/ timePasses
  BY <1>5 DEF getBlocks, wakeUp, timePasses, getEnter, getLoop, getWait,
              getTimedWait, timeout, spuriousWakeup, Tick
<1>6. CASE \/ \E time \in Times : runPredict(time)
           \/ runPredictThrows \/ processEvent \/ processEventThrows
           \/ \E s \in Sources : readClock(s) \/ getTimeStampNow(s)
           \/ Terminated \/ UNCHANGED vars
  <2>1. UNCHANGED queueVars
    BY <1>6 DEF runPredict, runPredictThrows, processEvent,
                processEventThrows, readClock, getTimeStampNow, Terminated,
                vars
  <2> QED BY <2>1 DEF queueVars
<1> QED BY <1>1, <1>2, <1>3, <1>4, <1>5, <1>6 DEF Next

(* Every event of the program is owned exactly once: in the queue, handed  *)
(* to run() or deleted as outdated.                                        *)
THEOREM DispatcherEventsOwnedOnce == Spec => []EventsOwnedOnce
<1>1. Init => EventsOwnedOnce
  BY OwnedInitially DEF Init
<1>2. DispatcherInv /\ EventsOwnedOnce /\ [Next]_vars => EventsOwnedOnce'
  <2> SUFFICES ASSUME DispatcherInv, EventsOwnedOnce, [Next]_vars
               PROVE  EventsOwnedOnce'
    OBVIOUS
  <2>1. QueueInv
    BY DEF DispatcherInv
  <2>2. CASE UNCHANGED <<queue, returned, outdated, nextId>>
    BY <2>2 DEF EventsOwnedOnce, DistinctIds, Ids, ToSet
  <2>3. CASE notifyInitialized
    BY <2>2, <2>3 DEF notifyInitialized
  <2>4. CASE getPop
    BY <2>1, <2>4, PopKeepsOwnership
  <2>5. CASE \E time \in Int : add(time, TRUE) \/ add(time, FALSE)
    BY <2>1, <2>5, AddKeepsOwnership
  <2> QED BY <2>2, <2>3, <2>4, <2>5, DispatcherQueueSteps
<1> QED BY <1>1, <1>2, DispatcherCorrect, PTL DEF Spec

-----------------------------------------------------------------------------
(* TimedEventQueue implements the interface EventQueue: the list is read   *)
(* as a set of external events and a set of predictions.                   *)

Externals(q) == {ev \in ToSet(q) : ~ev.predicted}
Predictions(q) == {ev \in ToSet(q) : ev.predicted}

(* Erasing a prediction at the front leaves the external events and no     *)
(* prediction.                                                             *)
LEMMA SplitTail ==
    ASSUME NEW q \in Seq(Entry), isQueuePredictionConsistent(q), InOrder(q),
           IsPrediction(q)
    PROVE  /\ Externals(Tail(q)) = Externals(q)
           /\ Predictions(Tail(q)) = {}
           /\ Predictions(q) = {Head(q)}
           /\ ToSet(q) \ ToSet(Tail(q)) = {Head(q)}
<1>1. q # <<>> /\ Head(q).predicted
  BY DEF IsPrediction
<1>2. ToSet(q) = {Head(q)} \cup ToSet(Tail(q))
  BY <1>1, ToSetTail
<1>3. \A ev \in ToSet(Tail(q)) : ~ev.predicted
  <2>1. Tail(q) \in Seq(Entry) /\ \A i \in 1..Len(Tail(q)) : ~Tail(q)[i].predicted
    BY <1>1, TailPreserves
  <2> QED BY <2>1 DEF ToSet
<1> QED BY <1>1, <1>2, <1>3 DEF Externals, Predictions

(* A queue without a prediction at its front has none.                     *)
LEMMA SplitExternal ==
    ASSUME NEW q \in Seq(Entry), isQueuePredictionConsistent(q),
           ~IsPrediction(q)
    PROVE  Predictions(q) = {} /\ Externals(q) = ToSet(q)
<1>1. \A i \in 1..Len(q) : ~q[i].predicted
  <2> TAKE i \in 1..Len(q)
  <2>1. CASE i = 1
    <3>1. q # <<>>
      BY <2>1
    <3> QED BY <2>1, <3>1, FrontEntry
  <2>2. CASE i # 1
    <3>1. i \in 2..Len(q)
      BY <2>2
    <3> QED BY <3>1 DEF isQueuePredictionConsistent
  <2> QED BY <2>1, <2>2
<1>2. \A ev \in ToSet(q) : ~ev.predicted
  BY <1>1 DEF ToSet
<1> QED BY <1>2 DEF Externals, Predictions

(* The sets after an insertion.                                            *)
LEMMA SplitInsertAt ==
    ASSUME NEW q \in Seq(Entry), NEW ev \in Entry, NEW k \in 1..(Len(q) + 1),
           NEW r, r = InsertAt(q, k, ev)
    PROVE  /\ ev.predicted => /\ Externals(r) = Externals(q)
                              /\ Predictions(r) = Predictions(q) \cup {ev}
           /\ ~ev.predicted => /\ Externals(r) = Externals(q) \cup {ev}
                               /\ Predictions(r) = Predictions(q)
<1>1. ToSet(r) = ToSet(q) \cup {ev}
  BY ToSetInsertAt
<1> QED BY <1>1 DEF Externals, Predictions
-----------------------------------------------------------------------------

(* The event that is passed to add() is new to the abstract queue.         *)
LEMMA NextIdFresh ==
    ASSUME TypeOK, EventsOwnedOnce, NEW ev, ev.id = nextId
    PROVE  Contract!Fresh(ev)
<1>1. nextId \notin 0..(nextId - 1)
  BY DEF TypeOK
<1>2. \A other \in ToSet(queue) \cup returned \cup outdated : other.id # nextId
  BY <1>1 DEF EventsOwnedOnce, Ids
<1> QED BY <1>2 DEF Contract!Fresh, Contract!Known

(* The entries of a queue without predictions follow its front up to Eps.  *)
LEMMA FrontFirst ==
    ASSUME NEW q \in Seq(Entry), InOrder(q), q # <<>>, ~Head(q).predicted
    PROVE  /\ Head(q) \in Externals(q)
           /\ Head(q).time \in Int
           /\ \A e \in ToSet(q) :
                 e.time \in Int /\ Head(q).time <= e.time + Eps
<1>1. Len(q) >= 1 /\ Head(q) = q[1]
  OBVIOUS
<1>2. Head(q) \in ToSet(q)
  BY <1>1 DEF ToSet
<1>3. ASSUME NEW e \in ToSet(q)
      PROVE  e.time \in Int /\ Head(q).time <= e.time + Eps
  <2>1. PICK i \in 1..Len(q) : e = q[i]
    BY DEF ToSet
  <2>2. q[1].time \in Int /\ q[i].time \in Int
    BY <1>1, <2>1, EntryFields
  <2>3. CASE i = 1
    BY <1>1, <2>1, <2>2, <2>3, EpsAssumption
  <2>4. CASE i # 1
    BY <1>1, <2>1, <2>2, <2>4 DEF InOrder
  <2> QED BY <2>3, <2>4
<1> QED BY <1>2, <1>3 DEF Externals

(* A refused prediction leaves the queue as it was: an external event is   *)
(* scheduled before it.                                                    *)
LEMMA RefuseRefines ==
    ASSUME QueueInv, NoPrediction(queue),
           NEW ev \in Entry, Contract!Fresh(ev), initialized,
           UNCHANGED <<initialized, returned>>,
           refuseOutdated(ev, removeFuturPredictions(queue, ev.time))
    PROVE  Contract!AbstractNext
<1>0. queue \in Seq(Entry) /\ InOrder(queue) /\ ev.time \in Int
  BY DEF QueueInv, TypeOK, ExternalsOrdered, Entry
<1>1. queue # <<>> => ~Head(queue).predicted
  BY <1>0 DEF NoPrediction
<1>2. removeFuturPredictions(queue, ev.time) = queue
  BY <1>1 DEF removeFuturPredictions, IsPrediction
<1>3. /\ ev.predicted
      /\ hasPriorEvents(queue, ev.time)
      /\ queue' = queue
      /\ outdated' = outdated \cup (ToSet(queue) \ ToSet(queue)) \cup {ev}
  BY <1>2 DEF refuseOutdated
<1>4. /\ queue # <<>> /\ Head(queue).time < ev.time - Eps
      /\ outdated' = outdated \cup {ev}
  BY <1>3 DEF hasPriorEvents
<1>5. Head(queue) \in Externals(queue)
  BY <1>0, <1>1, <1>4, FrontFirst
<1>6. \E e \in Externals(queue) : Contract!Before(e, ev)
  BY <1>4, <1>5 DEF Contract!Before
<1>7. Contract!RefusePredicted(ev)
  BY <1>3, <1>4, <1>6 DEF Contract!RefusePredicted, Externals
<1>8. ev \in Contract!Known'
  BY <1>4 DEF Contract!Known
<1> QED BY <1>7, <1>8 DEF Contract!AbstractNext

(* An accepted prediction is at most 2 * Eps behind any external event,    *)
(* since it is at most Eps behind the front of the queue.                  *)
LEMMA AcceptPredictedRefines ==
    ASSUME QueueInv, NoPrediction(queue),
           NEW ev \in Entry, Contract!Fresh(ev), initialized,
           UNCHANGED <<initialized, returned>>, ev.predicted,
           acceptEvent(ev, removeFuturPredictions(queue, ev.time))
    PROVE  Contract!AbstractNext
<1>0. /\ queue \in Seq(Entry) /\ InOrder(queue) /\ ev.time \in Int
      /\ isQueuePredictionConsistent(queue)
  BY DEF QueueInv, TypeOK, ExternalsOrdered, PredictionConsistent, Entry
<1>1. queue # <<>> => ~Head(queue).predicted
  BY <1>0 DEF NoPrediction
<1>2. /\ removeFuturPredictions(queue, ev.time) = queue
      /\ removeConcurrentPrediction(queue, ev.time) = queue
      /\ ~IsPrediction(queue)
  BY <1>1 DEF removeFuturPredictions, removeConcurrentPrediction, IsPrediction
<1>3. /\ ~hasPriorEvents(queue, ev.time)
      /\ \E pos \in pushPositions(queue, ev) : queue' = InsertAt(queue, pos, ev)
      /\ outdated' = outdated \cup (ToSet(queue) \ ToSet(queue))
  BY <1>2 DEF acceptEvent
<1>4. Predictions(queue) = {} /\ Externals(queue) = ToSet(queue)
  BY <1>0, <1>2, SplitExternal
<1>5. \A e \in Externals(queue) : ev.time <= e.time + 2 * Eps
  <2>1. CASE queue = <<>>
    <3>1. ToSet(queue) = {}
      BY <2>1 DEF ToSet
    <3> QED BY <1>4, <3>1
  <2>2. CASE queue # <<>>
    <3>1. /\ Head(queue).time \in Int
          /\ \A e \in ToSet(queue) :
                e.time \in Int /\ Head(queue).time <= e.time + Eps
      BY <1>0, <1>1, <2>2, FrontFirst
    <3>2. Head(queue).time >= ev.time - Eps
      BY <1>0, <1>3, <2>2, <3>1, EpsAssumption DEF hasPriorEvents
    <3> QED BY <1>0, <1>4, <3>1, <3>2, EpsAssumption
  <2> QED BY <2>1, <2>2
<1>6. queue' = InsertAt(queue, 1, ev)
  BY <1>3 DEF pushPositions
<1>7. /\ Externals(queue') = Externals(queue)
      /\ Predictions(queue') = {ev}
      /\ outdated' = outdated \cup Predictions(queue)
      /\ ev \in ToSet(queue')
  <2>1. 1 \in 1..(Len(queue) + 1)
    BY <1>0
  <2> QED BY <1>0, <1>3, <1>4, <1>6, <2>1, SplitInsertAt, ToSetInsertAt
<1>8. Contract!AddPredicted(ev)
  BY <1>5, <1>7 DEF Contract!AddPredicted, Externals, Predictions
<1>9. ev \in Contract!Known'
  BY <1>7 DEF Contract!Known, Predictions
<1> QED BY <1>8, <1>9 DEF Contract!AbstractNext

(* An external event erases the prediction exactly if it is scheduled      *)
(* before it.                                                              *)
LEMMA AcceptExternalRefines ==
    ASSUME QueueInv,
           NEW ev \in Entry, Contract!Fresh(ev), initialized,
           UNCHANGED <<initialized, returned>>, ~ev.predicted,
           acceptEvent(ev, removeFuturPredictions(queue, ev.time))
    PROVE  Contract!AbstractNext
<1> DEFINE kept == removeFuturPredictions(queue, ev.time)
           Later == {p \in Predictions(queue) : Contract!Before(ev, p)}
           NotLater == {p \in Predictions(queue) : ~Contract!Before(ev, p)}
<1>0. /\ queue \in Seq(Entry) /\ InOrder(queue) /\ ev.time \in Int
      /\ isQueuePredictionConsistent(queue)
  BY DEF QueueInv, TypeOK, ExternalsOrdered, PredictionConsistent, Entry
<1>1. PICK pos \in pushPositions(kept, ev) : queue' = InsertAt(kept, pos, ev)
  BY DEF acceptEvent
<1>2. outdated' = outdated \cup (ToSet(queue) \ ToSet(kept))
  BY DEF acceptEvent
<1>3. kept \in Seq(Entry)
  BY <1>0, RemoveFuturPreserves
<1>4. /\ Externals(kept) = Externals(queue)
      /\ Predictions(kept) = NotLater
      /\ ToSet(queue) \ ToSet(kept) = Later
  <2>1. CASE IsPrediction(queue)
    <3>1. /\ Externals(Tail(queue)) = Externals(queue)
          /\ Predictions(Tail(queue)) = {}
          /\ Predictions(queue) = {Head(queue)}
          /\ ToSet(queue) \ ToSet(Tail(queue)) = {Head(queue)}
      BY <1>0, <2>1, SplitTail
    <3>2. Head(queue).time \in Int
      <4>1. Len(queue) >= 1 /\ Head(queue) = queue[1]
        BY <1>0, <2>1 DEF IsPrediction
      <4> QED BY <1>0, <4>1, EntryFields
    <3>3. CASE Head(queue).time > ev.time + Eps
      <4>1. kept = Tail(queue)
        BY <2>1, <3>3 DEF removeFuturPredictions
      <4>2. Contract!Before(ev, Head(queue))
        BY <1>0, <3>2, <3>3, EpsAssumption DEF Contract!Before
      <4> HIDE DEF kept
      <4> QED BY <3>1, <4>1, <4>2
    <3>4. CASE ~(Head(queue).time > ev.time + Eps)
      <4>1. kept = queue
        BY <3>4 DEF removeFuturPredictions
      <4>2. ~Contract!Before(ev, Head(queue))
        BY <1>0, <3>2, <3>4, EpsAssumption DEF Contract!Before
      <4> HIDE DEF kept
      <4> QED BY <3>1, <4>1, <4>2
    <3> QED BY <3>3, <3>4
  <2>2. CASE ~IsPrediction(queue)
    <3>1. kept = queue
      BY <2>2 DEF removeFuturPredictions
    <3>2. Predictions(queue) = {}
      BY <1>0, <2>2, SplitExternal
    <3> HIDE DEF kept
    <3> QED BY <3>1, <3>2
  <2> QED BY <2>1, <2>2
<1> HIDE DEF kept
<1>5. pos \in 1..(Len(kept) + 1)
  BY <1>1, <1>3 DEF pushPositions
<1>6. /\ Externals(queue') = Externals(queue) \cup {ev}
      /\ Predictions(queue') = NotLater
      /\ outdated' = outdated \cup Later
      /\ ev \in ToSet(queue')
  BY <1>1, <1>2, <1>3, <1>4, <1>5, SplitInsertAt, ToSetInsertAt
<1>7. Contract!AddExternal(ev)
  BY <1>6 DEF Contract!AddExternal, Externals, Predictions
<1>8. ev \in Contract!Known'
  BY <1>6 DEF Contract!Known
<1> QED BY <1>7, <1>8 DEF Contract!AbstractNext

(* add() implements one of the three abstract additions.                   *)
LEMMA AddRefines ==
    ASSUME QueueInv, EventsOwnedOnce,
           NEW time \in Int, NEW predicted \in BOOLEAN, add(time, predicted),
           predicted => NoPrediction(queue)
    PROVE  Contract!AbstractNext
<1>1. PICK ev \in Entry :
        ev = [id |-> nextId, time |-> time, predicted |-> predicted]
  BY DEF QueueInv, TypeOK, Entry
<1>2. ev.id = nextId /\ ev.time = time /\ ev.predicted = predicted
  BY <1>1
<1>3. /\ \/ refuseOutdated(ev, removeFuturPredictions(queue, ev.time))
         \/ acceptEvent(ev, removeFuturPredictions(queue, ev.time))
      /\ initialized
      /\ UNCHANGED <<initialized, returned>>
  BY <1>1, <1>2 DEF add, waitIfUninitialized
<1>4. Contract!Fresh(ev)
  BY <1>2, NextIdFresh DEF QueueInv
<1>5. CASE refuseOutdated(ev, removeFuturPredictions(queue, ev.time))
  <2>1. ev.predicted
    BY <1>5 DEF refuseOutdated
  <2> QED BY <1>2, <1>3, <1>4, <1>5, <2>1, RefuseRefines
<1>6. CASE acceptEvent(ev, removeFuturPredictions(queue, ev.time))
  <2>1. CASE ev.predicted
    BY <1>2, <1>3, <1>4, <1>6, <2>1, AcceptPredictedRefines
  <2>2. CASE ~ev.predicted
    BY <1>3, <1>4, <1>6, <2>2, AcceptExternalRefines
  <2> QED BY <2>1, <2>2
<1> QED BY <1>3, <1>5, <1>6

(* The last step of initStartTimeNow() opens the abstract queue.           *)
LEMMA OpenRefines ==
    ASSUME QueueInv, notifyInitialized
    PROVE  Contract!AbstractNext
<1>1. /\ ~initialized /\ initialized' = TRUE
      /\ UNCHANGED <<queue, returned, outdated>>
  BY DEF notifyInitialized, QueueInv, NothingBeforeInit
<1>2. Contract!Open
  BY <1>1 DEF Contract!Open
<1> QED BY <1>2 DEF Contract!AbstractNext

(* The returning step of get() implements the abstract one.                *)
LEMMA PopRefines ==
    ASSUME QueueInv, EventsOwnedOnce, getPop
    PROVE  Contract!AbstractNext
<1> DEFINE ev == Head(queue)
<1>0. /\ queue \in Seq(Entry)
      /\ isQueuePredictionConsistent(queue)
      /\ InOrder(queue)
      /\ DistinctIds(queue)
  BY DEF QueueInv, TypeOK, PredictionConsistent, ExternalsOrdered,
         EventsOwnedOnce
<1>1. /\ queue # <<>>
      /\ queue' = Tail(queue)
      /\ returned' = returned \cup {ev}
      /\ UNCHANGED <<outdated, initialized>>
  BY DEF getPop
<1>2. initialized
  BY <1>1 DEF QueueInv, NothingBeforeInit
<1>3. ToSet(queue) = {ev} \cup ToSet(queue') /\ ev \notin ToSet(queue')
  <2>1. ev.id \notin Ids(ToSet(queue'))
    BY <1>0, <1>1, DistinctTail
  <2>2. ev \notin ToSet(queue')
    BY <2>1 DEF Ids
  <2> QED BY <1>0, <1>1, <2>2, ToSetTail
<1>4. /\ Externals(queue') = Externals(queue) \ {ev}
      /\ Predictions(queue') = Predictions(queue) \ {ev}
  BY <1>3 DEF Externals, Predictions
<1>5. \/ ev \in Predictions(queue)
      \/ /\ Predictions(queue) = {}
         /\ ev \in Externals(queue)
         /\ \A e \in Externals(queue) : ~Contract!Before(e, ev)
  <2>1. CASE IsPrediction(queue)
    BY <1>3, <2>1 DEF IsPrediction, Predictions
  <2>2. CASE ~IsPrediction(queue)
    <3>1. ~ev.predicted
      BY <1>1, <2>2 DEF IsPrediction
    <3>2. /\ Head(queue) \in Externals(queue)
          /\ Head(queue).time \in Int
          /\ \A e \in ToSet(queue) :
                e.time \in Int /\ Head(queue).time <= e.time + Eps
      BY <1>0, <1>1, <3>1, FrontFirst
    <3>3. \A e \in ToSet(queue) : ~(e.time < ev.time - Eps)
      BY <3>2, EpsAssumption
    <3> QED BY <1>0, <2>2, <3>2, <3>3, SplitExternal DEF Contract!Before
  <2> QED BY <2>1, <2>2
<1> HIDE DEF ev
<1>10. PICK e : e = ev
  OBVIOUS
<1>6. Contract!Get(e)
  BY <1>1, <1>2, <1>4, <1>5, <1>10 DEF Contract!Get, Externals, Predictions
<1>7. e \in Contract!Known'
  BY <1>1, <1>10 DEF Contract!Known
<1> QED BY <1>6, <1>7 DEF Contract!AbstractNext

(* Towards the predictor and the listeners the queue of the running        *)
(* program behaves as the interface EventQueue promises, to the tolerance: *)
(* that no prediction is left in the queue when the next one is added is   *)
(* what keeps a refusal from modifying the queue.                          *)
THEOREM DispatcherImplementsContract == Spec => ImplementsEventQueue
<1>1. Init => Contract!AbstractInit
  BY DEF Init, QueueInit, Contract!AbstractInit, ToSet
<1>2. DispatcherInv /\ EventsOwnedOnce /\ [Next]_vars
        => [Contract!AbstractNext]_(Contract!abstractVars)
  <2> SUFFICES ASSUME DispatcherInv, EventsOwnedOnce, [Next]_vars
               PROVE  [Contract!AbstractNext]_(Contract!abstractVars)
    OBVIOUS
  <2>1. QueueInv
    BY DEF DispatcherInv
  <2>2. CASE UNCHANGED <<queue, initialized, returned, outdated>>
    BY <2>2 DEF Contract!abstractVars
  <2>3. CASE notifyInitialized
    BY <2>1, <2>3, OpenRefines
  <2>4. CASE getPop
    BY <2>1, <2>4, PopRefines
  <2>5. CASE \E time \in Int : \/ add(time, TRUE) /\ NoPrediction(queue)
                               \/ add(time, FALSE)
    BY <2>1, <2>5, AddRefines
  <2> QED BY <2>2, <2>3, <2>4, <2>5, DispatcherQueueSteps
<1> QED
  BY <1>1, <1>2, DispatcherCorrect, DispatcherEventsOwnedOnce, PTL
     DEF Spec, ImplementsEventQueue, Contract!AbstractSpec

=============================================================================
