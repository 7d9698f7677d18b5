--------------------------- MODULE TimedEventQueue ---------------------------
(***************************************************************************)
(* The real-time event queue of FMITerminalBlock                           *)
(* (src/src/timing/TimedEventQueue.cpp).                                   *)
(*                                                                         *)
(* One consumer thread, the event dispatcher, adds predictions and calls   *)
(* get(); any number of subscriber threads push external events.  The      *)
(* queue mutex makes add() one atomic step and each round of the loop in   *)
(* get() another: the mutex is given up only inside the condition          *)
(* variable's wait() and timed_wait().                                     *)
(*                                                                         *)
(* This module holds the queue's state and operations.  Spec runs them     *)
(* with the most liberal client the class admits: externals of any time at *)
(* any moment, predictions of any time whenever the consumer is not inside *)
(* get().  Module EventDispatcher runs the same operations with the clients*)
(* that the program really has.                                            *)
(*                                                                         *)
(* Simulation time (fmiTime) and wall-clock time are integers.  One tick   *)
(* of the wall clock is Resolution units of simulation time, so that a     *)
(* simulation time may lie strictly between two clock ticks.               *)
(***************************************************************************)
EXTENDS Integers, SequencesExt

CONSTANTS
    Eps,         \* eps_: tolerance of every comparison of simulation times
    Resolution,  \* units of simulation time per tick of the wall clock
    StartTime,   \* app.startTime, the argument of initStartTimeNow()
    Times,       \* the simulation times a free client or predictor may use
    MaxSetup,    \* bound: clock ticks before the queue is initialised
    MaxClock,    \* bound: clock ticks relative to the local epoch
    MaxEvents    \* bound: number of events handed to add()

ASSUME EpsAssumption == Eps \in Nat
ASSUME ResolutionAssumption == Resolution \in Nat \ {0}
ASSUME StartTimeAssumption == StartTime \in Nat
ASSUME TimesAssumption == Times \subseteq Int
ASSUME BoundsAssumption ==
    MaxSetup \in Nat /\ MaxClock \in Nat /\ MaxEvents \in Nat

VARIABLES
    queue,        \* queue_: sequence of entries, the next event first
    localEpoch,   \* localEpoch_: wall-clock time of simulation time 0
    initPhase,    \* how far initStartTimeNow() has come
    initialized,  \* initialized_ of timeInitBarrier_
    clock,        \* microsec_clock::universal_time()
    getter,       \* where the consumer thread is inside get()
    wakeAt,       \* absolute deadline of the last timed_wait()
    returned,     \* history: the entries get() has returned
    outdated,     \* history: the entries deleteEvent() has destroyed
    nextId        \* history: identity of the next event passed to add()

queueVars == <<queue, localEpoch, initPhase, initialized, clock, getter,
               wakeAt, returned, outdated, nextId>>

(* An element of queue_: an Event pointer, identified by id, with the time *)
(* of the event, and the flag that marks it as a prediction.               *)
Entry == [id : Nat, time : Int, predicted : BOOLEAN]

InitPhases == {"constructed", "preliminary", "corrected", "done"}

(* "out":        the consumer is not inside get()                          *)
(* "loop":       it is about to run the body of the while loop             *)
(* "wait":       it is blocked in newEventCondition_.wait()                *)
(* "timed_wait": it is blocked in newEventCondition_.timed_wait()          *)
GetterStates == {"out", "loop", "wait", "timed_wait"}

-----------------------------------------------------------------------------
(* Conversions between simulation time and wall-clock time.                *)

(* Rounded down to the resolution of the clock.                            *)
getRelativeTime(time) == time \div Resolution

getSystemTime(ev) == localEpoch + getRelativeTime(ev.time)

getSimulationTime(sysTime) == (sysTime - localEpoch) * Resolution

(* Mutant: events are released one tick early.                             *)
isFutureEventEarly(ev) == getSystemTime(ev) > clock + 1

(* Mutant: the present time is not read again while get() waits.           *)
isFutureEventFrozen(ev) == getSystemTime(ev) > localEpoch + getRelativeTime(StartTime)

isFutureEvent(ev) == getSystemTime(ev) > clock

-----------------------------------------------------------------------------
(* The list operations behind add().                                       *)

IsPrediction(q) == q # <<>> /\ Head(q).predicted

(* Mutant: predictions are never outdated.                                 *)
removeNothing(q, time) == q

removeFuturPredictions(q, time) ==
    IF IsPrediction(q) /\ Head(q).time > time + Eps THEN Tail(q) ELSE q

removeConcurrentPrediction(q, time) ==
    IF /\ IsPrediction(q)
       /\ Head(q).time - time <= Eps
       /\ time - Head(q).time <= Eps
    THEN Tail(q) ELSE q

(* Mutant: no prior event is ever seen.                                    *)
hasPriorEventsNever(q, maxTime) == FALSE

(* Mutant: the tolerance is granted twice.                                 *)
hasPriorEventsLoose(q, maxTime) == q # <<>> /\ Head(q).time < maxTime - 2 * Eps

hasPriorEvents(q, maxTime) == q # <<>> /\ Head(q).time < maxTime - Eps

isQueuePredictionConsistent(q) == \A i \in 2..Len(q) : ~q[i].predicted

(* Mutant: predictions are sorted in like external events.                 *)
pushPositionsSorted(q, ev) ==
    {i \in 1..(Len(q) + 1) :
        /\ \A j \in 1..(i - 1) : q[j].time <= ev.time + Eps
        /\ i <= Len(q) => q[i].time > ev.time + Eps}

(* Mutant: external events are appended.                                   *)
pushPositionsAtEnd(q, ev) == IF ev.predicted THEN {1} ELSE {Len(q) + 1}

(* Where push() inserts an entry: a prediction in front of everything, an  *)
(* external event in front of the first entry that is later than it by     *)
(* more than Eps.  The set has exactly one element.                        *)
pushPositions(q, ev) ==
    IF ev.predicted
    THEN {1}
    ELSE {i \in 1..(Len(q) + 1) :
            /\ \A j \in 1..(i - 1) : q[j].time <= ev.time + Eps
            /\ i <= Len(q) => q[i].time > ev.time + Eps}

(* Mutant: the consumer is not notified.                                   *)
notNotified(g) == g

(* notify_one() on newEventCondition_, whose only waiter is the consumer.  *)
notified(g) == IF g \in {"wait", "timed_wait"} THEN "loop" ELSE g

-----------------------------------------------------------------------------
(* The operations.                                                         *)

QueueInit ==
    /\ queue = <<>>
    /\ localEpoch = 0
    /\ initPhase = "constructed"
    /\ initialized = FALSE
    /\ clock = 0
    /\ getter = "out"
    /\ wakeAt = 0
    /\ returned = {}
    /\ outdated = {}
    /\ nextId = 0

(* initStartTimeNow() takes no lock on the epoch: other threads may run    *)
(* between its two assignments and before the barrier is opened.           *)
setPreliminaryEpoch ==
    /\ initPhase = "constructed"
    /\ initPhase' = "preliminary"
    /\ localEpoch' = clock
    /\ UNCHANGED <<queue, initialized, clock, getter, wakeAt, returned,
                   outdated, nextId>>

correctEpoch ==
    /\ initPhase = "preliminary"
    /\ initPhase' = "corrected"
    /\ localEpoch' = localEpoch - getRelativeTime(StartTime)
    /\ UNCHANGED <<queue, initialized, clock, getter, wakeAt, returned,
                   outdated, nextId>>

notifyInitialized ==
    /\ initPhase = "corrected"
    /\ initPhase' = "done"
    /\ initialized' = TRUE
    /\ UNCHANGED <<queue, localEpoch, clock, getter, wakeAt, returned,
                   outdated, nextId>>

(* Mutant: nobody waits for the queue to be initialised.                   *)
dontWait == TRUE

(* The barrier in front of every operation that reads the epoch.           *)
waitIfUninitialized == initialized

(* Mutant: the refused prediction is forgotten instead of destroyed.       *)
refuseAndLeak(ev, kept) ==
    /\ ev.predicted
    /\ hasPriorEvents(kept, ev.time)
    /\ queue' = kept
    /\ outdated' = outdated \cup (ToSet(queue) \ ToSet(kept))
    /\ UNCHANGED getter

(* A prediction that is already outdated is destroyed: nobody is notified. *)
refuseOutdated(ev, kept) ==
    /\ ev.predicted
    /\ hasPriorEvents(kept, ev.time)
    /\ queue' = kept
    /\ outdated' = outdated \cup (ToSet(queue) \ ToSet(kept)) \cup {ev}
    /\ UNCHANGED getter

acceptEvent(ev, kept) ==
    LET rest == IF ev.predicted
                THEN removeConcurrentPrediction(kept, ev.time)
                ELSE kept
    IN  /\ ~(ev.predicted /\ hasPriorEvents(kept, ev.time))
        /\ \E pos \in pushPositions(rest, ev) :
             queue' = InsertAt(rest, pos, ev)
        /\ outdated' = outdated \cup (ToSet(queue) \ ToSet(rest))
        /\ getter' = notified(getter)

add(time, predicted) ==
    LET ev == [id |-> nextId, time |-> time, predicted |-> predicted]
        kept == removeFuturPredictions(queue, time)
    IN  /\ waitIfUninitialized
        /\ refuseOutdated(ev, kept) \/ acceptEvent(ev, kept)
        /\ nextId' = nextId + 1
        /\ UNCHANGED <<localEpoch, initPhase, initialized, clock, wakeAt,
                       returned>>

pushExternalEvent(time) == waitIfUninitialized /\ add(time, FALSE)

(* get(): the call, and the three branches of its loop.                    *)
getEnter ==
    /\ getter = "out"
    /\ waitIfUninitialized
    /\ getter' = "loop"
    /\ UNCHANGED <<queue, localEpoch, initPhase, initialized, clock, wakeAt,
                   returned, outdated, nextId>>

getWait ==
    /\ getter = "loop"
    /\ queue = <<>>
    /\ getter' = "wait"
    /\ UNCHANGED <<queue, localEpoch, initPhase, initialized, clock, wakeAt,
                   returned, outdated, nextId>>

getTimedWait ==
    /\ getter = "loop"
    /\ queue # <<>>
    /\ isFutureEvent(Head(queue))
    /\ getter' = "timed_wait"
    /\ wakeAt' = getSystemTime(Head(queue))
    /\ UNCHANGED <<queue, localEpoch, initPhase, initialized, clock,
                   returned, outdated, nextId>>

getPop ==
    /\ getter = "loop"
    /\ queue # <<>>
    /\ ~isFutureEvent(Head(queue))
    /\ getter' = "out"
    /\ returned' = returned \cup {Head(queue)}
    /\ queue' = Tail(queue)
    /\ UNCHANGED <<localEpoch, initPhase, initialized, clock, wakeAt,
                   outdated, nextId>>

(* The condition variable: the deadline of timed_wait(), and the spurious  *)
(* wake-ups that both waits permit.                                        *)
timeout ==
    /\ getter = "timed_wait"
    /\ clock >= wakeAt
    /\ getter' = "loop"
    /\ UNCHANGED <<queue, localEpoch, initPhase, initialized, clock, wakeAt,
                   returned, outdated, nextId>>

spuriousWakeup ==
    /\ getter \in {"wait", "timed_wait"}
    /\ getter' = "loop"
    /\ UNCHANGED <<queue, localEpoch, initPhase, initialized, clock, wakeAt,
                   returned, outdated, nextId>>

(* The wall clock.                                                         *)
Tick ==
    /\ IF initPhase = "done" THEN clock - localEpoch < MaxClock
                             ELSE clock < MaxSetup
    /\ clock' = clock + 1
    /\ UNCHANGED <<queue, localEpoch, initPhase, initialized, getter, wakeAt,
                   returned, outdated, nextId>>

-----------------------------------------------------------------------------
(* The queue with its most liberal clients.                                *)

startUp == setPreliminaryEpoch \/ correctEpoch \/ notifyInitialized

getLoop == getWait \/ getTimedWait \/ getPop

QueueNext ==
    \/ startUp
    \/ \E time \in Times :
         /\ nextId < MaxEvents
         /\ \/ pushExternalEvent(time)
            \/ getter = "out" /\ add(time, TRUE)
    \/ getEnter
    \/ getLoop
    \/ timeout
    \/ spuriousWakeup
    \/ Tick

QueueSpec == QueueInit /\ [][QueueNext]_queueVars

-----------------------------------------------------------------------------
(* Properties.                                                             *)

Ids(S) == {e.id : e \in S}

DistinctIds(q) == \A i, j \in 1..Len(q) : i # j => q[i].id # q[j].id

(* The values every variable keeps to.                                     *)
TypeOK ==
    /\ queue \in Seq(Entry)
    /\ localEpoch \in Int
    /\ initPhase \in InitPhases
    /\ initialized \in BOOLEAN
    /\ clock \in Int
    /\ getter \in GetterStates
    /\ wakeAt \in Int
    /\ returned \subseteq Entry
    /\ outdated \subseteq Entry
    /\ nextId \in Nat

(* The queue holds at most one prediction and holds it at the very front,  *)
(* whatever externals and predictions are added in whatever order: the     *)
(* assertions at the head of removeFuturPredictions() and                  *)
(* removeConcurrentPrediction(), and the documented invariant of queue_.   *)
PredictionConsistent == isQueuePredictionConsistent(queue)

(* Sorted up to Eps, as a claim about every pair of entries and not only   *)
(* about neighbours.                                                       *)
InOrder(q) ==
    \A i, j \in 1..Len(q) :
        i < j /\ ~q[i].predicted => q[i].time <= q[j].time + Eps

(* External events leave the queue in the order of their times up to Eps:  *)
(* no entry, near or far, waits behind an external event that is later by  *)
(* more than Eps, although push() compares with a tolerance and closeness  *)
(* within a tolerance is not transitive.                                   *)
ExternalsOrdered == InOrder(queue)

(* Each event passed to add() is at every moment owned exactly once: it is *)
(* queued, or was returned by get(), or was destroyed.  A violation is a   *)
(* leaked, a twice-returned or a twice-deleted Event object.               *)
EventsOwnedOnce ==
    /\ DistinctIds(queue)
    /\ Ids(ToSet(queue)) \cap Ids(returned) = {}
    /\ Ids(ToSet(queue)) \cap Ids(outdated) = {}
    /\ Ids(returned) \cap Ids(outdated) = {}
    /\ Ids(ToSet(queue)) \cup Ids(returned) \cup Ids(outdated)
         = 0..(nextId - 1)

(* "A non-predicted event or the data thereof will always be returned by   *)
(* get()" (EventQueue::add): the queue only ever destroys predictions.     *)
OnlyPredictionsOutdated == \A ev \in outdated : ev.predicted

(* A consumer that sleeps inside get() will not sleep past the next event: *)
(* it waits without a deadline only while the queue is empty, and its      *)
(* deadline is never after the time of the event that is now at the front. *)
NeverOversleeps ==
    /\ getter = "wait" => queue = <<>>
    /\ getter = "timed_wait" =>
         queue # <<>> /\ wakeAt <= getSystemTime(Head(queue))

(* The barrier is open exactly when initStartTimeNow() has finished, and   *)
(* until then no event is queued and nobody is inside get(): the assertion *)
(* at the head of initStartTimeNow() holds even though subscriber threads  *)
(* may already be running.                                                 *)
NothingBeforeInit ==
    /\ initialized <=> initPhase = "done"
    /\ ~initialized => queue = <<>> /\ getter = "out"

(* Once a thread can get past timeInitBarrier_ the epoch is final, so all  *)
(* conversions of the run are done with one and the same epoch.            *)
EpochFixed == [][initialized => localEpoch' = localEpoch]_localEpoch

=============================================================================
