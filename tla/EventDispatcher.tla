--------------------------- MODULE EventDispatcher ---------------------------
(***************************************************************************)
(* The event loop of FMITerminalBlock (src/src/timing/EventDispatcher.cpp) *)
(* together with the queue it owns and the subscriber threads that feed    *)
(* the queue through the EventSink interface.                              *)
(*                                                                         *)
(* The dispatcher thread runs initStartTimeNow() and then repeats          *)
(* predictNext(), add(), get() and processEvent() until the first event at *)
(* or after the stop time has been processed.  The predictor is not        *)
(* modelled here: it may predict any time of the set Times, also one that  *)
(* has already passed, and it may throw.  So may any event listener.       *)
(*                                                                         *)
(* A source is a subscriber thread.  It stamps an event with               *)
(* getTimeStampNow(), which reads the clock BEFORE it waits for the queue  *)
(* to be initialised, and pushes it any time later: stamps of two sources  *)
(* may reach the queue in the wrong order.                                 *)
(***************************************************************************)
EXTENDS TimedEventQueue

CONSTANTS
    TheEnd,          \* theEnd_: app.stopTime
    Sources,         \* the subscriber threads
    MaxPredictions,  \* bound: calls of predictNext() that return
    MaxExternals     \* bound: external events per source

ASSUME TheEndAssumption == TheEnd \in Int
ASSUME DispatcherBoundsAssumption ==
    MaxPredictions \in Nat /\ MaxExternals \in Nat

VARIABLES
    pc,           \* where the dispatcher thread is inside run()
    prediction,   \* time of the event that predictNext() has returned
    current,      \* nextEvent: the event that get() has returned
    predictions,  \* number of predictions made so far
    source        \* per subscriber thread: the stamp it holds

dispatcherVars == <<pc, prediction, current, predictions>>
vars == <<queueVars, dispatcherVars, source>>

PCs == {"start", "predict", "add", "get", "process", "done", "failed"}

(* "idle": not handling an event.  "read": the clock has been read, the    *)
(* thread is at the barrier of getTimeStampNow().  "stamped": the event    *)
(* has its time and has not been pushed yet.                               *)
SourceState == [phase : {"idle", "read", "stamped"}, sysTime : Int,
                time : Int, pushed : Nat]

NoEvent == [id |-> 0, time |-> 0, predicted |-> FALSE]

Init ==
    /\ QueueInit
    /\ pc = "start"
    /\ prediction = 0
    /\ current = NoEvent
    /\ predictions = 0
    /\ source = [s \in Sources |->
                   [phase |-> "idle", sysTime |-> 0, time |-> 0, pushed |-> 0]]

-----------------------------------------------------------------------------
(* The dispatcher thread: run().                                           *)

initStartTimeNow ==
    /\ pc = "start"
    /\ startUp
    /\ pc' = IF initialized' THEN "predict" ELSE "start"
    /\ UNCHANGED <<prediction, current, predictions, source>>

runPredict(time) ==
    /\ pc = "predict"
    /\ predictions < MaxPredictions
    /\ predictions' = predictions + 1
    /\ prediction' = time
    /\ pc' = "add"
    /\ UNCHANGED <<queueVars, current, source>>

(* A SolverException leaves run().                                         *)
runPredictThrows ==
    /\ pc = "predict"
    /\ pc' = "failed"
    /\ UNCHANGED <<queueVars, prediction, current, predictions, source>>

addPrediction ==
    /\ pc = "add"
    /\ add(prediction, TRUE)
    /\ pc' = "get"
    /\ UNCHANGED <<prediction, current, predictions, source>>

(* The steps of get() that do not return.                                  *)
getBlocks ==
    /\ pc = "get"
    /\ getEnter \/ getWait \/ getTimedWait
    /\ UNCHANGED <<dispatcherVars, source>>

(* get() returns; currentTime is the time of the event it has returned.    *)
getNext ==
    /\ pc = "get"
    /\ getPop
    /\ current' = Head(queue)
    /\ pc' = "process"
    /\ UNCHANGED <<prediction, predictions, source>>

(* All listeners have been called; the event is deleted and the loop       *)
(* condition is evaluated.                                                 *)
processEvent ==
    /\ pc = "process"
    /\ pc' = IF current.time < TheEnd THEN "predict" ELSE "done"
    /\ UNCHANGED <<queueVars, prediction, current, predictions, source>>

(* Some listener's eventTriggered() throws.                                *)
processEventThrows ==
    /\ pc = "process"
    /\ pc' = "failed"
    /\ UNCHANGED <<queueVars, prediction, current, predictions, source>>

-----------------------------------------------------------------------------
(* The subscriber threads.                                                 *)

(* getTimeStampNow() up to the barrier.                                    *)
readClock(s) ==
    /\ source[s].phase = "idle"
    /\ source[s].pushed < MaxExternals
    /\ source' = [source EXCEPT ![s].phase = "read", ![s].sysTime = clock]
    /\ UNCHANGED <<queueVars, dispatcherVars>>

(* getTimeStampNow() after the barrier.                                    *)
getTimeStampNow(s) ==
    /\ source[s].phase = "read"
    /\ waitIfUninitialized
    /\ source' = [source EXCEPT ![s].phase = "stamped",
                    ![s].time = getSimulationTime(source[s].sysTime)]
    /\ UNCHANGED <<queueVars, dispatcherVars>>

pushEvent(s) ==
    /\ source[s].phase = "stamped"
    /\ pushExternalEvent(source[s].time)
    /\ source' = [source EXCEPT ![s].phase = "idle",
                    ![s].pushed = source[s].pushed + 1]
    /\ UNCHANGED dispatcherVars

-----------------------------------------------------------------------------
(* The condition variable and the clock do not involve run().              *)
wakeUp == (timeout \/ spuriousWakeup) /\ UNCHANGED <<dispatcherVars, source>>

timePasses == Tick /\ UNCHANGED <<dispatcherVars, source>>

(* run() has returned or thrown.                                           *)
Terminated == pc \in {"done", "failed"} /\ UNCHANGED vars

Next ==
    \/ initStartTimeNow
    \/ \E time \in Times : runPredict(time)
    \/ runPredictThrows
    \/ addPrediction
    \/ getBlocks
    \/ getNext
    \/ processEvent
    \/ processEventThrows
    \/ \E s \in Sources : readClock(s) \/ getTimeStampNow(s) \/ pushEvent(s)
    \/ wakeUp
    \/ timePasses
    \/ Terminated

Spec == Init /\ [][Next]_vars

-----------------------------------------------------------------------------
(* Properties.                                                             *)

(* The values the dispatcher's and the subscribers' variables keep to.     *)
DispatcherTypeOK ==
    /\ TypeOK
    /\ pc \in PCs
    /\ prediction \in Int
    /\ current \in Entry
    /\ predictions \in Nat
    /\ source \in [Sources -> SourceState]

(* A prediction depends on every event that was distributed before it was  *)
(* made.  None survives the call of get() that follows its add(): when the *)
(* dispatcher distributes an event, asks for the next prediction or adds   *)
(* it, no older prediction is left in the queue.                           *)
NoStalePrediction == pc # "get" => \A i \in 1..Len(queue) : ~queue[i].predicted

(* While the dispatcher is inside get() there is an event for it: the      *)
(* prediction it has just added, or the external event on whose account    *)
(* that prediction was refused or removed.  It never blocks without a      *)
(* deadline, which would stop the simulation until some message arrives.   *)
GetNeverStarves == pc = "get" => queue # <<>> /\ getter # "wait"

Ascending(q) == \A i \in 2..Len(q) : q[i - 1].time <= q[i].time + Eps

(* The assertion inside the loop of push() cannot fail for any event that  *)
(* arrives, although the queue is sorted only up to Eps and the prediction *)
(* is compared with the front entry alone.                                 *)
NeighboursOrdered == Ascending(queue)

(* How far a prediction may run ahead of an external event that is already *)
(* queued: hasPriorEvents() compares it with the front entry only, and the *)
(* entries behind that one may be earlier by another Eps.                  *)
PredictionWithinTwoEps ==
    \A i \in 2..Len(queue) :
        queue[1].predicted => queue[1].time <= queue[i].time + 2 * Eps

(* Every stamp that was handed out fits the epoch by which the queue       *)
(* schedules it, although the clock was read before that epoch was known.  *)
StampsOnFinalEpoch ==
    \A s \in Sources :
        source[s].phase = "stamped" =>
            source[s].time = getSimulationTime(source[s].sysTime)

(* get() never hands the dispatcher an event while one that is earlier by  *)
(* more than two Eps stays behind, hence run() does not end on an event    *)
(* after the stop time in front of a queued event well before it.          *)
DistributedInOrder ==
    [][getNext => \A i \in 1..Len(queue') :
                     current'.time <= queue'[i].time + 2 * Eps]_vars

(* The queue keeps, with the clients that the program has, the contract of *)
(* the interface it is derived from, to the tolerance: an external event   *)
(* is kept until it is returned and outdates exactly the prediction it     *)
(* comes before, a refused prediction leaves the queue as it was, and      *)
(* get() returns the pending prediction or else the first external event.  *)
Contract == INSTANCE EventQueue WITH
    open <- initialized,
    external <- {ev \in ToSet(queue) : ~ev.predicted},
    predicted <- {ev \in ToSet(queue) : ev.predicted},
    delivered <- returned,
    discarded <- outdated

ImplementsEventQueue == Contract!AbstractSpec

=============================================================================
