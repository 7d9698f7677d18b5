---------------------- MODULE MultistepSimulationProofs ----------------------
(***************************************************************************)
(* Proofs about MultistepSimulation: the queue, the dispatcher and the     *)
(* multistep predictor together never ask the solver for a state that it   *)
(* cannot provide, for every tolerance, look-ahead and number of           *)
(* subscribers.                                                            *)
(***************************************************************************)
EXTENDS MultistepSimulation, EventDispatcherProofs

-----------------------------------------------------------------------------
(* The inductive invariant.                                                *)

PredictorTypes ==
    /\ currentTime \in Int
    /\ lastPredictedEventTime \in Int
    /\ populated \in BOOLEAN
    /\ directOutputPending \in BOOLEAN
    /\ lazy \in BOOLEAN

(* What the predictor knows of itself: the horizon is not behind the model *)
(* and coincides with it while a direct output is pending.                 *)
ModelInv ==
    /\ currentTime <= lastPredictedEventTime
    /\ directOutputPending => lastPredictedEventTime = currentTime
    /\ pc \in {"add", "get", "process"} /\ lazy => ~populated

(* The horizon bounds the event that is on its way to the listeners, from  *)
(* the prediction over the front of the queue to the event distributed.    *)
HorizonInv ==
    /\ pc = "add" => prediction = lastPredictedEventTime
    /\ pc = "get" => FrontWithin(queue, lastPredictedEventTime)
    /\ pc = "process" =>
         /\ current.time <= lastPredictedEventTime
         /\ current.predicted => current.time = lastPredictedEventTime

(* The model follows the clock, also through the two steps in which the    *)
(* epoch is found.                                                         *)
RealTimeInv ==
    /\ ~initialized => currentTime = StartTime
    /\ initPhase = "preliminary" => localEpoch <= clock
    /\ initPhase = "corrected" => localEpoch + getRelativeTime(StartTime) <= clock
    /\ ModelNotAheadOfClock
    /\ pc = "process" => getSystemTime(current) <= clock

MultistepInv == PredictorTypes /\ ModelInv /\ HorizonInv /\ RealTimeInv

(* Each step of the composition is a step of the dispatcher.               *)
LEMMA MultistepSteps == [MultistepNext]_multistepVars => [Next]_vars
  BY DEF MultistepNext, Next, predict, predictThrows, distribute,
         distributeThrows, elsewhere, multistepVars

(* The simulation implements the event loop over an arbitrary predictor:   *)
(* a prediction of the real one is some prediction of the loop.            *)
THEOREM MultistepImplementsDispatcher == MultistepSpec => Spec
<1>1. MultistepInit => Init
  BY DEF MultistepInit
<1> QED BY <1>1, MultistepSteps, PTL DEF MultistepSpec, Spec

(* Hence all that is proved of the dispatcher holds here.                  *)
LEMMA MultistepIsDispatcher == MultistepSpec => []DispatcherInv
BY MultistepImplementsDispatcher, DispatcherCorrect, PTL

(* The invariant holds initially.                                          *)
LEMMA MultistepInitial == MultistepInit => MultistepInv
<1> SUFFICES ASSUME MultistepInit PROVE MultistepInv
  OBVIOUS
<1>1. /\ pc = "start" /\ initPhase = "constructed" /\ initialized = FALSE
      /\ currentTime = StartTime /\ lastPredictedEventTime = StartTime
      /\ populated = FALSE /\ directOutputPending = FALSE /\ lazy = FALSE
  BY DEF MultistepInit, Init, QueueInit, init
<1>2. PredictorTypes /\ ModelInv
  <2>1. StartTime \in Int /\ StartTime <= StartTime
    BY StartTimeAssumption
  <2> QED BY <1>1, <2>1 DEF PredictorTypes, ModelInv
<1>3. HorizonInv /\ RealTimeInv
  BY <1>1 DEF HorizonInv, RealTimeInv, ModelNotAheadOfClock
<1> QED BY <1>2, <1>3 DEF MultistepInv

(* predictNext() sets the horizon to the time it returns.                  *)
LEMMA PredictPreserves ==
    ASSUME DispatcherInv, MultistepInv, NEW time \in Times, predict(time)
    PROVE  MultistepInv'
<1>1. /\ pc = "predict" /\ pc' = "add" /\ prediction' = time
      /\ predictNext(time)
      /\ UNCHANGED <<localEpoch, initPhase, initialized, clock>>
  BY DEF predict, runPredict, queueVars
<1>2. time \in Int /\ initialized
  BY <1>1, TimesAssumption DEF DispatcherInv, ThreadInv
<1>3. /\ UNCHANGED currentTime /\ directOutputPending' = FALSE
      /\ lastPredictedEventTime' = time
      /\ lazy' => ~populated'
      /\ lazy' \in BOOLEAN /\ populated' \in BOOLEAN
      /\ currentTime <= time
  <2>1. CASE AssumeDirect /\ directOutputPending
    BY <1>1, <1>2, <2>1 DEF predictNext, predictNextDirectDependency,
       MultistepInv, ModelInv, PredictorTypes
  <2>2. CASE ~(AssumeDirect /\ directOutputPending)
    <3>1. predictNextFMIEvent(time) /\ directOutputPending' = FALSE
      BY <1>1, <2>2 DEF predictNext
    <3>2. currentTime <= time
      BY <1>2, <3>1, StepsAssumption
         DEF predictNextFMIEvent, MultistepInv, PredictorTypes
    <3> QED BY <3>1, <3>2 DEF predictNextFMIEvent
  <2> QED BY <2>1, <2>2
<1>4. PredictorTypes' /\ ModelInv'
  BY <1>1, <1>2, <1>3 DEF MultistepInv, PredictorTypes, ModelInv
<1>5. HorizonInv'
  BY <1>1, <1>3 DEF HorizonInv
<1>6. RealTimeInv'
  BY <1>1, <1>2, <1>3 DEF MultistepInv, RealTimeInv, ModelNotAheadOfClock,
                          getRelativeTime
<1> QED BY <1>4, <1>5, <1>6 DEF MultistepInv

(* eventTriggered() moves the model to the time of the event at most.      *)
LEMMA DistributePreserves ==
    ASSUME DispatcherInv, MultistepInv, NEW hasInputs \in BOOLEAN,
           distribute(hasInputs)
    PROVE  MultistepInv'
<1>1. /\ pc = "process" /\ pc' \in {"predict", "done"}
      /\ eventTriggered(current, hasInputs)
      /\ UNCHANGED <<localEpoch, initPhase, initialized, clock>>
  BY DEF distribute, processEvent, queueVars
<1>2. /\ current \in Entry /\ current.time \in Int
      /\ current.predicted \in BOOLEAN /\ initialized
  BY <1>1 DEF DispatcherInv, DispatcherTypeOK, ThreadInv, Entry
<1>3. /\ current.time <= lastPredictedEventTime
      /\ current.predicted => current.time = lastPredictedEventTime
      /\ localEpoch + getRelativeTime(current.time) <= clock
      /\ localEpoch + getRelativeTime(currentTime) <= clock
      /\ lazy => ~populated
      /\ currentTime <= lastPredictedEventTime
      /\ PredictorTypes
      /\ directOutputPending => lastPredictedEventTime = currentTime
  BY <1>1, <1>2 DEF MultistepInv, HorizonInv, RealTimeInv,
       ModelNotAheadOfClock, getSystemTime, ModelInv
<1>4. /\ PredictorTypes'
      /\ currentTime' \in {currentTime, current.time}
      /\ currentTime' <= lastPredictedEventTime'
      /\ directOutputPending' => lastPredictedEventTime' = currentTime'
  <2>1. CASE current.predicted /\ lazy /\ getOutputVariables
    BY <1>3, <2>1 DEF getOutputVariables, PredictorTypes
  <2>2. CASE UNCHANGED predictorVars
    BY <1>3, <2>2 DEF predictorVars, PredictorTypes
  <2>3. CASE applyInputs(current.time)
    <3>1. /\ currentTime' = alignedTime(current.time)
          /\ lastPredictedEventTime' = currentTime'
      BY <2>3 DEF applyInputs
    <3>2. alignedTime(current.time) \in {currentTime, current.time}
      BY DEF alignedTime
    <3>3. currentTime' \in Int /\ currentTime' <= lastPredictedEventTime'
      BY <1>2, <1>3, <3>1, <3>2 DEF PredictorTypes
    <3>4. /\ populated' \in BOOLEAN /\ directOutputPending' \in BOOLEAN
          /\ lazy' \in BOOLEAN
      BY <1>3, <2>3 DEF applyInputs, PredictorTypes
    <3> QED BY <3>1, <3>2, <3>3, <3>4 DEF PredictorTypes
  <2> QED BY <1>1, <2>1, <2>2, <2>3 DEF eventTriggered
<1>5. ModelInv' /\ HorizonInv'
  BY <1>1, <1>4 DEF ModelInv, HorizonInv
<1>6. RealTimeInv'
  <2>1. localEpoch + getRelativeTime(currentTime') <= clock
    BY <1>3, <1>4
  <2> QED BY <1>1, <1>2, <2>1 DEF MultistepInv, RealTimeInv,
                ModelNotAheadOfClock, getRelativeTime
<1> QED BY <1>4, <1>5, <1>6 DEF MultistepInv

(* A step of another part leaves the predictor's own invariant alone, as   *)
(* long as run() enters neither of the states that it speaks about anew.   *)
LEMMA PredictorUntouched ==
    ASSUME MultistepInv, UNCHANGED predictorVars,
           pc' \in {"add", "get", "process"} => pc \in {"add", "get", "process"}
    PROVE  PredictorTypes' /\ ModelInv'
<1>1. UNCHANGED <<currentTime, lastPredictedEventTime, populated,
                  directOutputPending, lazy>>
  BY DEF predictorVars
<1> QED BY <1>1 DEF MultistepInv, PredictorTypes, ModelInv

(* A step that moves neither the epoch nor the model, and no event towards *)
(* the listeners, keeps the model behind the clock.                        *)
LEMMA RealTimeUntouched ==
    ASSUME DispatcherInv, MultistepInv,
           UNCHANGED <<localEpoch, initPhase, initialized, currentTime>>,
           clock' \in {clock, clock + 1},
           pc' = "process" => pc = "process" /\ UNCHANGED current
    PROVE  RealTimeInv'
<1>1. clock \in Int /\ localEpoch \in Int
  BY DEF DispatcherInv, QueueInv, TypeOK
<1>2. \A t \in Int : localEpoch + getRelativeTime(t) <= clock
               => localEpoch + getRelativeTime(t) <= clock'
  <2> SUFFICES ASSUME NEW t \in Int, localEpoch + getRelativeTime(t) <= clock
               PROVE  localEpoch + getRelativeTime(t) <= clock'
    OBVIOUS
  <2>1. getRelativeTime(t) \in Int
    BY ResolutionAssumption DEF getRelativeTime
  <2> QED BY <1>1, <2>1
<1>3. localEpoch <= clock => localEpoch <= clock'
  BY <1>1
<1>4. StartTime \in Int /\ currentTime \in Int /\ current.time \in Int
  BY StartTimeAssumption
     DEF MultistepInv, PredictorTypes, DispatcherInv, DispatcherTypeOK, Entry
<1> QED BY <1>2, <1>3, <1>4
        DEF MultistepInv, RealTimeInv, ModelNotAheadOfClock, getRelativeTime,
            getSystemTime

(* The clock is read into the epoch before the barrier is opened.          *)
LEMMA StartPreserves ==
    ASSUME DispatcherInv, MultistepInv, initStartTimeNow,
           UNCHANGED predictorVars
    PROVE  MultistepInv'
<1>1. /\ pc = "start" /\ pc' \in {"start", "predict"} /\ startUp
      /\ ~initialized /\ UNCHANGED currentTime
  BY DEF initStartTimeNow, predictorVars, DispatcherInv, ThreadInv
<1>2. PredictorTypes' /\ ModelInv' /\ HorizonInv'
  BY <1>1, PredictorUntouched DEF HorizonInv
<1>3. /\ clock \in Int /\ localEpoch \in Int
      /\ getRelativeTime(StartTime) \in Int
  BY ResolutionAssumption, StartTimeAssumption
     DEF DispatcherInv, QueueInv, TypeOK, getRelativeTime
<1>4. RealTimeInv'
  <2>1. CASE setPreliminaryEpoch
    BY <1>1, <1>3, <2>1 DEF setPreliminaryEpoch, MultistepInv, RealTimeInv,
                            ModelNotAheadOfClock
  <2>2. CASE correctEpoch
    <3>1. localEpoch' + getRelativeTime(StartTime) <= clock'
      BY <1>3, <2>2 DEF correctEpoch, MultistepInv, RealTimeInv
    <3> QED BY <1>1, <2>2, <3>1 DEF correctEpoch, MultistepInv, RealTimeInv,
                 ModelNotAheadOfClock, getRelativeTime
  <2>3. CASE notifyInitialized
    BY <1>1, <2>3 DEF notifyInitialized, MultistepInv, RealTimeInv,
                      ModelNotAheadOfClock, getRelativeTime
  <2> QED BY <1>1, <2>1, <2>2, <2>3 DEF startUp
<1> QED BY <1>2, <1>4 DEF MultistepInv

(* The queue's operations keep the horizon.                                *)
LEMMA QueueStepPreserves ==
    ASSUME DispatcherInv, MultistepInv, UNCHANGED predictorVars,
           \/ addPrediction \/ getNext
           \/ \E s \in Sources : pushEvent(s)
    PROVE  MultistepInv'
<1>0. /\ UNCHANGED <<currentTime, lastPredictedEventTime>>
      /\ lastPredictedEventTime \in Int
  BY DEF predictorVars, MultistepInv, PredictorTypes
<1>1. CASE addPrediction
  <2>1. /\ pc = "add" /\ pc' = "get" /\ add(prediction, TRUE)
        /\ prediction = lastPredictedEventTime
        /\ UNCHANGED <<localEpoch, initPhase, initialized, clock>>
    BY <1>1 DEF addPrediction, add, MultistepInv, HorizonInv
  <2>2. NoPrediction(queue) /\ QueueInv
    BY <2>1 DEF DispatcherInv, NoStalePrediction, NoPrediction
  <2>3. FrontWithin(queue', lastPredictedEventTime)
    BY <1>0, <2>1, <2>2, PredictionSetsHorizon
  <2>4. HorizonInv'
    BY <1>0, <2>1, <2>3 DEF HorizonInv
  <2> QED BY <1>0, <2>1, <2>4, PredictorUntouched, RealTimeUntouched
          DEF MultistepInv
<1>2. CASE getNext
  <2>1. /\ pc = "get" /\ pc' = "process" /\ current' = Head(queue)
        /\ queue # <<>> /\ ~isFutureEvent(Head(queue))
        /\ UNCHANGED <<localEpoch, initPhase, initialized, clock>>
    BY <1>2 DEF getNext, getPop
  <2>2. HorizonInv'
    BY <1>0, <2>1 DEF MultistepInv, HorizonInv, FrontWithin
  <2>3. localEpoch + getRelativeTime(Head(queue).time) <= clock
    <3>1. queue \in Seq(Entry) /\ clock \in Int /\ localEpoch \in Int
      BY DEF DispatcherInv, QueueInv, TypeOK
    <3>2. Head(queue).time \in Int
      BY <2>1, <3>1, FrontEntry
    <3>3. getRelativeTime(Head(queue).time) \in Int
      BY <3>2, ResolutionAssumption DEF getRelativeTime
    <3> QED BY <2>1, <3>1, <3>3 DEF isFutureEvent, getSystemTime
  <2>4. RealTimeInv'
    BY <1>0, <2>1, <2>3 DEF MultistepInv, RealTimeInv, ModelNotAheadOfClock,
                            getSystemTime, getRelativeTime
  <2> QED BY <2>1, <2>2, <2>4, PredictorUntouched DEF MultistepInv
<1>3. CASE \E s \in Sources : pushEvent(s)
  <2>1. PICK s \in Sources : pushEvent(s)
    BY <1>3
  <2>2. /\ add(source[s].time, FALSE) /\ UNCHANGED dispatcherVars
        /\ UNCHANGED <<localEpoch, initPhase, initialized, clock>>
    BY <2>1 DEF pushEvent, pushExternalEvent, add
  <2>3. UNCHANGED <<pc, prediction, current>>
    BY <2>2 DEF dispatcherVars
  <2>4. source[s].time \in Int /\ QueueInv
    BY DEF DispatcherInv, DispatcherTypeOK, SourceState
  <2>5. pc = "get" => FrontWithin(queue', lastPredictedEventTime)
    BY <1>0, <2>2, <2>4, ExternalKeepsHorizon DEF MultistepInv, HorizonInv
  <2>6. HorizonInv'
    BY <1>0, <2>3, <2>5 DEF MultistepInv, HorizonInv
  <2> QED BY <1>0, <2>2, <2>3, <2>6, PredictorUntouched, RealTimeUntouched
          DEF MultistepInv
<1> QED BY <1>1, <1>2, <1>3

(* Waiting, stamping, failing and stopping change nothing of this.         *)
LEMMA IdleStepPreserves ==
    ASSUME DispatcherInv, MultistepInv, UNCHANGED predictorVars,
           \/ getBlocks \/ wakeUp \/ timePasses
           \/ \E s \in Sources : readClock(s) \/ getTimeStampNow(s)
           \/ runPredictThrows \/ processEventThrows
           \/ UNCHANGED vars
    PROVE  MultistepInv'
<1>1. /\ UNCHANGED <<queue, localEpoch, initPhase, initialized, prediction,
                     current>>
      /\ clock' \in {clock, clock + 1}
      /\ pc' = pc \/ pc' = "failed"
  BY DEF getBlocks, wakeUp, timePasses, readClock, getTimeStampNow,
         runPredictThrows, processEventThrows, vars, dispatcherVars,
         queueVars, getEnter, getWait, getTimedWait, timeout, spuriousWakeup,
         Tick
<1>2. UNCHANGED <<currentTime, lastPredictedEventTime>>
  BY DEF predictorVars
<1>3. HorizonInv'
  BY <1>1, <1>2 DEF MultistepInv, HorizonInv
<1> QED BY <1>1, <1>2, <1>3, PredictorUntouched, RealTimeUntouched
        DEF MultistepInv
-----------------------------------------------------------------------------
(* The theorems about MultistepSpec.                                       *)

(* Every step of the composition preserves the invariant.                  *)
LEMMA MultistepPreserves ==
    ASSUME DispatcherInv, MultistepInv, [MultistepNext]_multistepVars
    PROVE  MultistepInv'
<1>1. CASE \E time \in Times : predict(time)
  BY <1>1, PredictPreserves
<1>2. CASE predictThrows
  BY <1>2, IdleStepPreserves DEF predictThrows
<1>3. CASE \E hasInputs \in HasInputs : distribute(hasInputs)
  <2>1. HasInputs \subseteq BOOLEAN
    BY DEF HasInputs
  <2> QED BY <1>3, <2>1, DistributePreserves
<1>4. CASE distributeThrows
  BY <1>4, IdleStepPreserves DEF distributeThrows
<1>5. CASE elsewhere
  BY <1>5, StartPreserves, QueueStepPreserves, IdleStepPreserves
     DEF elsewhere, Terminated
<1>6. CASE UNCHANGED multistepVars
  BY <1>6, IdleStepPreserves DEF multistepVars
<1> QED BY <1>1, <1>2, <1>3, <1>4, <1>5, <1>6 DEF MultistepNext

(* The invariant holds in every behaviour of the composition.              *)
THEOREM MultistepCorrect == MultistepSpec => [](DispatcherInv /\ MultistepInv)
<1>1. DispatcherInv /\ MultistepInv /\ [MultistepNext]_multistepVars
        => MultistepInv'
  BY MultistepPreserves
<1> QED BY <1>1, MultistepInitial, MultistepIsDispatcher, PTL DEF MultistepSpec

(* All variables keep their types.                                         *)
THEOREM MultistepTypeCorrect == MultistepSpec => []MultistepTypeOK
<1>1. DispatcherInv /\ MultistepInv => MultistepTypeOK
  BY DEF DispatcherInv, MultistepInv, PredictorTypes, MultistepTypeOK
<1> QED BY <1>1, MultistepCorrect, PTL

(* No distributed LazyEvent is outdated.                                   *)
THEOREM MultistepLazyNeverOutdated == MultistepSpec => []LazyNeverOutdated
<1>1. MultistepInv => LazyNeverOutdated
  BY DEF MultistepInv, ModelInv, HorizonInv, LazyNeverOutdated
<1> QED BY <1>1, MultistepCorrect, PTL

(* External events are applied inside the prediction horizon.              *)
THEOREM MultistepExternalWithinHorizon == MultistepSpec => []ExternalWithinHorizon
<1>1. MultistepInv => ExternalWithinHorizon
  BY DEF MultistepInv, ModelInv, HorizonInv, ExternalWithinHorizon, alignedTime
<1> QED BY <1>1, MultistepCorrect, PTL

(* The model does not run ahead of real time.                              *)
THEOREM MultistepModelNotAheadOfClock == MultistepSpec => []ModelNotAheadOfClock
<1>1. MultistepInv => ModelNotAheadOfClock
  BY DEF MultistepInv, RealTimeInv
<1> QED BY <1>1, MultistepCorrect, PTL

(* The time of the model never decreases.                                  *)
THEOREM MultistepModelTimeMonotone == MultistepSpec => ModelTimeMonotone
<1>1. DispatcherInv /\ MultistepInv /\ [MultistepNext]_multistepVars
        => [currentTime' >= currentTime]_multistepVars
  <2> SUFFICES ASSUME DispatcherInv, MultistepInv, MultistepNext
               PROVE  currentTime' >= currentTime
    OBVIOUS
  <2>0. /\ currentTime \in Int /\ lastPredictedEventTime \in Int
        /\ current.time \in Int
        /\ currentTime <= lastPredictedEventTime
    BY DEF MultistepInv, ModelInv, PredictorTypes, DispatcherInv,
           DispatcherTypeOK, Entry
  <2>1. CASE \E time \in Times : predict(time)
    BY <2>0, <2>1 DEF predict, predictNext, predictNextFMIEvent,
                      predictNextDirectDependency
  <2>2. CASE \E hasInputs \in HasInputs : distribute(hasInputs)
    <3>1. \/ getOutputVariables \/ applyInputs(current.time)
          \/ UNCHANGED predictorVars
      BY <2>2 DEF distribute, eventTriggered
    <3>2. CASE getOutputVariables
      BY <2>0, <3>2 DEF getOutputVariables
    <3>3. CASE applyInputs(current.time)
      BY <2>0, <3>3, TimeDiffAssumption DEF applyInputs, alignedTime
    <3>4. CASE UNCHANGED predictorVars
      BY <2>0, <3>4 DEF predictorVars
    <3> QED BY <3>1, <3>2, <3>3, <3>4
  <2>3. CASE predictThrows \/ distributeThrows \/ elsewhere
    BY <2>0, <2>3 DEF predictThrows, distributeThrows, elsewhere, predictorVars
  <2> QED BY <2>1, <2>2, <2>3 DEF MultistepNext
<1> QED BY <1>1, MultistepCorrect, PTL DEF MultistepSpec, ModelTimeMonotone

=============================================================================
