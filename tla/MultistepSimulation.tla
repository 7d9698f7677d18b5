------------------------- MODULE MultistepSimulation -------------------------
(***************************************************************************)
(* FMITerminalBlock with app.simulationMethod=multistep-prediction: the    *)
(* dispatcher, its queue and the subscriber threads of EventDispatcher,    *)
(* with EventPredictor in place of the arbitrary predictor.                *)
(*                                                                         *)
(* Each call that run() makes to the predictor is the dispatcher's step    *)
(* and the predictor's at once: both belong to one thread and share        *)
(* nothing with the subscribers.                                           *)
(***************************************************************************)
EXTENDS EventDispatcher, EventPredictor

multistepVars == <<vars, predictorVars>>

MultistepInit == Init /\ init(StartTime)

predict(time) == runPredict(time) /\ predictNext(time)

(* The solver returns INVALID_FMI_TIME.                                    *)
predictThrows == runPredictThrows /\ UNCHANGED predictorVars

(* A packet that cannot be decoded still yields an event, without values.  *)
HasInputs == BOOLEAN

distribute(hasInputs) == processEvent /\ eventTriggered(current, hasInputs)

(* The solver fails in updateStateFromTheRight(), or some listener throws. *)
distributeThrows ==
    /\ processEventThrows
    /\ UNCHANGED predictorVars

(* Everything that does not involve the predictor.                         *)
elsewhere ==
    /\ \/ initStartTimeNow
       \/ addPrediction
       \/ getBlocks
       \/ getNext
       \/ \E s \in Sources : readClock(s) \/ getTimeStampNow(s) \/ pushEvent(s)
       \/ wakeUp
       \/ timePasses
       \/ Terminated
    /\ UNCHANGED predictorVars

MultistepNext ==
    \/ \E time \in Times : predict(time)
    \/ predictThrows
    \/ \E hasInputs \in HasInputs : distribute(hasInputs)
    \/ distributeThrows
    \/ elsewhere

MultistepSpec == MultistepInit /\ [][MultistepNext]_multistepVars

(* The dispatcher thread is scheduled, so that its calls of the predictor  *)
(* and of the listeners return unless they throw, expired timers fire and  *)
(* time passes.  No failure is obliged to happen.                          *)
MultistepFairness ==
    /\ WF_multistepVars(\E time \in Times : predict(time))
    /\ WF_multistepVars(\E hasInputs \in HasInputs : distribute(hasInputs))
    /\ WF_multistepVars(elsewhere /\ initStartTimeNow)
    /\ WF_multistepVars(elsewhere /\ addPrediction)
    /\ WF_multistepVars(elsewhere /\ (getBlocks \/ getNext))
    /\ WF_multistepVars(elsewhere /\ timeout)
    /\ WF_multistepVars(elsewhere /\ timePasses)

FairMultistepSpec == MultistepSpec /\ MultistepFairness

-----------------------------------------------------------------------------
(* Properties.                                                             *)

(* The values the predictor's variables keep to.                           *)
MultistepTypeOK ==
    /\ DispatcherTypeOK
    /\ currentTime \in Int
    /\ lastPredictedEventTime \in Int
    /\ populated \in BOOLEAN
    /\ directOutputPending \in BOOLEAN
    /\ lazy \in BOOLEAN

(* A LazyEvent that reaches the listeners is the last one predicted, and   *)
(* the model has not been moved past it: getVariables() never reports "The *)
(* event is outdated" and the assertions of getOutputVariables() hold.     *)
LazyNeverOutdated ==
    pc = "process" /\ current.predicted /\ lazy =>
        /\ current.time = lastPredictedEventTime
        /\ currentTime <= current.time
        /\ ~populated

(* An external event is applied inside the interval that the solver has    *)
(* already projected, so that updateState() can put the model there (the   *)
(* assertion on updTime in eventTriggered()): no event is distributed that *)
(* is later than the prediction which was pending when it arrived.         *)
ExternalWithinHorizon ==
    pc = "process" /\ ~current.predicted =>
        alignedTime(current.time) <= lastPredictedEventTime

(* The state of the model is never settled ahead of real time: what has    *)
(* been sent can not be contradicted by an event that is still to come.    *)
ModelNotAheadOfClock ==
    initialized => localEpoch + getRelativeTime(currentTime) <= clock

(* The time of the model never runs backwards, however late the stamp of   *)
(* an external event is.                                                   *)
ModelTimeMonotone == [][currentTime' >= currentTime]_multistepVars

(* The simulation reaches its stop time, whatever the subscribers send.    *)
SimulationEnds == pc = "predict" ~> pc \in {"done", "failed"}

=============================================================================
