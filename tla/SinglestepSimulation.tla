------------------------ MODULE SinglestepSimulation ------------------------
(***************************************************************************)
(* FMITerminalBlock with app.simulationMethod=singlestep-delayed: the      *)
(* dispatcher, its queue and the subscriber threads of EventDispatcher,    *)
(* with OneStepEventPredictor in place of the arbitrary predictor.         *)
(***************************************************************************)
EXTENDS EventDispatcher, OneStepEventPredictor

VARIABLE
    dropped  \* history: the steps whose outputs an event without values has
             \* made the predictor forget, since it last distributed some

singlestepVars == <<vars, onestepVars, dropped>>

SinglestepInit == Init /\ init(StartTime) /\ dropped = {}

predict(time) == runPredict(time) /\ predictNext(time) /\ UNCHANGED dropped

(* The integrator fails, or the outputs can not be fetched.                *)
predictThrows == runPredictThrows /\ UNCHANGED <<onestepVars, dropped>>

(* A packet that cannot be decoded still yields an event, without values.  *)
HasInputs == BOOLEAN

distribute(hasInputs) ==
    /\ processEvent
    /\ eventTriggered(current, hasInputs)
    /\ dropped' = IF current.predicted THEN {}
                  ELSE IF hasInputs THEN dropped ELSE dropped \cup {fmuTime}

(* An input can not be set, or some other listener throws.                 *)
distributeThrows == processEventThrows /\ UNCHANGED <<onestepVars, dropped>>

(* Everything that does not involve the predictor.                         *)
elsewhere ==
    /\ \/ initStartTimeNow
       \/ addPrediction
       \/ getBlocks
       \/ getNext
       \/ \E s \in Sources : readClock(s) \/ getTimeStampNow(s) \/ pushEvent(s)
       \/ wakeUp
       \/ timePasses
       \/ Terminated
    /\ UNCHANGED <<onestepVars, dropped>>

SinglestepNext ==
    \/ \E time \in Times : predict(time)
    \/ predictThrows
    \/ \E hasInputs \in HasInputs : distribute(hasInputs)
    \/ distributeThrows
    \/ elsewhere

SinglestepSpec == SinglestepInit /\ [][SinglestepNext]_singlestepVars

(* The dispatcher thread is scheduled, so that its calls of the predictor  *)
(* and of the listeners return unless they throw, expired timers fire and  *)
(* time passes.  No failure is obliged to happen.                          *)
SinglestepFairness ==
    /\ WF_singlestepVars(\E time \in Times : predict(time))
    /\ WF_singlestepVars(\E hasInputs \in HasInputs : distribute(hasInputs))
    /\ WF_singlestepVars(elsewhere /\ initStartTimeNow)
    /\ WF_singlestepVars(elsewhere /\ addPrediction)
    /\ WF_singlestepVars(elsewhere /\ (getBlocks \/ getNext))
    /\ WF_singlestepVars(elsewhere /\ timeout)
    /\ WF_singlestepVars(elsewhere /\ timePasses)

FairSinglestepSpec == SinglestepSpec /\ SinglestepFairness

-----------------------------------------------------------------------------
(* Properties.                                                             *)

(* How far the model, to which inputs are applied as it is, may run ahead  *)
(* of real time: by one step, which is the delay that app.lookAheadTime is *)
(* documented to bound, and by one more for each event without values that *)
(* has arrived since a prediction was last distributed.                    *)
DelayBounded ==
    initialized =>
        localEpoch + getRelativeTime(fmuTime - (1 + Cardinality(dropped)) * LookAhead)
            <= clock

(* However often external events have removed or refused the prediction    *)
(* that carries the outputs of a step, the model takes its next step only  *)
(* after they have been distributed, or after an event without values has  *)
(* arrived while they were waiting.                                        *)
OnlyEmptyEventsSkipSteps ==
    [][fmuTime' # fmuTime /\ fmuTime # StartTime =>
         \/ \E ev \in returned : ev.predicted /\ ev.time = fmuTime
         \/ fmuTime \in dropped]_singlestepVars

(* The outputs of a step are distributed at most once: the event that is   *)
(* handed to the listeners is not the copy of one they have seen.          *)
NoStepRepeated ==
    \A e, f \in returned :
        e.predicted /\ f.predicted /\ e.time = f.time => e = f

(* The simulation reaches its stop time, whatever the subscribers send.    *)
SimulationEnds == pc = "predict" ~> pc \in {"done", "failed"}

=============================================================================
