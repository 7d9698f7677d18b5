--------------------------- MODULE EventPredictor ---------------------------
(***************************************************************************)
(* The predictor of the multistep-prediction method                        *)
(* (src/src/model/EventPredictor.cpp) and the LazyEvent it returns         *)
(* (src/src/model/LazyEvent.cpp).                                          *)
(*                                                                         *)
(* The predictor drives FMI++'s IncrementalFMU, which projects the model   *)
(* ahead of currentTime_ and can put it back to any time it has passed on  *)
(* the way.  Of the solver only the times matter here: how far             *)
(* predictState() looks ahead, and that each of its calls may fail.        *)
(*                                                                         *)
(* A LazyEvent carries no data.  Asking for its variables moves the model  *)
(* to the predicted time, which is sound only while nothing else has moved *)
(* it: the assertions of getOutputVariables().                             *)
(***************************************************************************)
EXTENDS Integers

CONSTANTS
    Steps,        \* how far ahead of the model predictState() may find an event
    TimeDiff,     \* the solver's getTimeDiffResolution()
    AssumeDirect  \* assumeDirectDependency_: app.directOutputDependency

ASSUME StepsAssumption == Steps \subseteq Nat
ASSUME TimeDiffAssumption == TimeDiff \in Nat
ASSUME AssumeDirectAssumption == AssumeDirect \in BOOLEAN

VARIABLES
    currentTime,             \* currentTime_: the time of the model's state
    lastPredictedEventTime,  \* lastPredictedEventTime_
    populated,               \* outputEventVariablesPopulated_
    directOutputPending,     \* directOutputPending_
    lazy                     \* the last event returned is a LazyEvent

predictorVars == <<currentTime, lastPredictedEventTime, populated,
                   directOutputPending, lazy>>

init(start) ==
    /\ currentTime = start
    /\ lastPredictedEventTime = start
    /\ populated = FALSE
    /\ directOutputPending = FALSE
    /\ lazy = FALSE

-----------------------------------------------------------------------------
(* predictNext() returns an event at the given time.                       *)

(* Mutant: the flag of the previous event is not cleared.                  *)
predictNextKeepsFlag(time) ==
    /\ time - currentTime \in Steps
    /\ lastPredictedEventTime' = time
    /\ lazy' = TRUE
    /\ UNCHANGED <<currentTime, populated>>

predictNextFMIEvent(time) ==
    /\ time - currentTime \in Steps
    /\ lastPredictedEventTime' = time
    /\ populated' = FALSE
    /\ lazy' = TRUE
    /\ UNCHANGED currentTime

(* A StaticEvent with the present outputs: the solver is not touched.      *)
predictNextDirectDependency(time) ==
    /\ time = currentTime
    /\ lazy' = FALSE
    /\ UNCHANGED <<currentTime, lastPredictedEventTime, populated>>

predictNext(time) ==
    /\ IF AssumeDirect /\ directOutputPending
       THEN predictNextDirectDependency(time)
       ELSE predictNextFMIEvent(time)
    /\ directOutputPending' = FALSE

-----------------------------------------------------------------------------
(* eventTriggered(): the predictor is the first listener of every event.   *)

(* LazyEvent::getVariables() throws for such an event.                     *)
isOutdated(time) == currentTime > time + TimeDiff

(* Mutant: the model is not moved to the time of its event.                *)
getOutputVariablesUnsettled ==
    /\ populated' = TRUE
    /\ UNCHANGED <<currentTime, lastPredictedEventTime, directOutputPending,
                   lazy>>

(* The first query settles the state, later ones return what was fetched.  *)
getOutputVariables ==
    /\ currentTime' = IF populated THEN currentTime ELSE lastPredictedEventTime
    /\ populated' = TRUE
    /\ UNCHANGED <<lastPredictedEventTime, directOutputPending, lazy>>

(* Mutant: a late event takes the model back.                              *)
alignedTimeUnclamped(time) == time

(* The time at which an external event is applied: never before the time   *)
(* of the model, and at that time if it is within the solver's resolution. *)
alignedTime(time) == IF time <= currentTime + TimeDiff THEN currentTime ELSE time

(* updateInputImage() has found an input: the model is put back to the     *)
(* time of the event and the prediction is void.                           *)
applyInputs(time) ==
    /\ currentTime' = alignedTime(time)
    /\ lastPredictedEventTime' = alignedTime(time)
    /\ populated' = FALSE
    /\ directOutputPending' = TRUE
    /\ UNCHANGED lazy

(* updateInputImage() asks every event for its variables, its own          *)
(* predictions too.  Outputs are no inputs, and neither is an external     *)
(* event without a single value.                                           *)
eventTriggered(ev, hasInputs) ==
    \/ ev.predicted /\ lazy /\ ~isOutdated(ev.time) /\ getOutputVariables
    \/ ev.predicted /\ ~lazy /\ UNCHANGED predictorVars
    \/ ~ev.predicted /\ hasInputs /\ applyInputs(ev.time)
    \/ ~ev.predicted /\ ~hasInputs /\ UNCHANGED predictorVars

=============================================================================
