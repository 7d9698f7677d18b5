------------------------ MODULE OneStepEventPredictor ------------------------
(***************************************************************************)
(* The predictor of the singlestep-delayed method                          *)
(* (src/src/model/OneStepEventPredictor.cpp).                              *)
(*                                                                         *)
(* The model is integrated one step at a time and never put back.  The     *)
(* outputs at the end of the step are kept in currentPrediction_ until     *)
(* they have been distributed; an external event that arrives meanwhile is *)
(* applied to the model as it is, at the end of the step.                  *)
(***************************************************************************)
EXTENDS Integers

CONSTANTS
    LookAhead,    \* lookAheadStepSize: app.lookAheadTime
    VariableStep  \* variableStepSizeOnModelEvent: app.variableStepSize

ASSUME LookAheadAssumption == LookAhead \in Nat \ {0}
ASSUME VariableStepAssumption == VariableStep \in BOOLEAN

VARIABLES
    fmuTime,           \* fmu_->getTime()
    currentPrediction  \* currentPrediction_ is set

onestepVars == <<fmuTime, currentPrediction>>

init(start) == fmuTime = start /\ currentPrediction = FALSE

(* integrate() stops early at an event of the model; the loop then goes on *)
(* to the end of the step unless the step size is variable.                *)
stepSizes == IF VariableStep THEN 1..LookAhead ELSE {LookAhead}

predictOneStep == \E step \in stepSizes : fmuTime' = fmuTime + step

(* Mutant: every call takes a step.                                        *)
predictNextAlwaysSteps(time) ==
    /\ predictOneStep
    /\ currentPrediction' = TRUE
    /\ time = fmuTime'

(* predictNext() returns a copy of currentPrediction_, whose time is that  *)
(* of the model.                                                           *)
predictNext(time) ==
    /\ IF currentPrediction THEN UNCHANGED fmuTime ELSE predictOneStep
    /\ currentPrediction' = TRUE
    /\ time = fmuTime'

(* Mutant: the prediction is not reset when it is distributed.             *)
eventTriggeredKeeps(ev, hasInputs) == UNCHANGED onestepVars

(* eventTriggered(): an event that sets no input is taken for the          *)
(* prediction itself.                                                      *)
eventTriggered(ev, hasInputs) ==
    LET updated == ~ev.predicted /\ hasInputs
    IN  /\ currentPrediction' = (updated /\ currentPrediction)
        /\ UNCHANGED fmuTime

=============================================================================
