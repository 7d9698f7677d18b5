--------------------------- MODULE PredictorImages ---------------------------
(***************************************************************************)
(* The values inside the predictor that app.simulationMethod has chosen: a *)
(* behaviour is one of either predictor.  The other predictor does not     *)
(* exist, its variables keep their initial values.                         *)
(***************************************************************************)
EXTENDS EventPredictorImages

CONSTANTS LookAhead, VariableStep

VARIABLES
    method,  \* app.simulationMethod
    fmuTime, currentPrediction, modelOutputs, modelInputs, outputImage,
    prediction, received, announced, started, missed,
    sentToModel  \* sentInputs of the singlestep predictor

OneStep == INSTANCE OneStepImages WITH sentInputs <- sentToModel

oneStepVars == <<fmuTime, currentPrediction, modelOutputs, modelInputs, outputImage,
                 prediction, received, announced, started, missed, sentToModel>>
multistepVars == <<predictorVars, solverOutputs, solverInputs, inputImage,
                   outputEventVariables, direct, heard, sentInputs>>
vars == <<method, pc, oneStepVars, multistepVars>>

Unset == [port \in OutputPorts |-> Default]

PredictorInit ==
    /\ ImagesInit /\ OneStep!ImagesInit
    /\ \/ method = "multistep-prediction" /\ modelOutputs = Unset
       \/ method = "singlestep-delayed" /\ solverOutputs = Unset

PredictorNext ==
    /\ UNCHANGED method
    /\ \/ method = "multistep-prediction" /\ ImagesNext /\ UNCHANGED oneStepVars
       \/ method = "singlestep-delayed" /\ OneStep!ImagesNext /\ UNCHANGED multistepVars

PredictorSpec == PredictorInit /\ [][PredictorNext]_vars

-----------------------------------------------------------------------------
(* Properties of both predictors.                                          *)

(* What the listeners hear is up to date and what waits to be sent stays   *)
(* as it was fetched: predictNext() of the singlestep predictor suppresses *)
(* an event only if nothing has changed and keeps its values until it is   *)
(* sent or an event without values arrives, and the multistep predictor    *)
(* has a buffer exactly if its flag says so.                               *)
OutputsConsistent ==
    /\ OneStep!ListenersUpToDate
    /\ OneStep!PredictionUnaffected
    /\ BufferMatchesFlag

(* eventTriggered() of either predictor leaves every input of the model at *)
(* the latest value that was received for it.                              *)
ModelHasLatestInputs == SolverHasLatestInputs /\ OneStep!InputsAreLatest

=============================================================================
