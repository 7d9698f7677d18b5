---------------------------- MODULE OneStepImages ----------------------------
(***************************************************************************)
(* The values that pass through OneStepEventPredictor: inputs that events  *)
(* set in the model, and outputs that are compared with an image of the    *)
(* last ones so that a prediction without news carries no values.          *)
(* OneStepEventPredictor has the times; here is the data, between the      *)
(* dispatcher's loop and a listener that keeps what it is told.            *)
(*                                                                         *)
(* A port is a pair of its type and a number.  What the model makes of its *)
(* inputs is open: its outputs take any values.                            *)
(***************************************************************************)
EXTENDS OneStepEventPredictor, Sequences

CONSTANTS
    OutputPorts, InputPorts,  \* the ports of the two channel mappings
    Values,
    Default,                  \* the value of a listener before the first event
    MaxVariables,             \* bound: the variables of an input event
    MaxTime                   \* bound: the time of the model

VARIABLES
    pc,            \* the dispatcher: "predict", "get", or "failed"
    modelOutputs,  \* the outputs of the FMU as it is
    modelInputs,   \* the inputs that are set in the FMU
    outputImage,   \* outputRealImage_ ... outputStringImage_
    prediction,    \* the variables of currentPrediction_
    received,      \* history: the latest value of each output a listener has
    announced,     \* history: a listener has been given values
    started,       \* history: the outputs that init() has fetched
    missed,        \* history: the values of the last prediction that an event
                   \* without values has made the predictor forget
    sentInputs     \* history: the latest value of each input

imageVars == <<onestepVars, pc, modelOutputs, modelInputs, outputImage, prediction,
               received, announced, started, missed, sentInputs>>

Outputs == [OutputPorts -> Values]
NoVariables == [port \in {} |-> Default]

(* init() fetches the outputs and drops the answer.                        *)
ImagesInit ==
    /\ init(0)
    /\ pc = "predict"
    /\ modelOutputs \in Outputs
    /\ modelInputs = [port \in InputPorts |-> Default]
    /\ outputImage = modelOutputs
    /\ prediction = NoVariables
    /\ received = [port \in OutputPorts |-> Default]
    /\ announced = FALSE
    /\ started = modelOutputs
    /\ missed = NoVariables
    /\ sentInputs = modelInputs

-----------------------------------------------------------------------------
(* predictNext().                                                          *)

changedOfType(type, new) ==
    \E port \in OutputPorts : port[1] = type /\ outputImage[port] # new[port]

(* Mutant: the result of each type replaces the one of the type before.    *)
significantChangeLast(new) == changedOfType(3, new)

(* updateOutputImage() goes through the types and joins their results.     *)
significantChange(new) == \E type \in 0..3 : changedOfType(type, new)

(* getOutputEvent(): every output with the value of its image.             *)
getOutputEvent(image) == image

predict(time, new) ==
    /\ pc = "predict"
    /\ time <= MaxTime
    /\ predictNext(time)
    /\ IF currentPrediction
       THEN UNCHANGED <<modelOutputs, outputImage, prediction>>
       ELSE /\ modelOutputs' = new
            /\ outputImage' = new
            /\ prediction' = IF significantChange(new)
                             THEN getOutputEvent(new) ELSE NoVariables
    /\ pc' = "get"
    /\ UNCHANGED <<modelInputs, received, announced, started, missed, sentInputs>>

(* integrate() or getValue() fails with a SolverException.                 *)
predictThrows ==
    /\ pc = "predict"
    /\ pc' = "failed"
    /\ UNCHANGED <<onestepVars, modelOutputs, modelInputs, outputImage, prediction,
                   received, announced, started, missed, sentInputs>>

-----------------------------------------------------------------------------
(* eventTriggered().                                                       *)

updateInputVariable(inputs, variable) ==
    [inputs EXCEPT ![variable.port] = variable.value]

(* The inputs after each of the variables, which are set one after the     *)
(* other.                                                                  *)
inputsAfter(inputs, vars) ==
    LET after[i \in 0..Len(vars)] ==
            IF i = 0 THEN inputs ELSE updateInputVariable(after[i - 1], vars[i])
    IN  after

updateInputVariables(vars) == inputsAfter(modelInputs, vars)[Len(vars)]

latest(old, vars) ==
    [port \in DOMAIN old |->
        LET at == {i \in DOMAIN vars : vars[i].port = port}
        IN  IF at = {} THEN old[port]
            ELSE vars[CHOOSE i \in at : \A j \in at : j <= i].value]

(* An external event; handleEvents() may change the outputs at once.       *)
external(vars, new) ==
    /\ pc = "get"
    /\ eventTriggered([predicted |-> FALSE], vars # <<>>)
    /\ modelInputs' = IF vars = <<>> THEN modelInputs ELSE updateInputVariables(vars)
    /\ modelOutputs' = IF vars = <<>> THEN modelOutputs ELSE new
    /\ sentInputs' = latest(sentInputs, vars)
    /\ missed' = IF vars = <<>> /\ prediction # NoVariables
                 THEN prediction ELSE missed
    /\ pc' = "predict"
    /\ UNCHANGED <<outputImage, prediction, received, announced, started>>

(* The prediction itself reaches the listeners.                            *)
output ==
    /\ pc = "get"
    /\ eventTriggered([predicted |-> TRUE], FALSE)
    /\ received' = [port \in OutputPorts |->
                      IF port \in DOMAIN prediction THEN prediction[port]
                      ELSE received[port]]
    /\ announced' = (announced \/ prediction # NoVariables)
    /\ missed' = IF prediction # NoVariables THEN NoVariables ELSE missed
    /\ pc' = "predict"
    /\ UNCHANGED <<modelOutputs, modelInputs, outputImage, prediction, started,
                   sentInputs>>

(* An input can not be set.                                                *)
externalThrows ==
    /\ pc = "get"
    /\ pc' = "failed"
    /\ UNCHANGED <<onestepVars, modelOutputs, modelInputs, outputImage, prediction,
                   received, announced, started, missed, sentInputs>>

(* The events of a channel; one may name a port twice or have no values.   *)
InputEvents ==
    UNION {[1..n -> [port : InputPorts, value : Values]] : n \in 0..MaxVariables}

ImagesNext ==
    \/ \E time \in 1..MaxTime, new \in Outputs : predict(time, new)
    \/ predictThrows
    \/ \E vars \in InputEvents, new \in Outputs : external(vars, new)
    \/ output
    \/ externalThrows

ImagesSpec == ImagesInit /\ [][ImagesNext]_imageVars

-----------------------------------------------------------------------------
(* Properties.                                                             *)

(* "If no value was changed since the last prediction step, the outgoing   *)
(* event will be suppressed": nothing else is, except what an event        *)
(* without values has made the predictor forget.  Between two predictions  *)
(* a listener has the outputs at the end of the last step, unless they     *)
(* have never been anything but what init() found, or are still those of a *)
(* prediction that was forgotten after the last one that was sent.         *)
ListenersUpToDate ==
    pc = "predict" /\ ~currentPrediction =>
        \/ received = outputImage
        \/ missed = outputImage
        \/ ~announced /\ outputImage = started

(* "The prediction does not change by any input variable update": the      *)
(* values that wait to be sent are those at the end of the step, whatever  *)
(* events have changed in the model since.                                 *)
PredictionUnaffected ==
    currentPrediction /\ prediction # NoVariables => prediction = outputImage

(* Every input of the model has the latest value that was received for it, *)
(* also of an event that sets several inputs or one of them twice.         *)
InputsAreLatest == modelInputs = sentInputs

=============================================================================
