------------------------- MODULE EventPredictorImages -------------------------
(***************************************************************************)
(* The values that pass through EventPredictor: input images that collect  *)
(* what events set, and the buffer from which every listener of a          *)
(* LazyEvent gets the outputs.  EventPredictor has the times; here is the  *)
(* data, between the dispatcher's loop and a listener that asks each event *)
(* for its variables after the predictor has.                              *)
(*                                                                         *)
(* A port is a pair of its type and a number.  What the solver makes of    *)
(* the inputs is open: its outputs take any values when its state moves.   *)
(***************************************************************************)
EXTENDS EventPredictor, Sequences

CONSTANTS
    OutputPorts, InputPorts,  \* the ports of the two channel mappings
    Values,
    Default,                  \* the inputs as long as no event has set them
    MaxVariables,             \* bound: the variables of an input event
    MaxTime                   \* bound: the time of the model

ASSUME PredictorImagesAssumption ==
    /\ OutputPorts \subseteq (0..3) \X Nat
    /\ InputPorts \subseteq (0..3) \X Nat
    /\ Default \in Values
    /\ MaxVariables \in Nat

VARIABLES
    pc,                    \* "predict", "get", "listen", or "failed"
    solverOutputs,         \* the outputs of the solver's present state
    solverInputs,          \* the inputs of the last call of syncState()
    inputImage,            \* realInputImage_ ... stringInputImage_
    outputEventVariables,  \* outputEventVariables_
    direct,                \* the variables of the last direct output event
    heard,                 \* history: what the listener has got from the event
    sentInputs             \* history: the latest value of each input

imageVars == <<predictorVars, pc, solverOutputs, solverInputs, inputImage,
               outputEventVariables, direct, heard, sentInputs>>

Outputs == [OutputPorts -> Values]
NoVariables == [port \in {} |-> Default]

(* The images start with the values that the configuration gives.          *)
ImagesInit ==
    /\ init(0)
    /\ pc = "predict"
    /\ solverOutputs \in Outputs
    /\ inputImage = [port \in InputPorts |-> Default]
    /\ solverInputs = inputImage
    /\ outputEventVariables = NoVariables
    /\ direct = NoVariables
    /\ heard = NoVariables
    /\ sentInputs = inputImage

-----------------------------------------------------------------------------
(* predictNext().                                                          *)

(* fetchOutputs(): every output with the value the solver has for it.      *)
fetchOutputs == solverOutputs

predict(time) ==
    /\ pc = "predict"
    /\ time <= MaxTime
    /\ predictNext(time)
    /\ IF AssumeDirect /\ directOutputPending
       THEN direct' = fetchOutputs /\ UNCHANGED outputEventVariables
       ELSE outputEventVariables' = NoVariables /\ UNCHANGED direct
    /\ pc' = "get"
    /\ UNCHANGED <<solverOutputs, solverInputs, inputImage, heard, sentInputs>>

predictThrows ==
    /\ pc = "predict"
    /\ ~(AssumeDirect /\ directOutputPending)
    /\ pc' = "failed"
    /\ UNCHANGED <<predictorVars, solverOutputs, solverInputs, inputImage,
                   outputEventVariables, direct, heard, sentInputs>>

-----------------------------------------------------------------------------
(* The predictor's own event is distributed.                               *)

(* Mutant: the outputs are fetched before the state is settled.            *)
populateEarly(new) == IF populated THEN outputEventVariables ELSE solverOutputs

(* The buffer once getOutputVariables() has moved the solver, whose        *)
(* outputs are then the given ones.                                        *)
populate(new) == IF populated THEN outputEventVariables ELSE new

(* The first query comes from the predictor itself, in updateInputImage(). *)
ownEvent(new) ==
    /\ pc = "get"
    /\ eventTriggered([predicted |-> TRUE,
                       time |-> IF lazy THEN lastPredictedEventTime ELSE currentTime],
                      FALSE)
    /\ solverOutputs' = IF lazy /\ ~populated THEN new ELSE solverOutputs
    /\ outputEventVariables' = IF lazy THEN populate(new) ELSE outputEventVariables
    /\ pc' = "listen"
    /\ UNCHANGED <<solverInputs, inputImage, direct, heard, sentInputs>>

(* The solver does not reach the time of the event.                        *)
ownEventThrows ==
    /\ pc = "get"
    /\ lazy /\ ~populated
    /\ pc' = "failed"
    /\ UNCHANGED <<predictorVars, solverOutputs, solverInputs, inputImage,
                   outputEventVariables, direct, heard, sentInputs>>

(* The listeners after the predictor: the state is settled already.        *)
listen ==
    /\ pc = "listen"
    /\ heard' = IF lazy THEN populate(solverOutputs) ELSE direct
    /\ pc' = "predict"
    /\ UNCHANGED <<predictorVars, solverOutputs, solverInputs, inputImage,
                   outputEventVariables, direct, sentInputs>>

-----------------------------------------------------------------------------
(* An external event is distributed.                                       *)

(* A variable that is no input of the type is passed over.                 *)
assignIfOfType(image, variable, type) ==
    IF variable.port[1] = type
    THEN [image EXCEPT ![variable.port] = variable.value] ELSE image

(* The image after each of the event's variables, in their order.          *)
imageAfter(image, vars, type) ==
    LET after[i \in 0..Len(vars)] ==
            IF i = 0 THEN image ELSE assignIfOfType(after[i - 1], vars[i], type)
    IN  after

assigned(image, vars, type) == imageAfter(image, vars, type)[Len(vars)]

(* Mutant: found = found || ..., which skips the types after the first one *)
(* that has an input in the event.                                         *)
updateInputImageLazy(vars) ==
    LET types == {vars[i].port[1] : i \in DOMAIN vars}
    IN  IF types = {} THEN inputImage
        ELSE assigned(inputImage, vars, CHOOSE t \in types : \A u \in types : t <= u)

(* updateInputImage(): one type after the other.                           *)
updateInputImage(vars) ==
    assigned(assigned(assigned(assigned(inputImage, vars, 0), vars, 1), vars, 2), vars, 3)

latest(old, vars) ==
    [port \in DOMAIN old |->
        LET at == {i \in DOMAIN vars : vars[i].port = port}
        IN  IF at = {} THEN old[port]
            ELSE vars[CHOOSE i \in at : \A j \in at : j <= i].value]

external(time, vars, new) ==
    /\ pc = "get"
    /\ time <= lastPredictedEventTime
    /\ eventTriggered([predicted |-> FALSE, time |-> time], vars # <<>>)
    /\ inputImage' = updateInputImage(vars)
    /\ IF vars = <<>>
       THEN UNCHANGED <<solverInputs, solverOutputs, outputEventVariables>>
       ELSE /\ solverInputs' = updateInputImage(vars)
            /\ solverOutputs' = new
            /\ outputEventVariables' = NoVariables
    /\ sentInputs' = latest(sentInputs, vars)
    /\ pc' = "predict"
    /\ UNCHANGED <<direct, heard>>

(* The events of a channel; one may name a port twice.                     *)
InputEvents ==
    UNION {[1..n -> [port : InputPorts, value : Values]] : n \in 0..MaxVariables}

ImagesNext ==
    \/ \E time \in 0..MaxTime : predict(time)
    \/ predictThrows
    \/ \E new \in Outputs : ownEvent(new)
    \/ ownEventThrows
    \/ listen
    \/ \E time \in 0..MaxTime, vars \in InputEvents, new \in Outputs :
           external(time, vars, new)

ImagesSpec == ImagesInit /\ [][ImagesNext]_imageVars

-----------------------------------------------------------------------------
(* Properties.                                                             *)

(* syncState() passes all the images on every input, changed or not: the   *)
(* model has the latest value of every port, however the values have       *)
(* spread over events and types.                                           *)
SolverHasLatestInputs == solverInputs = sentInputs

(* A listener gets the outputs of the model as it is while the event is    *)
(* distributed, from the buffer and from a direct output event alike:      *)
(* nothing has moved the model since the values were fetched.              *)
ListenersHearModel ==
    [][listen => heard' = solverOutputs]_imageVars

(* "assert(outputEventVariables_.empty())" of getOutputVariables(): the    *)
(* buffer holds a value of every output while it is marked as populated,   *)
(* and nothing otherwise.                                                  *)
BufferMatchesFlag ==
    IF populated THEN outputEventVariables \in Outputs
    ELSE outputEventVariables = NoVariables

=============================================================================
