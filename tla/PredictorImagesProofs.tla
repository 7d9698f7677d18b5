------------------------ MODULE PredictorImagesProofs ------------------------
(***************************************************************************)
(* Proofs about the outputs that the predictors hand to their listeners,   *)
(* and about the inputs that events set, for all ports and values and for  *)
(* events of any length.                                                   *)
(***************************************************************************)
EXTENDS PredictorImages, DataProofs

-----------------------------------------------------------------------------
(* The inductive invariant.                                                *)

(* The listeners have the outputs of the image or have missed them, or     *)
(* nobody was told any.                                                    *)
UpToDate ==
    \/ received = outputImage
    \/ missed = outputImage
    \/ ~announced /\ outputImage = started

(* The singlestep predictor: a prediction that waits holds what is in the  *)
(* image, or no news.                                                      *)
OneStepInv ==
    /\ currentPrediction \in BOOLEAN /\ announced \in BOOLEAN
    /\ outputImage \in Outputs /\ received \in Outputs
    /\ prediction \in Outputs \cup {NoVariables}
    /\ currentPrediction =>
         prediction = outputImage \/ (prediction = NoVariables /\ UpToDate)
    /\ ~currentPrediction => UpToDate
    /\ method = "singlestep-delayed" /\ pc = "get" => currentPrediction

(* The multistep predictor: the buffer and the direct output event hold    *)
(* the outputs of the solver's state, as long as they can be asked for.    *)
MultistepInv ==
    /\ populated \in BOOLEAN /\ lazy \in BOOLEAN
    /\ solverOutputs \in Outputs
    /\ outputEventVariables = IF populated THEN solverOutputs ELSE NoVariables
    /\ method = "multistep-prediction" =>
         /\ pc = "listen" /\ lazy => populated
         /\ pc \in {"get", "listen"} /\ ~lazy => direct = solverOutputs
    /\ pc = "listen" => method = "multistep-prediction"

-----------------------------------------------------------------------------
(* Facts about the values.                                                 *)

(* Both predictors speak of the same ports.                                *)
LEMMA SameValues == OneStep!Outputs = Outputs /\ OneStep!NoVariables = NoVariables
BY DEF OneStep!Outputs, Outputs, OneStep!NoVariables, NoVariables

(* Two sets of outputs that differ, differ at a port of one of the four    *)
(* types that updateOutputImage() goes through.                            *)
LEMMA NoChangeIsSame ==
    ASSUME outputImage \in Outputs, NEW new \in Outputs,
           ~OneStep!significantChange(new)
    PROVE  new = outputImage
<1>1. \A port \in OutputPorts : port[1] \in 0..3
  BY PredictorImagesAssumption
<1>2. \A port \in OutputPorts : outputImage[port] = new[port]
  BY <1>1 DEF OneStep!significantChange, OneStep!changedOfType
<1> QED BY <1>2 DEF Outputs

-----------------------------------------------------------------------------
(* What the loops over the variables compute.                              *)

Inputs == [InputPorts -> Values]
InputVariable == [port : InputPorts, value : Values]

(* The variables of an event for a port, and what the last of them makes   *)
(* of the old value.                                                       *)
VariablesOf(v, n, port) == {i \in 1..n : v[i].port = port}

LastValue(v, n, port, old) ==
    IF VariablesOf(v, n, port) = {} THEN old
    ELSE v[CHOOSE i \in VariablesOf(v, n, port) :
              \A j \in VariablesOf(v, n, port) : j <= i].value

(* An input that takes the value of each variable of its port in turn ends *)
(* with the one of the last, or as it was if there is none.                *)
LEMMA LastAssignment ==
    ASSUME NEW n \in Nat, NEW v \in [1..n -> InputVariable], NEW port,
           NEW input,
           \A i \in 1..n :
              input[i] = IF v[i].port = port THEN v[i].value ELSE input[i - 1]
    PROVE  input[n] = LastValue(v, n, port, input[0])
<1> DEFINE at == VariablesOf(v, n, port)
<1> USE DEF VariablesOf
<1>1. CASE at = {}
  <2> DEFINE T == {i \in 0..n : input[i] = input[0]}
  <2>1. 0 \in T
    OBVIOUS
  <2>2. ASSUME NEW i \in 0..(n - 1), i \in T PROVE i + 1 \in T
    <3>1. i + 1 \in 1..n /\ (i + 1) - 1 = i /\ v[i + 1].port # port
      BY <1>1
    <3> QED BY <2>2, <3>1
  <2>3. 0..n \subseteq T
    <3> HIDE DEF T
    <3> QED BY <2>1, <2>2, Induction
  <2>4. input[n] = input[0]
    BY <2>3
  <2> QED BY <1>1, <2>4 DEF LastValue
<1>2. CASE at # {}
  <2> DEFINE last == CHOOSE i \in at : \A j \in at : j <= i
  <2>1. last \in at /\ \A j \in at : j <= last
    <3>1. \E i \in at : \A j \in at : j <= i
      BY <1>2, GreatestNumber
    <3> QED BY <3>1
  <2> HIDE DEF last
  <2>2. last \in 1..n /\ v[last].port = port
    BY <2>1
  <2> DEFINE T == {i \in 0..(n - last) : input[last + i] = v[last].value}
  <2>3. 0 \in T
    BY <2>2
  <2>4. ASSUME NEW i \in 0..((n - last) - 1), i \in T PROVE i + 1 \in T
    <3>1. last + (i + 1) \in 1..n /\ (last + (i + 1)) - 1 = last + i
      BY <2>2
    <3>2. v[last + (i + 1)].port # port
      BY <2>1, <2>2, <3>1
    <3>3. input[last + (i + 1)] = input[last + i]
      BY <3>1, <3>2
    <3>4. i + 1 \in 0..(n - last)
      BY <2>2
    <3> QED BY <2>4, <3>3, <3>4
  <2>5. 0..(n - last) \subseteq T
    <3> HIDE DEF T
    <3>1. n - last \in Nat
      BY <2>2
    <3> QED BY <2>3, <2>4, <3>1, Induction
  <2>6. n - last \in T /\ last + (n - last) = n
    <3>1. n - last \in 0..(n - last) /\ last + (n - last) = n
      BY <2>2
    <3> HIDE DEF T
    <3> QED BY <2>5, <3>1
  <2>7. input[n] = v[last].value
    BY <2>6
  <2> QED BY <1>2, <2>7 DEF last, LastValue
<1> QED BY <1>1, <1>2

(* One variable gives one input its value.                                 *)
LEMMA OneVariable ==
    ASSUME NEW image \in Inputs, NEW v \in InputVariable
    PROVE  /\ OneStep!updateInputVariable(image, v) \in Inputs
           /\ \A port \in InputPorts :
                 OneStep!updateInputVariable(image, v)[port] =
                    IF port = v.port THEN v.value ELSE image[port]
BY DEF OneStep!updateInputVariable, Inputs, InputVariable

(* The loop of updateInputVariables(), one variable after the other.       *)
LEMMA UpdateSteps ==
    ASSUME NEW image \in Inputs, NEW n \in Nat, NEW v \in [1..n -> InputVariable],
           Len(v) = n, NEW after, after = OneStep!inputsAfter(image, v)
    PROVE  /\ after \in [0..n -> Inputs]
           /\ after[0] = image
           /\ \A i \in 1..n :
                 after[i] = OneStep!updateInputVariable(after[i - 1], v[i])
<1> DEFINE step == [i \in 1..n |->
                      [im \in Inputs |-> OneStep!updateInputVariable(im, v[i])]]
           Body(f) == [i \in 0..n |->
                         IF i = 0 THEN image
                         ELSE OneStep!updateInputVariable(f[i - 1], v[i])]
<1>1. step \in [1..n -> [Inputs -> Inputs]]
  BY OneVariable
<1>2. PICK f \in [0..n -> Inputs] :
         f[0] = image /\ \A i \in 1..n : f[i] = step[i][f[i - 1]]
  <2> HIDE DEF step
  <2> QED BY <1>1, Iteration
<1>3. ASSUME NEW i \in 1..n PROVE f[i] = OneStep!updateInputVariable(f[i - 1], v[i])
  <2>1. f[i - 1] \in Inputs
    OBVIOUS
  <2> QED BY <1>2, <2>1
<1>4. f = Body(f)
  BY <1>2, <1>3
<1>5. after = CHOOSE g : g = Body(g)
  BY DEF OneStep!inputsAfter
<1>6. after = Body(after)
  <2> HIDE DEF Body
  <2> QED BY <1>4, <1>5
<1>7. after[0] = image
  BY <1>6
<1>8. ASSUME NEW i \in 1..n
      PROVE  after[i] = OneStep!updateInputVariable(after[i - 1], v[i])
  <2>1. after[i] = Body(after)[i]
    BY <1>6
  <2> QED BY <2>1
<1>9. after \in [0..n -> Inputs]
  <2> DEFINE T == {i \in 0..n : after[i] \in Inputs}
  <2>1. 0 \in T
    BY <1>7
  <2>2. ASSUME NEW i \in 0..(n - 1), i \in T PROVE i + 1 \in T
    <3>1. i + 1 \in 1..n /\ (i + 1) - 1 = i
      OBVIOUS
    <3>2. after[i + 1] = OneStep!updateInputVariable(after[i], v[i + 1])
      BY <1>8, <3>1
    <3>3. after[i + 1] \in Inputs
      BY <2>2, <3>1, <3>2, OneVariable
    <3> QED BY <3>1, <3>3
  <2>3. 0..n \subseteq T
    <3> HIDE DEF T
    <3> QED BY <2>1, <2>2, Induction
  <2>4. after = [i \in 0..n |-> after[i]]
    BY <1>6
  <2> QED BY <2>3, <2>4
<1> QED BY <1>7, <1>8, <1>9

(* updateInputVariables() leaves every input at its latest value.          *)
LEMMA UpdateIsLatest ==
    ASSUME NEW image \in Inputs, NEW n \in Nat, NEW v \in [1..n -> InputVariable]
    PROVE  /\ OneStep!inputsAfter(image, v)[Len(v)] = OneStep!latest(image, v)
           /\ OneStep!latest(image, v) \in Inputs
<1>1. Len(v) = n /\ DOMAIN v = 1..n
  OBVIOUS
<1>2. PICK after : after = OneStep!inputsAfter(image, v)
  OBVIOUS
<1>3. /\ after \in [0..n -> Inputs] /\ after[0] = image
      /\ \A i \in 1..n : after[i] = OneStep!updateInputVariable(after[i - 1], v[i])
  BY <1>1, <1>2, UpdateSteps
<1>4. after[n] \in Inputs
  BY <1>3
<1>5. ASSUME NEW port \in InputPorts
      PROVE  after[n][port] = OneStep!latest(image, v)[port]
  <2> DEFINE input == [i \in 0..n |-> after[i][port]]
  <2>1. ASSUME NEW i \in 1..n
        PROVE  input[i] = IF v[i].port = port THEN v[i].value ELSE input[i - 1]
    <3>1. i \in 0..n /\ i - 1 \in 0..n
      OBVIOUS
    <3>2. after[i - 1] \in Inputs /\ v[i] \in InputVariable
      BY <1>3, <3>1
    <3>3. PICK before \in Inputs : before = after[i - 1]
      BY <3>2
    <3>4. after[i] = OneStep!updateInputVariable(before, v[i])
      BY <1>3, <3>3
    <3>5. after[i][port] = IF port = v[i].port THEN v[i].value ELSE before[port]
      BY <3>2, <3>4, OneVariable
    <3> QED BY <3>1, <3>3, <3>5
  <2>2. input[n] = LastValue(v, n, port, input[0])
    <3> HIDE DEF input
    <3> QED BY <2>1, LastAssignment
  <2>3. OneStep!latest(image, v)[port] = LastValue(v, n, port, image[port])
    BY <1>1 DEF OneStep!latest, Inputs, LastValue, VariablesOf
  <2>4. input[n] = after[n][port] /\ input[0] = image[port]
    BY <1>3
  <2> QED BY <2>2, <2>3, <2>4
<1>6. after[n] = OneStep!latest(image, v)
  <2>1. DOMAIN OneStep!latest(image, v) = InputPorts
    BY DEF OneStep!latest, Inputs
  <2>2. OneStep!latest(image, v) =
           [port \in InputPorts |-> OneStep!latest(image, v)[port]]
    BY <2>1 DEF OneStep!latest
  <2> QED BY <1>4, <1>5, <2>2 DEF Inputs
<1> QED BY <1>1, <1>2, <1>4, <1>6

(* A variable of the type gives one input its value, and any other none.   *)
LEMMA OneVariableOfType ==
    ASSUME NEW image \in Inputs, NEW v \in InputVariable, NEW type
    PROVE  /\ assignIfOfType(image, v, type) \in Inputs
           /\ \A port \in InputPorts :
                 assignIfOfType(image, v, type)[port] =
                    IF port[1] = type /\ port = v.port THEN v.value ELSE image[port]
BY DEF assignIfOfType, Inputs, InputVariable

(* The loop of updateInputImage() for one type.                            *)
LEMMA TypeSteps ==
    ASSUME NEW image \in Inputs, NEW n \in Nat, NEW v \in [1..n -> InputVariable],
           Len(v) = n, NEW type, NEW after, after = imageAfter(image, v, type)
    PROVE  /\ after \in [0..n -> Inputs]
           /\ after[0] = image
           /\ \A i \in 1..n :
                 after[i] = assignIfOfType(after[i - 1], v[i], type)
<1> DEFINE step == [i \in 1..n |->
                      [im \in Inputs |-> assignIfOfType(im, v[i], type)]]
           Body(f) == [i \in 0..n |->
                         IF i = 0 THEN image
                         ELSE assignIfOfType(f[i - 1], v[i], type)]
<1>1. step \in [1..n -> [Inputs -> Inputs]]
  BY OneVariableOfType
<1>2. PICK f \in [0..n -> Inputs] :
         f[0] = image /\ \A i \in 1..n : f[i] = step[i][f[i - 1]]
  <2> HIDE DEF step
  <2> QED BY <1>1, Iteration
<1>3. ASSUME NEW i \in 1..n PROVE f[i] = assignIfOfType(f[i - 1], v[i], type)
  <2>1. f[i - 1] \in Inputs
    OBVIOUS
  <2> QED BY <1>2, <2>1
<1>4. f = Body(f)
  BY <1>2, <1>3
<1>5. after = CHOOSE g : g = Body(g)
  BY DEF imageAfter
<1>6. after = Body(after)
  <2> HIDE DEF Body
  <2> QED BY <1>4, <1>5
<1>7. after[0] = image
  BY <1>6
<1>8. ASSUME NEW i \in 1..n
      PROVE  after[i] = assignIfOfType(after[i - 1], v[i], type)
  <2>1. after[i] = Body(after)[i]
    BY <1>6
  <2> QED BY <2>1
<1>9. after \in [0..n -> Inputs]
  <2> DEFINE T == {i \in 0..n : after[i] \in Inputs}
  <2>1. 0 \in T
    BY <1>7
  <2>2. ASSUME NEW i \in 0..(n - 1), i \in T PROVE i + 1 \in T
    <3>1. i + 1 \in 1..n /\ (i + 1) - 1 = i
      OBVIOUS
    <3>2. after[i + 1] = assignIfOfType(after[i], v[i + 1], type)
      BY <1>8, <3>1
    <3>3. after[i + 1] \in Inputs
      BY <2>2, <3>1, <3>2, OneVariableOfType
    <3> QED BY <3>1, <3>3
  <2>3. 0..n \subseteq T
    <3> HIDE DEF T
    <3> QED BY <2>1, <2>2, Induction
  <2>4. after = [i \in 0..n |-> after[i]]
    BY <1>6
  <2> QED BY <2>3, <2>4
<1> QED BY <1>7, <1>8, <1>9

(* updateInputImage() of one type leaves every input of the type at its    *)
(* latest value and the others alone.                                      *)
LEMMA TypeIsLatest ==
    ASSUME NEW image \in Inputs, NEW n \in Nat, NEW v \in [1..n -> InputVariable],
           NEW type
    PROVE  /\ assigned(image, v, type) \in Inputs
           /\ \A port \in InputPorts :
                 assigned(image, v, type)[port] =
                    IF port[1] = type THEN LastValue(v, n, port, image[port])
                    ELSE image[port]
<1>1. Len(v) = n
  OBVIOUS
<1>2. PICK after : after = imageAfter(image, v, type)
  OBVIOUS
<1>3. /\ after \in [0..n -> Inputs] /\ after[0] = image
      /\ \A i \in 1..n : after[i] = assignIfOfType(after[i - 1], v[i], type)
  BY <1>1, <1>2, TypeSteps
<1>4. assigned(image, v, type) = after[n] /\ after[n] \in Inputs
  BY <1>1, <1>2, <1>3 DEF assigned
<1>5. ASSUME NEW port \in InputPorts
      PROVE  after[n][port] = IF port[1] = type THEN LastValue(v, n, port, image[port])
                              ELSE image[port]
  <2> DEFINE input == [i \in 0..n |-> after[i][port]]
  <2>1. ASSUME NEW i \in 1..n
        PROVE  input[i] = IF port[1] = type /\ v[i].port = port THEN v[i].value
                          ELSE input[i - 1]
    <3>1. i \in 0..n /\ i - 1 \in 0..n
      OBVIOUS
    <3>2. v[i] \in InputVariable
      OBVIOUS
    <3>3. PICK before \in Inputs : before = after[i - 1]
      BY <1>3, <3>1
    <3>4. after[i] = assignIfOfType(before, v[i], type)
      BY <1>3, <3>3
    <3>5. after[i][port] = IF port[1] = type /\ port = v[i].port THEN v[i].value
                           ELSE before[port]
      BY <3>2, <3>4, OneVariableOfType
    <3> QED BY <3>1, <3>3, <3>5
  <2>2. input[n] = after[n][port] /\ input[0] = image[port]
    BY <1>3
  <2>3. CASE port[1] = type
    <3>1. input[n] = LastValue(v, n, port, input[0])
      <4> HIDE DEF input
      <4> QED BY <2>1, <2>3, LastAssignment
    <3> QED BY <2>2, <2>3, <3>1
  <2>4. CASE port[1] # type
    <3> DEFINE T == {i \in 0..n : input[i] = input[0]}
    <3> HIDE DEF input
    <3>1. 0 \in T
      OBVIOUS
    <3>2. ASSUME NEW i \in 0..(n - 1), i \in T PROVE i + 1 \in T
      <4>1. i + 1 \in 1..n /\ (i + 1) - 1 = i
        OBVIOUS
      <4> QED BY <2>1, <2>4, <3>2, <4>1
    <3>3. 0..n \subseteq T
      <4> HIDE DEF T
      <4> QED BY <3>1, <3>2, Induction
    <3>4. input[n] = input[0]
      BY <3>3
    <3> QED BY <2>2, <2>4, <3>4
  <2> QED BY <2>3, <2>4
<1> QED BY <1>4, <1>5

(* updateInputImage() leaves every input at its latest value: each has one *)
(* of the four types, whose pass sets it, and the other passes leave it.   *)
LEMMA UpdateImageIsLatest ==
    ASSUME inputImage \in Inputs, NEW n \in Nat, NEW v \in [1..n -> InputVariable]
    PROVE  /\ updateInputImage(v) = latest(inputImage, v)
           /\ latest(inputImage, v) \in Inputs
<1>1. Len(v) = n /\ DOMAIN v = 1..n
  OBVIOUS
<1>2. PICK reals \in Inputs : reals = assigned(inputImage, v, 0)
  BY TypeIsLatest
<1>3. PICK integers \in Inputs : integers = assigned(reals, v, 1)
  BY TypeIsLatest
<1>4. PICK booleans \in Inputs : booleans = assigned(integers, v, 2)
  BY TypeIsLatest
<1>5. PICK strings \in Inputs : strings = assigned(booleans, v, 3)
  BY TypeIsLatest
<1>6. updateInputImage(v) = strings
  BY <1>2, <1>3, <1>4, <1>5 DEF updateInputImage
<1>7. ASSUME NEW port \in InputPorts
      PROVE  strings[port] = latest(inputImage, v)[port]
  <2>1. reals[port] = IF port[1] = 0 THEN LastValue(v, n, port, inputImage[port])
                      ELSE inputImage[port]
    BY <1>2, TypeIsLatest
  <2>2. integers[port] = IF port[1] = 1 THEN LastValue(v, n, port, reals[port])
                         ELSE reals[port]
    BY <1>3, TypeIsLatest
  <2>3. booleans[port] = IF port[1] = 2 THEN LastValue(v, n, port, integers[port])
                         ELSE integers[port]
    BY <1>4, TypeIsLatest
  <2>4. strings[port] = IF port[1] = 3 THEN LastValue(v, n, port, booleans[port])
                        ELSE booleans[port]
    BY <1>5, TypeIsLatest
  <2>5. port[1] \in 0..3
    BY PredictorImagesAssumption
  <2>6. latest(inputImage, v)[port] = LastValue(v, n, port, inputImage[port])
    BY <1>1 DEF latest, Inputs, LastValue, VariablesOf
  <2> QED BY <2>1, <2>2, <2>3, <2>4, <2>5, <2>6
<1>8. latest(inputImage, v) = [port \in InputPorts |-> latest(inputImage, v)[port]]
  <2>1. DOMAIN latest(inputImage, v) = InputPorts
    BY DEF latest, Inputs
  <2> QED BY <2>1 DEF latest
<1>9. strings = latest(inputImage, v)
  BY <1>7, <1>8 DEF Inputs
<1> QED BY <1>6, <1>9

-----------------------------------------------------------------------------
(* The singlestep predictor.                                               *)

(* predictNext() keeps a waiting prediction, or compares the outputs of a  *)
(* new step with the image.                                                *)
LEMMA OneStepPredictPreserves ==
    ASSUME OneStepInv, UNCHANGED method, NEW time, NEW new \in Outputs,
           OneStep!predict(time, new)
    PROVE  OneStepInv'
<1>1. /\ currentPrediction' = TRUE /\ pc' = "get"
      /\ UNCHANGED <<received, announced, started, missed>>
  BY DEF OneStep!predict, OneStep!predictNext
<1>2. CASE currentPrediction
  <2>1. UNCHANGED <<outputImage, prediction>>
    BY <1>2 DEF OneStep!predict
  <2> QED BY <1>1, <1>2, <2>1 DEF OneStepInv, UpToDate
<1>3. CASE ~currentPrediction
  <2>1. /\ outputImage' = new
        /\ prediction' = IF OneStep!significantChange(new)
                         THEN new ELSE NoVariables
    BY <1>3, SameValues DEF OneStep!predict, OneStep!getOutputEvent
  <2>2. CASE OneStep!significantChange(new)
    BY <1>1, <2>1, <2>2 DEF OneStepInv
  <2>3. CASE ~OneStep!significantChange(new)
    <3>1. outputImage' = outputImage
      BY <2>1, <2>3, NoChangeIsSame DEF OneStepInv
    <3>2. UpToDate'
      BY <1>1, <1>3, <3>1 DEF OneStepInv, UpToDate
    <3>3. prediction' = NoVariables
      BY <2>1, <2>3
    <3> QED BY <1>1, <3>1, <3>2, <3>3 DEF OneStepInv
  <2> QED BY <2>2, <2>3
<1> QED BY <1>2, <1>3

(* An external event with inputs leaves a waiting prediction alone; one    *)
(* without makes the listeners miss it.                                    *)
LEMMA OneStepExternalPreserves ==
    ASSUME OneStepInv, UNCHANGED method, method = "singlestep-delayed",
           NEW v, NEW new, OneStep!external(v, new)
    PROVE  OneStepInv'
<1>1. /\ pc = "get" /\ pc' = "predict"
      /\ UNCHANGED <<outputImage, prediction, received, announced, started>>
      /\ currentPrediction' = ((v # <<>>) /\ currentPrediction)
      /\ missed' = IF v = <<>> /\ prediction # NoVariables
                   THEN prediction ELSE missed
  BY SameValues DEF OneStep!external, OneStep!eventTriggered
<1>2. currentPrediction = TRUE
  BY <1>1 DEF OneStepInv
<1>3. CASE v # <<>>
  <2>1. currentPrediction' = TRUE /\ missed' = missed
    BY <1>1, <1>2, <1>3
  <2> QED BY <1>1, <1>2, <2>1 DEF OneStepInv, UpToDate
<1>4. CASE v = <<>> /\ prediction # NoVariables
  <2>1. currentPrediction' = FALSE /\ missed' = outputImage
    BY <1>1, <1>2, <1>4 DEF OneStepInv
  <2> QED BY <1>1, <2>1 DEF OneStepInv, UpToDate
<1>5. CASE v = <<>> /\ prediction = NoVariables
  <2>1. currentPrediction' = FALSE /\ missed' = missed
    BY <1>1, <1>5
  <2>2. UpToDate
    <3>1. CASE prediction = outputImage
      <4>1. DOMAIN outputImage = {}
        BY <1>5, <3>1 DEF NoVariables
      <4>2. OutputPorts = {}
        BY <4>1 DEF OneStepInv, Outputs
      <4>3. received = outputImage
        BY <4>2 DEF OneStepInv, Outputs
      <4> QED BY <4>3 DEF UpToDate
    <3> QED BY <1>2, <3>1 DEF OneStepInv
  <2> QED BY <1>1, <2>1, <2>2 DEF OneStepInv, UpToDate
<1> QED BY <1>3, <1>4, <1>5

(* The listeners get the prediction, whose values are all the outputs.     *)
LEMMA OneStepOutputPreserves ==
    ASSUME OneStepInv, UNCHANGED method, method = "singlestep-delayed",
           OneStep!output
    PROVE  OneStepInv'
<1>1. /\ pc = "get" /\ pc' = "predict" /\ currentPrediction' = FALSE
      /\ received' = [port \in OutputPorts |->
                         IF port \in DOMAIN prediction THEN prediction[port]
                         ELSE received[port]]
      /\ announced' = (announced \/ prediction # NoVariables)
      /\ missed' = IF prediction # NoVariables THEN NoVariables ELSE missed
      /\ UNCHANGED <<outputImage, prediction, started>>
  BY SameValues DEF OneStep!output, OneStep!eventTriggered
<1>2. \/ prediction = outputImage
      \/ prediction = NoVariables /\ UpToDate
  BY <1>1 DEF OneStepInv
<1>3. announced' \in BOOLEAN
  BY <1>1
<1>4. CASE prediction = outputImage
  <2>1. received' = outputImage
    BY <1>1, <1>4 DEF OneStepInv, Outputs
  <2> QED BY <1>1, <1>3, <2>1 DEF OneStepInv, UpToDate
<1>5. CASE prediction = NoVariables /\ UpToDate
  <2>1. DOMAIN prediction = {}
    BY <1>5 DEF NoVariables
  <2>2. received' = received
    BY <1>1, <2>1 DEF OneStepInv, Outputs
  <2>3. announced' <=> announced
    BY <1>1, <1>5
  <2>4. missed' = missed
    BY <1>1, <1>5
  <2>5. UpToDate'
    BY <1>1, <1>5, <2>2, <2>3, <2>4 DEF UpToDate
  <2> QED BY <1>1, <1>3, <2>2, <2>5 DEF OneStepInv
<1> QED BY <1>2, <1>4, <1>5

(* Every step of the singlestep predictor.                                 *)
LEMMA OneStepPreserves ==
    ASSUME OneStepInv, UNCHANGED method, method = "singlestep-delayed",
           OneStep!ImagesNext
    PROVE  OneStepInv'
<1>1. CASE \E time \in 1..MaxTime, new \in OneStep!Outputs :
             OneStep!predict(time, new)
  BY <1>1, SameValues, OneStepPredictPreserves
<1>2. CASE OneStep!predictThrows \/ OneStep!externalThrows
  <2>1. /\ pc' = "failed"
        /\ UNCHANGED <<currentPrediction, outputImage, prediction, received,
                       announced, started, missed>>
    BY <1>2 DEF OneStep!predictThrows, OneStep!externalThrows,
                OneStep!onestepVars
  <2> QED BY <2>1 DEF OneStepInv, UpToDate
<1>3. CASE \E v \in OneStep!InputEvents, new \in OneStep!Outputs :
             OneStep!external(v, new)
  BY <1>3, OneStepExternalPreserves
<1>4. CASE OneStep!output
  BY <1>4, OneStepOutputPreserves
<1> QED BY <1>1, <1>2, <1>3, <1>4 DEF OneStep!ImagesNext

-----------------------------------------------------------------------------
(* The multistep predictor.                                                *)

(* A direct output event takes the values of the present state, any other  *)
(* prediction empties the buffer.                                          *)
LEMMA MultistepPredictPreserves ==
    ASSUME MultistepInv, UNCHANGED method, NEW time, predict(time)
    PROVE  MultistepInv'
<1>1. pc' = "get" /\ UNCHANGED solverOutputs
  BY DEF predict
<1>2. CASE AssumeDirect /\ directOutputPending
  <2>1. /\ direct' = solverOutputs /\ lazy' = FALSE
        /\ UNCHANGED <<outputEventVariables, populated>>
    BY <1>2 DEF predict, fetchOutputs, predictNext, predictNextDirectDependency
  <2> QED BY <1>1, <2>1 DEF MultistepInv
<1>3. CASE ~(AssumeDirect /\ directOutputPending)
  <2>1. outputEventVariables' = NoVariables /\ populated' = FALSE /\ lazy' = TRUE
    BY <1>3 DEF predict, predictNext, predictNextFMIEvent
  <2> QED BY <1>1, <2>1 DEF MultistepInv
<1> QED BY <1>2, <1>3

(* The predictor's own query fills the buffer with the settled state.      *)
LEMMA MultistepOwnPreserves ==
    ASSUME MultistepInv, UNCHANGED method, method = "multistep-prediction",
           NEW new \in Outputs, ownEvent(new)
    PROVE  MultistepInv'
<1>1. /\ pc = "get" /\ pc' = "listen" /\ UNCHANGED direct
      /\ solverOutputs' = IF lazy /\ ~populated THEN new ELSE solverOutputs
      /\ outputEventVariables' = IF lazy THEN populate(new)
                                 ELSE outputEventVariables
  BY DEF ownEvent
<1>2. CASE lazy
  <2>1. populated' = TRUE /\ lazy' = lazy
    BY <1>2 DEF ownEvent, eventTriggered, getOutputVariables
  <2> QED BY <1>1, <1>2, <2>1 DEF MultistepInv, populate
<1>3. CASE ~lazy
  <2>1. populated' = populated /\ lazy' = lazy
    BY <1>3 DEF ownEvent, eventTriggered, predictorVars
  <2> QED BY <1>1, <1>3, <2>1 DEF MultistepInv
<1> QED BY <1>2, <1>3

(* Inputs move the model and void the buffer.                              *)
LEMMA MultistepExternalPreserves ==
    ASSUME MultistepInv, UNCHANGED method, NEW time, NEW v,
           NEW new \in Outputs, external(time, v, new)
    PROVE  MultistepInv'
<1>1. pc' = "predict"
  BY DEF external
<1>2. CASE v = <<>>
  <2>1. UNCHANGED <<populated, lazy, solverOutputs, outputEventVariables>>
    BY <1>2 DEF external, eventTriggered, predictorVars
  <2> QED BY <1>1, <2>1 DEF MultistepInv
<1>3. CASE v # <<>>
  <2>1. /\ populated' = FALSE /\ lazy' = lazy /\ solverOutputs' = new
        /\ outputEventVariables' = NoVariables
    BY <1>3 DEF external, eventTriggered, applyInputs
  <2> QED BY <1>1, <2>1 DEF MultistepInv
<1> QED BY <1>2, <1>3

(* Every step of the multistep predictor.                                  *)
LEMMA MultistepPreserves ==
    ASSUME MultistepInv, UNCHANGED method, method = "multistep-prediction",
           ImagesNext
    PROVE  MultistepInv'
<1>1. CASE \E time \in 0..MaxTime : predict(time)
  BY <1>1, MultistepPredictPreserves
<1>2. CASE \E new \in Outputs : ownEvent(new)
  BY <1>2, MultistepOwnPreserves
<1>3. CASE \E time \in 0..MaxTime, v \in InputEvents, new \in Outputs :
             external(time, v, new)
  BY <1>3, MultistepExternalPreserves
<1>4. CASE predictThrows \/ ownEventThrows \/ listen
  <2>1. /\ pc' \in {"failed", "predict"}
        /\ UNCHANGED <<populated, lazy, solverOutputs, outputEventVariables>>
    BY <1>4 DEF predictThrows, ownEventThrows, listen, predictorVars
  <2> QED BY <2>1 DEF MultistepInv
<1> QED BY <1>1, <1>2, <1>3, <1>4 DEF ImagesNext

-----------------------------------------------------------------------------
(* The composition.                                                        *)

(* Nothing has been predicted at first.                                    *)
LEMMA ImagesInitial == PredictorInit => MultistepInv /\ OneStepInv
<1> SUFFICES ASSUME PredictorInit PROVE MultistepInv /\ OneStepInv
  OBVIOUS
<1>1. /\ pc = "predict" /\ currentPrediction = FALSE /\ announced = FALSE
      /\ outputImage = modelOutputs /\ modelOutputs \in Outputs
      /\ received = [port \in OutputPorts |-> Default]
      /\ started = modelOutputs /\ prediction = NoVariables
  BY SameValues DEF PredictorInit, OneStep!ImagesInit, OneStep!init
<1>2. received \in Outputs
  BY <1>1, PredictorImagesAssumption DEF Outputs
<1>3. OneStepInv
  BY <1>1, <1>2 DEF OneStepInv, UpToDate
<1>4. /\ populated = FALSE /\ lazy = FALSE /\ solverOutputs \in Outputs
      /\ outputEventVariables = NoVariables
  BY DEF PredictorInit, ImagesInit, init
<1>5. MultistepInv
  BY <1>1, <1>4 DEF MultistepInv
<1> QED BY <1>3, <1>5

(* While the singlestep predictor is at work, the multistep one stays as   *)
(* it is.                                                                  *)
LEMMA MultistepKept ==
    ASSUME MultistepInv, [PredictorNext]_vars
    PROVE  MultistepInv'
<1>1. CASE /\ UNCHANGED method /\ method = "multistep-prediction" /\ ImagesNext
  BY <1>1, MultistepPreserves
<1>2. CASE /\ UNCHANGED method /\ method = "singlestep-delayed"
           /\ OneStep!ImagesNext /\ UNCHANGED multistepVars
  <2>1. pc' \in {"get", "predict", "failed"}
    BY <1>2 DEF OneStep!ImagesNext, OneStep!predict, OneStep!predictThrows,
                OneStep!external, OneStep!output, OneStep!externalThrows
  <2> QED BY <1>2, <2>1 DEF MultistepInv, multistepVars, predictorVars
<1>3. CASE UNCHANGED vars
  BY <1>3 DEF vars, MultistepInv, multistepVars, predictorVars
<1> QED BY <1>1, <1>2, <1>3 DEF PredictorNext

(* While the multistep predictor is at work, the singlestep one stays as   *)
(* it is.                                                                  *)
LEMMA OneStepKept ==
    ASSUME OneStepInv, [PredictorNext]_vars
    PROVE  OneStepInv'
<1>1. CASE /\ UNCHANGED method /\ method = "multistep-prediction"
           /\ UNCHANGED oneStepVars
  BY <1>1 DEF OneStepInv, UpToDate, oneStepVars
<1>2. CASE /\ UNCHANGED method /\ method = "singlestep-delayed"
           /\ OneStep!ImagesNext
  BY <1>2, OneStepPreserves
<1>3. CASE UNCHANGED vars
  BY <1>3 DEF vars, OneStepInv, UpToDate, oneStepVars
<1> QED BY <1>1, <1>2, <1>3 DEF PredictorNext

(* The buffer and the images are sound in every behaviour.                 *)
THEOREM ImagesCorrect == PredictorSpec => [](MultistepInv /\ OneStepInv)
<1>1. MultistepInv /\ OneStepInv /\ [PredictorNext]_vars
      => MultistepInv' /\ OneStepInv'
  BY MultistepKept, OneStepKept
<1> QED BY <1>1, ImagesInitial, PTL DEF PredictorSpec

(* What the listeners of either predictor hear is up to date, but for what *)
(* an event without values made them miss, and what waits to be sent stays *)
(* as it was fetched.                                                      *)
THEOREM ImagesOutputsConsistent == PredictorSpec => []OutputsConsistent
<1>1. MultistepInv /\ OneStepInv => OutputsConsistent
  <2> SUFFICES ASSUME MultistepInv, OneStepInv PROVE OutputsConsistent
    OBVIOUS
  <2>1. OneStep!ListenersUpToDate
    BY DEF OneStepInv, UpToDate, OneStep!ListenersUpToDate
  <2>2. OneStep!PredictionUnaffected
    BY SameValues DEF OneStepInv, OneStep!PredictionUnaffected
  <2>3. BufferMatchesFlag
    BY DEF MultistepInv, BufferMatchesFlag
  <2> QED BY <2>1, <2>2, <2>3 DEF OutputsConsistent
<1> QED BY <1>1, ImagesCorrect, PTL

(* A listener of the multistep predictor gets the outputs of the model as  *)
(* it is while the event is distributed.                                   *)
THEOREM ImagesListenersHearModel == PredictorSpec => ListenersHearModel
<1>1. MultistepInv => [listen => heard' = solverOutputs]_imageVars
  <2> SUFFICES ASSUME MultistepInv, listen
               PROVE  heard' = solverOutputs
    OBVIOUS
  <2>1. pc = "listen" /\ method = "multistep-prediction"
    BY DEF listen, MultistepInv
  <2> QED BY <2>1 DEF MultistepInv, listen, populate
<1> QED BY <1>1, ImagesCorrect, PTL DEF PredictorSpec, ListenersHearModel

-----------------------------------------------------------------------------
(* The inputs.                                                             *)

(* Every input has its latest value: in the image of the multistep         *)
(* predictor, in its solver, and in the model of the singlestep predictor. *)
InputsInv ==
    /\ inputImage \in Inputs
    /\ solverInputs = inputImage /\ sentInputs = inputImage
    /\ modelInputs \in Inputs /\ sentToModel = modelInputs

(* An event without variables sets nothing.                                *)
LEMMA NothingIsLatest ==
    ASSUME NEW image \in Inputs
    PROVE  latest(image, <<>>) = image /\ OneStep!latest(image, <<>>) = image
<1>1. DOMAIN <<>> = {}
  OBVIOUS
<1>2. \A port \in DOMAIN image : {i \in DOMAIN <<>> : <<>>[i].port = port} = {}
  BY <1>1
<1>3. image = [port \in DOMAIN image |-> image[port]]
  BY DEF Inputs
<1>4. latest(image, <<>>) = [port \in DOMAIN image |-> image[port]]
  BY <1>2 DEF latest
<1>5. OneStep!latest(image, <<>>) = [port \in DOMAIN image |-> image[port]]
  BY <1>2 DEF OneStep!latest
<1> QED BY <1>3, <1>4, <1>5

(* An event of the multistep predictor: all images go to the solver if any *)
(* input was found, and otherwise nothing has changed.                     *)
LEMMA MultistepInputs ==
    ASSUME InputsInv, UNCHANGED <<modelInputs, sentToModel>>,
           NEW time, NEW v \in InputEvents, NEW new, external(time, v, new)
    PROVE  InputsInv'
<1>1. PICK n \in 0..MaxVariables : v \in [1..n -> InputVariable]
  BY DEF InputEvents, InputVariable
<1>2. n \in Nat
  BY PredictorImagesAssumption
<1>3. /\ updateInputImage(v) = latest(inputImage, v)
      /\ latest(inputImage, v) \in Inputs
  BY <1>1, <1>2, UpdateImageIsLatest DEF InputsInv
<1>4. /\ inputImage' = latest(inputImage, v)
      /\ sentInputs' = latest(inputImage, v)
  BY <1>3 DEF external, InputsInv
<1>5. solverInputs' = latest(inputImage, v)
  <2>1. CASE v = <<>>
    <3>1. solverInputs' = inputImage
      BY <2>1 DEF external, InputsInv
    <3> QED BY <2>1, <3>1, NothingIsLatest DEF InputsInv
  <2>2. CASE v # <<>>
    BY <1>3, <2>2 DEF external
  <2> QED BY <2>1, <2>2
<1> QED BY <1>3, <1>4, <1>5 DEF InputsInv

(* An event of the singlestep predictor sets the inputs of the model.      *)
LEMMA OneStepInputs ==
    ASSUME InputsInv, UNCHANGED <<inputImage, solverInputs, sentInputs>>,
           NEW v \in OneStep!InputEvents, NEW new, OneStep!external(v, new)
    PROVE  InputsInv'
<1>1. PICK n \in 0..MaxVariables : v \in [1..n -> InputVariable]
  BY DEF OneStep!InputEvents, InputVariable
<1>2. n \in Nat
  BY PredictorImagesAssumption
<1>3. /\ OneStep!inputsAfter(modelInputs, v)[Len(v)] = OneStep!latest(modelInputs, v)
      /\ OneStep!latest(modelInputs, v) \in Inputs
  BY <1>1, <1>2, UpdateIsLatest DEF InputsInv
<1>4. sentToModel' = OneStep!latest(modelInputs, v)
  BY DEF OneStep!external, InputsInv
<1>5. modelInputs' = OneStep!latest(modelInputs, v)
  <2>1. CASE v = <<>>
    <3>1. modelInputs' = modelInputs
      BY <2>1 DEF OneStep!external
    <3> QED BY <2>1, <3>1, NothingIsLatest DEF InputsInv
  <2>2. CASE v # <<>>
    BY <1>3, <2>2 DEF OneStep!external, OneStep!updateInputVariables
  <2> QED BY <2>1, <2>2
<1> QED BY <1>3, <1>4, <1>5 DEF InputsInv

(* Every other step leaves the inputs alone.                               *)
LEMMA InputsKept ==
    ASSUME InputsInv, [PredictorNext]_vars
    PROVE  InputsInv'
<1>1. CASE UNCHANGED <<inputImage, solverInputs, sentInputs, modelInputs, sentToModel>>
  BY <1>1 DEF InputsInv
<1>2. CASE ImagesNext /\ UNCHANGED oneStepVars
  <2>1. UNCHANGED <<modelInputs, sentToModel>>
    BY <1>2 DEF oneStepVars
  <2>2. CASE \E time \in 0..MaxTime, v \in InputEvents, new \in Outputs :
               external(time, v, new)
    BY <2>1, <2>2, MultistepInputs
  <2>3. CASE \/ \E time \in 0..MaxTime : predict(time)
             \/ predictThrows
             \/ \E new \in Outputs : ownEvent(new)
             \/ ownEventThrows
             \/ listen
    <3>1. UNCHANGED <<inputImage, solverInputs, sentInputs>>
      BY <2>3 DEF predict, predictThrows, ownEvent, ownEventThrows, listen
    <3> QED BY <1>1, <2>1, <3>1
  <2> QED BY <1>2, <2>2, <2>3 DEF ImagesNext
<1>3. CASE OneStep!ImagesNext /\ UNCHANGED multistepVars
  <2>1. UNCHANGED <<inputImage, solverInputs, sentInputs>>
    BY <1>3 DEF multistepVars
  <2>2. CASE \E v \in OneStep!InputEvents, new \in OneStep!Outputs :
               OneStep!external(v, new)
    BY <2>1, <2>2, OneStepInputs
  <2>3. CASE \/ \E time \in 1..MaxTime, new \in OneStep!Outputs :
                  OneStep!predict(time, new)
             \/ OneStep!predictThrows
             \/ OneStep!output
             \/ OneStep!externalThrows
    <3>1. UNCHANGED <<modelInputs, sentToModel>>
      BY <2>3 DEF OneStep!predict, OneStep!predictThrows, OneStep!output,
                  OneStep!externalThrows
    <3> QED BY <1>1, <2>1, <3>1
  <2> QED BY <1>3, <2>2, <2>3 DEF OneStep!ImagesNext
<1>4. CASE UNCHANGED vars
  BY <1>1, <1>4 DEF vars, oneStepVars, multistepVars
<1> QED BY <1>2, <1>3, <1>4 DEF PredictorNext

(* eventTriggered() of either predictor leaves every input of the model at *)
(* the latest value that was received for it, for events of any length and *)
(* inputs of all types.                                                    *)
THEOREM ImagesModelHasLatestInputs == PredictorSpec => []ModelHasLatestInputs
<1>1. PredictorInit => InputsInv
  <2> SUFFICES ASSUME PredictorInit PROVE InputsInv
    OBVIOUS
  <2>1. [port \in InputPorts |-> Default] \in Inputs
    BY PredictorImagesAssumption DEF Inputs
  <2> QED BY <2>1 DEF PredictorInit, ImagesInit, OneStep!ImagesInit, InputsInv
<1>2. InputsInv /\ [PredictorNext]_vars => InputsInv'
  BY InputsKept
<1>3. InputsInv => ModelHasLatestInputs
  BY DEF InputsInv, ModelHasLatestInputs, SolverHasLatestInputs,
         OneStep!InputsAreLatest
<1> QED BY <1>1, <1>2, <1>3, PTL DEF PredictorSpec

=============================================================================
