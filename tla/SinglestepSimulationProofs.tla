---------------------- MODULE SinglestepSimulationProofs ----------------------
(***************************************************************************)
(* Proofs about SinglestepSimulation: the outputs of every step are        *)
(* distributed once and before the next step, and the model keeps to real  *)
(* time, for every tolerance, step size and number of subscribers.         *)
(***************************************************************************)
EXTENDS SinglestepSimulation, EventDispatcherProofs, FiniteSetTheorems

-----------------------------------------------------------------------------
(* The inductive invariant.                                                *)

OneStepTypes == fmuTime \in Int /\ currentPrediction \in BOOLEAN

(* Where the outputs of the step are: in currentPrediction_ until they     *)
(* have been distributed, while copies of them pass through the queue.     *)
StepInv ==
    /\ pc = "start" => fmuTime = StartTime /\ ~currentPrediction
    /\ pc \in {"add", "get", "process"} => currentPrediction
    /\ pc = "add" => prediction = fmuTime
    /\ pc = "get" => FrontWithin(queue, fmuTime)
    /\ pc = "process" =>
         /\ current \in returned
         /\ current.predicted => current.time = fmuTime

(* Nothing that was distributed belongs to a later step, and what waits in *)
(* currentPrediction_ has not been distributed, unless it is just now.     *)
OutputsBefore(time) == \A ev \in returned : ev.predicted => ev.time < time

DistributedInv ==
    /\ \A ev \in returned : ev.predicted => ev.time <= fmuTime
    /\ pc \in {"predict", "add", "get"} /\ currentPrediction =>
         OutputsBefore(fmuTime)
    /\ pc = "process" =>
         \A ev \in returned : ev.predicted => ev.time < fmuTime \/ ev = current
    /\ NoStepRepeated

(* The steps that were forgotten lie before the one that waits.            *)
DroppedInv ==
    /\ IsFiniteSet(dropped)
    /\ dropped \subseteq Int
    /\ pc = "start" => dropped = {}
    /\ \A time \in dropped : time <= fmuTime
    /\ currentPrediction => fmuTime \notin dropped

SinglestepInv == OneStepTypes /\ StepInv /\ DistributedInv /\ DroppedInv

Due(time) == localEpoch + getRelativeTime(time) <= clock

(* How far the steps that were forgotten have taken the model ahead.       *)
Lead == Cardinality(dropped) * LookAhead

(* A step that nothing waits for any more has been distributed, and lies   *)
(* in the past, or was forgotten; each that was forgotten since is one     *)
(* step ahead of real time.                                                *)
PaceInv ==
    /\ initPhase = "preliminary" => localEpoch <= clock
    /\ initPhase = "corrected" => Due(StartTime)
    /\ initialized /\ ~currentPrediction => Due(fmuTime - Lead)
    /\ initialized => Due(fmuTime - LookAhead - Lead)
    /\ pc = "process" => Due(current.time)
    /\ ~currentPrediction =>
         \/ fmuTime = StartTime
         \/ \E ev \in returned : ev.predicted /\ ev.time = fmuTime
         \/ fmuTime \in dropped

-----------------------------------------------------------------------------
(* Real time.                                                              *)

(* Rounding down to the resolution of the clock keeps the order.           *)
LEMMA RelativeTimeMonotone ==
    ASSUME NEW a \in Int, NEW b \in Int, a <= b
    PROVE  /\ getRelativeTime(a) \in Int /\ getRelativeTime(b) \in Int
           /\ getRelativeTime(a) <= getRelativeTime(b)
  BY ResolutionAssumption DEF getRelativeTime

(* What is due stays due as the clock goes on.                             *)
LEMMA DueStays ==
    ASSUME DispatcherInv, NEW time \in Int, Due(time), UNCHANGED localEpoch,
           clock' \in {clock, clock + 1}
    PROVE  localEpoch' + getRelativeTime(time) <= clock'
<1>1. clock \in Int /\ localEpoch \in Int
  BY DEF DispatcherInv, QueueInv, TypeOK
<1>2. getRelativeTime(time) \in Int
  BY RelativeTimeMonotone
<1> QED BY <1>1, <1>2 DEF Due

(* Before a time that is due everything is.                                *)
LEMMA DueBefore ==
    ASSUME DispatcherInv, NEW time \in Int, NEW earlier \in Int,
           earlier <= time, Due(time)
    PROVE  Due(earlier)
<1>1. clock \in Int /\ localEpoch \in Int
  BY DEF DispatcherInv, QueueInv, TypeOK
<1> QED BY <1>1, RelativeTimeMonotone DEF Due

(* The lead is a number, and moves only with the set of forgotten steps.   *)
LEMMA LeadNatural == DroppedInv => Lead \in Nat
<1>1. DroppedInv => Cardinality(dropped) \in Nat
  BY FS_CardinalityType DEF DroppedInv
<1> QED BY <1>1, LookAheadAssumption DEF Lead

-----------------------------------------------------------------------------
(* The composition refines the dispatcher.                                 *)

(* Each step of the composition is a step of the dispatcher.               *)
LEMMA SinglestepSteps == [SinglestepNext]_singlestepVars => [Next]_vars
  BY DEF SinglestepNext, Next, predict, predictThrows, distribute,
         distributeThrows, elsewhere, singlestepVars

(* The simulation implements the event loop over an arbitrary predictor:   *)
(* a prediction of the real one is some prediction of the loop.            *)
THEOREM SinglestepImplementsDispatcher == SinglestepSpec => Spec
<1>1. SinglestepInit => Init
  BY DEF SinglestepInit
<1> QED BY <1>1, SinglestepSteps, PTL DEF SinglestepSpec, Spec

(* Hence all that is proved of the dispatcher holds here.                  *)
LEMMA SinglestepIsDispatcher == SinglestepSpec => []DispatcherInv
BY SinglestepImplementsDispatcher, DispatcherCorrect, PTL

-----------------------------------------------------------------------------
(* The steps preserve the invariant.                                       *)

(* The invariants hold initially.                                          *)
LEMMA SinglestepInitial == SinglestepInit => SinglestepInv /\ PaceInv
<1> SUFFICES ASSUME SinglestepInit PROVE SinglestepInv /\ PaceInv
  OBVIOUS
<1>1. /\ pc = "start" /\ initPhase = "constructed" /\ initialized = FALSE
      /\ returned = {} /\ fmuTime = StartTime /\ currentPrediction = FALSE
      /\ dropped = {}
  BY DEF SinglestepInit, Init, QueueInit, init
<1>2. OneStepTypes /\ StepInv
  <2>1. fmuTime \in Int
    BY <1>1, StartTimeAssumption
  <2> QED BY <1>1, <2>1 DEF OneStepTypes, StepInv
<1>3. DistributedInv
  BY <1>1 DEF DistributedInv, NoStepRepeated
<1>4. PaceInv
  BY <1>1 DEF PaceInv
<1>5. DroppedInv
  BY <1>1, FS_EmptySet DEF DroppedInv
<1> QED BY <1>2, <1>3, <1>4, <1>5 DEF SinglestepInv

(* predictNext() takes a step forward only when nothing waits to be        *)
(* distributed.                                                            *)
LEMMA PredictPreserves ==
    ASSUME DispatcherInv, SinglestepInv, NEW time \in Times, predict(time)
    PROVE  SinglestepInv' /\ (PaceInv => PaceInv')
<1>1. /\ pc = "predict" /\ pc' = "add" /\ prediction' = time
      /\ predictNext(time)
      /\ UNCHANGED <<localEpoch, initPhase, initialized, clock, returned, dropped>>
  BY DEF predict, runPredict, queueVars
<1>2. /\ initialized /\ returned \subseteq Entry
      /\ fmuTime \in Int /\ currentPrediction \in BOOLEAN
  BY <1>1 DEF DispatcherInv, ThreadInv, QueueInv, TypeOK, SinglestepInv,
              OneStepTypes
<1>3. currentPrediction' = TRUE /\ prediction' = fmuTime'
  BY <1>1 DEF predictNext
<1>4. \/ currentPrediction /\ fmuTime' = fmuTime
      \/ /\ ~currentPrediction
         /\ fmuTime' \in Int /\ fmuTime < fmuTime'
         /\ fmuTime' - LookAhead <= fmuTime
  <2>1. CASE currentPrediction
    BY <1>1, <2>1 DEF predictNext
  <2>2. CASE ~currentPrediction
    <3>1. PICK step \in stepSizes : fmuTime' = fmuTime + step
      BY <1>1, <2>2 DEF predictNext, predictOneStep
    <3>2. step \in Int /\ 0 < step /\ step <= LookAhead
      BY LookAheadAssumption DEF stepSizes
    <3> QED BY <1>2, <2>2, <3>1, <3>2, LookAheadAssumption
  <2> QED BY <2>1, <2>2
<1>5. OneStepTypes' /\ StepInv'
  BY <1>1, <1>2, <1>3, <1>4 DEF OneStepTypes, StepInv
<1>6. \A ev \in returned : ev.predicted => ev.time \in Int /\ ev.time < fmuTime'
  <2> SUFFICES ASSUME NEW ev \in returned, ev.predicted
               PROVE  ev.time \in Int /\ ev.time < fmuTime'
    OBVIOUS
  <2>1. ev.time \in Int /\ ev.time <= fmuTime
    BY <1>2 DEF SinglestepInv, DistributedInv, Entry
  <2>2. CASE currentPrediction
    BY <1>1, <1>4, <2>1, <2>2 DEF SinglestepInv, DistributedInv, OutputsBefore
  <2>3. CASE ~currentPrediction
    BY <1>2, <1>4, <2>1, <2>3
  <2> QED BY <2>2, <2>3
<1>7. DistributedInv'
  <2>1. fmuTime' \in Int
    BY <1>5 DEF OneStepTypes
  <2>2. NoStepRepeated'
    BY <1>1 DEF SinglestepInv, DistributedInv, NoStepRepeated
  <2> QED BY <1>1, <1>6, <2>1, <2>2 DEF DistributedInv, OutputsBefore
<1>8. DroppedInv'
  <2>1. /\ \A t \in dropped : t \in Int /\ t <= fmuTime
        /\ currentPrediction => fmuTime \notin dropped
        /\ IsFiniteSet(dropped) /\ dropped \subseteq Int
    BY DEF SinglestepInv, DroppedInv
  <2>2. \A t \in dropped : t <= fmuTime' /\ t # fmuTime'
    BY <1>2, <1>4, <2>1
  <2> QED BY <1>1, <2>1, <2>2 DEF DroppedInv
<1>9. Lead \in Nat /\ Lead' = Lead
  BY <1>1, LeadNatural DEF SinglestepInv, Lead
<1>10. ASSUME PaceInv PROVE PaceInv'
  <2>1. Due(fmuTime' - LookAhead - Lead)
    <3>1. CASE currentPrediction
      BY <1>2, <1>4, <1>10, <3>1 DEF PaceInv
    <3>2. CASE ~currentPrediction
      <4>1. Due(fmuTime - Lead)
        BY <1>2, <1>10, <3>2 DEF PaceInv
      <4>2. /\ fmuTime' - LookAhead - Lead \in Int /\ fmuTime - Lead \in Int
            /\ fmuTime' - LookAhead - Lead <= fmuTime - Lead
        BY <1>2, <1>4, <1>9, <3>2, LookAheadAssumption
      <4> QED BY <4>1, <4>2, DueBefore
    <3> QED BY <3>1, <3>2
  <2> QED BY <1>1, <1>3, <1>10, <1>9, <2>1 DEF PaceInv, Due, getRelativeTime
<1> QED BY <1>5, <1>7, <1>10, <1>8 DEF SinglestepInv

(* eventTriggered() gives the outputs up once they are distributed, and    *)
(* for an event without inputs.                                            *)
LEMMA DistributePreserves ==
    ASSUME DispatcherInv, SinglestepInv, NEW hasInputs \in BOOLEAN,
           distribute(hasInputs)
    PROVE  SinglestepInv' /\ (PaceInv => PaceInv')
<1>1. /\ pc = "process" /\ pc' \in {"predict", "done"}
      /\ currentPrediction' = ((~current.predicted /\ hasInputs) /\ currentPrediction)
      /\ UNCHANGED fmuTime
      /\ UNCHANGED <<localEpoch, initPhase, initialized, clock, returned>>
  BY DEF distribute, processEvent, queueVars, eventTriggered
<1>2. /\ current.predicted \in BOOLEAN /\ current.time \in Int
      /\ currentPrediction = TRUE
      /\ fmuTime \in Int /\ current \in returned
      /\ current.predicted => current.time = fmuTime
  BY <1>1 DEF DispatcherInv, DispatcherTypeOK, Entry, SinglestepInv, StepInv,
              OneStepTypes
<1>3. currentPrediction' = (~current.predicted /\ hasInputs)
  BY <1>1, <1>2
<1>4. currentPrediction' \in BOOLEAN
  BY <1>3
<1>5. OneStepTypes' /\ StepInv'
  BY <1>1, <1>2, <1>4 DEF OneStepTypes, StepInv
<1>6. currentPrediction' => OutputsBefore(fmuTime)
  BY <1>1, <1>2, <1>3 DEF SinglestepInv, DistributedInv, OutputsBefore
<1>7. DistributedInv'
  <2>1. NoStepRepeated'
    BY <1>1 DEF SinglestepInv, DistributedInv, NoStepRepeated
  <2> QED BY <1>1, <1>6, <2>1 DEF SinglestepInv, DistributedInv, OutputsBefore
<1>8. /\ IsFiniteSet(dropped) /\ dropped \subseteq Int
      /\ \A time \in dropped : time <= fmuTime
      /\ fmuTime \notin dropped
      /\ Cardinality(dropped) \in Nat
  BY <1>2, FS_CardinalityType DEF SinglestepInv, DroppedInv
<1>9. CASE current.predicted
  <2>1. dropped' = {} /\ ~currentPrediction'
    BY <1>1, <1>3, <1>9 DEF distribute
  <2>2. DroppedInv' /\ Cardinality(dropped') = 0
    BY <1>1, <2>1, FS_EmptySet DEF DroppedInv
  <2>3. Lead' = 0
    BY <2>2, LookAheadAssumption DEF Lead
  <2>4. ASSUME PaceInv PROVE PaceInv'
    <3>1. Due(fmuTime - 0)
      BY <1>1, <1>2, <1>9, <2>4 DEF PaceInv
    <3>2. Due(fmuTime - LookAhead - 0)
      <4>1. /\ fmuTime - 0 \in Int /\ fmuTime - LookAhead - 0 \in Int
            /\ fmuTime - LookAhead - 0 <= fmuTime - 0
        BY <1>2, LookAheadAssumption
      <4> QED BY <3>1, <4>1, DueBefore
    <3> QED BY <1>1, <1>2, <1>9, <2>1, <2>3, <2>4, <3>1, <3>2
            DEF PaceInv, Due, getRelativeTime
  <2> QED BY <1>5, <1>7, <2>2, <2>4 DEF SinglestepInv
<1>10. CASE ~current.predicted /\ hasInputs
  <2>1. dropped' = dropped /\ currentPrediction'
    BY <1>1, <1>3, <1>10 DEF distribute
  <2>2. DroppedInv'
    BY <1>1, <1>8, <2>1 DEF DroppedInv
  <2>3. Lead' = Lead
    BY <2>1 DEF Lead
  <2>4. PaceInv => PaceInv'
    BY <1>1, <2>1, <2>3 DEF PaceInv, Due, getRelativeTime
  <2> QED BY <1>5, <1>7, <2>2, <2>4 DEF SinglestepInv
<1>11. CASE ~current.predicted /\ ~hasInputs
  <2>1. dropped' = dropped \cup {fmuTime} /\ ~currentPrediction'
    BY <1>1, <1>3, <1>11 DEF distribute
  <2>2. IsFiniteSet(dropped') /\ Cardinality(dropped') = Cardinality(dropped) + 1
    BY <1>8, <2>1, FS_AddElement
  <2>3. DroppedInv'
    BY <1>1, <1>2, <1>8, <2>1, <2>2 DEF DroppedInv
  <2>4. Lead' = Lead + LookAhead /\ Lead \in Int
    <3>1. \A n, k \in Nat : (n + 1) * k = n * k + k /\ n * k \in Int
      OBVIOUS
    <3>2. Lead' = (Cardinality(dropped) + 1) * LookAhead
      BY <2>2 DEF Lead
    <3> QED BY <1>8, <3>1, <3>2, LookAheadAssumption DEF Lead
  <2>5. ASSUME PaceInv PROVE PaceInv'
    <3>1. initialized => Due(fmuTime - Lead')
      <4>1. fmuTime - Lead' = fmuTime - LookAhead - Lead
        BY <1>2, <2>4, LookAheadAssumption
      <4> QED BY <2>5, <4>1 DEF PaceInv
    <3>2. initialized => Due(fmuTime - LookAhead - Lead')
      <4>1. /\ fmuTime - Lead' \in Int /\ fmuTime - LookAhead - Lead' \in Int
            /\ fmuTime - LookAhead - Lead' <= fmuTime - Lead'
        BY <1>2, <2>4, LookAheadAssumption
      <4> QED BY <3>1, <4>1, DueBefore
    <3>3. fmuTime \in dropped'
      BY <2>1
    <3> QED BY <1>1, <2>1, <2>5, <3>1, <3>2, <3>3
            DEF PaceInv, Due, getRelativeTime
  <2> QED BY <1>5, <1>7, <2>3, <2>5 DEF SinglestepInv
<1> QED BY <1>2, <1>9, <1>10, <1>11

(* The clock is read into the epoch before the barrier is opened.          *)
LEMMA StartPreserves ==
    ASSUME DispatcherInv, SinglestepInv, initStartTimeNow,
           UNCHANGED <<onestepVars, dropped>>
    PROVE  SinglestepInv' /\ (PaceInv => PaceInv')
<1>1. /\ pc = "start" /\ pc' \in {"start", "predict"} /\ startUp
      /\ ~initialized
      /\ UNCHANGED <<fmuTime, currentPrediction, returned, dropped>>
  BY DEF initStartTimeNow, onestepVars, DispatcherInv, ThreadInv, startUp,
         setPreliminaryEpoch, correctEpoch, notifyInitialized
<1>2. fmuTime = StartTime /\ ~currentPrediction /\ dropped = {}
  BY <1>1 DEF SinglestepInv, StepInv, DroppedInv
<1>3. OneStepTypes' /\ StepInv'
  BY <1>1, <1>2 DEF SinglestepInv, OneStepTypes, StepInv
<1>4. DistributedInv'
  BY <1>1, <1>2 DEF SinglestepInv, DistributedInv, NoStepRepeated
<1>5. DroppedInv'
  BY <1>1, <1>2 DEF SinglestepInv, DroppedInv
<1>6. Lead = 0 /\ Lead' = 0
  BY <1>1, <1>2, FS_EmptySet, LookAheadAssumption DEF Lead
<1>7. /\ clock \in Int /\ localEpoch \in Int
      /\ getRelativeTime(StartTime) \in Int
      /\ StartTime \in Int
  BY ResolutionAssumption, StartTimeAssumption
     DEF DispatcherInv, QueueInv, TypeOK, getRelativeTime
<1>8. ASSUME PaceInv PROVE PaceInv'
  <2>1. CASE setPreliminaryEpoch
    BY <1>1, <1>2, <1>7, <1>8, <2>1 DEF setPreliminaryEpoch, PaceInv
  <2>2. CASE correctEpoch
    <3>1. localEpoch' + getRelativeTime(StartTime) <= clock'
      BY <1>7, <1>8, <2>2 DEF correctEpoch, PaceInv
    <3> QED BY <1>1, <1>2, <2>2, <3>1 DEF correctEpoch, PaceInv, Due,
                                          getRelativeTime
  <2>3. CASE notifyInitialized
    <3>1. Due(StartTime)
      BY <1>8, <2>3 DEF notifyInitialized, PaceInv
    <3>2. Due(StartTime - LookAhead)
      <4>1. StartTime - LookAhead \in Int /\ StartTime - LookAhead <= StartTime
        BY <1>7, LookAheadAssumption
      <4> QED BY <1>7, <3>1, <4>1, DueBefore
    <3>3. Due(StartTime - 0) /\ Due(StartTime - LookAhead - 0)
      <4>1. StartTime - 0 = StartTime /\ StartTime - LookAhead - 0 = StartTime - LookAhead
        BY <1>7, LookAheadAssumption
      <4> QED BY <3>1, <3>2, <4>1
    <3> QED BY <1>1, <1>2, <1>6, <2>3, <3>3
            DEF notifyInitialized, PaceInv, Due, getRelativeTime
  <2> QED BY <1>1, <2>1, <2>2, <2>3 DEF startUp
<1> QED BY <1>3, <1>4, <1>8, <1>5 DEF SinglestepInv

(* A step that moves neither the epoch nor the model, and no event towards *)
(* the listeners, keeps the pace.                                          *)
LEMMA PaceUntouched ==
    ASSUME DispatcherInv, SinglestepInv, PaceInv,
           UNCHANGED <<localEpoch, initPhase, initialized, returned>>,
           UNCHANGED <<onestepVars, dropped>>,
           clock' \in {clock, clock + 1},
           pc' = "process" => pc = "process" /\ UNCHANGED current
    PROVE  PaceInv'
<1>1. clock \in Int /\ localEpoch \in Int
  BY DEF DispatcherInv, QueueInv, TypeOK
<1>2. UNCHANGED <<fmuTime, currentPrediction, dropped>>
  BY DEF onestepVars
<1>3. Lead \in Nat /\ Lead' = Lead
  BY <1>2, LeadNatural DEF SinglestepInv, Lead
<1>4. /\ fmuTime - Lead \in Int /\ fmuTime - LookAhead - Lead \in Int
      /\ StartTime \in Int /\ current.time \in Int
  BY <1>3, StartTimeAssumption, LookAheadAssumption
     DEF SinglestepInv, OneStepTypes, DispatcherInv, DispatcherTypeOK, Entry
<1>5. \A time \in Int : Due(time) => localEpoch' + getRelativeTime(time) <= clock'
  BY DueStays
<1>6. localEpoch <= clock => localEpoch' <= clock'
  BY <1>1
<1> QED BY <1>2, <1>4, <1>5, <1>6, <1>3 DEF PaceInv, Due, getRelativeTime

(* A step of another part keeps what is known of the model, as long as it  *)
(* neither returns an event nor lets run() go on.                          *)
LEMMA ModelUntouched ==
    ASSUME SinglestepInv, UNCHANGED <<onestepVars, dropped>>,
           UNCHANGED <<prediction, current, returned>>,
           pc' = pc \/ pc' = "failed",
           pc = "get" => FrontWithin(queue', fmuTime)
    PROVE  SinglestepInv'
<1>1. UNCHANGED <<fmuTime, currentPrediction, dropped>>
  BY DEF onestepVars
<1>2. OneStepTypes' /\ StepInv'
  BY <1>1 DEF SinglestepInv, OneStepTypes, StepInv
<1>3. DistributedInv'
  BY <1>1 DEF SinglestepInv, DistributedInv, OutputsBefore, NoStepRepeated
<1>4. DroppedInv'
  BY <1>1 DEF SinglestepInv, DroppedInv
<1> QED BY <1>2, <1>3, <1>4 DEF SinglestepInv

(* The prediction is put in front of the queue or refused.                 *)
LEMMA AddPreserves ==
    ASSUME DispatcherInv, SinglestepInv, UNCHANGED <<onestepVars, dropped>>, addPrediction
    PROVE  SinglestepInv' /\ (PaceInv => PaceInv')
<1>1. /\ pc = "add" /\ pc' = "get" /\ add(prediction, TRUE)
      /\ UNCHANGED <<localEpoch, initPhase, initialized, clock, returned>>
      /\ UNCHANGED <<prediction, current>>
  BY DEF addPrediction, add
<1>2. UNCHANGED <<fmuTime, currentPrediction, dropped>>
  BY DEF onestepVars
<1>3. /\ prediction = fmuTime /\ fmuTime \in Int /\ currentPrediction
      /\ OutputsBefore(fmuTime)
  BY <1>1 DEF SinglestepInv, StepInv, DistributedInv, OneStepTypes
<1>4. NoPrediction(queue) /\ QueueInv
  BY <1>1 DEF DispatcherInv, NoStalePrediction, NoPrediction
<1>5. FrontWithin(queue', fmuTime)
  BY <1>1, <1>3, <1>4, PredictionSetsHorizon
<1>6. OneStepTypes' /\ StepInv'
  BY <1>1, <1>2, <1>3, <1>5 DEF SinglestepInv, OneStepTypes, StepInv
<1>7. DistributedInv'
  BY <1>1, <1>2, <1>3 DEF SinglestepInv, DistributedInv, OutputsBefore,
                          NoStepRepeated
<1>8. PaceInv => PaceInv'
  BY <1>1, PaceUntouched
<1>9. DroppedInv'
  BY <1>1, <1>2 DEF SinglestepInv, DroppedInv
<1> QED BY <1>6, <1>7, <1>8, <1>9 DEF SinglestepInv

(* get() returns the outputs of the step, which nobody has had before, or  *)
(* an external event.                                                      *)
LEMMA GetPreserves ==
    ASSUME DispatcherInv, SinglestepInv, UNCHANGED <<onestepVars, dropped>>, getNext
    PROVE  SinglestepInv' /\ (PaceInv => PaceInv')
<1>1. /\ pc = "get" /\ pc' = "process" /\ current' = Head(queue)
      /\ queue # <<>> /\ ~isFutureEvent(Head(queue))
      /\ returned' = returned \cup {Head(queue)}
      /\ UNCHANGED <<localEpoch, initPhase, initialized, clock>>
  BY DEF getNext, getPop
<1>2. UNCHANGED <<fmuTime, currentPrediction, dropped>>
  BY DEF onestepVars
<1>3. /\ fmuTime \in Int /\ currentPrediction
      /\ OutputsBefore(fmuTime)
      /\ Head(queue).predicted => Head(queue).time = fmuTime
  BY <1>1 DEF SinglestepInv, StepInv, DistributedInv, OneStepTypes, FrontWithin
<1>4. /\ queue \in Seq(Entry) /\ returned \subseteq Entry
      /\ clock \in Int /\ localEpoch \in Int
  BY DEF DispatcherInv, QueueInv, TypeOK
<1>5. Head(queue).time \in Int
  BY <1>1, <1>4, FrontEntry
<1>6. \A ev \in returned : ev.time \in Int
  BY <1>4 DEF Entry
<1>7. OneStepTypes' /\ StepInv'
  BY <1>1, <1>2, <1>3 DEF SinglestepInv, OneStepTypes, StepInv
<1>8. NoStepRepeated'
  BY <1>1, <1>3, <1>6 DEF SinglestepInv, DistributedInv, OutputsBefore,
                          NoStepRepeated
<1>9. DistributedInv'
  BY <1>1, <1>2, <1>3, <1>5, <1>8
     DEF SinglestepInv, DistributedInv, OutputsBefore
<1>10. ASSUME PaceInv PROVE PaceInv'
  <2>1. getRelativeTime(Head(queue).time) \in Int
    BY <1>5, RelativeTimeMonotone
  <2>2. Due(Head(queue).time)
    BY <1>1, <1>4, <2>1 DEF isFutureEvent, getSystemTime, Due
  <2>3. Lead' = Lead
    BY <1>2 DEF Lead
  <2> QED BY <1>1, <1>2, <1>3, <1>10, <2>2, <2>3
          DEF PaceInv, Due, getRelativeTime
<1>11. DroppedInv'
  BY <1>1, <1>2 DEF SinglestepInv, DroppedInv
<1> QED BY <1>7, <1>9, <1>10, <1>11 DEF SinglestepInv

(* Externals only take the front from a prediction that is later.          *)
LEMMA PushEventPreserves ==
    ASSUME NEW s \in Sources, pushEvent(s), UNCHANGED <<onestepVars, dropped>>,
           DispatcherInv, SinglestepInv
    PROVE  SinglestepInv' /\ (PaceInv => PaceInv')
<1>1. /\ add(source[s].time, FALSE) /\ UNCHANGED dispatcherVars
      /\ UNCHANGED <<localEpoch, initPhase, initialized, clock, returned>>
  BY DEF pushEvent, pushExternalEvent, add
<1>2. UNCHANGED <<pc, prediction, current>>
  BY <1>1 DEF dispatcherVars
<1>3. source[s].time \in Int /\ QueueInv /\ fmuTime \in Int
  BY DEF DispatcherInv, DispatcherTypeOK, SourceState, SinglestepInv,
         OneStepTypes
<1>4. pc = "get" => FrontWithin(queue', fmuTime)
  BY <1>1, <1>3, ExternalKeepsHorizon DEF SinglestepInv, StepInv
<1>5. PaceInv => PaceInv'
  BY <1>1, <1>2, PaceUntouched
<1>6. SinglestepInv'
  <2>1. UNCHANGED <<prediction, current, returned>> /\ pc' = pc
    BY <1>1, <1>2
  <2> QED BY <1>4, <2>1, ModelUntouched
<1> QED BY <1>5, <1>6

(* Waiting, stamping, failing and stopping change nothing of this.         *)
LEMMA IdlePreserves ==
    ASSUME DispatcherInv, SinglestepInv, UNCHANGED <<onestepVars, dropped>>,
           \/ getBlocks \/ wakeUp \/ timePasses
           \/ \E s \in Sources : readClock(s) \/ getTimeStampNow(s)
           \/ runPredictThrows \/ processEventThrows
           \/ UNCHANGED vars
    PROVE  SinglestepInv' /\ (PaceInv => PaceInv')
<1>1. /\ UNCHANGED <<queue, localEpoch, initPhase, initialized, returned,
                     prediction, current>>
      /\ clock' \in {clock, clock + 1}
      /\ pc' = pc \/ pc' = "failed"
  BY DEF getBlocks, wakeUp, timePasses, readClock, getTimeStampNow,
         runPredictThrows, processEventThrows, vars, dispatcherVars,
         queueVars, getEnter, getWait, getTimedWait, timeout, spuriousWakeup,
         Tick
<1>2. pc = "get" => FrontWithin(queue', fmuTime)
  BY <1>1 DEF SinglestepInv, StepInv
<1>3. SinglestepInv'
  BY <1>1, <1>2, ModelUntouched
<1>4. PaceInv => PaceInv'
  BY <1>1, PaceUntouched
<1> QED BY <1>3, <1>4

-----------------------------------------------------------------------------
(* The theorems about SinglestepSpec.                                      *)

(* Every step of the composition preserves the invariants.                 *)
LEMMA SinglestepPreserves ==
    ASSUME DispatcherInv, SinglestepInv, [SinglestepNext]_singlestepVars
    PROVE  SinglestepInv' /\ (PaceInv => PaceInv')
<1>1. CASE \E time \in Times : predict(time)
  BY <1>1, PredictPreserves
<1>2. CASE predictThrows
  BY <1>2, IdlePreserves DEF predictThrows
<1>3. CASE \E hasInputs \in HasInputs : distribute(hasInputs)
  <2>1. PICK hasInputs \in HasInputs : distribute(hasInputs)
    BY <1>3
  <2>2. hasInputs \in BOOLEAN
    BY DEF HasInputs
  <2> QED BY <2>1, <2>2, DistributePreserves
<1>4. CASE distributeThrows
  BY <1>4, IdlePreserves DEF distributeThrows
<1>5. CASE elsewhere
  <2>1. UNCHANGED <<onestepVars, dropped>>
    BY <1>5 DEF elsewhere
  <2>2. CASE initStartTimeNow
    BY <2>1, <2>2, StartPreserves
  <2>3. CASE addPrediction
    BY <2>1, <2>3, AddPreserves
  <2>4. CASE getNext
    BY <2>1, <2>4, GetPreserves
  <2>5. CASE \E s \in Sources : pushEvent(s)
    BY <2>1, <2>5, PushEventPreserves
  <2>6. CASE \/ getBlocks \/ wakeUp \/ timePasses
             \/ \E s \in Sources : readClock(s) \/ getTimeStampNow(s)
    BY <2>1, <2>6, IdlePreserves
  <2>7. CASE Terminated
    <3>1. UNCHANGED vars
      BY <2>7 DEF Terminated
    <3> QED BY <2>1, <3>1, IdlePreserves
  <2> QED BY <1>5, <2>2, <2>3, <2>4, <2>5, <2>6, <2>7 DEF elsewhere
<1>6. CASE UNCHANGED singlestepVars
  BY <1>6, IdlePreserves DEF singlestepVars
<1> QED BY <1>1, <1>2, <1>3, <1>4, <1>5, <1>6 DEF SinglestepNext

(* The invariants hold in every behaviour of the composition.              *)
THEOREM SinglestepCorrect ==
    SinglestepSpec => [](DispatcherInv /\ SinglestepInv /\ PaceInv)
<1>1. DispatcherInv /\ SinglestepInv /\ PaceInv /\ [SinglestepNext]_singlestepVars
      => SinglestepInv' /\ PaceInv'
  BY SinglestepPreserves
<1>2. SinglestepInit => SinglestepInv /\ PaceInv
  BY SinglestepInitial
<1> QED BY <1>1, <1>2, SinglestepIsDispatcher, PTL DEF SinglestepSpec

(* The outputs of a step are distributed at most once.                     *)
THEOREM SinglestepNoStepRepeated == SinglestepSpec => []NoStepRepeated
<1>1. SinglestepInv => NoStepRepeated
  BY DEF SinglestepInv, DistributedInv
<1> QED BY <1>1, SinglestepCorrect, PTL

(* The model is ahead of real time by one step, and by one more for each   *)
(* event without values that arrived since a prediction was distributed.   *)
THEOREM SinglestepDelayBounded == SinglestepSpec => []DelayBounded
<1>1. SinglestepInv /\ PaceInv => DelayBounded
  <2> SUFFICES ASSUME SinglestepInv, PaceInv PROVE DelayBounded
    OBVIOUS
  <2>1. fmuTime \in Int /\ Cardinality(dropped) \in Nat
    BY FS_CardinalityType DEF SinglestepInv, OneStepTypes, DroppedInv
  <2>2. fmuTime - (1 + Cardinality(dropped)) * LookAhead
          = fmuTime - LookAhead - Lead
    BY <2>1, LookAheadAssumption DEF Lead
  <2> QED BY <2>2 DEF PaceInv, Due, DelayBounded
<1> QED BY <1>1, SinglestepCorrect, PTL

(* No step is taken before the outputs of the one before it have been      *)
(* distributed, except after an event without values.                      *)
THEOREM SinglestepOnlyEmptyEventsSkipSteps ==
    SinglestepSpec => OnlyEmptyEventsSkipSteps
<1>1. PaceInv /\ [SinglestepNext]_singlestepVars
      => [fmuTime' # fmuTime /\ fmuTime # StartTime =>
            \/ \E ev \in returned : ev.predicted /\ ev.time = fmuTime
            \/ fmuTime \in dropped]_singlestepVars
  <2> SUFFICES ASSUME PaceInv, SinglestepNext,
                      fmuTime' # fmuTime, fmuTime # StartTime
               PROVE  \/ \E ev \in returned : ev.predicted /\ ev.time = fmuTime
                      \/ fmuTime \in dropped
    OBVIOUS
  <2>1. ~currentPrediction
    BY DEF SinglestepNext, predict, predictNext, predictThrows, distribute,
           eventTriggered, distributeThrows, elsewhere, onestepVars
  <2> QED BY <2>1 DEF PaceInv
<1> QED BY <1>1, SinglestepCorrect, PTL
        DEF SinglestepSpec, OnlyEmptyEventsSkipSteps

=============================================================================
