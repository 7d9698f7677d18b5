------------------------ MODULE NetworkManagerProofs ------------------------
(***************************************************************************)
(* Proofs about the life of the program, for every number of channels and  *)
(* every choice of the phases and subscribers that fail.                   *)
(***************************************************************************)
EXTENDS NetworkManager, TLAPS

Classes == {"argument", "config", "solver", "runtime", "other"}

-----------------------------------------------------------------------------
(* The catch blocks.                                                       *)

(* Of the catch blocks the first one that accepts the exception is taken.  *)
LEMMA FirstCatchBlock ==
    ASSUME NEW class \in Classes, NEW n \in 1..5,
           CatchBlocks[n][1] \in IsA(class),
           \A j \in 1..5 : j < n => CatchBlocks[j][1] \notin IsA(class)
    PROVE  exitCode(class) = CatchBlocks[n][2]
<1> DEFINE caught == {i \in DOMAIN CatchBlocks : CatchBlocks[i][1] \in IsA(class)}
<1>1. DOMAIN CatchBlocks = 1..5
  BY DEF CatchBlocks
<1>2. /\ n \in caught /\ caught \subseteq Int
      /\ \A j \in caught : n <= j
  BY <1>1
<1> HIDE DEF caught
<1>3. (CHOOSE i \in caught : \A j \in caught : i <= j) = n
  <2> DEFINE first == CHOOSE i \in caught : \A j \in caught : i <= j
  <2>1. first \in caught /\ \A j \in caught : first <= j
    BY <1>2, Zenon
  <2> HIDE DEF first
  <2>2. first <= n /\ n <= first /\ first \in Int /\ n \in Int
    BY <1>2, <2>1
  <2>3. first = n
    BY <2>2
  <2> QED BY <2>3 DEF first
<1> QED BY <1>3 DEF exitCode, caught, Classes

(* The exit code of every class of exceptions.                             *)
LEMMA ExitCodes ==
    /\ exitCode("none") = 0
    /\ exitCode("argument") = 1
    /\ exitCode("config") = 2
    /\ exitCode("runtime") = 3
    /\ exitCode("solver") = 4
    /\ exitCode("other") = 125
<1>1. /\ CatchBlocks[1] = <<"config", 2>> /\ CatchBlocks[2] = <<"solver", 4>>
      /\ CatchBlocks[3] = <<"argument", 1>> /\ CatchBlocks[4] = <<"runtime", 3>>
      /\ CatchBlocks[5] = <<"other", 125>>
  BY DEF CatchBlocks
<1>2. /\ CatchBlocks[1][1] = "config" /\ CatchBlocks[2][1] = "solver"
      /\ CatchBlocks[3][1] = "argument" /\ CatchBlocks[4][1] = "runtime"
      /\ CatchBlocks[5][1] = "other"
      /\ CatchBlocks[1][2] = 2 /\ CatchBlocks[2][2] = 4
      /\ CatchBlocks[3][2] = 1 /\ CatchBlocks[4][2] = 3
      /\ CatchBlocks[5][2] = 125
  BY <1>1
<1>3. /\ IsA("config") = {"config", "argument", "other"}
      /\ IsA("solver") = {"solver", "argument", "other"}
      /\ IsA("argument") = {"argument", "other"}
      /\ IsA("runtime") = {"runtime", "other"}
      /\ IsA("other") = {"other"}
  BY DEF IsA
<1>4. exitCode("none") = 0
  BY DEF exitCode
<1>5. exitCode("config") = 2
  BY <1>2, <1>3, FirstCatchBlock DEF Classes
<1>6. exitCode("solver") = 4
  <2>1. \A j \in 1..5 : j < 2 => j = 1
    OBVIOUS
  <2> QED BY <1>2, <1>3, <2>1, FirstCatchBlock DEF Classes
<1>7. exitCode("argument") = 1
  <2>1. \A j \in 1..5 : j < 3 => j = 1 \/ j = 2
    OBVIOUS
  <2> QED BY <1>2, <1>3, <2>1, FirstCatchBlock DEF Classes
<1>8. exitCode("runtime") = 3
  <2>1. \A j \in 1..5 : j < 4 => j = 1 \/ j = 2 \/ j = 3
    OBVIOUS
  <2> QED BY <1>2, <1>3, <2>1, FirstCatchBlock DEF Classes
<1>9. exitCode("other") = 125
  <2>1. \A j \in 1..5 : j < 5 => j = 1 \/ j = 2 \/ j = 3 \/ j = 4
    OBVIOUS
  <2> QED BY <1>2, <1>3, <2>1, FirstCatchBlock DEF Classes
<1> QED BY <1>4, <1>5, <1>6, <1>7, <1>8, <1>9

-----------------------------------------------------------------------------
(* The inductive invariant.                                                *)

ManagerTypes ==
    /\ chan \in Nat \ {0}
    /\ exc \in Classes \cup {"none"}
    /\ pending \in Classes \cup {"none"}
    /\ sub \in [Subscribers ->
                   [thread : {"none", "running", "sinking", "done"},
                    posted : BOOLEAN]]

Over(s) == sub[s].thread \in {"none", "done"}

(* The threads of the channels that the destructors are done with are over,*)
(* and stay so.                                                            *)
EndInv ==
    /\ pc \in {"terminate", "join", "destroy"} =>
          \A s \in Subscribers : s < chan => Over(s)
    /\ pc = "exited" =>
          code = exitCode(exc) /\ \A s \in Subscribers : Over(s)

ManagerInv == ManagerTypes /\ EndInv

-----------------------------------------------------------------------------
(* The steps preserve the invariant.                                       *)

(* main() starts without subscribers.                                      *)
LEMMA ManagerInitial == Init => ManagerInv
BY ChannelsAssumption
   DEF Init, NewSubscriber, ManagerInv, ManagerTypes, EndInv, Subscribers

(* In front of the destructors no thread has to be over.                   *)
LEMMA WorkPreserves ==
    ASSUME ManagerInv, UNCHANGED <<code, sub>>,
           pc \notin {"terminate", "join", "destroy", "exited"},
           chan' \in Nat \ {0}, exc' \in Classes \cup {"none"},
           pending' \in Classes \cup {"none"},
           pc' # "exited",
           pc' \in {"terminate", "join", "destroy"} => chan' = 1
    PROVE  ManagerInv'
<1>1. ManagerTypes'
  BY DEF ManagerInv, ManagerTypes
<1>2. EndInv'
  BY ChannelsAssumption DEF EndInv, Subscribers
<1> QED BY <1>1, <1>2 DEF ManagerInv

(* The phases of main() up to its end.                                     *)
LEMMA MainPreserves ==
    ASSUME ManagerInv,
           \/ advance \/ addListeners \/ initStartTimeNow
           \/ distribute \/ bomb \/ logAndLoop \/ initFails
           \/ \E class \in {"argument", "config", "solver", "runtime"} : throw(class)
    PROVE  ManagerInv'
<1>1. ManagerTypes
  BY DEF ManagerInv
<1>2. CASE advance
  <2>1. /\ pc \in {"context", "predictor", "dispatcher", "publishers", "logger"}
        /\ pc' \in {"predictor", "dispatcher", "publishers", "subscribers", "start"}
    BY <1>2 DEF advance, Successor
  <2> QED BY <1>1, <1>2, <2>1, WorkPreserves DEF advance, ManagerTypes
<1>3. CASE addListeners \/ initStartTimeNow \/ distribute
  BY <1>1, <1>3, WorkPreserves
     DEF addListeners, initStartTimeNow, distribute, ManagerTypes
<1>4. CASE bomb \/ logAndLoop \/ initFails
  <2>1. /\ chan' = 1 /\ UNCHANGED <<code, sub>>
        /\ pc \in {"bomb", "log", "subscribers"}
        /\ pc' \in {"predict", "log", "terminate", "destroy"}
    BY <1>4 DEF bomb, throwPendingException, logAndLoop, initFails
  <2>2. exc' \in Classes \cup {"none"} /\ pending' \in Classes \cup {"none"}
    BY <1>1, <1>4
       DEF bomb, throwPendingException, logAndLoop, initFails, ManagerTypes,
           Classes
  <2> QED BY <2>1, <2>2, WorkPreserves
<1>5. CASE \E class \in {"argument", "config", "solver", "runtime"} : throw(class)
  <2>1. PICK class \in {"argument", "config", "solver", "runtime"} : throw(class)
    BY <1>5
  <2>2. pc \notin {"terminate", "join", "destroy", "exited"}
    BY <2>1 DEF throw, Throws
  <2>3. /\ exc' = class /\ chan' = 1 /\ pc' \in {"terminate", "destroy"}
        /\ UNCHANGED <<code, pending, sub>>
    BY <2>1 DEF throw
  <2> QED BY <1>1, <2>2, <2>3, WorkPreserves DEF ManagerTypes, Classes
<1> QED BY <1>2, <1>3, <1>4, <1>5

(* initAndStart() comes before the destructors, so that the thread it      *)
(* starts is still ahead of them.                                          *)
LEMMA InitAndStartPreserves ==
    ASSUME ManagerInv, initAndStart
    PROVE  ManagerInv'
BY DEF ManagerInv, ManagerTypes, EndInv, initAndStart, Subscribers

(* The destructors move on behind a thread that is over.                   *)
LEMMA DestructorsPreserve ==
    ASSUME ManagerInv, terminate \/ join \/ destroy \/ exit
    PROVE  ManagerInv'
<1>1. /\ chan \in Nat \ {0} /\ Channels \in Nat
      /\ \A s \in Subscribers : s \in Nat
  BY ChannelsAssumption DEF ManagerInv, ManagerTypes, Subscribers
<1>2. CASE terminate
  <2>1. /\ chan \in Subscribers /\ pc' = "join" /\ pc = "terminate"
        /\ sub' = [sub EXCEPT ![chan].posted = TRUE]
        /\ UNCHANGED <<chan, exc, pending>>
    BY <1>1, <1>2 DEF terminate, asksToStop, Subscribers
  <2>2. \A s \in Subscribers : sub'[s].thread = sub[s].thread
    BY <2>1 DEF ManagerInv, ManagerTypes
  <2>3. ManagerTypes'
    BY <2>1 DEF ManagerInv, ManagerTypes
  <2>4. EndInv'
    BY <2>1, <2>2 DEF ManagerInv, EndInv, Over
  <2> QED BY <2>3, <2>4 DEF ManagerInv
<1>3. CASE join \/ destroy
  <2>1. /\ chan' = chan + 1 /\ UNCHANGED <<exc, pending, sub>>
        /\ pc \in {"join", "destroy"}
        /\ pc' \in {"terminate", "destroy", "undefined"}
        /\ pc' # "undefined" => Over(chan)
    BY <1>3 DEF join, joins, destroy, Over
  <2>2. ManagerTypes'
    BY <1>1, <2>1 DEF ManagerInv, ManagerTypes
  <2>3. \A s \in Subscribers : s < chan' => s < chan \/ s = chan
    BY <1>1, <2>1
  <2>4. EndInv'
    BY <2>1, <2>3 DEF ManagerInv, EndInv, Over
  <2> QED BY <2>2, <2>4 DEF ManagerInv
<1>4. CASE exit
  <2>1. /\ pc \in {"terminate", "destroy"} /\ chan > Channels
        /\ pc' = "exited" /\ code' = exitCode(exc)
        /\ UNCHANGED <<chan, exc, pending, sub>>
    BY <1>4 DEF exit
  <2>2. \A s \in Subscribers : s < chan
    BY <1>1, <2>1 DEF Subscribers
  <2>3. ManagerTypes'
    BY <2>1 DEF ManagerInv, ManagerTypes
  <2>4. exitCode(exc)' = exitCode(exc)
    BY <2>1 DEF exitCode
  <2>5. EndInv'
    BY <2>1, <2>2, <2>4 DEF ManagerInv, EndInv, Over
  <2> QED BY <2>3, <2>5 DEF ManagerInv
<1> QED BY <1>2, <1>3, <1>4

(* A thread that is over takes no step any more.                           *)
LEMMA ThreadPreserves ==
    ASSUME ManagerInv, NEW s \in Subscribers,
           \/ receive(s) \/ threadStep(s)
           \/ \E class \in SubscriberErrors : runThrows(s, class)
    PROVE  ManagerInv'
<1>1. /\ sub[s].thread \in {"running", "sinking"}
      /\ \E t \in {"running", "sinking", "done"} :
            sub' = [sub EXCEPT ![s].thread = t]
      /\ UNCHANGED <<pc, chan, exc, code>>
      /\ pending' = pending \/ pending' \in SubscriberErrors
  BY DEF receive, threadStep, delivered, runReturns, runThrows
<1>2. pending' \in Classes \cup {"none"}
  BY <1>1, SubscriberErrorsAssumption DEF ManagerInv, ManagerTypes, Classes
<1>3. ManagerTypes'
  BY <1>1, <1>2 DEF ManagerInv, ManagerTypes
<1>4. \A other \in Subscribers : Over(other) => Over(other)'
  BY <1>1 DEF ManagerInv, ManagerTypes, Over
<1>5. exitCode(exc)' = exitCode(exc)
  BY <1>1 DEF exitCode
<1>6. EndInv'
  BY <1>1, <1>4, <1>5 DEF ManagerInv, EndInv
<1> QED BY <1>3, <1>6 DEF ManagerInv

(* Every step keeps the invariant.                                         *)
LEMMA ManagerPreserves ==
    ASSUME ManagerInv, [Next]_vars
    PROVE  ManagerInv'
<1>1. CASE mainStep
  BY <1>1, MainPreserves, InitAndStartPreserves, DestructorsPreserve
     DEF mainStep
<1>2. CASE \E s \in Subscribers :
             \/ receive(s) \/ threadStep(s)
             \/ \E class \in SubscriberErrors : runThrows(s, class)
  BY <1>2, ThreadPreserves
<1>3. CASE UNCHANGED vars
  BY <1>3 DEF vars, ManagerInv, ManagerTypes, EndInv, Over, exitCode
<1> QED BY <1>1, <1>2, <1>3 DEF Next, Ended

(* The invariant holds in every behaviour of the program.                  *)
THEOREM ManagerCorrect == Spec => []ManagerInv
BY ManagerInitial, ManagerPreserves, PTL DEF Spec

-----------------------------------------------------------------------------
(* How main() ends.                                                        *)

(* The manager under construction: threads are started one channel after   *)
(* the other, so that a thread runs while the members are destroyed only   *)
(* if initAndStart() of a later channel has failed.                        *)
AllNone == \A s \in Subscribers : sub[s].thread = "none"

FailedBehind(later) ==
    /\ exc = "config" /\ later \in FailingChannels
    /\ \A s \in Subscribers : later <= s => sub[s].thread = "none"

ConstructionInv ==
    /\ pc \in {"context", "predictor", "dispatcher", "publishers"} =>
         chan = 1 /\ AllNone
    /\ pc = "subscribers" =>
         \A s \in Subscribers : chan <= s => sub[s].thread = "none"
    /\ pc \in {"destroy", "undefined"} =>
         AllNone \/ \E later \in Subscribers : FailedBehind(later)
    /\ pc = "undefined" =>
         \E s \in Subscribers : sub[s].thread \in {"running", "sinking"}

(* The phases up to run() keep it.                                         *)
LEMMA BuildingKeepsConstruction ==
    ASSUME ManagerInv, ConstructionInv,
           advance \/ initAndStart \/ addListeners \/ initFails
    PROVE  ConstructionInv'
<1>1. /\ chan \in Nat \ {0} /\ Channels \in Nat /\ Subscribers = 1..Channels
      /\ sub \in [Subscribers ->
                     [thread : {"none", "running", "sinking", "done"},
                      posted : BOOLEAN]]
  BY ChannelsAssumption DEF ManagerInv, ManagerTypes, Subscribers
<1>2. CASE advance
  BY <1>1, <1>2 DEF advance, Successor, ConstructionInv, AllNone
<1>3. CASE initAndStart
  <2>1. /\ pc = "subscribers" /\ pc' = pc /\ chan' = chan + 1
        /\ chan \in Subscribers
        /\ sub' = [sub EXCEPT ![chan].thread = "running"]
    BY <1>1, <1>3 DEF initAndStart
  <2>2. \A s \in Subscribers : chan' <= s => sub'[s].thread = "none"
    BY <1>1, <2>1 DEF ConstructionInv
  <2> QED BY <2>1, <2>2 DEF ConstructionInv
<1>4. CASE addListeners
  BY <1>4 DEF addListeners, ConstructionInv
<1>5. CASE initFails
  <2>1. /\ pc = "subscribers" /\ pc' = "destroy" /\ exc' = "config"
        /\ chan \in FailingChannels /\ sub' = sub
    BY <1>5 DEF initFails
  <2>2. chan \in Subscribers
    BY <1>1, <2>1, ChannelsAssumption
  <2>3. \E later \in Subscribers : FailedBehind(later)'
    <3>1. /\ exc' = "config" /\ chan \in FailingChannels
          /\ \A s \in Subscribers : chan <= s => sub'[s].thread = "none"
      BY <2>1 DEF ConstructionInv
    <3> QED BY <2>2, <3>1 DEF FailedBehind
  <2> QED BY <2>1, <2>3 DEF ConstructionInv
<1> QED BY <1>2, <1>3, <1>4, <1>5

(* So do the other steps of main().                                        *)
LEMMA MainKeepsConstruction ==
    ASSUME ManagerInv, ConstructionInv, mainStep
    PROVE  ConstructionInv'
<1>1. CASE advance \/ initAndStart \/ addListeners \/ initFails
  BY <1>1, BuildingKeepsConstruction
<1>2. CASE \/ initStartTimeNow \/ distribute \/ bomb \/ logAndLoop
           \/ terminate \/ join \/ exit
  BY <1>2 DEF initStartTimeNow, distribute, bomb, throwPendingException,
              logAndLoop, terminate, join, exit, ConstructionInv
<1>3. CASE \E class \in {"argument", "config", "solver", "runtime"} : throw(class)
  <2>1. /\ pc \in {"context", "predictor", "dispatcher", "publishers", "logger"}
                    \cup Loop
        /\ pc' = IF pc \in Loop \cup {"logger"} THEN "terminate" ELSE "destroy"
        /\ sub' = sub
    BY <1>3 DEF throw, Throws, Loop
  <2>2. CASE pc \in Loop \cup {"logger"}
    BY <2>1, <2>2 DEF ConstructionInv
  <2>3. CASE pc \in {"context", "predictor", "dispatcher", "publishers"}
    BY <2>1, <2>3 DEF ConstructionInv, AllNone, Loop
  <2> QED BY <2>1, <2>2, <2>3
<1>4. CASE destroy
  <2>1. /\ pc = "destroy" /\ pc' \in {"destroy", "undefined"}
        /\ chan \in Subscribers
        /\ UNCHANGED <<exc, sub>>
        /\ pc' = "undefined" => sub[chan].thread \in {"running", "sinking"}
    <3>1. chan \in Subscribers
      BY <1>4, ChannelsAssumption DEF destroy, ManagerInv, ManagerTypes, Subscribers
    <3>2. sub[chan].thread \in {"none", "running", "sinking", "done"}
      BY <3>1 DEF ManagerInv, ManagerTypes
    <3> QED BY <1>4, <3>1, <3>2 DEF destroy
  <2>2. AllNone' \/ \E later \in Subscribers : FailedBehind(later)'
    BY <2>1 DEF ConstructionInv, AllNone, FailedBehind
  <2> QED BY <2>1, <2>2 DEF ConstructionInv
<1> QED BY <1>1, <1>2, <1>3, <1>4 DEF mainStep

(* A thread that was never started takes no step.                          *)
LEMMA ThreadKeepsConstruction ==
    ASSUME ManagerInv, ConstructionInv, NEW s \in Subscribers,
           pc # "undefined",
           \/ receive(s) \/ threadStep(s)
           \/ \E class \in SubscriberErrors : runThrows(s, class)
    PROVE  ConstructionInv'
<1>1. /\ sub[s].thread \in {"running", "sinking"}
      /\ \E t \in {"running", "sinking", "done"} :
            sub' = [sub EXCEPT ![s].thread = t]
      /\ UNCHANGED <<pc, chan, exc>>
  BY DEF receive, threadStep, delivered, runReturns, runThrows
<1>2. \A other \in Subscribers :
         sub[other].thread = "none" => sub'[other].thread = "none"
  BY <1>1 DEF ManagerInv, ManagerTypes
<1>3. AllNone => AllNone'
  BY <1>2 DEF AllNone
<1>4. \A later \in Subscribers : FailedBehind(later) => FailedBehind(later)'
  BY <1>1, <1>2 DEF FailedBehind
<1> QED BY <1>1, <1>2, <1>3, <1>4 DEF ConstructionInv

(* The subscribers' failures: as long as the bomb has found none, the last *)
(* one is pending; once it has, main() is on its way out with it.          *)
ReportInv ==
    /\ failed \in Seq(Classes)
    /\ seen \in 0..Len(failed)
    /\ seen = 0 =>
         pending = IF failed = <<>> THEN "none" ELSE failed[Len(failed)]
    /\ seen > 0 => exc = failed[seen] /\ pc \in {"terminate", "join", "exited"}

(* The bomb finds the last failure or none.                                *)
LEMMA BombReports ==
    ASSUME ReportInv, bomb
    PROVE  ReportInv'
<1>1. /\ pc = "bomb" /\ exc' = pending /\ pending' = "none"
      /\ pc' = IF exc' = "none" THEN "log" ELSE "terminate"
      /\ seen' = Len(failed) /\ failed' = failed
  BY DEF bomb, throwPendingException
<1>2. seen = 0 /\ failed \in Seq(Classes) /\ Len(failed) \in Nat
  BY <1>1 DEF ReportInv
<1>3. CASE failed = <<>>
  BY <1>1, <1>2, <1>3 DEF ReportInv
<1>4. CASE failed # <<>>
  <2>1. Len(failed) > 0 /\ Len(failed) \in 1..Len(failed)
    BY <1>2, <1>4
  <2>2. pending = failed[Len(failed)] /\ failed[Len(failed)] \in Classes
    BY <1>2, <1>4, <2>1 DEF ReportInv
  <2>3. pending # "none"
    BY <2>2 DEF Classes
  <2> QED BY <1>1, <1>2, <2>1, <2>2, <2>3 DEF ReportInv
<1> QED BY <1>3, <1>4

(* Every step keeps what is known of the failures.                         *)
LEMMA ReportKept ==
    ASSUME ReportInv, [Next]_vars
    PROVE  ReportInv'
<1>1. CASE bomb
  BY <1>1, BombReports
<1>2. CASE \/ advance \/ initAndStart \/ addListeners \/ initStartTimeNow
           \/ distribute \/ logAndLoop \/ initFails
           \/ \E class \in {"argument", "config", "solver", "runtime"} : throw(class)
           \/ destroy
  <2>1. /\ pc \notin {"terminate", "join", "exited"}
        /\ UNCHANGED <<pending, failed, seen>>
    BY <1>2 DEF advance, Successor, initAndStart, addListeners,
                initStartTimeNow, distribute, logAndLoop, initFails, throw,
                Throws, destroy, history
  <2>2. seen = 0
    BY <2>1 DEF ReportInv
  <2> QED BY <2>1, <2>2 DEF ReportInv
<1>3. CASE terminate \/ join \/ exit
  <2>1. /\ pc' \in {"terminate", "join", "exited"}
        /\ UNCHANGED <<exc, pending, failed, seen>>
    BY <1>3 DEF terminate, join, exit, history
  <2> QED BY <2>1 DEF ReportInv
<1>4. CASE \E s \in Subscribers : receive(s) \/ threadStep(s)
  <2>1. UNCHANGED <<pc, exc, pending, failed, seen>>
    BY <1>4 DEF receive, threadStep, delivered, runReturns, history
  <2> QED BY <2>1 DEF ReportInv
<1>5. CASE \E s \in Subscribers, class \in SubscriberErrors : runThrows(s, class)
  <2>1. PICK class \in SubscriberErrors :
          /\ pending' = class /\ failed' = Append(failed, class)
          /\ UNCHANGED <<pc, exc, seen>>
    BY <1>5 DEF runThrows
  <2>2. class \in Classes /\ failed \in Seq(Classes)
    BY SubscriberErrorsAssumption DEF Classes, ReportInv
  <2>3. /\ failed' \in Seq(Classes) /\ Len(failed') = Len(failed) + 1
        /\ failed' # <<>> /\ failed'[Len(failed')] = class
        /\ \A i \in 1..Len(failed) : failed'[i] = failed[i]
    BY <2>1, <2>2
  <2>4. seen' \in 0..Len(failed') /\ (seen > 0 => seen \in 1..Len(failed))
    BY <2>1, <2>2, <2>3 DEF ReportInv
  <2> QED BY <2>1, <2>3, <2>4 DEF ReportInv
<1>6. CASE UNCHANGED vars
  BY <1>6 DEF vars, history, ReportInv
<1> QED
  BY <1>1, <1>2, <1>3, <1>4, <1>5, <1>6 DEF Next, mainStep, Ended

(* All three hold in every behaviour of the program.                       *)
LEMMA ManagerEndings == Spec => [](ManagerInv /\ ConstructionInv /\ ReportInv)
<1>1. Init => ConstructionInv /\ ReportInv
  BY DEF Init, NewSubscriber, ConstructionInv, AllNone, ReportInv, Classes
<1>2. ManagerInv /\ ConstructionInv /\ [Next]_vars => ConstructionInv'
  <2> SUFFICES ASSUME ManagerInv, ConstructionInv, [Next]_vars
               PROVE  ConstructionInv'
    OBVIOUS
  <2>1. CASE mainStep
    BY <2>1, MainKeepsConstruction
  <2>2. CASE \E s \in Subscribers :
               /\ pc # "undefined"
               /\ \/ receive(s) \/ threadStep(s)
                  \/ \E class \in SubscriberErrors : runThrows(s, class)
    BY <2>2, ThreadKeepsConstruction
  <2>3. CASE UNCHANGED vars
    BY <2>3 DEF vars, ConstructionInv, AllNone, FailedBehind
  <2> QED BY <2>1, <2>2, <2>3 DEF Next, Ended
<1>3. ReportInv /\ [Next]_vars => ReportInv'
  BY ReportKept
<1> QED BY <1>1, <1>2, <1>3, ManagerCorrect, PTL DEF Spec

-----------------------------------------------------------------------------
(* What the run checks on a small instance.                                *)

(* If main() returns, no thread of a subscriber is left and the exit code  *)
(* is that of what it caught; if it does not, initAndStart() of a channel  *)
(* has failed behind another one whose thread runs.                        *)
THEOREM ManagerExitIsClean == Spec => []ExitIsClean
<1>1. ManagerInv /\ ConstructionInv => ExitIsClean
  <2> SUFFICES ASSUME ManagerInv, ConstructionInv PROVE ExitIsClean
    OBVIOUS
  <2>1. ASSUME pc = "exited"
        PROVE  /\ \A s \in Subscribers : sub[s].thread \in {"none", "done"}
               /\ code = CodeOfClass[exc]
    <3>1. code = exitCode(exc) /\ \A s \in Subscribers : Over(s)
      BY <2>1 DEF ManagerInv, EndInv
    <3>2. exc \in {"none", "argument", "config", "runtime", "solver", "other"}
      BY DEF ManagerInv, ManagerTypes, Classes
    <3> QED BY <3>1, <3>2, ExitCodes DEF Over, CodeOfClass
  <2>2. ASSUME pc = "undefined"
        PROVE  /\ exc = "config"
               /\ \E s, later \in Subscribers :
                    /\ s < later /\ later \in FailingChannels
                    /\ sub[s].thread \in {"running", "sinking"}
                    /\ sub[later].thread = "none"
    <3>1. PICK s \in Subscribers : sub[s].thread \in {"running", "sinking"}
      BY <2>2 DEF ConstructionInv
    <3>2. ~AllNone
      BY <3>1 DEF AllNone
    <3>3. PICK later \in Subscribers : FailedBehind(later)
      BY <2>2, <3>2 DEF ConstructionInv
    <3>4. s \in Int /\ later \in Int
      BY ChannelsAssumption DEF Subscribers
    <3>5. s < later /\ sub[later].thread = "none"
      BY <3>1, <3>3, <3>4 DEF FailedBehind
    <3> QED BY <3>1, <3>3, <3>5 DEF FailedBehind
  <2> QED BY <2>1, <2>2 DEF ExitIsClean
<1> QED BY <1>1, ManagerEndings, PTL

(* The exit code is that of the last subscriber failure the bomb has found,*)
(* and zero only if it has found none.                                     *)
THEOREM ManagerFailuresReported == Spec => []FailuresReported
<1>1. ManagerInv /\ ReportInv => FailuresReported
  <2> SUFFICES ASSUME ManagerInv, ReportInv, pc = "exited"
               PROVE  /\ seen > 0 => code = CodeOfClass[failed[seen]]
                      /\ code = 0 => seen = 0
    BY DEF FailuresReported
  <2>1. code = exitCode(exc)
    BY DEF ManagerInv, EndInv
  <2>2. ASSUME seen > 0
        PROVE  code = CodeOfClass[failed[seen]] /\ code # 0
    <3>1. exc = failed[seen] /\ exc \in Classes
      BY <2>2 DEF ReportInv
    <3> QED BY <2>1, <3>1, ExitCodes DEF Classes, CodeOfClass
  <2>3. seen \in Nat
    BY DEF ReportInv
  <2> QED BY <2>2, <2>3
<1> QED BY <1>1, ManagerEndings, PTL

-----------------------------------------------------------------------------
(* The destructor of the manager never waits for a thread that cannot end. *)

Behind == Loop \cup {"terminate", "join"}

(* All subscribers were started behind the constructor of the manager; the *)
(* queue is open behind initStartTimeNow(), which nothing but a throwing   *)
(* data logger avoids.                                                     *)
StartInv ==
    /\ pc \in {"context", "predictor", "dispatcher", "publishers"} => chan = 1
    /\ pc = "subscribers" =>
          \A s \in Subscribers : s < chan => sub[s].thread # "none"
    /\ pc \in Behind \cup {"logger", "start"} =>
          \A s \in Subscribers : sub[s].thread # "none"
    /\ pc \in Behind => started
    /\ pc = "join" => chan \in Subscribers /\ sub[chan].posted

(* What terminate() and join() need of the thread they wait for: it exists,*)
(* it will find the termination handler, and a call of the event sink that *)
(* it is in returns.                                                       *)
JoinCanReturn ==
    pc = "join" => /\ sub[chan].thread # "none"
                   /\ sub[chan].posted
                   /\ started

(* The steps of main() keep StartInv unless the data logger throws.        *)
LEMMA MainKeepsStarted ==
    ASSUME "logger" \notin Failing, ManagerInv, StartInv, mainStep
    PROVE  StartInv'
<1>1. /\ chan \in Nat \ {0} /\ Channels \in Nat
      /\ sub \in [Subscribers ->
                     [thread : {"none", "running", "sinking", "done"},
                      posted : BOOLEAN]]
      /\ Subscribers = 1..Channels
  BY ChannelsAssumption DEF ManagerInv, ManagerTypes, Subscribers
<1>2. CASE advance
  BY <1>1, <1>2 DEF advance, Successor, StartInv, Behind, Loop
<1>3. CASE initAndStart
  <2>1. /\ pc = "subscribers" /\ pc' = pc /\ chan' = chan + 1
        /\ chan \in Subscribers
        /\ sub' = [sub EXCEPT ![chan].thread = "running"]
    BY <1>1, <1>3 DEF initAndStart
  <2>2. \A s \in Subscribers : s < chan' => s < chan \/ s = chan
    BY <1>1, <2>1
  <2>3. \A s \in Subscribers : s < chan' => sub'[s].thread # "none"
    BY <1>1, <2>1, <2>2 DEF StartInv
  <2> QED BY <2>1, <2>3 DEF StartInv, Behind, Loop
<1>4. CASE addListeners
  <2>1. \A s \in Subscribers : s < chan
    BY <1>1, <1>4 DEF addListeners
  <2> QED BY <1>4, <2>1 DEF addListeners, StartInv, Behind, Loop
<1>5. CASE initStartTimeNow \/ distribute
  BY <1>5 DEF initStartTimeNow, distribute, StartInv, Behind, Loop
<1>6. CASE bomb \/ logAndLoop
  BY <1>6 DEF bomb, throwPendingException, logAndLoop, StartInv, Behind, Loop
<1>7. CASE initFails \/ destroy \/ exit
  BY <1>7 DEF initFails, destroy, exit, StartInv, Behind, Loop
<1>8. CASE \E class \in {"argument", "config", "solver", "runtime"} : throw(class)
  BY <1>8 DEF throw, StartInv, Behind, Loop
<1>9. CASE terminate
  <2>1. /\ pc = "terminate" /\ pc' = "join" /\ UNCHANGED <<chan, started>>
        /\ chan \in Subscribers
        /\ sub' = [sub EXCEPT ![chan].posted = TRUE]
    BY <1>1, <1>9 DEF terminate, asksToStop
  <2>2. /\ \A s \in Subscribers : sub'[s].thread = sub[s].thread
        /\ sub'[chan].posted
    BY <1>1, <2>1
  <2> QED BY <2>1, <2>2 DEF StartInv, Behind, Loop
<1>10. CASE join
  BY <1>10 DEF join, StartInv, Behind, Loop
<1> QED
  BY <1>2, <1>3, <1>4, <1>5, <1>6, <1>7, <1>8, <1>9, <1>10 DEF mainStep

(* So do the steps of the threads.                                         *)
LEMMA ThreadKeepsStarted ==
    ASSUME ManagerInv, StartInv, NEW s \in Subscribers,
           \/ receive(s) \/ threadStep(s)
           \/ \E class \in SubscriberErrors : runThrows(s, class)
    PROVE  StartInv'
<1>1. /\ \E t \in {"running", "sinking", "done"} :
            sub' = [sub EXCEPT ![s].thread = t]
      /\ UNCHANGED <<pc, chan, started>>
  BY DEF receive, threadStep, delivered, runReturns, runThrows
<1>2. \A other \in Subscribers :
         /\ sub[other].thread # "none" => sub'[other].thread # "none"
         /\ sub'[other].posted = sub[other].posted
  BY <1>1 DEF ManagerInv, ManagerTypes
<1> QED BY <1>1, <1>2 DEF StartInv

(* As long as the data logger does not throw, join() waits only for a      *)
(* thread that was started, that has a termination handler to execute and  *)
(* whose call of the event sink is not held up by the closed barrier.      *)
THEOREM ManagerJoinCanReturn ==
    ASSUME "logger" \notin Failing
    PROVE  Spec => []JoinCanReturn
<1>1. Init => StartInv
  BY DEF Init, StartInv, Behind, Loop
<1>2. ManagerInv /\ StartInv /\ [Next]_vars => StartInv'
  <2> SUFFICES ASSUME ManagerInv, StartInv, [Next]_vars PROVE StartInv'
    OBVIOUS
  <2>1. CASE mainStep
    BY <2>1, MainKeepsStarted
  <2>2. CASE \E s \in Subscribers :
               \/ receive(s) \/ threadStep(s)
               \/ \E class \in SubscriberErrors : runThrows(s, class)
    BY <2>2, ThreadKeepsStarted
  <2>3. CASE UNCHANGED vars
    BY <2>3 DEF vars, StartInv
  <2> QED BY <2>1, <2>2, <2>3 DEF Next, Ended
<1>3. StartInv => JoinCanReturn
  BY DEF StartInv, JoinCanReturn, Behind
<1> QED BY <1>1, <1>2, <1>3, ManagerCorrect, PTL DEF Spec

=============================================================================
