--------------------------- MODULE NetworkManager ---------------------------
(***************************************************************************)
(* The life of the program: main(), the NetworkManager it owns and the     *)
(* threads of the subscribers (ConcurrentSubscriber).  The event loop and  *)
(* its queue are reduced to what the threads see of them: a subscriber     *)
(* that stamps or pushes an event waits until dispatcher.run() has         *)
(* initialised the queue, and every event is given to the publishers, to   *)
(* the ExceptionBomb and to the data logger, in this order.                *)
(*                                                                         *)
(* Any step of main() may throw an exception.  The stack is unwound: the   *)
(* destructor of a completed NetworkManager terminates the subscribers;    *)
(* if the constructor itself throws, its members are destroyed instead.    *)
(***************************************************************************)
EXTENDS Integers, Sequences

CONSTANTS
    Channels,         \* number of input channels, hence of subscribers
    Failing,          \* the phases of main() that may throw
    FailingChannels,  \* the input channels whose initAndStart() may throw
    SubscriberErrors  \* classes of the exceptions that end a subscriber

ASSUME ChannelsAssumption == Channels \in Nat /\ FailingChannels \subseteq 1..Channels
ASSUME SubscriberErrorsAssumption ==
    SubscriberErrors \subseteq {"argument", "config", "solver", "runtime", "other"}

VARIABLES
    pc,       \* where main() is
    chan,     \* the input channel that main() works on
    exc,      \* class of the exception that unwinds main(), "none"
    code,     \* exit code, -1 before main() returns
    started,  \* initStartTimeNow() has opened the queue's barrier
    pending,  \* pendingException_: its class or "none"
    sub,      \* per channel: the subscriber and its thread
    failed,   \* history: the classes of the subscribers' exceptions, in order
    seen      \* history: how many there were when the bomb was last called

history == <<failed, seen>>
vars == <<pc, chan, exc, code, started, pending, sub, history>>

Subscribers == 1..Channels

(* The phases of main() in front of the loop, each with its successor.     *)
Successor ==
    [context |-> "predictor", predictor |-> "dispatcher",
     dispatcher |-> "publishers", publishers |-> "subscribers",
     logger |-> "start"]

Loop == {"predict", "publish", "bomb", "log"}

(* The classes of the exceptions that a phase throws.  Both exceptions of  *)
(* the program are also std::invalid_argument.                             *)
Throws(phase) ==
    CASE phase = "context" -> {"argument", "config"}
      [] phase = "predictor" -> {"argument", "config", "solver", "runtime"}
      [] phase = "dispatcher" -> {"argument"}
      [] phase = "logger" -> {"config"}
      [] phase = "publishers" -> {"config", "runtime"}
      [] phase = "predict" -> {"solver"}
      [] phase = "publish" -> {"runtime"}
      [] OTHER -> {}

IsA(class) ==
    CASE class = "config" -> {"config", "argument", "other"}
      [] class = "solver" -> {"solver", "argument", "other"}
      [] OTHER -> {class, "other"}

(* The catch blocks of main() in their order, with what they return.       *)
CatchBlocks ==
    << <<"config", 2>>, <<"solver", 4>>, <<"argument", 1>>, <<"runtime", 3>>,
       <<"other", 125>> >>

exitCode(class) ==
    IF class = "none" THEN 0
    ELSE LET caught == {i \in DOMAIN CatchBlocks : CatchBlocks[i][1] \in IsA(class)}
             first == CHOOSE i \in caught : \A j \in caught : i <= j
         IN  CatchBlocks[first][2]

-----------------------------------------------------------------------------
(* A subscriber.  thread: "none" before initAndStart(), "running" inside   *)
(* run(), "sinking" inside a call of the event sink, "done" behind run().  *)
(* posted: terminationRequest() has reached the thread's io_service.       *)
NewSubscriber == [thread |-> "none", posted |-> FALSE]

Init ==
    /\ pc = "context"
    /\ chan = 1
    /\ exc = "none"
    /\ code = -1
    /\ started = FALSE
    /\ pending = "none"
    /\ sub = [s \in Subscribers |-> NewSubscriber]
    /\ failed = <<>>
    /\ seen = 0

(* A phase in front of run() succeeds.                                     *)
advance ==
    /\ pc \in DOMAIN Successor
    /\ pc' = Successor[pc]
    /\ UNCHANGED <<chan, exc, code, started, pending, sub, history>>

(* addChannels<Subscriber>(): initAndStart() of the next channel returns   *)
(* with a running thread.  Behind the last channel the listeners are       *)
(* registered and the constructor is complete.                             *)
initAndStart ==
    /\ pc = "subscribers"
    /\ chan <= Channels
    /\ sub' = [sub EXCEPT ![chan].thread = "running"]
    /\ chan' = chan + 1
    /\ UNCHANGED <<pc, exc, code, started, pending, history>>

addListeners ==
    /\ pc = "subscribers"
    /\ chan > Channels
    /\ pc' = "logger"
    /\ UNCHANGED <<chan, exc, code, started, pending, sub, history>>

(* initStartTimeNow() at the head of dispatcher.run().                     *)
initStartTimeNow ==
    /\ pc = "start"
    /\ started' = TRUE
    /\ pc' = "predict"
    /\ UNCHANGED <<chan, exc, code, pending, sub, history>>

(* predictNext() and get() have returned an event, the publishers have     *)
(* been called.                                                            *)
distribute ==
    /\ pc \in {"predict", "publish"}
    /\ pc' = IF pc = "predict" THEN "publish" ELSE "bomb"
    /\ UNCHANGED <<chan, exc, code, started, pending, sub, history>>

(* Mutant: the pointer is cleared in front of the rethrow.                 *)
throwPendingExceptionCleared ==
    /\ pending' = "none"
    /\ exc' = pending'
    /\ pc' = IF exc' = "none" THEN "log" ELSE "terminate"

(* Mutant: exceptions stay pending.                                        *)
throwPendingExceptionNever == UNCHANGED <<pending, exc>> /\ pc' = "log"

throwPendingException ==
    /\ exc' = pending
    /\ pending' = "none"
    /\ pc' = IF exc' = "none" THEN "log" ELSE "terminate"

(* ExceptionBomb::eventTriggered().                                        *)
bomb ==
    /\ pc = "bomb"
    /\ throwPendingException
    /\ chan' = 1
    /\ seen' = Len(failed)
    /\ UNCHANGED <<code, started, sub, failed>>

(* The data logger is called; the loop goes on or run() returns.           *)
logAndLoop ==
    /\ pc = "log"
    /\ pc' \in {"predict", "terminate"}
    /\ chan' = 1
    /\ UNCHANGED <<exc, code, started, pending, sub, history>>

(* A phase of main() throws.  Only behind the constructor of the manager   *)
(* there is a manager whose destructor runs.                               *)
throw(class) ==
    /\ pc \in Failing
    /\ class \in Throws(pc)
    /\ exc' = class
    /\ chan' = 1
    /\ pc' = IF pc \in Loop \cup {"logger"} THEN "terminate" ELSE "destroy"
    /\ UNCHANGED <<code, started, pending, sub, history>>

(* initAndStart() of the next channel throws: there is no thread for it.   *)
initFails ==
    /\ pc = "subscribers"
    /\ chan \in FailingChannels
    /\ exc' = "config"
    /\ chan' = 1
    /\ pc' = "destroy"
    /\ UNCHANGED <<code, started, pending, sub, history>>

-----------------------------------------------------------------------------
(* The end.  ~NetworkManager(): terminate() every subscriber in turn.      *)

(* Mutant: only a thread at work is asked to stop.                         *)
asksToStopRunning(s) == sub[s].thread = "running"

(* terminationRequest() posts the termination handler.                     *)
asksToStop(s) == TRUE

terminate ==
    /\ pc = "terminate"
    /\ chan <= Channels
    /\ sub' = [sub EXCEPT ![chan].posted = asksToStop(chan)]
    /\ pc' = "join"
    /\ UNCHANGED <<chan, exc, code, started, pending, history>>

(* Mutant: the thread is detached instead of joined.                       *)
joinable(s) == TRUE

(* subscriptionThread_.join() returns.                                     *)
joins(s) == sub[s].thread = "done"

join ==
    /\ pc = "join"
    /\ joins(chan)
    /\ chan' = chan + 1
    /\ pc' = "terminate"
    /\ UNCHANGED <<exc, code, started, pending, sub, history>>

(* The subscribers of an incomplete manager are destroyed as they are.  If *)
(* the thread of one still runs, its io_service, timer and buffers are     *)
(* gone before ~ConcurrentSubscriber() asks it to stop, by a virtual       *)
(* function that no longer reaches the io_service: undefined behaviour.    *)
destroy ==
    /\ pc = "destroy"
    /\ chan <= Channels
    /\ chan' = chan + 1
    /\ pc' = IF sub[chan].thread \in {"none", "done"} THEN "destroy" ELSE "undefined"
    /\ UNCHANGED <<exc, code, started, pending, sub, history>>

exit ==
    /\ pc \in {"terminate", "destroy"}
    /\ chan > Channels
    /\ pc' = "exited"
    /\ code' = exitCode(exc)
    /\ UNCHANGED <<chan, exc, started, pending, sub, history>>

-----------------------------------------------------------------------------
(* The subscriber threads.                                                 *)

(* Data has arrived: the thread calls getTimeStampNow() or                 *)
(* pushExternalEvent() of the event sink.                                  *)
receive(s) ==
    /\ sub[s].thread = "running"
    /\ sub' = [sub EXCEPT ![s].thread = "sinking"]
    /\ UNCHANGED <<pc, chan, exc, code, started, pending, history>>

(* The call returns, not before the queue is initialised.                  *)
delivered(s) ==
    /\ sub[s].thread = "sinking"
    /\ started
    /\ sub' = [sub EXCEPT ![s].thread = "running"]
    /\ UNCHANGED <<pc, chan, exc, code, started, pending, history>>

(* run() returns as the termination handler has stopped the io_service.    *)
runReturns(s) ==
    /\ sub[s].thread = "running"
    /\ sub[s].posted
    /\ sub' = [sub EXCEPT ![s].thread = "done"]
    /\ UNCHANGED <<pc, chan, exc, code, started, pending, history>>

(* run() throws: executeRun() calls handleException().  An exception that  *)
(* is still pending is replaced.                                           *)
runThrows(s, class) ==
    /\ sub[s].thread = "running"
    /\ sub' = [sub EXCEPT ![s].thread = "done"]
    /\ pending' = class
    /\ failed' = Append(failed, class)
    /\ UNCHANGED <<pc, chan, exc, code, started, seen>>

-----------------------------------------------------------------------------
mainStep ==
    \/ advance \/ initAndStart \/ addListeners \/ initStartTimeNow
    \/ distribute \/ bomb \/ logAndLoop \/ initFails
    \/ \E class \in {"argument", "config", "solver", "runtime"} : throw(class)
    \/ terminate \/ join \/ destroy \/ exit

threadStep(s) == delivered(s) \/ runReturns(s)

Ended == pc \in {"exited", "undefined"} /\ UNCHANGED vars

Next ==
    \/ mainStep
    \/ \E s \in Subscribers :
         /\ pc # "undefined"
         /\ \/ receive(s) \/ threadStep(s)
            \/ \E class \in SubscriberErrors : runThrows(s, class)
    \/ Ended

Spec == Init /\ [][Next]_vars

(* Every thread is scheduled; a termination handler that is queued is      *)
(* executed although more data arrives (SF).  Nothing obliges a network    *)
(* peer to send data or a connection to fail.                              *)
FairSpec ==
    /\ Spec
    /\ WF_vars(mainStep)
    /\ \A s \in Subscribers : WF_vars(delivered(s)) /\ SF_vars(runReturns(s))

-----------------------------------------------------------------------------
(* Properties.                                                             *)

CodeOfClass ==
    [none |-> 0, argument |-> 1, config |-> 2, runtime |-> 3, solver |-> 4,
     other |-> 125]

(* On every way out of main(): if it returns, no subscriber thread can     *)
(* push another event into the queue, which is gone, since each has ended  *)
(* or was never started, and the exit code is the one of the class that    *)
(* was thrown.  The one other way out is that the constructor of the       *)
(* manager throws behind a running thread: initAndStart() of a later       *)
(* channel has failed.                                                     *)
ExitIsClean ==
    /\ pc = "exited" =>
         /\ \A s \in Subscribers : sub[s].thread \in {"none", "done"}
         /\ code = CodeOfClass[exc]
    /\ pc = "undefined" =>
         /\ exc = "config"
         /\ \E s, later \in Subscribers :
              /\ s < later /\ later \in FailingChannels
              /\ sub[s].thread \in {"running", "sinking"}
              /\ sub[later].thread = "none"

(* What a subscriber's failure does to the exit code: the program reports  *)
(* the last failure that had happened when the ExceptionBomb was called    *)
(* for an event, whatever fails later, and it reports success only if      *)
(* there was none at the last event.                                       *)
FailuresReported ==
    pc = "exited" =>
        /\ seen > 0 => code = CodeOfClass[failed[seen]]
        /\ code = 0 => seen = 0

(* An exception of a subscriber ends the program, however long the         *)
(* simulation would last; FailuresReported has the exit code.              *)
PendingSurfaces == pending # "none" ~> pc \in {"exited", "undefined"}

(* Once the destructor of the manager has been entered, main() returns:    *)
(* it never waits forever for the thread of a subscriber.                  *)
ShutdownCompletes == pc = "terminate" ~> pc = "exited"

(* ConcurrentSubscriber.h says of run(): "An inheriting class must ensure  *)
(* that the function returns as soon as a termination request is received  *)
(* and all pending tasks are completed."                                   *)
RunReturnsOnRequest ==
    \A s \in Subscribers : sub[s].posted ~> sub[s].thread = "done"

=============================================================================
