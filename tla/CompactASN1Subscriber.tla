------------------------ MODULE CompactASN1Subscriber ------------------------
(***************************************************************************)
(* The decoding subscriber: CompactASN1Subscriber with its PartialEvent,   *)
(* run by a ConcurrentSubscriber's thread.  The thread executes handlers   *)
(* of its io_service one at a time: of a completed receive operation, of   *)
(* the packet timer and of a termination request, in the order in which    *)
(* they became ready.  The main thread calls terminate() at any moment.    *)
(*                                                                         *)
(* commitData() is split at each value that it decodes, because the step   *)
(* may ask the event sink for a time stamp or push an event, and time      *)
(* passes meanwhile.  The completion of a cancelled wait does nothing and  *)
(* is left out.  The connection is in CompactASN1TCPClientSubscriber.      *)
(***************************************************************************)
EXTENDS ASN1Codec

CONSTANTS
    Ports,          \* channelConfig_->getPortIDs(): the type of each port
    PacketTimeout,  \* packetTimeout, in ticks
    MaxNow          \* bound: ticks of the clock

ASSUME PortsAssumption == Ports \in Seq(FMITypes) /\ Ports # <<>>
ASSUME TimeAssumption == PacketTimeout \in Nat /\ MaxNow \in Nat

VARIABLES
    raw,         \* remainingRawData_
    partial,     \* partialData_: empty or one event [time, vars, next]
    ready,       \* service_: the handlers that wait for their execution
    timerWait,   \* packetTimeoutTimer_ has a pending asynchronous wait
    thread,      \* where subscriptionThread_ is
    terminator,  \* where the main thread is inside terminate()
    terminationRequest,  \* terminationRequest_
    now,         \* the time, 0 at init()
    lastRestart, \* history: time of the last restartPacketTimer()
    flushed,     \* history: the age of the timer at each time-out, -1 before
    emitted      \* history: number and last of the events pushed

subscriberVars == <<raw, partial, ready, timerWait, thread, terminator,
                    terminationRequest, now, lastRestart, flushed, emitted>>

(* The values of thread:                                                   *)
(* "poll": inside service_.run() between two handlers                      *)
(* "commit": in the loop of commitData()                                   *)
(* "received": behind commitData() in the handler of a receive operation   *)
(* "reconnect": in the loop of syncReconnect()                             *)
(* "done": run() has returned or thrown                                    *)
(* The handlers in ready: "receive", "timeout" and "terminate".            *)

-----------------------------------------------------------------------------
(* PartialEvent.  A variable is a port number and a value.                 *)

(* Mutant: the time left until the time-out is taken for the time.         *)
NewPartialEventLeft(time) ==
    [time |-> PacketTimeout - time, vars |-> <<>>, next |-> 1]

NewPartialEvent(time) == [time |-> time, vars |-> <<>>, next |-> 1]

hasRemainingElements(ev) == ev.next <= Len(Ports)

pushNextValue(ev, value) ==
    [ev EXCEPT !.vars = Append(@, [port |-> ev.next, value |-> value]),
               !.next = @ + 1]

(* Mutant: the next value is taken for the port of the ignored one.        *)
ignoreNextValueStay(ev) == [ev EXCEPT !.next = IF @ = Len(Ports) THEN @ + 1 ELSE @]

ignoreNextValue(ev) == [ev EXCEPT !.next = @ + 1]

-----------------------------------------------------------------------------
(* One round of the loop of processRawDataToEvent(): read a variable for   *)
(* the next port and fill or skip that port.                               *)
processRawDataToEvent(bytes, event) ==
    LET read == readNextVariable(Ports[event.next], bytes)
    IN  [state |-> read.state,
         raw |-> read.rest,
         event |-> CASE read.state = "Ok" -> pushNextValue(event, read.value)
                     [] read.state = "TypeConversionError" -> ignoreNextValue(event)
                     [] OTHER -> event]

(* pushPartialEvent(): hands the event to the event sink.                  *)
pushed(event) == [count |-> emitted.count + 1, last |-> event]

-----------------------------------------------------------------------------
SubscriberInit ==
    /\ raw = <<>>
    /\ partial = <<>>
    /\ ready = <<>>
    /\ timerWait = FALSE
    /\ thread = "poll"
    /\ terminator = "idle"
    /\ terminationRequest = FALSE
    /\ now = 0
    /\ lastRestart = 0
    /\ flushed = -1
    /\ emitted = [count |-> 0, last |-> NewPartialEvent(0)]

(* Mutant: the cancelled wait is not renewed.                              *)
restartPacketTimerCancel == timerWait' = FALSE /\ lastRestart' = now

(* cancel() takes back a wait that is still pending; a handler that is     *)
(* ready stays so.  The expiry time is the one of init().                  *)
restartPacketTimer == timerWait' = TRUE /\ lastRestart' = now

(* The first part of commitData().                                         *)
commitData(bytes) ==
    /\ restartPacketTimer
    /\ raw' = raw \o bytes
    /\ thread' = "commit"

(* Mutant: at most one value is taken from a chunk of data.                *)
commitContinuesOnce(bytes, state) == FALSE

(* The loops go on while bytes are left, unless they are incomplete.       *)
commitContinues(bytes, state) == bytes # <<>> /\ state # "Incomplete"

(* One round of the inner loop, in processRawDataToEvent(), and of the     *)
(* outer one in commitData() if the inner one ends with it.                *)
commitRound ==
    /\ thread = "commit"
    /\ IF raw = <<>>
       THEN /\ thread' = "received"
            /\ UNCHANGED <<raw, partial, emitted>>
       ELSE LET event == IF partial = <<>> THEN NewPartialEvent(now)
                         ELSE partial[1]
                result == processRawDataToEvent(raw, event)
                invalid == result.state = "InvalidBufferContent"
                push == invalid \/ (result.state # "Incomplete"
                                    /\ ~hasRemainingElements(result.event))
                left == IF invalid THEN <<>> ELSE result.raw
            IN  /\ raw' = left
                /\ partial' = IF push THEN <<>> ELSE <<result.event>>
                /\ emitted' = IF push THEN pushed(result.event) ELSE emitted
                /\ thread' = IF commitContinues(left, result.state)
                             THEN "commit" ELSE "received"
    /\ UNCHANGED <<ready, timerWait, terminator, terminationRequest, now,
                   lastRestart, flushed>>

(* The reactor finds the timer's expiry time passed.                       *)
timerExpires ==
    /\ thread = "poll"
    /\ timerWait
    /\ now >= PacketTimeout
    /\ timerWait' = FALSE
    /\ ready' = Append(ready, "timeout")
    /\ UNCHANGED <<raw, partial, thread, terminator, terminationRequest, now,
                   lastRestart, flushed, emitted>>

nextHandler(handler) ==
    /\ thread = "poll"
    /\ ready # <<>>
    /\ Head(ready) = handler
    /\ ready' = Tail(ready)

(* Mutant: the bytes of the abandoned event stay in the buffer.            *)
clearedOnTimeoutKeep == UNCHANGED raw

(* clearUnprocessedData() of handlePacketTimeout().                        *)
clearedOnTimeout == raw' = <<>>

handlePacketTimeout ==
    /\ nextHandler("timeout")
    /\ IF partial = <<>>
       THEN UNCHANGED <<raw, partial, emitted, flushed>>
       ELSE /\ emitted' = pushed(partial[1])
            /\ partial' = <<>>
            /\ clearedOnTimeout
            /\ flushed' = now - lastRestart
    /\ UNCHANGED <<timerWait, thread, terminator, terminationRequest, now,
                   lastRestart>>

(* The subscriber's part of handleTermination(); the connection is closed  *)
(* with it.                                                                *)
handleTermination ==
    /\ nextHandler("terminate")
    /\ timerWait' = FALSE
    /\ partial' = <<>>
    /\ raw' = <<>>
    /\ thread' = "done"
    /\ terminationRequest' = FALSE
    /\ UNCHANGED <<terminator, now, lastRestart, flushed, emitted>>

-----------------------------------------------------------------------------
(* terminate() in the main thread: set the flag, post the handler, join.   *)

requestTermination ==
    /\ terminator = "idle"
    /\ terminator' = "flagged"
    /\ terminationRequest' = TRUE
    /\ UNCHANGED <<raw, partial, ready, timerWait, thread, now, lastRestart,
                   flushed, emitted>>

(* Mutant: the handler is posted to an idle service only.                  *)
postedIfIdle(handlers) == IF handlers = <<>> THEN <<"terminate">> ELSE handlers

posted(handlers) == Append(handlers, "terminate")

postTermination ==
    /\ terminator = "flagged"
    /\ terminator' = "posted"
    /\ ready' = posted(ready)
    /\ UNCHANGED <<raw, partial, timerWait, thread, terminationRequest, now,
                   lastRestart, flushed, emitted>>

join ==
    /\ terminator = "posted"
    /\ thread = "done"
    /\ terminator' = "joined"
    /\ UNCHANGED <<raw, partial, ready, timerWait, thread, terminationRequest,
                   now, lastRestart, flushed, emitted>>

tick ==
    /\ now < MaxNow
    /\ now' = now + 1
    /\ UNCHANGED <<raw, partial, ready, timerWait, thread, terminator,
                   terminationRequest, lastRestart, flushed, emitted>>

=============================================================================
