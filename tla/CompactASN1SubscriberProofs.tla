--------------------- MODULE CompactASN1SubscriberProofs ---------------------
(***************************************************************************)
(* Proofs about the subscriber, for every list of ports, every stream of   *)
(* bytes and every way the network cuts and breaks it.                     *)
(*                                                                         *)
(* The first part knows no more of a value than the type it is converted   *)
(* to, and shows which events, types and threads there can be.  The second *)
(* part follows the bytes from the peer's stream to the events: what is on *)
(* its way begins, at every step, with the item that the next port of the  *)
(* event waits for.                                                        *)
(***************************************************************************)
EXTENDS CompactASN1TCPClientSubscriber, DataProofs

ParsingStates == {"Ok", "TypeConversionError", "Incomplete",
                  "InvalidBufferContent"}

-----------------------------------------------------------------------------
(* What a read of one variable returns.                                    *)

(* A conversion gives no value or one value of the wanted type.            *)
LEMMA ConvertedType ==
    ASSUME NEW dest, NEW v, convert(dest, v) # <<>>
    PROVE  Head(convert(dest, v)).type = dest
BY DEF convert, convertText, Value

(* The record that the reading functions return.                           *)
IsParsed(p) == p = Parsed(p.state, p.value, p.rest)

(* The reading functions without the conversion, as the first byte selects *)
(* them.                                                                   *)
ReadByTag(bytes) ==
    LET tag == Head(bytes)
    IN  CASE tag = LREAL_TAG  -> readXREALVariable(bytes, 8, 1)
          [] tag = REAL_TAG   -> readXREALVariable(bytes, 4, 2)
          [] tag = STRING_TAG -> readSTRINGVariable(bytes)
          [] tag = BOOL0_TAG  -> readBOOL0Variable(bytes)
          [] tag = BOOL1_TAG  -> readBOOL1Variable(bytes)
          [] tag = DINT_TAG   -> readXINTVariable(bytes, 4)
          [] OTHER -> Parsed("InvalidBufferContent", NoValue, bytes)

(* Nothing is consumed unless a whole value is there.                      *)
LEMMA ReadByTagResult ==
    ASSUME NEW bytes
    PROVE  LET p == ReadByTag(bytes)
           IN  /\ IsParsed(p)
               /\ p.state \in {"Ok", "Incomplete", "InvalidBufferContent"}
               /\ p.state # "Ok" => p.rest = bytes
<1> DEFINE Fine(p) == /\ IsParsed(p)
                      /\ p.state \in {"Ok", "Incomplete", "InvalidBufferContent"}
                      /\ p.state # "Ok" => p.rest = bytes
<1>1. /\ Fine(Incomplete(bytes))
      /\ Fine(Parsed("InvalidBufferContent", NoValue, bytes))
  BY DEF Incomplete, Parsed, IsParsed
<1>2. \A size, value : Fine(Consume(bytes, size, value))
  BY DEF Consume, Parsed, IsParsed
<1> HIDE DEF Fine
<1>3. \A size, unit : Fine(readXREALVariable(bytes, size, unit))
  BY <1>1, <1>2 DEF readXREALVariable
<1>4. \A size : Fine(readXINTVariable(bytes, size))
  BY <1>1, <1>2 DEF readXINTVariable
<1>5. Fine(readSTRINGVariable(bytes))
  BY <1>1, <1>2 DEF readSTRINGVariable
<1>6. Fine(readBOOL0Variable(bytes)) /\ Fine(readBOOL1Variable(bytes))
  BY <1>2 DEF readBOOL0Variable, readBOOL1Variable
<1>7. Fine(ReadByTag(bytes))
  BY <1>1, <1>3, <1>4, <1>5, <1>6 DEF ReadByTag
<1> QED BY <1>7 DEF Fine

(* A value read for a port has the type of the port, and whether the bytes *)
(* are still incomplete does not depend on the port they are read for.     *)
LEMMA ReadResult ==
    ASSUME NEW dest, NEW bytes
    PROVE  LET p == readNextVariable(dest, bytes)
           IN  /\ p.state \in ParsingStates
               /\ p.state = "Ok" => p.value.type = dest
               /\ p.state = "Incomplete" =>
                    /\ p.rest = bytes
                    /\ \A other : readNextVariable(other, bytes) = p
<1> DEFINE q == ReadByTag(bytes)
<1>1. \A d : readNextVariable(d, bytes) = readAndConvertVariable(d, q)
  BY DEF readNextVariable, ReadByTag
<1>2. /\ IsParsed(q)
      /\ q.state \in {"Ok", "Incomplete", "InvalidBufferContent"}
      /\ q.state # "Ok" => q.rest = bytes
  BY ReadByTagResult
<1> HIDE DEF q
<1>3. CASE q.state # "Ok"
  <2>1. \A d : readNextVariable(d, bytes) = q
    BY <1>1, <1>3 DEF readAndConvertVariable
  <2> QED BY <1>2, <1>3, <2>1 DEF ParsingStates
<1>4. CASE q.state = "Ok"
  <2>1. q = [state |-> q.state, value |-> q.value, rest |-> q.rest]
    BY <1>2 DEF IsParsed, Parsed
  <2> DEFINE converted == convert(dest, q.value)
  <2>2. CASE converted = <<>>
    <3>1. readNextVariable(dest, bytes).state = "TypeConversionError"
      BY <1>1, <1>4, <2>1, <2>2 DEF readAndConvertVariable
    <3> QED BY <3>1 DEF ParsingStates
  <2>3. CASE converted # <<>>
    <3>1. /\ readNextVariable(dest, bytes).state = "Ok"
          /\ readNextVariable(dest, bytes).value = Head(converted)
      BY <1>1, <1>4, <2>1, <2>3 DEF readAndConvertVariable
    <3> QED BY <2>3, <3>1, ConvertedType DEF ParsingStates
  <2> QED BY <2>2, <2>3
<1> QED BY <1>3, <1>4

-----------------------------------------------------------------------------
(* The inductive invariant.                                                *)

(* An event fills ports in ascending order, each with a value of its type, *)
(* and looks at the ports from next on for the rest.                       *)
EventFine(ev) ==
    /\ ev = [time |-> ev.time, vars |-> ev.vars, next |-> ev.next]
    /\ ev.time \in Int
    /\ ev.next \in Nat \ {0}
    /\ ev.vars \in Seq(Range(ev.vars))
    /\ \A i \in DOMAIN ev.vars :
          /\ ev.vars[i].port \in Nat /\ ev.vars[i].port < ev.next
          /\ ev.vars[i].value.type = Ports[ev.vars[i].port]
    /\ \A i, j \in DOMAIN ev.vars : i < j => ev.vars[i].port < ev.vars[j].port

(* The event under construction has a port left and was stamped between    *)
(* the last one that was pushed and now.                                   *)
EventsInv ==
    /\ now \in Nat
    /\ EventFine(emitted.last)
    /\ emitted.count \in Nat
    /\ emitted.last.time <= now
    /\ partial # <<>> =>
          /\ partial = <<partial[1]>>
          /\ EventFine(partial[1])
          /\ hasRemainingElements(partial[1])
          /\ emitted.last.time <= partial[1].time
          /\ partial[1].time <= now

(* Outside of commitData(), the buffer is empty or holds the first bytes   *)
(* of a value of the event under construction.                             *)
BufferInv ==
    thread \in {"poll", "received", "reconnect"} /\ raw # <<>> =>
        /\ partial # <<>>
        /\ readNextVariable("String", raw).state = "Incomplete"

(* From the flag on, the thread finishes the attempts it has begun.        *)
TerminationInv ==
    /\ terminationRequest \in BOOLEAN
    /\ thread \in {"poll", "commit", "received", "reconnect", "done"}
    /\ retry \in 0..Retries /\ lateAttempts \in 0..Retries
    /\ terminator = "idle" => lateAttempts = 0
    /\ terminator # "idle" /\ thread # "done" => terminationRequest
    /\ thread = "reconnect" => lateAttempts <= retry

SubscriberInv == EventsInv /\ BufferInv /\ TerminationInv

(* A sequence stays one when an element is appended.                       *)
LEMMA AppendedSequence ==
    ASSUME NEW v, v \in Seq(Range(v)), NEW x
    PROVE  LET w == Append(v, x)
           IN  /\ w \in Seq(Range(w))
               /\ DOMAIN v = 1..Len(v) /\ Len(v) \in Nat
               /\ DOMAIN w = 1..(Len(v) + 1)
               /\ \A i \in DOMAIN v : w[i] = v[i]
               /\ w[Len(v) + 1] = x
<1> DEFINE S == Range(v) \cup {x}
           w == Append(v, x)
<1>1. v \in Seq(S)
  BY DEF Range
<1>2. /\ w \in Seq(S) /\ Len(v) \in Nat /\ DOMAIN v = 1..Len(v)
      /\ DOMAIN w = 1..(Len(v) + 1) /\ Len(w) = Len(v) + 1
      /\ \A i \in DOMAIN v : w[i] = v[i]
      /\ w[Len(v) + 1] = x
  BY <1>1
<1>3. w \in Seq(Range(w))
  BY <1>2 DEF Range
<1> QED BY <1>2, <1>3

(* A new event fills no port yet.                                          *)
LEMMA NewEventFine ==
    ASSUME NEW time \in Int
    PROVE  /\ EventFine(NewPartialEvent(time))
           /\ NewPartialEvent(time).time = time
           /\ hasRemainingElements(NewPartialEvent(time))
<1>1. Len(Ports) >= 1
  BY PortsAssumption
<1>2. <<>> \in Seq(Range(<<>>))
  OBVIOUS
<1> QED BY <1>1, <1>2 DEF NewPartialEvent, EventFine, hasRemainingElements

(* A value of the right type fills the next port.                          *)
LEMMA PushedEventFine ==
    ASSUME NEW ev, EventFine(ev), NEW value, value.type = Ports[ev.next]
    PROVE  /\ EventFine(pushNextValue(ev, value))
           /\ pushNextValue(ev, value).time = ev.time
<1> DEFINE x == [port |-> ev.next, value |-> value]
           w == Append(ev.vars, x)
           new == pushNextValue(ev, value)
<1>1. /\ new = [time |-> ev.time, vars |-> w, next |-> ev.next + 1]
      /\ ev.next \in Nat \ {0} /\ ev.time \in Int
  <2>1. new = [ev EXCEPT !.vars = w, !.next = ev.next + 1]
    BY DEF pushNextValue
  <2>2. /\ ev = [time |-> ev.time, vars |-> ev.vars, next |-> ev.next]
        /\ ev.next \in Nat \ {0} /\ ev.time \in Int
    BY DEF EventFine
  <2> HIDE DEF new, w
  <2> QED BY <2>1, <2>2
<1>2. /\ w \in Seq(Range(w)) /\ Len(ev.vars) \in Nat
      /\ DOMAIN ev.vars = 1..Len(ev.vars)
      /\ DOMAIN w = 1..(Len(ev.vars) + 1)
      /\ \A i \in DOMAIN ev.vars : w[i] = ev.vars[i]
      /\ w[Len(ev.vars) + 1] = x
  BY AppendedSequence DEF EventFine
<1> HIDE DEF w, new
<1>3. /\ new.time = ev.time /\ new.vars = w /\ new.next = ev.next + 1
      /\ new = [time |-> new.time, vars |-> new.vars, next |-> new.next]
  BY <1>1
<1>4. x.port = ev.next /\ x.value = value
  OBVIOUS
<1> HIDE DEF x
<1>5. \A i \in DOMAIN w : /\ w[i].port \in Nat /\ w[i].port < ev.next + 1
                          /\ w[i].value.type = Ports[w[i].port]
  <2> SUFFICES ASSUME NEW i \in DOMAIN w
               PROVE  /\ w[i].port \in Nat /\ w[i].port < ev.next + 1
                      /\ w[i].value.type = Ports[w[i].port]
    OBVIOUS
  <2>1. CASE i \in DOMAIN ev.vars
    BY <1>1, <1>2, <2>1 DEF EventFine
  <2>2. CASE i = Len(ev.vars) + 1
    BY <1>1, <1>2, <1>4, <2>2
  <2> QED BY <1>2, <2>1, <2>2
<1>6. \A i, j \in DOMAIN w : i < j => w[i].port < w[j].port
  <2> SUFFICES ASSUME NEW i \in DOMAIN w, NEW j \in DOMAIN w, i < j
               PROVE  w[i].port < w[j].port
    OBVIOUS
  <2>1. i \in DOMAIN ev.vars
    BY <1>2
  <2>2. CASE j \in DOMAIN ev.vars
    BY <1>2, <2>1, <2>2 DEF EventFine
  <2>3. CASE j = Len(ev.vars) + 1
    BY <1>2, <1>4, <2>1, <2>3 DEF EventFine
  <2> QED BY <1>2, <2>2, <2>3
<1>7. EventFine(new)
  BY <1>1, <1>2, <1>3, <1>5, <1>6 DEF EventFine
<1> QED BY <1>3, <1>7 DEF new

(* A port that is skipped leaves the filled ones as they are.              *)
LEMMA IgnoredEventFine ==
    ASSUME NEW ev, EventFine(ev)
    PROVE  /\ EventFine(ignoreNextValue(ev))
           /\ ignoreNextValue(ev).time = ev.time
<1>1. /\ ignoreNextValue(ev) = [time |-> ev.time, vars |-> ev.vars,
                                next |-> ev.next + 1]
      /\ ev.next \in Nat \ {0}
  BY DEF EventFine, ignoreNextValue
<1> QED BY <1>1 DEF EventFine

(* One round of processRawDataToEvent() keeps the event in order, and an   *)
(* incomplete value leaves event and buffer untouched.                     *)
LEMMA RoundOutcome ==
    ASSUME NEW bytes, NEW event, EventFine(event), hasRemainingElements(event)
    PROVE  LET result == processRawDataToEvent(bytes, event)
           IN  /\ result.state \in ParsingStates
               /\ EventFine(result.event)
               /\ result.event.time = event.time
               /\ result.state = "Incomplete" =>
                    /\ result.raw = bytes /\ result.event = event
                    /\ readNextVariable("String", bytes).state = "Incomplete"
<1> DEFINE read == readNextVariable(Ports[event.next], bytes)
           result == processRawDataToEvent(bytes, event)
<1>1. /\ read.state \in ParsingStates
      /\ read.state = "Ok" => read.value.type = Ports[event.next]
      /\ read.state = "Incomplete" =>
            read.rest = bytes /\ readNextVariable("String", bytes) = read
  BY ReadResult
<1>2. /\ result.state = read.state /\ result.raw = read.rest
      /\ read.state = "Ok" => result.event = pushNextValue(event, read.value)
      /\ read.state = "TypeConversionError" =>
            result.event = ignoreNextValue(event)
      /\ read.state \notin {"Ok", "TypeConversionError"} => result.event = event
  BY DEF processRawDataToEvent
<1> HIDE DEF read, result
<1>3. EventFine(result.event) /\ result.event.time = event.time
  BY <1>1, <1>2, PushedEventFine, IgnoredEventFine DEF ParsingStates
<1>4. result.state = "Incomplete" =>
        /\ result.raw = bytes /\ result.event = event
        /\ readNextVariable("String", bytes).state = "Incomplete"
  BY <1>1, <1>2
<1> QED BY <1>1, <1>2, <1>3, <1>4 DEF result

-----------------------------------------------------------------------------
(* The steps of the subscriber preserve the invariant.                     *)

(* The subscriber starts with an empty buffer and nothing to stop.         *)
LEMMA SubscriberInitial == Init => SubscriberInv
<1> SUFFICES ASSUME Init PROVE SubscriberInv
  OBVIOUS
<1>1. /\ now = 0 /\ partial = <<>> /\ raw = <<>>
      /\ emitted.count = 0 /\ emitted.last = NewPartialEvent(0)
      /\ thread = "poll" /\ terminator = "idle"
      /\ terminationRequest = FALSE /\ retry = 0 /\ lateAttempts = 0
  BY DEF Init, SubscriberInit
<1>2. EventsInv
  BY <1>1, NewEventFine DEF EventsInv
<1>3. BufferInv
  BY <1>1 DEF BufferInv
<1>4. 0 \in 0..Retries
  BY ConnectionAssumption
<1>5. TerminationInv
  BY <1>1, <1>4 DEF TerminationInv
<1> QED BY <1>2, <1>3, <1>5 DEF SubscriberInv

(* Time may pass, and an event may be dropped.                             *)
LEMMA EventsKept ==
    ASSUME EventsInv, UNCHANGED emitted, partial' = partial \/ partial' = <<>>,
           now' = now \/ now' = now + 1
    PROVE  EventsInv'
<1>1. /\ now' \in Nat /\ now <= now'
      /\ EventFine(emitted'.last) /\ emitted'.count \in Nat
      /\ emitted.last.time \in Int /\ emitted'.last.time <= now'
  BY DEF EventsInv, EventFine
<1>2. CASE partial' = <<>>
  BY <1>1, <1>2 DEF EventsInv
<1>3. CASE partial' # <<>>
  <2>1. partial' = partial /\ partial # <<>>
    BY <1>3
  <2>2. /\ partial = <<partial[1]>> /\ EventFine(partial[1])
        /\ hasRemainingElements(partial[1])
        /\ emitted.last.time <= partial[1].time /\ partial[1].time <= now
        /\ partial[1].time \in Int
    BY <2>1 DEF EventsInv, EventFine
  <2> QED BY <1>1, <2>1, <2>2 DEF EventsInv
<1> QED BY <1>2, <1>3

(* What an event is pushed with is in order, and stamped in order.         *)
LEMMA EventsPushed ==
    ASSUME EventsInv, NEW ev, EventFine(ev), emitted.last.time <= ev.time,
           ev.time <= now, emitted' = pushed(ev), partial' = <<>>,
           UNCHANGED now
    PROVE  EventsInv'
<1>1. emitted'.last = ev /\ emitted'.count = emitted.count + 1
  BY DEF pushed
<1>2. emitted'.count \in Nat
  BY <1>1 DEF EventsInv
<1> QED BY <1>1, <1>2 DEF EventsInv

(* The flag and the attempts are no concern of the other handlers.         *)
LEMMA TerminationKept ==
    ASSUME TerminationInv,
           UNCHANGED <<terminator, terminationRequest, retry, lateAttempts>>,
           \/ thread' = thread
           \/ thread # "done" /\ thread' \in {"poll", "commit", "received"}
    PROVE  TerminationInv'
BY DEF TerminationInv

(* A decoded value, a value that fits no port, an incomplete one and bytes *)
(* that are no ASN.1.                                                      *)
LEMMA CommitPreserves ==
    ASSUME SubscriberInv, commitRound, UNCHANGED tcpVars
    PROVE  /\ SubscriberInv'
           /\ emitted.count < emitted'.count =>
                emitted.last.time <= emitted'.last.time
<1>1. /\ thread = "commit" /\ UNCHANGED <<terminator, terminationRequest, now>>
      /\ UNCHANGED <<retry, lateAttempts>>
  BY DEF commitRound, tcpVars
<1>2. CASE raw = <<>>
  <2>1. thread' = "received" /\ UNCHANGED <<raw, partial, emitted>>
    BY <1>2 DEF commitRound
  <2>2. EventsInv'
    BY <1>1, <2>1, EventsKept DEF SubscriberInv
  <2>3. BufferInv'
    BY <1>2, <2>1 DEF BufferInv
  <2>4. TerminationInv'
    BY <1>1, <2>1, TerminationKept DEF SubscriberInv
  <2> QED BY <2>1, <2>2, <2>3, <2>4 DEF SubscriberInv, EventsInv
<1>3. CASE raw # <<>>
  <2> DEFINE event == IF partial = <<>> THEN NewPartialEvent(now)
                      ELSE partial[1]
             result == processRawDataToEvent(raw, event)
             invalid == result.state = "InvalidBufferContent"
             push == invalid \/ (result.state # "Incomplete"
                                 /\ ~hasRemainingElements(result.event))
             left == IF invalid THEN <<>> ELSE result.raw
  <2>1. /\ raw' = left
        /\ partial' = IF push THEN <<>> ELSE <<result.event>>
        /\ emitted' = IF push THEN pushed(result.event) ELSE emitted
        /\ thread' = IF commitContinues(left, result.state)
                     THEN "commit" ELSE "received"
    BY <1>3 DEF commitRound
  <2>2. /\ EventFine(event) /\ hasRemainingElements(event)
        /\ emitted.last.time <= event.time /\ event.time <= now
    BY NewEventFine DEF SubscriberInv, EventsInv
  <2>3. /\ result.state \in ParsingStates
        /\ EventFine(result.event)
        /\ result.event.time = event.time
        /\ result.state = "Incomplete" =>
              /\ result.raw = raw /\ result.event = event
              /\ readNextVariable("String", raw).state = "Incomplete"
    BY <2>2, RoundOutcome
  <2>4. result.event.time \in Int
    BY <2>3 DEF EventFine
  <2> HIDE DEF event, result
  <2>5. CASE push
    <3>1. partial' = <<>> /\ emitted' = pushed(result.event)
      BY <2>1, <2>5
    <3>2. EventsInv'
      BY <1>1, <2>2, <2>3, <3>1, EventsPushed DEF SubscriberInv
    <3>3. ~commitContinues(left, result.state) => left = <<>>
      BY <2>5, <2>3 DEF commitContinues
    <3>4. BufferInv'
      BY <2>1, <3>3 DEF BufferInv
    <3>5. TerminationInv'
      BY <1>1, <2>1, TerminationKept DEF SubscriberInv
    <3>6. emitted.last.time <= emitted'.last.time
      BY <2>2, <2>3, <3>1 DEF pushed
    <3> QED BY <3>2, <3>4, <3>5, <3>6 DEF SubscriberInv
  <2>6. CASE ~push
    <3>1. partial' = <<result.event>> /\ emitted' = emitted
      BY <2>1, <2>6
    <3>2. hasRemainingElements(result.event)
      BY <2>2, <2>3, <2>6
    <3>3. EventsInv'
      BY <1>1, <2>2, <2>3, <3>1, <3>2 DEF SubscriberInv, EventsInv
    <3>4. ~commitContinues(left, result.state) =>
            left = <<>> \/ (left = raw /\ result.state = "Incomplete")
      BY <2>3 DEF commitContinues
    <3>5. BufferInv'
      BY <2>1, <2>3, <3>1, <3>4 DEF BufferInv
    <3>6. TerminationInv'
      BY <1>1, <2>1, TerminationKept DEF SubscriberInv
    <3> QED BY <3>1, <3>3, <3>5, <3>6 DEF SubscriberInv, EventsInv
  <2> QED BY <2>5, <2>6
<1> QED BY <1>2, <1>3

(* The partial event and its bytes go together.                            *)
LEMMA TimeoutPreserves ==
    ASSUME SubscriberInv, handlePacketTimeout, UNCHANGED tcpVars
    PROVE  /\ SubscriberInv'
           /\ emitted.count < emitted'.count =>
                emitted.last.time <= emitted'.last.time
<1>1. /\ UNCHANGED <<thread, terminator, terminationRequest, now>>
      /\ UNCHANGED <<retry, lateAttempts>>
  BY DEF handlePacketTimeout, tcpVars
<1>2. TerminationInv'
  BY <1>1, TerminationKept DEF SubscriberInv
<1>3. CASE partial = <<>>
  <2>1. UNCHANGED <<raw, partial, emitted>>
    BY <1>3 DEF handlePacketTimeout
  <2>2. EventsInv' /\ BufferInv'
    BY <1>1, <2>1, EventsKept DEF SubscriberInv, BufferInv
  <2> QED BY <1>2, <2>1, <2>2 DEF SubscriberInv, EventsInv
<1>4. CASE partial # <<>>
  <2>1. emitted' = pushed(partial[1]) /\ partial' = <<>> /\ raw' = <<>>
    BY <1>4 DEF handlePacketTimeout, clearedOnTimeout
  <2>2. /\ EventFine(partial[1])
        /\ emitted.last.time <= partial[1].time /\ partial[1].time <= now
    BY <1>4 DEF SubscriberInv, EventsInv
  <2>3. EventsInv'
    BY <1>1, <2>1, <2>2, EventsPushed DEF SubscriberInv
  <2>4. BufferInv'
    BY <2>1 DEF BufferInv
  <2>5. emitted.last.time <= emitted'.last.time
    BY <2>1, <2>2 DEF pushed
  <2> QED BY <1>2, <2>3, <2>4, <2>5 DEF SubscriberInv
<1> QED BY <1>3, <1>4

(* Nothing is decoded or pushed, and the buffer stays with its event.      *)
LEMMA BufferKept ==
    ASSUME SubscriberInv, UNCHANGED <<raw, partial, emitted>>,
           now' = now \/ now' = now + 1,
           \/ thread' = thread
           \/ /\ thread \in {"poll", "received", "reconnect"}
              /\ thread' \in {"poll", "received", "reconnect", "done"}
    PROVE  EventsInv' /\ BufferInv'
<1>1. EventsInv'
  BY EventsKept DEF SubscriberInv
<1>2. BufferInv'
  BY DEF SubscriberInv, BufferInv
<1> QED BY <1>1, <1>2

(* The received bytes are added to the buffer, for commitData() to look at.*)
LEMMA ReceivePreserves ==
    ASSUME SubscriberInv, handleReceive
    PROVE  SubscriberInv' /\ UNCHANGED emitted
<1>1. /\ thread = "poll" /\ thread' = "commit"
      /\ UNCHANGED <<partial, terminator, terminationRequest, now, emitted,
                     retry, lateAttempts>>
  BY DEF handleReceive, nextHandler, commitData
<1>2. EventsInv'
  BY <1>1, EventsKept DEF SubscriberInv
<1>3. BufferInv'
  BY <1>1 DEF BufferInv
<1>4. TerminationInv'
  BY <1>1, TerminationKept DEF SubscriberInv
<1> QED BY <1>1, <1>2, <1>3, <1>4 DEF SubscriberInv

(* syncReconnect() is only begun if terminate() has not been called, and   *)
(* its attempts are counted.                                               *)
LEMMA ConnectionPreserves ==
    ASSUME SubscriberInv, receiveNext \/ syncReconnect \/ reconnectFails
    PROVE  SubscriberInv' /\ UNCHANGED emitted
<1>1. /\ UNCHANGED <<raw, partial, now, emitted>>
      /\ thread \in {"received", "reconnect"}
      /\ thread' \in {"poll", "received", "reconnect", "done"}
  BY DEF receiveNext, syncReconnect, reconnectFails
<1>2. EventsInv' /\ BufferInv'
  BY <1>1, BufferKept
<1>3. Retries \in Nat
  BY ConnectionAssumption
<1>4. CASE receiveNext
  <2>1. /\ thread = "received" /\ retry' = 0
        /\ UNCHANGED <<terminator, terminationRequest, lateAttempts>>
        /\ \/ thread' = "poll"
           \/ thread' = "reconnect" /\ ~terminationRequest
    BY <1>4 DEF receiveNext, reconnects
  <2>2. thread' = "reconnect" => lateAttempts = 0
    BY <2>1 DEF SubscriberInv, TerminationInv
  <2>3. TerminationInv'
    BY <1>3, <2>1, <2>2 DEF SubscriberInv, TerminationInv
  <2> QED BY <1>1, <1>2, <2>3 DEF SubscriberInv
<1>5. CASE syncReconnect
  <2>1. /\ thread = "reconnect" /\ retry < Retries
        /\ lateAttempts' = IF terminator = "idle" THEN 0 ELSE lateAttempts + 1
        /\ \/ thread' = "poll" /\ retry' = retry
           \/ thread' = thread /\ retry' = retry + 1
        /\ UNCHANGED <<terminator, terminationRequest>>
    BY <1>5 DEF syncReconnect
  <2>2. /\ lateAttempts \in Nat /\ retry \in Nat /\ lateAttempts <= retry
        /\ terminationRequest \in BOOLEAN
        /\ terminator # "idle" => terminationRequest
    BY <1>3, <2>1 DEF SubscriberInv, TerminationInv
  <2>3. /\ lateAttempts' \in 0..Retries /\ retry' \in 0..Retries
        /\ thread' = "reconnect" => lateAttempts' <= retry'
    BY <1>3, <2>1, <2>2
  <2>4. TerminationInv'
    BY <2>1, <2>2, <2>3 DEF TerminationInv
  <2> QED BY <1>1, <1>2, <2>4 DEF SubscriberInv
<1>6. CASE reconnectFails
  <2>1. /\ UNCHANGED <<terminator, retry, lateAttempts>>
        /\ \/ thread' = "poll" /\ terminationRequest' = terminationRequest
           \/ thread' = "done" /\ terminationRequest' = FALSE
        /\ thread = "reconnect"
    BY <1>6 DEF reconnectFails
  <2>2. TerminationInv'
    BY <2>1 DEF SubscriberInv, TerminationInv
  <2> QED BY <1>1, <1>2, <2>2 DEF SubscriberInv
<1> QED BY <1>4, <1>5, <1>6

(* The handler of the termination clears everything.                       *)
LEMMA TerminatePreserves ==
    ASSUME SubscriberInv, terminateConnection
    PROVE  SubscriberInv' /\ UNCHANGED emitted
<1>1. /\ partial' = <<>> /\ raw' = <<>> /\ thread' = "done"
      /\ terminationRequest' = FALSE
      /\ UNCHANGED <<terminator, now, emitted, retry, lateAttempts>>
  BY DEF terminateConnection, handleTermination
<1>2. EventsInv' /\ BufferInv'
  BY <1>1, EventsKept DEF SubscriberInv, BufferInv
<1>3. TerminationInv'
  BY <1>1 DEF SubscriberInv, TerminationInv
<1> QED BY <1>1, <1>2, <1>3 DEF SubscriberInv

(* The peer, the network, the timer and the clock.                         *)
LEMMA EnvironmentPreserves ==
    ASSUME SubscriberInv,
           \/ peerCloses \/ connectionBreaks \/ receiveCompletes
           \/ UNCHANGED tcpVars /\ (timerExpires \/ tick)
           \/ UNCHANGED vars
    PROVE  SubscriberInv' /\ UNCHANGED emitted
<1>1. /\ UNCHANGED <<raw, partial, emitted, thread, terminator,
                     terminationRequest, retry, lateAttempts>>
      /\ now' = now \/ now' = now + 1
  BY DEF peerCloses, connectionBreaks, receiveCompletes, timerExpires, tick,
         vars, subscriberVars, tcpVars
<1>2. EventsInv' /\ BufferInv'
  BY <1>1, BufferKept
<1>3. TerminationInv'
  BY <1>1, TerminationKept DEF SubscriberInv
<1> QED BY <1>1, <1>2, <1>3 DEF SubscriberInv

(* The steps of terminate() in the main thread.                            *)
LEMMA MainThreadPreserves ==
    ASSUME SubscriberInv, UNCHANGED tcpVars,
           requestTermination \/ postTermination \/ join
    PROVE  SubscriberInv' /\ UNCHANGED emitted
<1>1. /\ UNCHANGED <<raw, partial, emitted, thread, now, retry, lateAttempts>>
      /\ \/ terminator = "idle" /\ terminationRequest' = TRUE
         \/ /\ terminator # "idle" /\ terminator' # "idle"
            /\ terminationRequest' = terminationRequest
  BY DEF requestTermination, postTermination, join, tcpVars
<1>2. EventsInv' /\ BufferInv'
  BY <1>1, BufferKept
<1>3. TerminationInv'
  BY <1>1 DEF SubscriberInv, TerminationInv
<1> QED BY <1>1, <1>2, <1>3 DEF SubscriberInv

(* Every step keeps the invariant, and the stamps in order.                *)
LEMMA SubscriberPreserves ==
    ASSUME SubscriberInv, [Next]_vars
    PROVE  /\ SubscriberInv'
           /\ emitted.count < emitted'.count =>
                emitted.last.time <= emitted'.last.time
<1>0. emitted.count \in Nat
  BY DEF SubscriberInv, EventsInv
<1>1. CASE subscriberStep
  <2>1. CASE UNCHANGED tcpVars /\ commitRound
    BY <2>1, CommitPreserves
  <2>2. CASE UNCHANGED tcpVars /\ handlePacketTimeout
    BY <2>2, TimeoutPreserves
  <2>3. CASE handleReceive
    BY <1>0, <2>3, ReceivePreserves
  <2>4. CASE receiveNext \/ syncReconnect \/ reconnectFails
    BY <1>0, <2>4, ConnectionPreserves
  <2>5. CASE terminateConnection
    BY <1>0, <2>5, TerminatePreserves
  <2> QED BY <1>1, <2>1, <2>2, <2>3, <2>4, <2>5 DEF subscriberStep
<1>2. CASE \/ peerCloses \/ connectionBreaks \/ receiveCompletes
           \/ UNCHANGED tcpVars /\ (timerExpires \/ tick)
           \/ UNCHANGED vars
  BY <1>0, <1>2, EnvironmentPreserves
<1>3. CASE /\ UNCHANGED tcpVars
           /\ requestTermination \/ postTermination \/ join
  BY <1>0, <1>3, MainThreadPreserves
<1> QED BY <1>1, <1>2, <1>3 DEF Next

(* The invariant holds in every behaviour of the subscriber.               *)
THEOREM SubscriberCorrect == Spec => []SubscriberInv
BY SubscriberInitial, SubscriberPreserves, PTL DEF Spec

-----------------------------------------------------------------------------
(* What the runs check on small instances.                                 *)

(* Bytes outside of commitData() belong to a partial event, which the      *)
(* packet timer will hand over together with them.                         *)
THEOREM SubscriberWaitingBytesHaveEvent == Spec => []WaitingBytesHaveEvent
<1>1. SubscriberInv => WaitingBytesHaveEvent
  BY DEF SubscriberInv, BufferInv, WaitingBytesHaveEvent
<1> QED BY <1>1, SubscriberCorrect, PTL

(* However the network cuts the stream, commitData() decodes every value   *)
(* that is complete.                                                       *)
THEOREM SubscriberNothingDecodableWaits == Spec => []NothingDecodableWaits
<1>1. SubscriberInv => NothingDecodableWaits
  BY DEF SubscriberInv, BufferInv, NothingDecodableWaits
<1> QED BY <1>1, SubscriberCorrect, PTL

(* The events name each port at most once and with a value of its type,    *)
(* whatever bytes arrive.                                                  *)
THEOREM SubscriberVariablesMatchPorts == Spec => []VariablesMatchPorts
<1>1. SubscriberInv => VariablesMatchPorts
  BY DEF SubscriberInv, EventsInv, EventFine, VariablesMatchPorts
<1> QED BY <1>1, SubscriberCorrect, PTL

(* terminate() waits for the attempts of one syncReconnect() at most.      *)
THEOREM SubscriberFewLateAttempts == Spec => []FewLateAttempts
<1>1. SubscriberInv => FewLateAttempts
  BY ConnectionAssumption DEF SubscriberInv, TerminationInv, FewLateAttempts
<1> QED BY <1>1, SubscriberCorrect, PTL

(* The time stamps of the pushed events ascend.                            *)
THEOREM SubscriberStampsAscend == Spec => StampsAscend
<1>1. SubscriberInv /\ [Next]_vars =>
        [emitted.count < emitted'.count =>
            emitted.last.time <= emitted'.last.time]_vars
  BY SubscriberPreserves
<1> QED BY <1>1, SubscriberCorrect, PTL DEF Spec, StampsAscend

-----------------------------------------------------------------------------
(* The handlers that wait in the io_service.                               *)

Handlers == {"receive", "timeout", "terminate"}
InHandler == {"commit", "received", "reconnect"}

Waits(h) == \E i \in 1..Len(ready) : ready[i] = h

(* The handler of a termination request waits until the thread has ended.  *)
TerminationArrives ==
    terminator \in {"posted", "joined"} => Waits("terminate") \/ thread = "done"

(* A partial event has a timer that runs or a time-out handler that waits. *)
PartialIsTimed ==
    partial # <<>> => timerWait \/ Waits("timeout") \/ thread = "done"

(* Between two handlers the subscriber listens to its connection, unless   *)
(* it is to stop; and there is one receive operation at most, as all of    *)
(* them use the one buffer.                                                *)
ListensOnce ==
    /\ thread = "poll" => receiving \/ Waits("receive") \/ terminator # "idle"
    /\ receiving => ~Waits("receive")
    /\ \A i, j \in 1..Len(ready) :
          ready[i] = "receive" /\ ready[j] = "receive" => i = j

(* While a handler of a receive operation is executed the timer runs and   *)
(* no other receive operation is pending or has completed.                 *)
ServiceInv ==
    /\ ready \in Seq(Handlers)
    /\ TerminationArrives
    /\ PartialIsTimed
    /\ ListensOnce
    /\ thread \in InHandler => timerWait /\ ~receiving /\ ~Waits("receive")
    /\ terminationRequest => terminator # "idle"

(* What a handler that becomes ready adds.                                 *)
LEMMA HandlerAppended ==
    ASSUME ready \in Seq(Handlers), NEW h \in Handlers,
           ready' = Append(ready, h)
    PROVE  /\ ready' \in Seq(Handlers)
           /\ \A g : Waits(g)' <=> Waits(g) \/ g = h
           /\ Len(ready') = Len(ready) + 1
           /\ ready'[Len(ready) + 1] = h
           /\ \A i \in 1..Len(ready) : ready'[i] = ready[i]
<1>1. /\ ready' \in Seq(Handlers) /\ Len(ready) \in Nat
      /\ Len(ready') = Len(ready) + 1
      /\ ready'[Len(ready) + 1] = h
      /\ \A i \in 1..Len(ready) : ready'[i] = ready[i]
  OBVIOUS
<1>2. 1..Len(ready') = 1..Len(ready) \cup {Len(ready) + 1}
  BY <1>1
<1>3. ASSUME NEW g PROVE Waits(g)' <=> Waits(g) \/ g = h
  BY <1>1, <1>2 DEF Waits
<1> QED BY <1>1, <1>3

(* What the execution of the first handler takes away.                     *)
LEMMA HandlerTaken ==
    ASSUME ready \in Seq(Handlers), NEW h, nextHandler(h)
    PROVE  /\ ready' \in Seq(Handlers)
           /\ thread = "poll"
           /\ Waits(h)
           /\ \A g : Waits(g)' => Waits(g)
           /\ \A g : g # h /\ Waits(g) => Waits(g)'
           /\ \A i \in 1..Len(ready') :
                i + 1 \in 1..Len(ready) /\ ready'[i] = ready[i + 1]
           /\ ready[1] = h /\ 1 \in 1..Len(ready)
<1>1. /\ ready # <<>> /\ ready[1] = h /\ ready' = Tail(ready)
      /\ thread = "poll"
  BY DEF nextHandler
<1>2. /\ ready' \in Seq(Handlers) /\ Len(ready) \in Nat
      /\ Len(ready') = Len(ready) - 1 /\ Len(ready) >= 1
      /\ \A i \in 1..Len(ready') : ready'[i] = ready[i + 1]
  BY <1>1
<1>3. \A i \in 1..Len(ready') :
         i + 1 \in 1..Len(ready) /\ ready'[i] = ready[i + 1]
  BY <1>2
<1>4. ASSUME NEW g PROVE Waits(g)' => Waits(g)
  BY <1>3 DEF Waits
<1>5. ASSUME NEW g, g # h, Waits(g) PROVE Waits(g)'
  <2>1. PICK i \in 1..Len(ready) : ready[i] = g
    BY <1>5 DEF Waits
  <2>2. i # 1
    BY <1>1, <1>5, <2>1
  <2>3. i - 1 \in 1..Len(ready') /\ ready'[i - 1] = ready[i]
    BY <1>2, <2>2
  <2> QED BY <2>1, <2>3 DEF Waits
<1> QED BY <1>1, <1>2, <1>3, <1>4, <1>5 DEF Waits

(* The handlers are executed one at a time.                                *)
LEMMA HandlersKeepService ==
    ASSUME SubscriberInv, ServiceInv,
           \/ handleReceive \/ terminateConnection
           \/ UNCHANGED tcpVars /\ handlePacketTimeout
    PROVE  ServiceInv'
<1>0. ready \in Seq(Handlers)
  BY DEF ServiceInv
<1>1. CASE handleReceive
  <2>1. /\ nextHandler("receive") /\ thread' = "commit" /\ timerWait' = TRUE
        /\ UNCHANGED <<partial, terminator, receiving, terminationRequest>>
    BY <1>1 DEF handleReceive, commitData, restartPacketTimer
  <2>2. /\ ready' \in Seq(Handlers) /\ Waits("receive") /\ thread = "poll"
        /\ Waits("terminate") => Waits("terminate")'
        /\ \A i \in 1..Len(ready') :
             i + 1 \in 1..Len(ready) /\ ready'[i] = ready[i + 1]
        /\ ready[1] = "receive" /\ 1 \in 1..Len(ready)
    BY <1>0, <2>1, HandlerTaken
  <2>3. ~Waits("receive")'
    <3> SUFFICES ASSUME NEW i \in 1..Len(ready'), ready'[i] = "receive"
                 PROVE  FALSE
      BY DEF Waits
    <3>1. i + 1 = 1
      BY <2>2 DEF ServiceInv, ListensOnce
    <3> QED BY <3>1
  <2>4. ~receiving'
    BY <2>1, <2>2 DEF ServiceInv, ListensOnce
  <2>5. ListensOnce'
    BY <2>1, <2>3 DEF ListensOnce, Waits
  <2>6. TerminationArrives' /\ PartialIsTimed'
    BY <2>1, <2>2 DEF ServiceInv, TerminationArrives, PartialIsTimed
  <2> QED BY <2>1, <2>2, <2>3, <2>4, <2>5, <2>6 DEF ServiceInv
<1>2. CASE terminateConnection
  <2>1. /\ nextHandler("terminate") /\ thread' = "done" /\ receiving' = FALSE
        /\ terminationRequest' = FALSE
    BY <1>2 DEF terminateConnection, handleTermination
  <2>2. /\ ready' \in Seq(Handlers)
        /\ \A i \in 1..Len(ready') :
             i + 1 \in 1..Len(ready) /\ ready'[i] = ready[i + 1]
    BY <1>0, <2>1, HandlerTaken
  <2>3. \A i, j \in 1..Len(ready') :
           ready'[i] = "receive" /\ ready'[j] = "receive" => i = j
    <3> SUFFICES ASSUME NEW i \in 1..Len(ready'), NEW j \in 1..Len(ready'),
                        ready'[i] = "receive", ready'[j] = "receive"
                 PROVE  i = j
      OBVIOUS
    <3>1. i + 1 = j + 1
      BY <2>2 DEF ServiceInv, ListensOnce
    <3> QED BY <3>1
  <2> QED BY <2>1, <2>2, <2>3
     DEF ServiceInv, TerminationArrives, PartialIsTimed, ListensOnce, InHandler
<1>3. CASE UNCHANGED tcpVars /\ handlePacketTimeout
  <2>1. /\ nextHandler("timeout")
        /\ UNCHANGED <<thread, timerWait, terminator, receiving,
                       terminationRequest>>
    BY <1>3 DEF handlePacketTimeout, tcpVars
  <2>2. /\ ready' \in Seq(Handlers) /\ thread = "poll"
        /\ Waits("terminate") => Waits("terminate")'
        /\ Waits("receive") <=> Waits("receive")'
        /\ \A i \in 1..Len(ready') :
             i + 1 \in 1..Len(ready) /\ ready'[i] = ready[i + 1]
    BY <1>0, <2>1, HandlerTaken
  <2>3. \A i, j \in 1..Len(ready') :
           ready'[i] = "receive" /\ ready'[j] = "receive" => i = j
    <3> SUFFICES ASSUME NEW i \in 1..Len(ready'), NEW j \in 1..Len(ready'),
                        ready'[i] = "receive", ready'[j] = "receive"
                 PROVE  i = j
      OBVIOUS
    <3>1. i + 1 = j + 1
      BY <2>2 DEF ServiceInv, ListensOnce
    <3> QED BY <3>1
  <2>4. partial' = <<>>
    BY <1>3 DEF handlePacketTimeout
  <2> QED BY <2>1, <2>2, <2>3, <2>4
     DEF ServiceInv, TerminationArrives, PartialIsTimed, ListensOnce, InHandler
<1> QED BY <1>1, <1>2, <1>3

(* A handler becomes ready.                                                *)
LEMMA ReadyKeepsService ==
    ASSUME ServiceInv,
           \/ receiveCompletes
           \/ UNCHANGED tcpVars /\ (timerExpires \/ postTermination)
    PROVE  ServiceInv'
<1>0. ready \in Seq(Handlers) /\ Len(ready) \in Nat
  BY DEF ServiceInv
<1>1. PICK h \in Handlers : ready' = Append(ready, h)
  BY DEF receiveCompletes, timerExpires, postTermination, posted, Handlers
<1>2. /\ ready' \in Seq(Handlers)
      /\ \A g : Waits(g)' <=> Waits(g) \/ g = h
      /\ Len(ready') = Len(ready) + 1
      /\ ready'[Len(ready) + 1] = h
      /\ \A i \in 1..Len(ready) : ready'[i] = ready[i]
  BY <1>0, <1>1, HandlerAppended
<1>3. \A i \in 1..Len(ready') : i \in 1..Len(ready) \/ i = Len(ready) + 1
  BY <1>0, <1>2
<1>4. CASE receiveCompletes
  <2>1. /\ ready' = Append(ready, "receive") /\ thread = "poll" /\ receiving
        /\ receiving' = FALSE
        /\ UNCHANGED <<partial, timerWait, thread, terminator,
                       terminationRequest>>
    BY <1>4 DEF receiveCompletes
  <2>2. h = "receive"
    <3>1. Append(ready, "receive")[Len(ready) + 1] = "receive"
      BY <1>0, HandlerAppended DEF Handlers
    <3> QED BY <1>2, <2>1, <3>1
  <2>3. ~Waits("receive")
    BY <2>1 DEF ServiceInv, ListensOnce
  <2>4. \A i, j \in 1..Len(ready') :
           ready'[i] = "receive" /\ ready'[j] = "receive" => i = j
    BY <1>2, <1>3, <2>3 DEF Waits
  <2> QED BY <1>2, <2>1, <2>2, <2>4
     DEF ServiceInv, TerminationArrives, PartialIsTimed, ListensOnce, InHandler
<1>5. CASE UNCHANGED tcpVars /\ (timerExpires \/ postTermination)
  <2>1. /\ \/ /\ ready' = Append(ready, "timeout") /\ thread = "poll"
              /\ UNCHANGED terminator
           \/ ready' = Append(ready, "terminate") /\ terminator' = "posted"
              /\ UNCHANGED timerWait
        /\ UNCHANGED <<partial, thread, receiving, terminationRequest>>
    BY <1>5 DEF timerExpires, postTermination, posted, tcpVars
  <2>2. /\ ready' = Append(ready, "timeout") => h = "timeout"
        /\ ready' = Append(ready, "terminate") => h = "terminate"
    <3>1. /\ Append(ready, "timeout")[Len(ready) + 1] = "timeout"
          /\ Append(ready, "terminate")[Len(ready) + 1] = "terminate"
      BY <1>0 DEF Handlers
    <3> QED BY <1>2, <3>1
  <2>3. h # "receive"
    BY <2>1, <2>2
  <2>4. \A i, j \in 1..Len(ready') :
           ready'[i] = "receive" /\ ready'[j] = "receive" => i = j
    BY <1>2, <1>3, <2>3 DEF ServiceInv, ListensOnce
  <2>5. Waits("receive")' <=> Waits("receive")
    BY <1>2, <2>3
  <2>6. ListensOnce'
    BY <2>1, <2>4, <2>5 DEF ServiceInv, ListensOnce
  <2>7. TerminationArrives'
    BY <1>2, <2>1, <2>2 DEF ServiceInv, TerminationArrives
  <2>8. PartialIsTimed'
    BY <1>2, <2>1, <2>2 DEF ServiceInv, PartialIsTimed
  <2> QED BY <1>2, <2>1, <2>5, <2>6, <2>7, <2>8 DEF ServiceInv, InHandler
<1> QED BY <1>4, <1>5

(* Every step of the subscriber, of its peer and of the main thread keeps  *)
(* the handlers in order.                                                  *)
LEMMA ServicePreserves ==
    ASSUME SubscriberInv, ServiceInv, [Next]_vars
    PROVE  ServiceInv'
<1>0. terminationRequest \in BOOLEAN
  BY DEF SubscriberInv, TerminationInv
<1>1. CASE \/ handleReceive \/ terminateConnection
           \/ UNCHANGED tcpVars /\ handlePacketTimeout
  BY <1>1, HandlersKeepService
<1>2. CASE \/ receiveCompletes
           \/ UNCHANGED tcpVars /\ (timerExpires \/ postTermination)
  BY <1>2, ReadyKeepsService
<1>3. CASE UNCHANGED tcpVars /\ commitRound
  <2>1. /\ thread = "commit" /\ thread' \in {"commit", "received"}
        /\ UNCHANGED <<ready, timerWait, terminator, terminationRequest,
                       receiving>>
    BY <1>3 DEF commitRound, tcpVars
  <2>2. \A h : Waits(h)' <=> Waits(h)
    BY <2>1 DEF Waits
  <2> QED BY <2>1, <2>2
     DEF ServiceInv, TerminationArrives, PartialIsTimed, ListensOnce, InHandler
<1>4. CASE receiveNext
  <2>1. /\ thread = "received" /\ thread' \in {"reconnect", "poll"}
        /\ thread' = "reconnect" => receiving' = FALSE
        /\ thread' = "poll" => receiving' = ~terminationRequest
        /\ UNCHANGED <<ready, timerWait, terminator, terminationRequest>>
    BY <1>4 DEF receiveNext
  <2>2. terminationRequest => terminator # "idle"
    BY DEF ServiceInv
  <2>3. timerWait /\ ~Waits("receive")
    BY <2>1 DEF ServiceInv, InHandler
  <2>4. \A h : Waits(h)' <=> Waits(h)
    BY <2>1 DEF Waits
  <2>5. CASE thread' = "reconnect"
    BY <2>1, <2>2, <2>3, <2>4, <2>5
       DEF ServiceInv, TerminationArrives, PartialIsTimed, ListensOnce, InHandler
  <2>6. CASE thread' = "poll"
    BY <1>0, <2>1, <2>2, <2>3, <2>4, <2>6
       DEF ServiceInv, TerminationArrives, PartialIsTimed, ListensOnce, InHandler
  <2> QED BY <2>1, <2>5, <2>6
<1>5. CASE syncReconnect \/ reconnectFails
  <2>1. /\ thread = "reconnect"
        /\ \/ thread' = "poll" /\ receiving' = TRUE
           \/ thread' \in {"reconnect", "done"} /\ receiving' = receiving
        /\ UNCHANGED <<ready, timerWait, terminator, partial>>
        /\ terminationRequest' => terminationRequest
    BY <1>5 DEF syncReconnect, reconnectFails
  <2>2. \A h : Waits(h)' <=> Waits(h)
    BY <2>1 DEF Waits
  <2>3. timerWait /\ ~receiving /\ ~Waits("receive")
    BY <2>1 DEF ServiceInv, InHandler
  <2> QED BY <2>1, <2>2, <2>3
     DEF ServiceInv, TerminationArrives, PartialIsTimed, ListensOnce, InHandler
<1>6. CASE \/ peerCloses \/ connectionBreaks
           \/ UNCHANGED tcpVars /\ tick
           \/ UNCHANGED vars
  <2>1. UNCHANGED <<ready, timerWait, terminator, thread, partial, receiving,
                    terminationRequest>>
    BY <1>6 DEF peerCloses, connectionBreaks, tick, vars, subscriberVars,
                tcpVars
  <2> QED BY <2>1
     DEF ServiceInv, TerminationArrives, PartialIsTimed, ListensOnce, Waits
<1>7. CASE UNCHANGED tcpVars /\ (requestTermination \/ join)
  <2>1. /\ UNCHANGED <<ready, timerWait, thread, partial, receiving>>
        /\ \/ terminator' = "flagged"
           \/ terminator' = "joined" /\ thread = "done"
    BY <1>7 DEF requestTermination, join, tcpVars
  <2> QED BY <2>1
     DEF ServiceInv, TerminationArrives, PartialIsTimed, ListensOnce, Waits,
         InHandler
<1> QED
  BY <1>1, <1>2, <1>3, <1>4, <1>5, <1>6, <1>7 DEF Next, subscriberStep

(* The handlers stay in order in every behaviour of the subscriber.        *)
THEOREM SubscriberServiceCorrect == Spec => []ServiceInv
<1>1. Init => ServiceInv
  <2> SUFFICES ASSUME Init PROVE ServiceInv
    OBVIOUS
  <2>1. /\ ready = <<>> /\ thread = "poll" /\ terminator = "idle"
        /\ receiving = TRUE /\ partial = <<>> /\ terminationRequest = FALSE
    BY DEF Init, SubscriberInit
  <2>2. Len(ready) = 0 /\ ready \in Seq(Handlers) /\ \A h : ~Waits(h)
    BY <2>1 DEF Waits
  <2> QED BY <2>1, <2>2
     DEF ServiceInv, TerminationArrives, PartialIsTimed, ListensOnce, InHandler
<1> QED BY <1>1, ServicePreserves, SubscriberCorrect, PTL DEF Spec

(* The safety part of TerminateReturns: from the post on, the thread has   *)
(* the handler of the request to execute until it has ended.               *)
THEOREM SubscriberTerminationArrives == Spec => []TerminationArrives
<1>1. ServiceInv => TerminationArrives
  BY DEF ServiceInv
<1> QED BY <1>1, SubscriberServiceCorrect, PTL

(* The safety part of PartialEventFlushed: no partial event is without a   *)
(* timer that will hand it over.                                           *)
THEOREM SubscriberPartialIsTimed == Spec => []PartialIsTimed
<1>1. ServiceInv => PartialIsTimed
  BY DEF ServiceInv
<1> QED BY <1>1, SubscriberServiceCorrect, PTL

(* Whatever happens to its connections, the subscriber listens until it is *)
(* to stop or has ended, with one receive operation at a time.             *)
THEOREM SubscriberListensOnce == Spec => []ListensOnce
<1>1. ServiceInv => ListensOnce
  BY DEF ServiceInv
<1> QED BY <1>1, SubscriberServiceCorrect, PTL

-----------------------------------------------------------------------------
(* The ports take the items of a stream in turn.                           *)

(* The port of an item and the event it belongs to are the remainder and   *)
(* the quotient of its number.                                             *)
LEMMA Turns ==
    ASSUME NEW p \in Nat \ {0}, NEW k \in Nat
    PROVE  /\ k % p \in 0..(p - 1) /\ k \div p \in Nat
           /\ 0 % p = 0 /\ 0 \div p = 0
           /\ (k % p) + 1 < p =>
                (k + 1) % p = (k % p) + 1 /\ (k + 1) \div p = k \div p
           /\ (k % p) + 1 = p =>
                /\ (k + 1) % p = 0 /\ (k + 1) \div p = (k \div p) + 1
                /\ ((k + 1) \div p) * p = k + 1
<1>1. PICK q \in Int : q = k \div p
  OBVIOUS
<1>2. PICK r \in Int : r = k % p
  OBVIOUS
<1>3. k = p * q + r /\ r \in 0..(p - 1) /\ q \in Nat
  BY <1>1, <1>2
<1>4. PICK s \in Int : s = (k + 1) \div p
  OBVIOUS
<1>5. PICK t \in Int : t = (k + 1) % p
  OBVIOUS
<1>6. k + 1 = p * s + t /\ t \in 0..(p - 1) /\ s \in Nat
  BY <1>4, <1>5
<1>7. p * (s - q) = (r + 1) - t
  BY <1>3, <1>6
<1>8. s - q \in {0, 1}
  <2>1. (r + 1) - t \in (1 - (p - 1))..p
    BY <1>3, <1>6
  <2>2. s - q \in Int
    OBVIOUS
  <2>3. PICK d \in Int : d = s - q
    BY <2>2
  <2>4. CASE d >= 2
    <3>1. p * d >= p * 2
      BY <2>4
    <3> QED BY <1>7, <2>1, <2>3, <3>1
  <2>5. CASE d <= -1
    <3>1. p * d <= p * (-1)
      BY <2>5
    <3> QED BY <1>7, <2>1, <2>3, <3>1
  <2> QED BY <2>3, <2>4, <2>5
<1>9. r + 1 < p => s = q /\ t = r + 1
  BY <1>3, <1>6, <1>7, <1>8
<1>10. r + 1 = p => s = q + 1 /\ t = 0 /\ s * p = k + 1
  BY <1>3, <1>6, <1>7, <1>8
<1>11. 0 % p = 0 /\ 0 \div p = 0
  OBVIOUS
<1> QED BY <1>1, <1>2, <1>3, <1>4, <1>5, <1>9, <1>10, <1>11

(* A conversion gives at most one value.                                   *)
LEMMA OneValue ==
    ASSUME NEW dest, NEW v
    PROVE  convert(dest, v) = <<>> \/ \E x : convert(dest, v) = <<x>>
BY DEF convert, convertText

(* What an item adds to an event.                                          *)
LEMMA FilledPort ==
    ASSUME NEW port, NEW item
    PROVE  LET value == convert(Ports[port], Carried(item.asn, item.value))
           IN  \/ value = <<>> /\ Filled(port, item) = <<>>
               \/ \E x : /\ value = <<x>>
                         /\ Filled(port, item) = <<[port |-> port, value |-> x]>>
<1> DEFINE value == convert(Ports[port], Carried(item.asn, item.value))
<1>1. value = <<>> \/ \E x : value = <<x>>
  BY OneValue
<1>2. Filled(port, item) = [j \in DOMAIN value |-> [port |-> port, value |-> value[j]]]
  BY DEF Filled
<1> HIDE DEF value
<1>3. ASSUME value = <<>> PROVE Filled(port, item) = <<>>
  <2>1. DOMAIN value = 1..0
    BY <1>3
  <2>2. [j \in 1..0 |-> [port |-> port, value |-> value[j]]] = <<>>
    OBVIOUS
  <2> QED BY <1>2, <2>1, <2>2, Zenon
<1>4. ASSUME NEW x, value = <<x>>
      PROVE  Filled(port, item) = <<[port |-> port, value |-> x]>>
  BY <1>2, <1>4
<1> QED BY <1>1, <1>3, <1>4 DEF value

(* The variables of the event that the next item belongs to, before it.    *)
VarsBefore(items, k) == IF k % Len(Ports) = 0 THEN <<>> ELSE varsAfter(items)[k]

(* The variables after each item, if some of the items begin a new event.  *)
Collects(f, n, begins, new) ==
    /\ f[0] = <<>>
    /\ \A i \in 1..n : f[i] = (IF begins[i] THEN <<>> ELSE f[i - 1]) \o new[i]

(* Whatever the items add, there are such variables.                       *)
LEMMA Collected ==
    ASSUME NEW V, NEW n \in Nat, NEW new \in [1..n -> Seq(V)], NEW begins
    PROVE  \E f \in [0..n -> Seq(V)] : Collects(f, n, begins, new)
<1>1. PICK T : T = Seq(V)
  OBVIOUS
<1> DEFINE step == [i \in 1..n |->
                      [s \in T |-> (IF begins[i] THEN <<>> ELSE s) \o new[i]]]
<1>2. step \in [1..n -> [T -> T]]
  <2>1. ASSUME NEW i \in 1..n, NEW s \in Seq(V)
        PROVE  (IF begins[i] THEN <<>> ELSE s) \o new[i] \in Seq(V)
    <3>1. new[i] \in Seq(V) /\ (IF begins[i] THEN <<>> ELSE s) \in Seq(V)
      OBVIOUS
    <3> QED BY <3>1
  <2> QED BY <1>1, <2>1
<1>3. PICK first \in T : first = <<>>
  <2>1. <<>> \in Seq(V)
    OBVIOUS
  <2> QED BY <1>1, <2>1
<1>4. PICK f \in [0..n -> T] :
         f[0] = first /\ \A i \in 1..n : f[i] = step[i][f[i - 1]]
  <2> HIDE DEF step
  <2>1. PICK each \in [1..n -> [T -> T]] : each = step
    BY <1>2, Zenon
  <2>2. first \in T
    BY <1>3
  <2>3. \E f : IterationOf(f, T, first, n, each)
    BY <2>2, IterationExists, Zenon
  <2> QED BY <2>1, <2>3 DEF IterationOf
<1>5. ASSUME NEW i \in 1..n
      PROVE  f[i] = (IF begins[i] THEN <<>> ELSE f[i - 1]) \o new[i]
  <2>1. f[i - 1] \in T
    OBVIOUS
  <2> QED BY <1>4, <2>1
<1> HIDE DEF step
<1> QED BY <1>1, <1>3, <1>4, <1>5 DEF Collects

(* The variables of an event grow by what each item adds.                  *)
LEMMA VarsSteps ==
    ASSUME NEW items, Len(items) \in Nat, NEW i \in 1..Len(items)
    PROVE  LET port == ((i - 1) % Len(Ports)) + 1
               value == convert(Ports[port], Carried(items[i].asn, items[i].value))
               before == VarsBefore(items, i - 1)
           IN  /\ value = <<>> => varsAfter(items)[i] = before
               /\ \A x : value = <<x>> =>
                    varsAfter(items)[i] = Append(before, [port |-> port, value |-> x])
<1>1. PICK n \in Nat : n = Len(items)
  OBVIOUS
<1> DEFINE Port(j) == ((j - 1) % Len(Ports)) + 1
<1>2. PICK new : new = [j \in 1..n |-> Filled(Port(j), items[j])]
  OBVIOUS
<1>3. PICK begins : begins = [j \in 1..n |-> (j - 1) % Len(Ports) = 0]
  OBVIOUS
<1>4. PICK S : S = UNION {Range(new[j]) : j \in 1..n}
  OBVIOUS
<1>5. \A j \in 1..n : new[j] = <<>> \/ \E x : new[j] = <<x>>
  BY <1>2, FilledPort
<1>6. new \in [1..n -> Seq(S)]
  <2>1. ASSUME NEW j \in 1..n PROVE new[j] \in Seq(S)
    <3>1. Range(new[j]) \subseteq S
      BY <1>4
    <3>2. ASSUME NEW x, new[j] = <<x>> PROVE new[j] \in Seq(S)
      <4>1. x \in Range(new[j])
        <5>1. DOMAIN <<x>> = {1} /\ <<x>>[1] = x
          OBVIOUS
        <5> QED BY <3>2, <5>1 DEF Range
      <4>2. x \in S
        BY <3>1, <4>1
      <4> QED BY <3>2, <4>2
    <3>3. <<>> \in Seq(S)
      OBVIOUS
    <3> QED BY <1>5, <3>2, <3>3, Zenon
  <2>2. new = [j \in 1..n |-> new[j]]
    BY <1>2
  <2> QED BY <2>1, <2>2
<1>7. PICK f \in [0..n -> Seq(S)] : Collects(f, n, begins, new)
  BY <1>6, Collected, Zenon
<1>8. /\ f[0] = <<>>
      /\ \A j \in 1..n : f[j] = (IF begins[j] THEN <<>> ELSE f[j - 1]) \o new[j]
  BY <1>7 DEF Collects
<1> DEFINE Body(g) == [j \in 0..n |->
                         IF j = 0 THEN <<>>
                         ELSE (IF (j - 1) % Len(Ports) = 0 THEN <<>> ELSE g[j - 1])
                                 \o Filled(((j - 1) % Len(Ports)) + 1, items[j])]
           after == varsAfter(items)
<1>9. f = Body(f)
  <2>1. \A j \in 0..n : f[j] = Body(f)[j]
    <3>1. \A j \in 1..n : f[j] = (IF (j - 1) % Len(Ports) = 0 THEN <<>> ELSE f[j - 1])
                                   \o Filled(((j - 1) % Len(Ports)) + 1, items[j])
      BY <1>2, <1>3, <1>8
    <3>2. ASSUME NEW j \in 1..n PROVE f[j] = Body(f)[j]
      <4>1. j \in 0..n /\ j # 0
        OBVIOUS
      <4>2. Body(f)[j] = (IF (j - 1) % Len(Ports) = 0 THEN <<>> ELSE f[j - 1])
                            \o Filled(((j - 1) % Len(Ports)) + 1, items[j])
        BY <4>1, Zenon
      <4> QED BY <3>1, <4>2, Zenon
    <3>3. f[0] = Body(f)[0]
      BY <1>8
    <3>4. \A j \in 0..n : j = 0 \/ j \in 1..n
      OBVIOUS
    <3> HIDE DEF Body
    <3> QED BY <3>2, <3>3, <3>4
  <2>2. f = [j \in 0..n |-> f[j]] /\ Body(f) = [j \in 0..n |-> Body(f)[j]]
    BY SMT
  <2> HIDE DEF Body
  <2> QED BY <2>1, <2>2
<1>10. after = CHOOSE g : g = Body(g)
  BY <1>1 DEF varsAfter
<1> HIDE DEF after
<1>11. after = Body(after)
  <2> HIDE DEF Body
  <2> QED BY <1>9, <1>10
<1>12. ASSUME NEW j \in 1..n
       PROVE  after[j] = (IF (j - 1) % Len(Ports) = 0 THEN <<>> ELSE after[j - 1])
                            \o new[j]
  <2>1. j \in 0..n /\ j # 0
    OBVIOUS
  <2>2. Body(after)[j] = (IF (j - 1) % Len(Ports) = 0 THEN <<>> ELSE after[j - 1])
                            \o Filled(((j - 1) % Len(Ports)) + 1, items[j])
    BY <2>1, Zenon
  <2>3. new[j] = Filled(((j - 1) % Len(Ports)) + 1, items[j])
    BY <1>2, Zenon
  <2> QED BY <1>11, <2>2, <2>3, Zenon
<1>13. after[0] = <<>>
  <2>1. 0 \in 0..n
    OBVIOUS
  <2>2. Body(after)[0] = <<>>
    BY <2>1, Zenon
  <2> QED BY <1>11, <2>2, Zenon
<1>14. ASSUME NEW j \in 0..n PROVE after[j] \in Seq(S)
  <2> DEFINE T == {k \in 0..n : after[k] \in Seq(S)}
  <2>1. 0 \in T
    <3>1. <<>> \in Seq(S) /\ 0 \in 0..n
      OBVIOUS
    <3> QED BY <1>13, <3>1, Zenon
  <2>2. ASSUME NEW k \in 0..(n - 1), k \in T PROVE k + 1 \in T
    <3>1. PICK m \in 1..n : m = k + 1 /\ m - 1 = k /\ m \in 0..n
      OBVIOUS
    <3>2. PICK prior \in Seq(S) :
             prior = IF (m - 1) % Len(Ports) = 0 THEN <<>> ELSE after[m - 1]
      <4>1. <<>> \in Seq(S) /\ after[m - 1] \in Seq(S)
        BY <2>2, <3>1
      <4> QED BY <4>1, Zenon
    <3>3. PICK more \in Seq(S) : more = new[m]
      <4>1. new[m] \in Seq(S)
        BY <1>6
      <4> QED BY <4>1
    <3>4. after[m] = prior \o more
      BY <1>12, <3>2, <3>3, Zenon
    <3>5. prior \o more \in Seq(S)
      OBVIOUS
    <3> QED BY <3>1, <3>4, <3>5
  <2>3. 0..n \subseteq T
    <3> HIDE DEF T
    <3> QED BY <2>1, <2>2, Induction
  <2> QED BY <2>3
<1>15. PICK before \in Seq(S) : before = VarsBefore(items, i - 1)
  <2>1. <<>> \in Seq(S) /\ i - 1 \in 0..n
    BY <1>1
  <2>2. after[i - 1] \in Seq(S)
    BY <1>14, <2>1
  <2> QED BY <2>1, <2>2, Zenon DEF VarsBefore, after
<1>16. after[i] = before \o Filled(Port(i), items[i])
  <2>1. i \in 1..n
    BY <1>1
  <2>2. new[i] = Filled(Port(i), items[i])
    BY <1>2, <2>1, Zenon
  <2> QED BY <1>12, <1>15, <2>1, <2>2, Zenon DEF VarsBefore, after
<1>17. PICK port : port = Port(i)
  OBVIOUS
<1>18. PICK value : value = convert(Ports[port], Carried(items[i].asn, items[i].value))
  OBVIOUS
<1>19. \/ value = <<>> /\ Filled(port, items[i]) = <<>>
       \/ \E x : /\ value = <<x>>
                 /\ Filled(port, items[i]) = <<[port |-> port, value |-> x]>>
  BY <1>18, FilledPort
<1>20. value = <<>> => after[i] = before
  <2> SUFFICES ASSUME value = <<>> PROVE after[i] = before
    OBVIOUS
  <2>1. Filled(port, items[i]) = <<>>
    BY <1>19
  <2>2. before \o <<>> = before
    BY ConcatEmptySeq
  <2> QED BY <1>16, <1>17, <2>1, <2>2, Zenon
<1>21. ASSUME NEW x, value = <<x>>
       PROVE  after[i] = Append(before, [port |-> port, value |-> x])
  <2>1. PICK y : y = [port |-> port, value |-> x]
    OBVIOUS
  <2>2. Filled(port, items[i]) = <<y>>
    BY <1>19, <1>21, <2>1
  <2>3. after[i] = before \o <<y>>
    BY <1>16, <1>17, <2>2, Zenon
  <2>4. before \o <<y>> = Append(before, y)
    OBVIOUS
  <2> QED BY <2>1, <2>3, <2>4
<1> QED BY <1>15, <1>17, <1>18, <1>20, <1>21, Zenon DEF after

-----------------------------------------------------------------------------
(* A buffer and the item that it begins with.                              *)

(* The tag and the number of bytes behind it, as each type has them.       *)
Shape(tag, body) ==
    \/ tag = LREAL_TAG /\ Len(body) = 8
    \/ tag \in {REAL_TAG, DINT_TAG} /\ Len(body) = 4
    \/ tag \in {BOOL0_TAG, BOOL1_TAG} /\ Len(body) = 0
    \/ /\ tag = STRING_TAG /\ Len(body) >= 2
       /\ Len(body) = 2 + (body[1] * LengthRadix + body[2])

(* An encoding is a tag and the bytes that the tag announces.              *)
LEMMA Shapes ==
    ASSUME NEW asnType, NEW v, Encodable(asnType, v)
    PROVE  \E tag \in Int, body \in Bytes :
              encodeValue(asnType, v) = <<tag>> \o body /\ Shape(tag, body)
<1>1. asnType \in {"LREAL", "REAL", "DINT", "BOOL", "STRING"}
  BY DEF Encodable
<1>2. CASE asnType = "LREAL"
  <2>1. IsValue("Real", v)
    BY <1>2 DEF Encodable
  <2>2. PICK n \in Int32 : v.val = <<n>>
    BY <2>1, NumberValue
  <2>3. PICK tag \in Int : tag = LREAL_TAG
    BY DEF LREAL_TAG
  <2>4. PICK body \in Bytes : body = bigEndian64(n) /\ Len(body) = 8
    BY NumberBytes
  <2>5. encodeValue(asnType, v) = <<tag>> \o body
    BY <1>2, <2>2, <2>3, <2>4 DEF encodeValue, encodeLREALValue
  <2> QED BY <2>3, <2>4, <2>5 DEF Shape
<1>3. CASE asnType = "REAL"
  <2>1. IsValue("Real", v)
    BY <1>3 DEF Encodable
  <2>2. PICK n \in Int32 : v.val = <<n>>
    BY <2>1, NumberValue
  <2>3. PICK tag \in Int : tag = REAL_TAG
    BY DEF REAL_TAG
  <2>4. PICK whole \in Int32 : whole = n \div 2
    BY HalfNumber
  <2>5. PICK body \in Bytes : body = bigEndian32(whole) /\ Len(body) = 4
    BY NumberBytes
  <2>6. encodeValue(asnType, v) = <<tag>> \o body
    BY <1>3, <2>2, <2>3, <2>4, <2>5 DEF encodeValue, encodeREALValue
  <2> QED BY <2>3, <2>5, <2>6 DEF Shape
<1>4. CASE asnType = "DINT"
  <2>1. IsValue("Integer", v)
    BY <1>4 DEF Encodable
  <2>2. PICK n \in Int32 : v.val = <<n>>
    BY <2>1, NumberValue
  <2>3. PICK tag \in Int : tag = DINT_TAG
    BY DEF DINT_TAG
  <2>4. PICK body \in Bytes : body = bigEndian32(n) /\ Len(body) = 4
    BY NumberBytes
  <2>5. encodeValue(asnType, v) = <<tag>> \o body
    BY <1>4, <2>2, <2>3, <2>4 DEF encodeValue, encodeDINTValue
  <2> QED BY <2>3, <2>4, <2>5 DEF Shape
<1>5. CASE asnType = "BOOL"
  <2>1. PICK tag \in Int : tag = IF v.val = <<0>> THEN BOOL0_TAG ELSE BOOL1_TAG
    BY DEF BOOL0_TAG, BOOL1_TAG
  <2>2. <<>> \in Bytes /\ <<tag>> \o <<>> = <<tag>> /\ Len(<<>>) = 0
    BY DEF Bytes
  <2>3. PICK body \in Bytes : body = <<>>
    BY <2>2
  <2>4. encodeValue(asnType, v) = <<tag>> \o body
    BY <1>5, <2>1, <2>2, <2>3 DEF encodeValue, encodeBOOLValue
  <2> QED BY <2>1, <2>2, <2>3, <2>4 DEF Shape
<1>6. CASE asnType = "STRING"
  <2>1. IsValue("String", v)
    BY <1>6 DEF Encodable
  <2>2. v.val \in Seq(0..255)
    BY <2>1 DEF IsValue
  <2>3. v.val \in Bytes /\ Len(v.val) \in Nat
    <3>1. 0..255 \subseteq Int
      OBVIOUS
    <3>2. Seq(0..255) \subseteq Seq(Int)
      BY <3>1, SeqMonotonic
    <3> QED BY <2>2, <3>2 DEF Bytes
  <2>4. PICK size : size = Len(v.val) % (LengthRadix * LengthRadix)
    OBVIOUS
  <2>5. PICK q : q = size \div LengthRadix
    OBVIOUS
  <2>6. PICK e : e = size % LengthRadix
    OBVIOUS
  <2>7. /\ size \in 0..Len(v.val) /\ q \in Nat /\ e \in Nat
        /\ q * LengthRadix + e = size
    BY <2>3, <2>4, <2>5, <2>6, Cut, LengthRadixAssumption
  <2>8. PICK text \in Bytes : text = SubSeq(v.val, 1, size) /\ Len(text) = size
    <3>1. SubSeq(v.val, 1, size) \in Bytes /\ Len(SubSeq(v.val, 1, size)) = size
      BY <2>3, <2>7 DEF Bytes
    <3> QED BY <3>1
  <2>9. PICK tag \in Int : tag = STRING_TAG
    BY DEF STRING_TAG
  <2>10. /\ <<q, e>> \o text \in Bytes
         /\ <<tag, q, e>> \o text = <<tag>> \o (<<q, e>> \o text)
    BY <2>7, <2>8 DEF Bytes
  <2>11. PICK body \in Bytes : body = <<q, e>> \o text
    BY <2>10
  <2>12. Len(body) = 2 + size /\ body[1] = q /\ body[2] = e
    BY <2>7, <2>8, <2>11 DEF Bytes
  <2>13. encodeValue(asnType, v) = <<tag, q, e>> \o text
    BY <1>6, <2>4, <2>5, <2>6, <2>8, <2>9 DEF encodeValue, encodeSTRINGValue
  <2>14. encodeValue(asnType, v) = <<tag>> \o body
    BY <2>10, <2>11, <2>13
  <2>15. Len(body) >= 2 /\ Len(body) = 2 + (body[1] * LengthRadix + body[2])
    BY <2>7, <2>12
  <2> QED BY <2>9, <2>14, <2>15 DEF Shape
<1> QED BY <1>1, <1>2, <1>3, <1>4, <1>5, <1>6

(* A buffer that ends within a value is reported as incomplete.            *)
LEMMA Shortened ==
    ASSUME NEW tag \in Int, NEW body \in Bytes, Shape(tag, body),
           NEW part \in Bytes, part # <<>>, Len(part) < 1 + Len(body),
           part[1] = tag, \A i \in 2..Len(part) : part[i] = body[i - 1],
           NEW dest
    PROVE  readNextVariable(dest, part).state = "Incomplete"
<1>1. Len(part) \in Nat \ {0} /\ Head(part) = tag /\ Len(body) \in Nat
  BY DEF Bytes
<1>2. /\ Incomplete(part).state = "Incomplete"
      /\ readAndConvertVariable(dest, Incomplete(part)) = Incomplete(part)
  BY DEF Incomplete, Parsed, readAndConvertVariable
<1>3. CASE tag = LREAL_TAG /\ Len(body) = 8
  <2>1. readXREALVariable(part, 8, 1) = Incomplete(part)
    BY <1>1, <1>3 DEF readXREALVariable
  <2> QED BY <1>1, <1>2, <1>3, <2>1, Readers
<1>4. CASE tag = REAL_TAG /\ Len(body) = 4
  <2>1. readXREALVariable(part, 4, 2) = Incomplete(part)
    BY <1>1, <1>4 DEF readXREALVariable
  <2> QED BY <1>1, <1>2, <1>4, <2>1, Readers
<1>5. CASE tag = DINT_TAG /\ Len(body) = 4
  <2>1. readXINTVariable(part, 4) = Incomplete(part)
    BY <1>1, <1>5 DEF readXINTVariable
  <2> QED BY <1>1, <1>2, <1>5, <2>1, Readers
<1>6. CASE Len(body) = 0
  BY <1>1, <1>6
<1>7. CASE /\ tag = STRING_TAG /\ Len(body) >= 2
           /\ Len(body) = 2 + (body[1] * LengthRadix + body[2])
  <2>1. readSTRINGVariable(part) = Incomplete(part)
    <3>1. CASE Len(part) < 3
      BY <3>1 DEF readSTRINGVariable
    <3>2. CASE ~(Len(part) < 3)
      <4>1. 2 \in 2..Len(part) /\ 3 \in 2..Len(part) /\ 2 - 1 = 1 /\ 3 - 1 = 2
        BY <1>1, <3>2
      <4>2. part[2] = body[1] /\ part[3] = body[2]
        BY <4>1
      <4>3. PICK length : length = part[2] * LengthRadix + part[3]
        OBVIOUS
      <4>4. Len(body) = 2 + length /\ length \in Int
        <5>1. /\ body[1] \in Int /\ body[2] \in Int
          BY <1>7 DEF Bytes
        <5> QED BY <1>7, <4>2, <4>3, <5>1, LengthRadixAssumption
      <4>5. Len(part) < 3 + length
        BY <1>1, <4>4
      <4> QED BY <3>2, <4>3, <4>5 DEF readSTRINGVariable
    <3> QED BY <3>1, <3>2
  <2> QED BY <1>1, <1>2, <1>7, <2>1, Readers
<1> QED BY <1>3, <1>4, <1>5, <1>6, <1>7 DEF Shape

(* Either the buffer holds the whole encoding, or it ends within it.       *)
Divided(buffer, ahead, enc, rest) ==
    \/ \E left \in Bytes : buffer = enc \o left /\ left \o ahead = rest
    \/ /\ Len(buffer) < Len(enc)
       /\ \A i \in 1..Len(buffer) : buffer[i] = enc[i]

(* A buffer and what follows it, of which one encoding comes first.        *)
LEMMA Split ==
    ASSUME NEW buffer \in Bytes, NEW ahead \in Bytes, NEW enc \in Bytes,
           NEW rest \in Bytes, buffer \o ahead = enc \o rest
    PROVE  Divided(buffer, ahead, enc, rest)
<1>1. /\ Len(buffer) \in Nat /\ Len(enc) \in Nat
      /\ \A i \in 1..Len(buffer) : (buffer \o ahead)[i] = buffer[i]
      /\ \A i \in 1..Len(enc) : (enc \o rest)[i] = enc[i]
  BY Joined
<1>2. CASE Len(buffer) < Len(enc)
  <2>1. \A i \in 1..Len(buffer) : buffer[i] = enc[i]
    BY <1>1, <1>2
  <2> QED BY <1>2, <2>1 DEF Divided
<1>3. CASE Len(enc) <= Len(buffer)
  <2>1. PICK left \in Bytes :
           /\ Len(left) = Len(buffer) - Len(enc)
           /\ \A i \in 1..Len(left) : left[i] = buffer[Len(enc) + i]
    <3>1. PICK m \in Nat : m = Len(enc) + 1
      BY <1>1
    <3>2. 1 <= m /\ m <= Len(buffer) + 1 /\ Len(buffer) <= Len(buffer)
      BY <1>1, <1>3, <3>1
    <3>3. /\ SubSeq(buffer, m, Len(buffer)) \in Bytes
          /\ Len(SubSeq(buffer, m, Len(buffer))) = Len(buffer) + 1 - m
          /\ \A i \in 1..(Len(buffer) + 1 - m) :
                SubSeq(buffer, m, Len(buffer))[i] = buffer[m + i - 1]
      BY <1>1, <3>2, Part
    <3>4. Len(buffer) + 1 - m = Len(buffer) - Len(enc)
      BY <1>1, <3>1
    <3>5. \A i \in 1..(Len(buffer) - Len(enc)) : m + i - 1 = Len(enc) + i
      BY <1>1, <3>1
    <3> QED BY <3>3, <3>4, <3>5
  <2>2. /\ enc \o left \in Bytes /\ Len(enc \o left) = Len(enc) + Len(left)
        /\ \A i \in 1..Len(enc) : (enc \o left)[i] = enc[i]
        /\ \A i \in 1..Len(left) : (enc \o left)[Len(enc) + i] = left[i]
    BY Joined
  <2>3. ASSUME NEW i \in 1..Len(buffer) PROVE buffer[i] = (enc \o left)[i]
    <3>1. CASE i \in 1..Len(enc)
      BY <1>1, <2>2, <3>1
    <3>2. CASE i \notin 1..Len(enc)
      <4>1. PICK j \in 1..Len(left) : i = Len(enc) + j
        <5>1. i - Len(enc) \in 1..Len(left) /\ i = Len(enc) + (i - Len(enc))
          BY <1>1, <2>1, <3>2
        <5> QED BY <5>1
      <4> QED BY <2>1, <2>2, <4>1
    <3> QED BY <3>1, <3>2
  <2>4. buffer = enc \o left
    <3>1. Len(buffer) = Len(enc \o left)
      BY <1>1, <2>1, <2>2
    <3> QED BY <2>2, <2>3, <3>1, SameBytes
  <2>5. enc \o (left \o ahead) = enc \o rest
    BY <2>4, Associative
  <2>6. PICK joined \in Bytes : joined = left \o ahead
    BY Joined
  <2>7. joined = rest
    <3>1. /\ SubSeq(enc \o joined, Len(enc) + 1, Len(enc \o joined)) = joined
          /\ SubSeq(enc \o rest, Len(enc) + 1, Len(enc \o rest)) = rest
      BY Prefixed
    <3>2. enc \o joined = enc \o rest
      BY <2>5, <2>6, Zenon
    <3> QED BY <3>1, <3>2, Zenon
  <2> QED BY <2>4, <2>6, <2>7 DEF Divided
<1>4. Len(buffer) < Len(enc) \/ Len(enc) <= Len(buffer)
  BY <1>1
<1> QED BY <1>2, <1>3, <1>4, Zenon

-----------------------------------------------------------------------------
(* What is left of a stream behind each of its items.                      *)
IsRemainder(stream, rest) ==
    /\ rest \in [0..Len(stream.items) -> Bytes]
    /\ rest[0] = StreamBytes(stream)
    /\ \A i \in 1..Len(stream.items) :
          rest[i - 1] = encodeValue(stream.items[i].asn, stream.items[i].value)
                            \o rest[i]

Remainder(stream) == CHOOSE rest : IsRemainder(stream, rest)

(* The items of a stream can be encoded.                                   *)
LEMMA StreamItems ==
    ASSUME NEW stream \in Streams
    PROVE  /\ Len(stream.items) \in Nat /\ DOMAIN stream.items = 1..Len(stream.items)
           /\ stream.junk \in Bytes
           /\ \A i \in 1..Len(stream.items) :
                 Encodable(stream.items[i].asn, stream.items[i].value)
<1>1. /\ stream.items \in Seq(Range(stream.items))
      /\ \A i \in DOMAIN stream.items :
            Encodable(stream.items[i].asn, stream.items[i].value)
      /\ stream.junk \in Seq(0..255)
  BY StreamsAssumption
<1>2. Len(stream.items) \in Nat /\ DOMAIN stream.items = 1..Len(stream.items)
  BY <1>1
<1>3. stream.junk \in Bytes
  <2>1. 0..255 \subseteq Int
    OBVIOUS
  <2>2. Seq(0..255) \subseteq Seq(Int)
    BY <2>1, SeqMonotonic
  <2> QED BY <1>1, <2>2 DEF Bytes
<1> QED BY <1>1, <1>2, <1>3

(* Every stream falls into the encodings of its items.                     *)
LEMMA StreamRemainder ==
    ASSUME NEW stream \in Streams
    PROVE  IsRemainder(stream, Remainder(stream))
<1> SUFFICES \E rest : IsRemainder(stream, rest)
  BY DEF Remainder
<1>1. PICK n \in Nat : n = Len(stream.items)
  BY StreamItems
<1>2. DOMAIN stream.items = 1..n /\ stream.junk \in Bytes
  BY <1>1, StreamItems
<1>3. PICK junk \in Bytes : junk = stream.junk
  BY <1>2
<1>4. PICK types : types = [i \in 1..n |-> stream.items[i].asn]
  OBVIOUS
<1>5. PICK values : values = [i \in 1..n |-> stream.items[i].value]
  OBVIOUS
<1>6. Len(values) = n
  BY <1>5
<1>7. PICK enc : enc = [i \in 1..n |-> encodeValue(types[i], values[i])]
  OBVIOUS
<1>8. \A i \in 1..n : encodeValue(types[i], values[i]) \in Bytes
  <2>1. \A i \in 1..n : Encodable(types[i], values[i])
    BY <1>1, <1>4, <1>5, StreamItems
  <2> QED BY <1>3, <2>1, CodecRoundTrip DEF RoundTrip
<1>9. /\ enc \in [1..n -> Bytes]
      /\ \A i \in 1..n : encodeValue(types[i], values[i]) = enc[i]
  BY <1>7, <1>8
<1>10. PICK buffer : buffer = bufferAfter(types, values)
  OBVIOUS
<1>11. /\ buffer \in [0..n -> Bytes] /\ buffer[0] = <<>>
       /\ \A i \in 1..n : buffer[i] = buffer[i - 1] \o enc[i]
  <2>1. /\ Len(values) \in Nat
        /\ \A i \in 1..Len(values) : encodeValue(types[i], values[i]) \in Bytes
    BY <1>6, <1>8
  <2>2. /\ buffer \in [0..Len(values) -> Bytes] /\ buffer[0] = <<>>
        /\ \A i \in 1..Len(values) :
              buffer[i] = buffer[i - 1] \o encodeValue(types[i], values[i])
    BY <1>10, <2>1, BufferSteps, Zenon
  <2> QED BY <1>6, <1>9, <2>2
<1>12. PICK rest \in [0..n -> Bytes] :
          /\ rest[0] = buffer[n] \o junk
          /\ rest[n] = junk
          /\ \A i \in 1..n : rest[i - 1] = enc[i] \o rest[i]
  BY <1>9, <1>11, Remainders
<1>13. StreamBytes(stream) = buffer[n] \o junk
  <2>1. Encoded(stream.items) = encodeASN1OutputVariables(types, values)
    BY <1>2, <1>4, <1>5 DEF Encoded
  <2> QED BY <1>3, <1>6, <1>10, <2>1 DEF StreamBytes, encodeASN1OutputVariables
<1>14. \A i \in 1..n : enc[i] = encodeValue(stream.items[i].asn, stream.items[i].value)
  BY <1>4, <1>5, <1>7
<1>15. IsRemainder(stream, rest)
  BY <1>1, <1>12, <1>13, <1>14 DEF IsRemainder
<1> QED BY <1>15

(* The buffer starts with the item behind the k-th one.                    *)
BufferAt(stream, k, buffer, ahead) ==
    /\ k < Len(stream.items)
    /\ buffer # <<>>
    /\ buffer \o ahead = Remainder(stream)[k]

(* Reading it finds a part of the item, or the item as it was sent.        *)
ItemRead(stream, k, ahead, dest, read) ==
    LET item == stream.items[k + 1]
        value == convert(dest, Carried(item.asn, item.value))
    IN  \/ read.state = "Incomplete" /\ ahead # <<>>
        \/ /\ read.rest \in Bytes
           /\ read.rest \o ahead = Remainder(stream)[k + 1]
           /\ \/ value = <<>> /\ read.state = "TypeConversionError"
              \/ \E x : value = <<x>> /\ read.state = "Ok" /\ read.value = x

(* readNextVariable() at the beginning of an item.                         *)
LEMMA NextRead ==
    ASSUME NEW stream \in Streams, NEW k \in Nat, NEW buffer \in Bytes,
           NEW ahead \in Bytes, BufferAt(stream, k, buffer, ahead), NEW dest
    PROVE  ItemRead(stream, k, ahead, dest, readNextVariable(dest, buffer))
<1>1. /\ k < Len(stream.items) /\ buffer # <<>>
      /\ buffer \o ahead = Remainder(stream)[k]
  BY DEF BufferAt
<1>2. PICK n \in Nat : n = Len(stream.items)
  BY StreamItems
<1>3. PICK i \in 1..n : i = k + 1 /\ i - 1 = k
  <2>1. k + 1 \in 1..n /\ (k + 1) - 1 = k
    BY <1>1, <1>2
  <2> QED BY <2>1
<1>4. PICK asn : asn = stream.items[i].asn
  OBVIOUS
<1>5. PICK v : v = stream.items[i].value
  OBVIOUS
<1>6. Encodable(asn, v)
  BY <1>2, <1>4, <1>5, StreamItems
<1>7. PICK rest \in Bytes : rest = Remainder(stream)[i]
  <2>1. IsRemainder(stream, Remainder(stream))
    BY StreamRemainder
  <2>2. Remainder(stream) \in [0..n -> Bytes]
    BY <1>2, <2>1, Zenon DEF IsRemainder
  <2>3. i \in 0..n
    OBVIOUS
  <2> QED BY <2>2, <2>3
<1>8. PICK enc \in Bytes : enc = encodeValue(asn, v)
  BY <1>6, <1>7, CodecRoundTrip DEF RoundTrip
<1>9. buffer \o ahead = enc \o rest
  <2>1. Remainder(stream)[i - 1] = encodeValue(asn, v) \o Remainder(stream)[i]
    BY <1>2, <1>4, <1>5, StreamRemainder DEF IsRemainder
  <2> QED BY <1>1, <1>3, <1>7, <1>8, <2>1, Zenon
<1>10. PICK read : read = readNextVariable(dest, buffer)
  OBVIOUS
<1>11. PICK carried : carried = Carried(asn, v)
  OBVIOUS
<1>12. PICK value : value = convert(dest, carried)
  OBVIOUS
<1>13. ASSUME NEW left \in Bytes, buffer = enc \o left, left \o ahead = rest
       PROVE  /\ read.rest = left
              /\ \/ value = <<>> /\ read.state = "TypeConversionError"
                 \/ \E x : value = <<x>> /\ read.state = "Ok" /\ read.value = x
  <2>1. read = readAndConvertVariable(dest, Parsed("Ok", carried, left))
    BY <1>6, <1>8, <1>10, <1>11, <1>13, CodecRoundTrip DEF RoundTrip
  <2>2. PICK parsed : parsed = Parsed("Ok", carried, left)
    OBVIOUS
  <2>3. /\ parsed.state = "Ok" /\ parsed.value = carried /\ parsed.rest = left
        /\ parsed = [state |-> "Ok", value |-> carried, rest |-> left]
    BY <2>2 DEF Parsed
  <2>4. value = <<>> \/ \E x : value = <<x>>
    BY <1>12, OneValue
  <2>5. CASE value = <<>>
    <3>1. read = [parsed EXCEPT !.state = "TypeConversionError"]
      BY <1>12, <2>1, <2>2, <2>3, <2>5 DEF readAndConvertVariable
    <3> QED BY <2>3, <2>5, <3>1
  <2>6. ASSUME NEW x, value = <<x>>
        PROVE  read.rest = left /\ read.state = "Ok" /\ read.value = x
    <3>1. value # <<>> /\ Head(value) = x
      BY <2>6
    <3>2. read = [parsed EXCEPT !.value = x]
      BY <1>12, <2>1, <2>2, <2>3, <3>1 DEF readAndConvertVariable
    <3> QED BY <2>3, <3>2
  <2> QED BY <2>4, <2>5, <2>6
<1>14. ASSUME Len(buffer) < Len(enc), \A j \in 1..Len(buffer) : buffer[j] = enc[j]
       PROVE  read.state = "Incomplete" /\ ahead # <<>>
  <2>1. PICK tag \in Int, body \in Bytes : enc = <<tag>> \o body /\ Shape(tag, body)
    BY <1>6, <1>8, Shapes
  <2>2. /\ Len(enc) = 1 + Len(body) /\ enc[1] = tag /\ Len(body) \in Nat
        /\ \A j \in 2..Len(enc) : enc[j] = body[j - 1]
    BY <2>1 DEF Bytes
  <2>3. Len(buffer) \in Nat \ {0}
    BY <1>1 DEF Bytes
  <2>4. /\ buffer[1] = tag
        /\ \A j \in 2..Len(buffer) : buffer[j] = body[j - 1]
    BY <1>14, <2>2, <2>3
  <2>5. Len(buffer) < 1 + Len(body)
    BY <1>14, <2>2
  <2>6. read.state = "Incomplete"
    BY <1>1, <1>10, <2>1, <2>4, <2>5, Shortened
  <2>7. ahead # <<>>
    <3>1. /\ Len(buffer \o ahead) = Len(buffer) + Len(ahead)
          /\ Len(enc \o rest) = Len(enc) + Len(rest) /\ Len(rest) \in Nat
      BY Joined
    <3>2. Len(ahead) > 0
      BY <1>9, <1>14, <2>2, <2>3, <3>1
    <3> QED BY <3>2
  <2> QED BY <2>6, <2>7
<1>15. \/ \E left \in Bytes : buffer = enc \o left /\ left \o ahead = rest
       \/ /\ Len(buffer) < Len(enc)
          /\ \A j \in 1..Len(buffer) : buffer[j] = enc[j]
  <2>1. Divided(buffer, ahead, enc, rest)
    BY <1>9, Split, Zenon
  <2> QED BY <2>1, Zenon DEF Divided
<1>16. \/ read.state = "Incomplete" /\ ahead # <<>>
       \/ /\ read.rest \in Bytes /\ read.rest \o ahead = rest
          /\ \/ value = <<>> /\ read.state = "TypeConversionError"
             \/ \E x : value = <<x>> /\ read.state = "Ok" /\ read.value = x
  BY <1>13, <1>14, <1>15, Zenon
<1> QED BY <1>3, <1>4, <1>5, <1>7, <1>10, <1>11, <1>12, <1>16, Zenon DEF ItemRead

(* The buffer and the event at the beginning of an item.                   *)
AtItem(stream, k, buffer, ahead, event) ==
    /\ BufferAt(stream, k, buffer, ahead)
    /\ event = [time |-> event.time, vars |-> event.vars, next |-> event.next]
    /\ event.next = (k % Len(Ports)) + 1
    /\ event.vars = VarsBefore(stream.items, k)

(* The event takes what the item adds to it, or waits for the rest of it.  *)
ItemTaken(stream, k, ahead, event, result) ==
    \/ result.state = "Incomplete"
    \/ /\ result.state \in {"Ok", "TypeConversionError"}
       /\ result.raw \in Bytes
       /\ result.raw \o ahead = Remainder(stream)[k + 1]
       /\ result.event.vars = varsAfter(stream.items)[k + 1]
       /\ result.event.next = event.next + 1

(* One round of commitData() at the beginning of an item.                  *)
LEMMA NextRound ==
    ASSUME NEW stream \in Streams, NEW k \in Nat, NEW buffer \in Bytes,
           NEW ahead \in Bytes, NEW event, AtItem(stream, k, buffer, ahead, event)
    PROVE  ItemTaken(stream, k, ahead, event, processRawDataToEvent(buffer, event))
<1>1. /\ BufferAt(stream, k, buffer, ahead) /\ k < Len(stream.items)
      /\ event = [time |-> event.time, vars |-> event.vars, next |-> event.next]
      /\ event.next = (k % Len(Ports)) + 1
      /\ event.vars = VarsBefore(stream.items, k)
  BY DEF AtItem, BufferAt
<1>2. PICK port : port = event.next
  OBVIOUS
<1>3. PICK read : read = readNextVariable(Ports[port], buffer)
  OBVIOUS
<1>4. PICK value : value = convert(Ports[port], Carried(stream.items[k + 1].asn,
                                                       stream.items[k + 1].value))
  OBVIOUS
<1>5. \/ read.state = "Incomplete" /\ ahead # <<>>
      \/ /\ read.rest \in Bytes
         /\ read.rest \o ahead = Remainder(stream)[k + 1]
         /\ \/ value = <<>> /\ read.state = "TypeConversionError"
            \/ \E x : value = <<x>> /\ read.state = "Ok" /\ read.value = x
  <2>1. PICK dest : dest = Ports[port]
    OBVIOUS
  <2>2. ItemRead(stream, k, ahead, dest, readNextVariable(dest, buffer))
    BY <1>1, NextRead, Zenon
  <2> QED BY <1>3, <1>4, <2>1, <2>2, Zenon DEF ItemRead
<1>6. PICK result : result = processRawDataToEvent(buffer, event)
  OBVIOUS
<1>7. /\ result.state = read.state /\ result.raw = read.rest
      /\ read.state = "Ok" => result.event = pushNextValue(event, read.value)
      /\ read.state = "TypeConversionError" =>
            result.event = ignoreNextValue(event)
  BY <1>2, <1>3, <1>6 DEF processRawDataToEvent
<1>8. /\ value = <<>> => varsAfter(stream.items)[k + 1] = event.vars
      /\ \A x : value = <<x>> =>
            varsAfter(stream.items)[k + 1]
              = Append(event.vars, [port |-> port, value |-> x])
  <2>1. PICK n \in Nat : n = Len(stream.items)
    BY StreamItems
  <2>2. PICK i \in 1..n : i = k + 1 /\ i - 1 = k
    <3>1. k + 1 \in 1..n /\ (k + 1) - 1 = k
      BY <1>1, <2>1
    <3> QED BY <3>1
  <2>3. PICK items : items = stream.items
    OBVIOUS
  <2>4. Len(items) \in Nat /\ i \in 1..Len(items)
    BY <2>1, <2>3
  <2>5. LET at == ((i - 1) % Len(Ports)) + 1
            new == convert(Ports[at], Carried(items[i].asn, items[i].value))
            before == VarsBefore(items, i - 1)
        IN  /\ new = <<>> => varsAfter(items)[i] = before
            /\ \A x : new = <<x>> =>
                 varsAfter(items)[i] = Append(before, [port |-> at, value |-> x])
    BY <2>4, VarsSteps, Zenon
  <2>6. ((i - 1) % Len(Ports)) + 1 = port
    BY <1>1, <1>2, <2>2, Zenon
  <2> QED BY <1>1, <1>4, <2>2, <2>3, <2>5, <2>6, Zenon
<1>9. ASSUME read.state = "TypeConversionError", value = <<>>
      PROVE  /\ result.event.vars = varsAfter(stream.items)[k + 1]
             /\ result.event.next = event.next + 1
  <2>1. result.event = [event EXCEPT !.next = @ + 1]
    BY <1>7, <1>9 DEF ignoreNextValue
  <2>2. result.event.vars = event.vars /\ result.event.next = event.next + 1
    BY <2>1
  <2> QED BY <1>8, <1>9, <2>2, Zenon
<1>10. ASSUME NEW x, read.state = "Ok", read.value = x, value = <<x>>
      PROVE  /\ result.event.vars = varsAfter(stream.items)[k + 1]
             /\ result.event.next = event.next + 1
  <2>1. result.event = pushNextValue(event, x)
    BY <1>7, <1>10
  <2>2. PICK w : w = Append(event.vars, [port |-> port, value |-> x])
    OBVIOUS
  <2>3. result.event = [event EXCEPT !.vars = w, !.next = event.next + 1]
    BY <1>2, <2>1, <2>2 DEF pushNextValue
  <2>4. result.event.vars = w /\ result.event.next = event.next + 1
    BY <2>3
  <2> QED BY <1>8, <1>10, <2>2, <2>4, Zenon
<1>11. ItemTaken(stream, k, ahead, event, result)
  BY <1>5, <1>7, <1>9, <1>10, Zenon DEF ItemTaken
<1> QED BY <1>6, <1>11, Zenon

-----------------------------------------------------------------------------
(* The bytes between the peer and the events.                              *)

(* The buffer of the receive operations holds nothing while one is pending *)
(* or the last one's bytes are dealt with, and a time-out leaves a mark.   *)
LinkInv ==
    /\ completion = [error |-> completion.error, bytes |-> completion.bytes]
    /\ receiving \/ thread \in InHandler => completion.bytes = <<>>
    /\ source \in Streams
    /\ connections \in Nat \ {0}
    /\ lastRestart \in Nat /\ lastRestart <= now
    /\ flushed \in Nat \cup {-1}

(* So does the reason for a new connection.                                *)
ReconnectReason ==
    thread = "reconnect" => conn = "closed" \/ completion.error # "none"

(* Bytes are lost with the end of the stream only, and leave a mark, too.  *)
LossSeen(lost) ==
    lost # <<>> => wire = <<>> /\ (conn = "reset" \/ completion.error # "none")

(* Every item up to the k-th is in the events and in the partial one, and  *)
(* the bytes on their way begin with the next item.  A connection that     *)
(* breaks loses the last of them.                                          *)
Reading(k) ==
    /\ k \in Nat /\ k < Len(source.items)
    /\ emitted.count = k \div Len(Ports)
    /\ partial = <<>> => k % Len(Ports) = 0
    /\ partial # <<>> => /\ partial[1].next = (k % Len(Ports)) + 1
                         /\ partial[1].vars = VarsBefore(source.items, k)
    /\ raw \in Bytes /\ completion.bytes \in Bytes /\ wire \in Bytes
    /\ \E lost \in Bytes :
          /\ raw \o (completion.bytes \o (wire \o lost)) = Remainder(source)[k]
          /\ LossSeen(lost)

(* The last event is the one that was sent at its place.                   *)
LastDelivered ==
    emitted.count \in 1..(Len(source.items) \div Len(Ports)) =>
        emitted.last.vars = varsAfter(source.items)[emitted.count * Len(Ports)]

AllDelivered == emitted.count >= Len(source.items) \div Len(Ports)

StreamInv ==
    /\ LinkInv
    /\ ReconnectReason
    /\ connections = 1 /\ flushed = -1 =>
          /\ LastDelivered
          /\ AllDelivered \/ thread = "done" \/ \E k : Reading(k)

(* The steps keep the link in order, and a second connection or a time-out *)
(* is not forgotten.                                                       *)
LEMMA LinkPreserves ==
    ASSUME SubscriberInv, LinkInv, [Next]_vars
    PROVE  /\ LinkInv'
           /\ connections' = 1 => connections = 1
           /\ flushed' = -1 =>
                /\ flushed = -1
                /\ handlePacketTimeout => UNCHANGED <<raw, partial, emitted>>
           /\ UNCHANGED source
<1>1. now \in Nat
  BY DEF SubscriberInv, EventsInv
<1>2. CASE handleReceive
  <2>1. /\ completion' = [completion EXCEPT !.bytes = <<>>]
        /\ lastRestart' = now /\ thread = "poll" /\ thread' = "commit"
        /\ UNCHANGED <<now, flushed, connections, source, emitted, partial>>
    BY <1>2 DEF handleReceive, commitData, restartPacketTimer, nextHandler
  <2>2. /\ completion'.bytes = <<>>
        /\ completion' = [error |-> completion'.error, bytes |-> completion'.bytes]
    BY <2>1 DEF LinkInv
  <2>3. ~handlePacketTimeout
    BY <2>1 DEF handlePacketTimeout
  <2> QED BY <1>1, <2>1, <2>2, <2>3 DEF LinkInv
<1>3. CASE UNCHANGED tcpVars /\ commitRound
  <2>1. /\ thread = "commit" /\ thread' \in InHandler
        /\ UNCHANGED <<now, flushed, connections, source, completion, receiving,
                       lastRestart>>
    BY <1>3 DEF commitRound, tcpVars, InHandler
  <2>2. ~handlePacketTimeout
    BY <2>1 DEF handlePacketTimeout, nextHandler
  <2> QED BY <2>1, <2>2 DEF LinkInv, InHandler
<1>4. CASE UNCHANGED tcpVars /\ handlePacketTimeout
  <2>1. /\ UNCHANGED <<now, connections, source, completion, receiving,
                       lastRestart, thread>>
        /\ \/ UNCHANGED <<raw, partial, emitted, flushed>>
           \/ flushed' = now - lastRestart
    BY <1>4 DEF handlePacketTimeout, tcpVars
  <2>2. now - lastRestart \in Nat
    BY <1>1 DEF LinkInv
  <2>3. CASE UNCHANGED <<raw, partial, emitted, flushed>>
    BY <2>1, <2>3 DEF LinkInv
  <2>4. CASE flushed' = now - lastRestart
    BY <2>1, <2>2, <2>4 DEF LinkInv
  <2> QED BY <2>1, <2>3, <2>4
<1>5. CASE receiveNext \/ syncReconnect \/ reconnectFails
  <2>1. /\ thread \in InHandler
        /\ UNCHANGED <<now, flushed, source, completion, lastRestart>>
        /\ connections' \in {connections, connections + 1}
    BY <1>5 DEF receiveNext, syncReconnect, reconnectFails, syncConnect, InHandler
  <2>2. ~handlePacketTimeout
    BY <2>1 DEF handlePacketTimeout, nextHandler, InHandler
  <2>3. completion.bytes = <<>>
    BY <2>1 DEF LinkInv
  <2> QED BY <2>1, <2>2, <2>3 DEF LinkInv
<1>6. CASE terminateConnection
  <2>1. /\ receiving' = FALSE /\ thread' = "done" /\ thread = "poll"
        /\ UNCHANGED <<now, flushed, connections, source, completion, lastRestart>>
    BY <1>6 DEF terminateConnection, handleTermination, nextHandler
  <2>2. ~handlePacketTimeout
    BY <2>1 DEF handlePacketTimeout
  <2> QED BY <2>1, <2>2 DEF LinkInv, InHandler
<1>7. CASE receiveCompletes
  <2>1. /\ thread = "poll" /\ thread' = thread /\ receiving' = FALSE
        /\ \E e, b : completion' = [error |-> e, bytes |-> b]
        /\ UNCHANGED <<now, flushed, connections, source, lastRestart, raw,
                       partial, emitted>>
    BY <1>7 DEF receiveCompletes
  <2>2. completion' = [error |-> completion'.error, bytes |-> completion'.bytes]
    BY <2>1
  <2> QED BY <2>1, <2>2 DEF LinkInv, InHandler
<1>8. CASE \/ peerCloses \/ connectionBreaks
           \/ UNCHANGED tcpVars /\ (\/ timerExpires \/ tick \/ join
                                    \/ requestTermination \/ postTermination)
           \/ UNCHANGED vars
  <2>1. /\ UNCHANGED <<thread, receiving, completion, flushed, connections,
                       source, lastRestart, raw, partial, emitted>>
        /\ now' \in {now, now + 1}
    BY <1>8 DEF peerCloses, connectionBreaks, timerExpires, tick, join,
                requestTermination, postTermination, vars, subscriberVars, tcpVars
  <2> QED BY <1>1, <2>1 DEF LinkInv
<1> QED
  BY <1>2, <1>3, <1>4, <1>5, <1>6, <1>7, <1>8 DEF Next, subscriberStep

(* syncReconnect() is entered with a closed socket or behind an error, and *)
(* left with the first socket that is open.                                *)
LEMMA ReasonPreserves ==
    ASSUME ReconnectReason, [Next]_vars
    PROVE  ReconnectReason'
<1>1. CASE receiveNext
  BY <1>1 DEF receiveNext, reconnects, isOpen, ReconnectReason
<1>2. CASE syncReconnect
  BY <1>2 DEF syncReconnect, isOpen, ReconnectReason
<1>3. CASE \/ handleReceive \/ reconnectFails \/ terminateConnection
           \/ receiveCompletes
           \/ UNCHANGED tcpVars /\ (commitRound \/ handlePacketTimeout)
  <2>1. thread' # "reconnect"
    BY <1>3 DEF handleReceive, commitData, nextHandler, reconnectFails,
                terminateConnection, handleTermination, receiveCompletes,
                commitRound, handlePacketTimeout
  <2> QED BY <2>1 DEF ReconnectReason
<1>4. CASE \/ peerCloses \/ connectionBreaks
           \/ UNCHANGED tcpVars /\ (\/ timerExpires \/ tick \/ join
                                    \/ requestTermination \/ postTermination)
           \/ UNCHANGED vars
  BY <1>4 DEF peerCloses, connectionBreaks, timerExpires, tick, join,
              requestTermination, postTermination, vars, subscriberVars, tcpVars,
              ReconnectReason
<1> QED BY <1>1, <1>2, <1>3, <1>4 DEF Next, subscriberStep

(* There is a port.                                                        *)
LEMMA SomePorts == Len(Ports) \in Nat \ {0}
BY PortsAssumption

(* An event that is not the next one to be delivered does not matter.      *)
LEMMA DeliveredStays ==
    ASSUME SubscriberInv, LastDelivered, AllDelivered, UNCHANGED source,
           UNCHANGED emitted \/ emitted'.count = emitted.count + 1,
           source \in Streams
    PROVE  LastDelivered' /\ AllDelivered'
<1>1. PICK e \in Int : e = Len(source.items) \div Len(Ports)
  <2>1. PICK n \in Nat : n = Len(source.items)
    BY StreamItems
  <2>2. PICK p \in Nat \ {0} : p = Len(Ports)
    BY SomePorts
  <2>3. n \div p \in Int
    OBVIOUS
  <2> QED BY <2>1, <2>2, <2>3
<1>2. emitted.count \in Nat /\ emitted.count >= e
  BY <1>1 DEF SubscriberInv, EventsInv, AllDelivered
<1>3. e = Len(source'.items) \div Len(Ports)
  BY <1>1
<1>4. CASE UNCHANGED emitted
  BY <1>4 DEF LastDelivered, AllDelivered
<1>5. CASE emitted'.count = emitted.count + 1
  <2>1. emitted'.count >= e /\ ~(emitted'.count \in 1..e)
    BY <1>2, <1>5
  <2> QED BY <1>3, <2>1 DEF LastDelivered, AllDelivered
<1> QED BY <1>4, <1>5

(* A round of commitData() takes the next item, or waits for more of it.   *)
LEMMA CommitReads ==
    ASSUME SubscriberInv, LinkInv, LastDelivered, NEW k, Reading(k),
           commitRound, UNCHANGED tcpVars
    PROVE  LastDelivered' /\ (AllDelivered' \/ \E j : Reading(j)')
<1>1. PICK p \in Nat \ {0} : p = Len(Ports)
  BY SomePorts
<1>2. PICK items : items = source.items
  OBVIOUS
<1>3. source \in Streams /\ UNCHANGED <<source, conn, wire, completion>>
  BY DEF LinkInv, tcpVars
<1>4. k \in Nat /\ k < Len(items) /\ Len(items) \in Nat
  BY <1>2, <1>3, StreamItems DEF Reading
<1>5. CASE raw = <<>>
  <2>1. UNCHANGED <<raw, partial, emitted>>
    BY <1>5 DEF commitRound
  <2>2. Reading(k)'
    BY <1>3, <2>1 DEF Reading, LossSeen
  <2>3. LastDelivered'
    BY <1>3, <2>1 DEF LastDelivered
  <2> QED BY <2>2, <2>3
<1>6. CASE raw # <<>>
  <2> DEFINE event == IF partial = <<>> THEN NewPartialEvent(now) ELSE partial[1]
             result == processRawDataToEvent(raw, event)
             invalid == result.state = "InvalidBufferContent"
             push == invalid \/ (result.state # "Incomplete"
                                 /\ ~hasRemainingElements(result.event))
             left == IF invalid THEN <<>> ELSE result.raw
  <2>1. /\ raw' = left
        /\ partial' = IF push THEN <<>> ELSE <<result.event>>
        /\ emitted' = IF push THEN pushed(result.event) ELSE emitted
    BY <1>6 DEF commitRound
  <2>2. /\ event = [time |-> event.time, vars |-> event.vars, next |-> event.next]
        /\ event.next = (k % p) + 1
        /\ event.vars = VarsBefore(items, k)
        /\ EventFine(event) /\ hasRemainingElements(event)
    <3>1. CASE partial = <<>>
      <4>1. k % Len(Ports) = 0
        BY <3>1 DEF Reading
      <4>2. event = [time |-> now, vars |-> <<>>, next |-> 1]
        BY <3>1 DEF NewPartialEvent
      <4>3. event.vars = VarsBefore(items, k)
        BY <4>1, <4>2 DEF VarsBefore
      <4>4. EventFine(event) /\ hasRemainingElements(event)
        BY <3>1, NewEventFine DEF SubscriberInv, EventsInv
      <4> QED BY <1>1, <4>1, <4>2, <4>3, <4>4
    <3>2. CASE partial # <<>>
      <4>1. /\ partial[1].next = (k % Len(Ports)) + 1
            /\ partial[1].vars = VarsBefore(items, k)
        BY <1>2, <3>2 DEF Reading
      <4>2. EventFine(event) /\ hasRemainingElements(event)
        BY <3>2 DEF SubscriberInv, EventsInv
      <4>3. event = [time |-> event.time, vars |-> event.vars, next |-> event.next]
        BY <4>2 DEF EventFine
      <4> QED BY <1>1, <3>2, <4>1, <4>2, <4>3
    <3> QED BY <3>1, <3>2
  <2> HIDE DEF event
  <2>3. PICK lost \in Bytes :
           /\ raw \o (completion.bytes \o (wire \o lost)) = Remainder(source)[k]
           /\ LossSeen(lost)
    BY DEF Reading
  <2>4. raw \in Bytes /\ completion.bytes \in Bytes /\ wire \in Bytes
    BY DEF Reading
  <2>5. PICK ahead \in Bytes : ahead = completion.bytes \o (wire \o lost)
    BY <2>4, Joined
  <2>6. raw \o ahead = Remainder(source)[k]
    BY <2>3, <2>5
  <2>7. \/ result.state = "Incomplete"
        \/ /\ result.state \in {"Ok", "TypeConversionError"}
           /\ result.raw \in Bytes
           /\ result.raw \o ahead = Remainder(source)[k + 1]
           /\ result.event.vars = varsAfter(items)[k + 1]
           /\ result.event.next = event.next + 1
    <3>1. PICK stream \in Streams : stream = source
      BY <1>3
    <3>2. PICK buffer \in Bytes : buffer = raw
      BY <2>4
    <3>3. PICK at \in Nat : at = k
      BY <1>4
    <3>4. PICK ev : ev = event
      OBVIOUS
    <3>5. AtItem(stream, at, buffer, ahead, ev)
      BY <1>1, <1>2, <1>4, <1>6, <2>2, <2>6, <3>1, <3>2, <3>3, <3>4 DEF AtItem, BufferAt
    <3>6. ItemTaken(stream, at, ahead, ev, processRawDataToEvent(buffer, ev))
      BY <3>5, NextRound, Zenon
    <3>7. ItemTaken(source, k, ahead, event, result)
      BY <3>1, <3>2, <3>3, <3>4, <3>6, Zenon
    <3> HIDE DEF result
    <3> QED BY <1>2, <3>7, Zenon DEF ItemTaken
  <2>8. CASE result.state = "Incomplete"
    <3>1. result.raw = raw /\ result.event = event
      BY <2>2, <2>8, RoundOutcome
    <3>2. raw' = raw /\ partial' = <<event>> /\ emitted' = emitted
      BY <2>1, <2>8, <3>1
    <3>3. partial' # <<>> /\ partial'[1] = event
      BY <3>2
    <3>4. Reading(k)'
      <4>1. /\ k \in Nat /\ k < Len(source'.items)
            /\ emitted'.count = k \div Len(Ports)
        BY <1>3, <3>2 DEF Reading
      <4>2. /\ partial'[1].next = (k % Len(Ports)) + 1
            /\ partial'[1].vars = VarsBefore(source'.items, k)
        BY <1>1, <1>2, <1>3, <2>2, <3>3
      <4>3. /\ raw' \in Bytes /\ completion'.bytes \in Bytes /\ wire' \in Bytes
            /\ raw' \o (completion'.bytes \o (wire' \o lost)) = Remainder(source')[k]
            /\ LossSeen(lost)'
        BY <1>3, <2>3, <2>4, <3>2 DEF LossSeen
      <4> QED BY <3>3, <4>1, <4>2, <4>3 DEF Reading
    <3>5. LastDelivered'
      BY <1>3, <3>2 DEF LastDelivered
    <3> QED BY <3>4, <3>5
  <2>9. CASE /\ result.state \in {"Ok", "TypeConversionError"}
             /\ result.raw \in Bytes
             /\ result.raw \o ahead = Remainder(source)[k + 1]
             /\ result.event.vars = varsAfter(items)[k + 1]
             /\ result.event.next = event.next + 1
    <3>1. PICK r \in 0..(p - 1) : r = k % p
      BY <1>1, <1>4, Turns
    <3>2. PICK q \in Nat : q = k \div p
      BY <1>1, <1>4, Turns
    <3>3. /\ r + 1 < p => (k + 1) % p = r + 1 /\ (k + 1) \div p = q
          /\ r + 1 = p => /\ (k + 1) % p = 0 /\ (k + 1) \div p = q + 1
                          /\ ((k + 1) \div p) * p = k + 1
      BY <1>1, <1>4, <3>1, <3>2, Turns
    <3>4. /\ result.event.next = r + 2
          /\ hasRemainingElements(result.event) <=> r + 1 < p
      <4>1. result.event.next = r + 2
        BY <2>2, <2>9, <3>1
      <4> QED BY <1>1, <3>1, <4>1 DEF hasRemainingElements
    <3>5. /\ raw' = result.raw /\ raw' \in Bytes
          /\ raw' \o ahead = Remainder(source)[k + 1]
      BY <2>1, <2>9
    <3>6. emitted.count = q
      BY <1>1, <3>2 DEF Reading
    <3>7. push <=> r + 1 = p
      BY <2>9, <3>1, <3>4
    <3>8. /\ r + 1 = p => partial' = <<>> /\ emitted' = pushed(result.event)
          /\ r + 1 # p => partial' = <<result.event>> /\ emitted' = emitted
      BY <2>1, <3>7
    <3>9. emitted'.count = (k + 1) \div p
      <4>1. CASE r + 1 = p
        <5>1. emitted'.count = q + 1
          BY <3>6, <3>8, <4>1 DEF pushed
        <5> QED BY <3>3, <4>1, <5>1
      <4>2. CASE r + 1 # p
        BY <3>1, <3>3, <3>6, <3>8, <4>2
      <4> QED BY <4>1, <4>2
    <3>10. LastDelivered'
      <4>1. CASE r + 1 = p
        <5>1. emitted'.last = result.event
          BY <3>8, <4>1 DEF pushed
        <5>2. emitted'.count * p = k + 1
          BY <3>3, <3>9, <4>1
        <5> QED BY <1>1, <1>2, <1>3, <2>9, <5>1, <5>2 DEF LastDelivered
      <4>2. CASE r + 1 # p
        BY <1>3, <3>8, <4>2 DEF LastDelivered
      <4> QED BY <4>1, <4>2
    <3>11. CASE k + 1 = Len(items)
      <4>1. emitted'.count = Len(source'.items) \div Len(Ports)
        BY <1>1, <1>2, <1>3, <3>9, <3>11
      <4>2. PICK c \in Nat : c = emitted'.count
        <5>1. (k + 1) \div p \in {q, q + 1}
          BY <3>1, <3>3
        <5> QED BY <3>9, <5>1
      <4>3. c >= c
        OBVIOUS
      <4> QED BY <3>10, <4>1, <4>2, <4>3 DEF AllDelivered
    <3>12. CASE k + 1 < Len(items)
      <4>1. /\ k + 1 \in Nat /\ k + 1 < Len(source'.items)
            /\ emitted'.count = (k + 1) \div Len(Ports)
        BY <1>1, <1>2, <1>3, <1>4, <3>9, <3>12
      <4>2. partial' = <<>> => (k + 1) % Len(Ports) = 0
        <5>1. r + 1 # p => partial' # <<>>
          BY <3>8
        <5> QED BY <1>1, <3>3, <5>1
      <4>3. partial' # <<>> =>
              /\ partial'[1].next = ((k + 1) % Len(Ports)) + 1
              /\ partial'[1].vars = VarsBefore(source'.items, k + 1)
        <5> SUFFICES ASSUME partial' # <<>>
                     PROVE  /\ partial'[1].next = ((k + 1) % Len(Ports)) + 1
                            /\ partial'[1].vars = VarsBefore(source'.items, k + 1)
          OBVIOUS
        <5>1. r + 1 < p /\ partial' = <<result.event>>
          BY <3>1, <3>8
        <5>2. partial'[1] = result.event
          BY <5>1
        <5>3. (k + 1) % Len(Ports) = r + 1 /\ r + 1 # 0
          BY <1>1, <3>1, <3>3, <5>1
        <5>4. VarsBefore(source'.items, k + 1) = varsAfter(items)[k + 1]
          BY <1>2, <1>3, <5>3 DEF VarsBefore
        <5>5. result.event.next = (r + 1) + 1
          BY <3>1, <3>4
        <5> QED BY <2>9, <5>2, <5>3, <5>4, <5>5
      <4>4. /\ raw' \in Bytes /\ completion'.bytes \in Bytes /\ wire' \in Bytes
            /\ raw' \o (completion'.bytes \o (wire' \o lost))
                  = Remainder(source')[k + 1]
            /\ LossSeen(lost)'
        BY <1>3, <2>3, <2>4, <2>5, <3>5 DEF LossSeen
      <4>5. Reading(k + 1)'
        BY <4>1, <4>2, <4>3, <4>4 DEF Reading
      <4> QED BY <3>10, <4>5
    <3> QED BY <1>4, <3>11, <3>12
  <2> QED BY <2>7, <2>8, <2>9
<1> QED BY <1>5, <1>6

(* An empty buffer adds nothing.                                           *)
LEMMA NoBytes ==
    /\ <<>> \in Bytes
    /\ \A b \in Bytes : <<>> \o b = b /\ b \o <<>> = b
BY ConcatEmptySeq DEF Bytes

(* Before the last item, bytes are left.                                   *)
LEMMA RestNotEmpty ==
    ASSUME NEW stream \in Streams, NEW k \in Nat, k < Len(stream.items),
           NEW buffer \in Bytes, NEW none, none = <<>>,
           buffer \o none = Remainder(stream)[k]
    PROVE  buffer # <<>>
<1>1. PICK n \in Nat : n = Len(stream.items)
  BY StreamItems
<1>2. PICK i \in 1..n : i - 1 = k
  <2>1. k + 1 \in 1..n /\ (k + 1) - 1 = k
    BY <1>1
  <2> QED BY <2>1
<1>3. IsRemainder(stream, Remainder(stream))
  BY StreamRemainder
<1>4. PICK rest \in Bytes : rest = Remainder(stream)[i]
  <2>1. Remainder(stream) \in [0..n -> Bytes]
    BY <1>1, <1>3, Zenon DEF IsRemainder
  <2>2. i \in 0..n
    OBVIOUS
  <2> QED BY <2>1, <2>2
<1>5. PICK asn : asn = stream.items[i].asn
  OBVIOUS
<1>6. PICK v : v = stream.items[i].value
  OBVIOUS
<1>7. Encodable(asn, v)
  BY <1>1, <1>5, <1>6, StreamItems
<1>8. PICK enc \in Bytes : enc = encodeValue(asn, v) /\ enc # <<>>
  BY <1>4, <1>7, CodecRoundTrip DEF RoundTrip
<1>9. Remainder(stream)[i - 1] = enc \o rest
  BY <1>1, <1>3, <1>4, <1>5, <1>6, <1>8, Zenon DEF IsRemainder
<1>10. enc \o rest # <<>>
  BY <1>8, NonEmpty
<1>11. buffer \o none = buffer
  BY NoBytes
<1> QED BY <1>2, <1>9, <1>10, <1>11, Zenon

(* What is complete is not reported as incomplete.                         *)
LEMMA LastRead ==
    ASSUME NEW stream \in Streams, NEW k \in Nat, k < Len(stream.items),
           NEW buffer \in Bytes, buffer # <<>>, NEW none, none = <<>>,
           buffer \o none = Remainder(stream)[k], NEW dest
    PROVE  readNextVariable(dest, buffer).state # "Incomplete"
<1>1. PICK ahead \in Bytes : ahead = none
  BY NoBytes
<1>2. BufferAt(stream, k, buffer, ahead)
  BY <1>1 DEF BufferAt
<1>3. ItemRead(stream, k, ahead, dest, readNextVariable(dest, buffer))
  BY <1>2, NextRead, Zenon
<1> QED BY <1>1, <1>3 DEF ItemRead

(* A step that decodes nothing leaves the reading where it is, if the      *)
(* bytes keep their order.                                                 *)
LEMMA ReadingKept ==
    ASSUME NEW k, Reading(k), UNCHANGED <<source, emitted, partial>>,
           raw' \in Bytes, completion'.bytes \in Bytes, wire' \in Bytes,
           NEW lost \in Bytes,
           raw' \o (completion'.bytes \o (wire' \o lost)) = Remainder(source)[k],
           LossSeen(lost)'
    PROVE  Reading(k)'
<1>1. /\ k \in Nat /\ k < Len(source'.items)
      /\ emitted'.count = k \div Len(Ports)
      /\ partial' = <<>> => k % Len(Ports) = 0
      /\ partial' # <<>> => /\ partial'[1].next = (k % Len(Ports)) + 1
                            /\ partial'[1].vars = VarsBefore(source'.items, k)
  BY DEF Reading
<1>2. raw' \o (completion'.bytes \o (wire' \o lost)) = Remainder(source')[k]
  OBVIOUS
<1> QED BY <1>1, <1>2 DEF Reading

(* The bytes of the last receive operation are taken over by commitData(). *)
LEMMA ReceiveReads ==
    ASSUME LinkInv, NEW k, Reading(k), handleReceive
    PROVE  Reading(k)'
<1>1. /\ raw' = raw \o completion.bytes
      /\ completion' = [completion EXCEPT !.bytes = <<>>]
      /\ UNCHANGED <<source, emitted, partial, wire, conn>>
  BY DEF handleReceive, commitData
<1>2. completion'.bytes = <<>>
  BY <1>1 DEF LinkInv
<1>3. PICK lost \in Bytes :
         /\ raw \o (completion.bytes \o (wire \o lost)) = Remainder(source)[k]
         /\ LossSeen(lost)
  BY DEF Reading
<1>4. PICK buffer \in Bytes : buffer = raw
  BY DEF Reading
<1>5. PICK chunk \in Bytes : chunk = completion.bytes
  BY DEF Reading
<1>6. PICK more \in Bytes : more = wire
  BY DEF Reading
<1>7. PICK tail \in Bytes : tail = more \o lost
  BY Joined
<1>8. /\ raw' \in Bytes /\ completion'.bytes \in Bytes /\ wire' \in Bytes
      /\ raw' \o (completion'.bytes \o (wire' \o lost)) = Remainder(source)[k]
  <2>1. /\ (buffer \o chunk) \o tail = buffer \o (chunk \o tail)
        /\ <<>> \o tail = tail /\ <<>> \in Bytes
    BY Associative, NoBytes
  <2>2. buffer \o chunk \in Bytes
    BY Joined
  <2> QED BY <1>1, <1>2, <1>3, <1>4, <1>5, <1>6, <1>7, <2>1, <2>2, Zenon
<1>9. LossSeen(lost)'
  <2>1. completion'.error = completion.error
    BY <1>1 DEF LinkInv
  <2> QED BY <1>1, <1>3, <2>1 DEF LossSeen
<1> QED BY <1>1, <1>8, <1>9, ReadingKept

(* A receive operation takes its bytes from those under way.               *)
LEMMA CompletionReads ==
    ASSUME LinkInv, NEW k, Reading(k), receiveCompletes
    PROVE  Reading(k)'
<1>1. /\ UNCHANGED <<source, emitted, partial, raw>> /\ receiving
      /\ \/ \E n \in 1..Len(wire) :
               /\ completion'.bytes = SubSeq(wire, 1, n)
               /\ wire' = SubSeq(wire, n + 1, Len(wire))
               /\ wire # <<>>
         \/ /\ completion'.bytes = <<>> /\ UNCHANGED wire
            /\ completion'.error # "none"
  BY DEF receiveCompletes
<1>2. completion.bytes = <<>>
  BY <1>1 DEF LinkInv
<1>3. PICK lost \in Bytes :
         /\ raw \o (completion.bytes \o (wire \o lost)) = Remainder(source)[k]
         /\ LossSeen(lost)
  BY DEF Reading
<1>4. raw \in Bytes /\ wire \in Bytes /\ completion.bytes \in Bytes
  BY DEF Reading
<1>5. wire # <<>> => lost = <<>>
  BY <1>3 DEF LossSeen
<1>6. CASE completion'.bytes = <<>> /\ UNCHANGED wire /\ completion'.error # "none"
  <2>1. /\ raw' \in Bytes /\ completion'.bytes \in Bytes /\ wire' \in Bytes
        /\ raw' \o (completion'.bytes \o (wire' \o lost)) = Remainder(source)[k]
    BY <1>1, <1>2, <1>3, <1>4, <1>6
  <2>2. LossSeen(lost)'
    BY <1>3, <1>6 DEF LossSeen
  <2> QED BY <1>1, <2>1, <2>2, ReadingKept
<1>7. ASSUME NEW n \in 1..Len(wire), completion'.bytes = SubSeq(wire, 1, n),
             wire' = SubSeq(wire, n + 1, Len(wire)), wire # <<>>
      PROVE  Reading(k)'
  <2>1. PICK chunk \in Bytes, more \in Bytes :
           /\ chunk = SubSeq(wire, 1, n) /\ more = SubSeq(wire, n + 1, Len(wire))
           /\ chunk \o more = wire
    <3>1. PICK w \in Bytes : w = wire
      BY <1>4
    <3>2. n \in 1..Len(w)
      BY <3>1
    <3>3. /\ SubSeq(w, 1, n) \in Bytes /\ SubSeq(w, n + 1, Len(w)) \in Bytes
          /\ SubSeq(w, 1, n) \o SubSeq(w, n + 1, Len(w)) = w
      BY <3>2 DEF Bytes
    <3> QED BY <3>1, <3>3
  <2>2. PICK w \in Bytes, tail \in Bytes : w = wire /\ tail = w \o lost
    BY <1>4, Joined
  <2>3. chunk \o (more \o lost) = tail /\ <<>> \o tail = tail
    <3>1. (chunk \o more) \o lost = chunk \o (more \o lost)
      BY Associative
    <3> QED BY <2>1, <2>2, <3>1, NoBytes, Zenon
  <2>4. raw' \o (completion'.bytes \o (wire' \o lost)) = Remainder(source)[k]
    BY <1>1, <1>2, <1>3, <1>7, <2>1, <2>2, <2>3, Zenon
  <2>5. raw' \in Bytes /\ completion'.bytes \in Bytes /\ wire' \in Bytes
    BY <1>1, <1>4, <1>7, <2>1
  <2>6. LossSeen(lost)'
    BY <1>5, <1>7 DEF LossSeen
  <2> QED BY <1>1, <2>4, <2>5, <2>6, ReadingKept
<1> QED BY <1>1, <1>6, <1>7

(* A broken connection loses the bytes under way.                          *)
LEMMA BreakReads ==
    ASSUME NEW k, Reading(k), connectionBreaks
    PROVE  Reading(k)'
<1>1. /\ UNCHANGED <<source, emitted, partial, raw, completion>>
      /\ wire' = <<>> /\ conn' = "reset"
  BY DEF connectionBreaks, subscriberVars
<1>2. PICK lost \in Bytes :
         raw \o (completion.bytes \o (wire \o lost)) = Remainder(source)[k]
  BY DEF Reading
<1>3. PICK more \in Bytes : more = wire
  BY DEF Reading
<1>4. PICK all \in Bytes : all = more \o lost
  BY Joined
<1>5. <<>> \in Bytes /\ <<>> \o all = all
  BY ConcatEmptySeq DEF Bytes
<1>6. raw' \o (completion'.bytes \o (wire' \o all)) = Remainder(source)[k]
  BY <1>1, <1>2, <1>3, <1>4, <1>5, Zenon
<1>7. raw' \in Bytes /\ completion'.bytes \in Bytes /\ wire' \in Bytes
  BY <1>1, <1>5 DEF Reading
<1>8. LossSeen(all)'
  BY <1>1 DEF LossSeen
<1> QED BY <1>1, <1>6, <1>7, <1>8, ReadingKept

(* Nothing happens to the bytes.                                           *)
LEMMA ReadingStays ==
    ASSUME NEW k, Reading(k),
           UNCHANGED <<source, emitted, partial, raw, completion, wire>>,
           conn = "reset" => conn' = "reset" \/ completion.error # "none"
    PROVE  Reading(k)'
<1>1. PICK lost \in Bytes :
         /\ raw \o (completion.bytes \o (wire \o lost)) = Remainder(source)[k]
         /\ LossSeen(lost)
  BY DEF Reading
<1>2. raw \in Bytes /\ wire \in Bytes /\ completion.bytes \in Bytes
  BY DEF Reading
<1>3. /\ raw' \in Bytes /\ completion'.bytes \in Bytes /\ wire' \in Bytes
      /\ raw' \o (completion'.bytes \o (wire' \o lost)) = Remainder(source)[k]
      /\ LossSeen(lost)'
  BY <1>1, <1>2 DEF LossSeen
<1> QED BY <1>3, ReadingKept

(* On the first connection and without a time-out, no other step touches   *)
(* what is being read.                                                     *)
LEMMA OthersRead ==
    ASSUME LinkInv, ReconnectReason, connections' = 1, flushed' = -1,
           NEW k, Reading(k),
           \/ receiveNext \/ syncReconnect \/ reconnectFails \/ peerCloses
           \/ UNCHANGED tcpVars /\ (\/ timerExpires \/ tick \/ join
                                    \/ requestTermination \/ postTermination)
           \/ UNCHANGED tcpVars /\ UNCHANGED <<raw, partial, emitted>>
           \/ UNCHANGED vars
    PROVE  Reading(k)' /\ UNCHANGED emitted
<1>1. CASE syncReconnect
  <2>1. /\ UNCHANGED <<source, emitted, partial, raw, completion>>
        /\ \E outcome \in Outcomes : syncConnect(outcome)
    BY <1>1 DEF syncReconnect
  <2>2. connections' # connections + 1
    BY DEF LinkInv
  <2>3. PICK outcome \in Outcomes : syncConnect(outcome)
    BY <2>1
  <2>4. outcome # "connected" /\ UNCHANGED wire
    BY <2>2, <2>3 DEF syncConnect
  <2>5. conn = "reset" => completion.error # "none"
    BY <1>1 DEF ReconnectReason, syncReconnect
  <2> QED BY <2>1, <2>4, <2>5, ReadingStays
<1>2. CASE \/ receiveNext \/ reconnectFails \/ peerCloses
           \/ UNCHANGED tcpVars /\ (\/ timerExpires \/ tick \/ join
                                    \/ requestTermination \/ postTermination)
           \/ UNCHANGED tcpVars /\ UNCHANGED <<raw, partial, emitted>>
           \/ UNCHANGED vars
  <2>1. /\ UNCHANGED <<source, emitted, partial, raw, completion, wire>>
        /\ conn = "reset" => conn' = "reset"
    BY <1>2 DEF receiveNext, reconnectFails, peerCloses, timerExpires, tick, join,
                requestTermination, postTermination, vars, subscriberVars, tcpVars
  <2> QED BY <2>1, ReadingStays
<1> QED BY <1>1, <1>2

(* A stream is read from its first byte on.                                *)
LEMMA StreamInitial == Init => StreamInv
<1> SUFFICES ASSUME Init PROVE StreamInv
  OBVIOUS
<1>1. /\ source \in Streams /\ wire = StreamBytes(source) /\ conn = "connected"
      /\ completion = [error |-> "none", bytes |-> <<>>] /\ connections = 1
      /\ raw = <<>> /\ partial = <<>> /\ now = 0 /\ lastRestart = 0 /\ flushed = -1
      /\ emitted.count = 0 /\ thread = "poll"
  BY DEF Init, SubscriberInit
<1>2. completion.error = "none" /\ completion.bytes = <<>>
  BY <1>1
<1>3. LinkInv /\ ReconnectReason
  BY <1>1, <1>2 DEF LinkInv, ReconnectReason
<1>4. LastDelivered
  BY <1>1 DEF LastDelivered
<1>5. PICK n \in Nat : n = Len(source.items)
  BY <1>1, StreamItems
<1>6. PICK p \in Nat \ {0} : p = Len(Ports)
  BY SomePorts
<1>7. 0 \div p = 0 /\ 0 % p = 0
  OBVIOUS
<1>8. CASE n = 0
  <2>1. Len(source.items) \div Len(Ports) = 0
    BY <1>5, <1>6, <1>7, <1>8
  <2>2. AllDelivered
    <3>1. 0 >= 0
      OBVIOUS
    <3> QED BY <1>1, <2>1, <3>1, Zenon DEF AllDelivered
  <2> QED BY <1>3, <1>4, <2>2 DEF StreamInv
<1>9. CASE n # 0
  <2>1. IsRemainder(source, Remainder(source))
    BY <1>1, StreamRemainder
  <2>2. Remainder(source)[0] = wire /\ Remainder(source) \in [0..n -> Bytes]
    BY <1>1, <1>5, <2>1, Zenon DEF IsRemainder
  <2>3. 0 \in 0..n
    OBVIOUS
  <2>4. PICK bytes \in Bytes : bytes = wire
    BY <2>2, <2>3
  <2>5. PICK lost \in Bytes : lost = <<>>
    <3>1. <<>> \in Bytes
      BY DEF Bytes
    <3> QED BY <3>1
  <2>6. lost \o (lost \o (bytes \o lost)) = bytes
    BY <2>5, ConcatEmptySeq DEF Bytes
  <2>7. raw \o (completion.bytes \o (wire \o lost)) = Remainder(source)[0]
    BY <1>1, <1>2, <2>2, <2>4, <2>5, <2>6, Zenon
  <2>8. 0 \in Nat /\ 0 < Len(source.items)
    BY <1>5, <1>9
  <2>9. /\ emitted.count = 0 \div Len(Ports) /\ 0 % Len(Ports) = 0
    BY <1>1, <1>6, <1>7
  <2>10. raw \in Bytes /\ completion.bytes \in Bytes /\ wire \in Bytes
    BY <1>1, <1>2, <2>4, <2>5
  <2>11. Reading(0)
    BY <1>1, <2>5, <2>7, <2>8, <2>9, <2>10 DEF Reading, LossSeen
  <2> QED BY <1>3, <1>4, <2>11 DEF StreamInv
<1> QED BY <1>8, <1>9

(* Every step delivers what was sent, as far as it was sent.               *)
LEMMA StreamPreserves ==
    ASSUME SubscriberInv, StreamInv, [Next]_vars
    PROVE  StreamInv'
<1>1. /\ LinkInv /\ LinkInv' /\ UNCHANGED source
      /\ ReconnectReason /\ ReconnectReason'
      /\ connections' = 1 => connections = 1
      /\ flushed' = -1 =>
            /\ flushed = -1
            /\ handlePacketTimeout => UNCHANGED <<raw, partial, emitted>>
  BY LinkPreserves, ReasonPreserves DEF StreamInv
<1> SUFFICES ASSUME connections' = 1, flushed' = -1
             PROVE  /\ LastDelivered'
                    /\ AllDelivered' \/ thread' = "done" \/ \E k : Reading(k)'
  BY <1>1 DEF StreamInv
<1>2. /\ LastDelivered
      /\ AllDelivered \/ thread = "done" \/ \E k : Reading(k)
  BY <1>1 DEF StreamInv
<1>3. source \in Streams
  BY <1>1 DEF LinkInv
<1>4. \/ UNCHANGED emitted
      \/ /\ commitRound /\ UNCHANGED tcpVars
         /\ emitted'.count = emitted.count + 1
  <2>1. CASE commitRound /\ UNCHANGED tcpVars
    BY <2>1 DEF commitRound, pushed
  <2>2. CASE handlePacketTimeout
    BY <1>1, <2>2
  <2>3. CASE \/ handleReceive \/ receiveNext \/ syncReconnect \/ reconnectFails
             \/ terminateConnection \/ peerCloses \/ connectionBreaks
             \/ receiveCompletes \/ timerExpires \/ tick \/ join
             \/ requestTermination \/ postTermination \/ UNCHANGED vars
    BY <2>3 DEF handleReceive, receiveNext, syncReconnect, reconnectFails,
         terminateConnection, handleTermination, peerCloses, connectionBreaks,
         receiveCompletes, timerExpires, tick, join, requestTermination,
         postTermination, vars, subscriberVars
  <2> QED BY <2>1, <2>2, <2>3 DEF Next, subscriberStep
<1>5. CASE AllDelivered
  BY <1>1, <1>2, <1>3, <1>4, <1>5, DeliveredStays
<1>6. CASE thread = "done"
  <2>1. thread' = "done"
    BY <1>6 DEF Next, subscriberStep, handleReceive, receiveNext, syncReconnect,
         reconnectFails, terminateConnection, handleTermination, commitRound,
         handlePacketTimeout, nextHandler, peerCloses, connectionBreaks,
         receiveCompletes, timerExpires, tick, join, requestTermination,
         postTermination, vars, subscriberVars
  <2>2. UNCHANGED emitted
    BY <1>4, <1>6 DEF commitRound
  <2> QED BY <1>1, <1>2, <2>1, <2>2 DEF LastDelivered
<1>7. ASSUME NEW k, Reading(k)
      PROVE  /\ LastDelivered'
             /\ AllDelivered' \/ thread' = "done" \/ \E j : Reading(j)'
  <2>1. CASE commitRound /\ UNCHANGED tcpVars
    BY <1>1, <1>2, <1>7, <2>1, CommitReads
  <2>2. ASSUME Reading(k)' \/ thread' = "done", UNCHANGED emitted
        PROVE  /\ LastDelivered'
               /\ AllDelivered' \/ thread' = "done" \/ \E j : Reading(j)'
    <3>1. LastDelivered'
      BY <1>1, <1>2, <2>2 DEF LastDelivered
    <3> QED BY <2>2, <3>1
  <2>3. CASE handleReceive
    <3>1. UNCHANGED emitted
      BY <2>3 DEF handleReceive
    <3> QED BY <1>1, <1>7, <2>2, <2>3, <3>1, ReceiveReads
  <2>4. CASE receiveCompletes
    <3>1. UNCHANGED emitted
      BY <2>4 DEF receiveCompletes
    <3> QED BY <1>1, <1>7, <2>2, <2>4, <3>1, CompletionReads
  <2>5. CASE connectionBreaks
    <3>1. UNCHANGED emitted
      BY <2>5 DEF connectionBreaks, subscriberVars
    <3> QED BY <1>1, <1>7, <2>2, <2>5, <3>1, BreakReads
  <2>6. CASE terminateConnection
    <3>1. UNCHANGED emitted /\ thread' = "done"
      BY <2>6 DEF terminateConnection, handleTermination
    <3> QED BY <2>2, <3>1
  <2>7. CASE \/ receiveNext \/ syncReconnect \/ reconnectFails \/ peerCloses
             \/ UNCHANGED tcpVars /\ (\/ timerExpires \/ tick \/ join
                                      \/ requestTermination \/ postTermination)
             \/ UNCHANGED tcpVars /\ handlePacketTimeout
             \/ UNCHANGED vars
    <3>1. Reading(k)' /\ UNCHANGED emitted
      BY <1>1, <1>7, <2>7, OthersRead
    <3> QED BY <2>2, <3>1
  <2> QED
    BY <2>1, <2>3, <2>4, <2>5, <2>6, <2>7 DEF Next, subscriberStep
<1> QED BY <1>2, <1>5, <1>6, <1>7

(* The bytes and the events fit together in every behaviour.               *)
THEOREM SubscriberStreamCorrect == Spec => []StreamInv
BY StreamInitial, StreamPreserves, SubscriberCorrect, PTL DEF Spec

(* The events of the first connection are those that were sent, for all    *)
(* ports, all streams, all chunks and all conversions.                     *)
THEOREM SubscriberDeliveredAsSent == Spec => []DeliveredAsSent
<1>1. SubscriberInv /\ StreamInv => DeliveredAsSent
  <2> SUFFICES ASSUME SubscriberInv, StreamInv, connections = 1, flushed = -1
               PROVE  DeliveredAsSent
    BY DEF DeliveredAsSent
  <2>1. /\ LinkInv /\ LastDelivered
        /\ AllDelivered \/ thread = "done" \/ \E k : Reading(k)
    BY DEF StreamInv
  <2>2. PICK e \in Nat : e = Len(source.items) \div Len(Ports)
    <3>1. PICK n \in Nat : n = Len(source.items)
      BY <2>1, StreamItems DEF LinkInv
    <3>2. PICK p \in Nat \ {0} : p = Len(Ports)
      BY SomePorts
    <3>3. n \div p \in Nat
      OBVIOUS
    <3> QED BY <3>1, <3>2, <3>3
  <2>3. PICK expected : expected = ExpectedEvents(source.items)
    OBVIOUS
  <2>4. expected = [k \in 1..e |-> varsAfter(source.items)[k * Len(Ports)]]
    BY <2>2, <2>3 DEF ExpectedEvents
  <2>5. DOMAIN expected = 1..e /\ Len(expected) = e
    BY <2>4
  <2>6. emitted.count \in DOMAIN expected =>
           emitted.last.vars = expected[emitted.count]
    BY <2>1, <2>2, <2>4, <2>5 DEF LastDelivered
  <2>7. ASSUME conn # "reset", completion.error = "none", thread = "poll",
               receiving, wire = <<>>
        PROVE  emitted.count >= Len(expected)
    <3>1. ASSUME NEW k, Reading(k) PROVE FALSE
      <4>1. PICK lost \in Bytes :
               /\ raw \o (completion.bytes \o (wire \o lost)) = Remainder(source)[k]
               /\ LossSeen(lost)
        BY <3>1 DEF Reading
      <4>2. /\ raw \in Bytes /\ k \in Nat /\ k < Len(source.items)
            /\ source \in Streams /\ completion.bytes = <<>> /\ lost = <<>>
        BY <2>1, <2>7, <3>1, <4>1 DEF Reading, LinkInv, LossSeen
      <4>3. lost \o (lost \o lost) = lost
        BY <4>2, ConcatEmptySeq DEF Bytes
      <4>4. raw \o lost = Remainder(source)[k]
        BY <2>7, <4>1, <4>2, <4>3, Zenon
      <4>5. raw # <<>>
        BY <4>2, <4>4, RestNotEmpty
      <4>6. readNextVariable("String", raw).state # "Incomplete"
        BY <4>2, <4>4, <4>5, LastRead
      <4>7. readNextVariable("String", raw).state = "Incomplete"
        BY <2>7, <4>5 DEF SubscriberInv, BufferInv
      <4> QED BY <4>6, <4>7
    <3>2. AllDelivered
      BY <2>1, <2>7, <3>1
    <3> QED BY <2>2, <2>5, <3>2 DEF AllDelivered
  <2> QED BY <2>3, <2>6, <2>7 DEF DeliveredAsSent
<1> QED BY <1>1, SubscriberCorrect, SubscriberStreamCorrect, PTL

=============================================================================
