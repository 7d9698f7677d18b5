-------------------- MODULE CompactASN1TCPClientSubscriber --------------------
(***************************************************************************)
(* The subscriber over TCP: CompactASN1TCPClientSubscriber on top of the   *)
(* decoding of CompactASN1Subscriber.  initAndStart() has connected the    *)
(* socket and started the thread; a channel that cannot be connected at    *)
(* that point is the subject of module NetworkManager.                     *)
(*                                                                         *)
(* The peer sends one of the streams on every connection, cut into chunks  *)
(* by the network at will.  It may close the connection, which shows as    *)
(* end of file behind the data, and the connection may break, which loses  *)
(* data and shows as another error first.                                  *)
(***************************************************************************)
EXTENDS CompactASN1Subscriber

CONSTANTS
    Streams,         \* what the peer may send: [items, junk]
    MaxChunk,        \* size of the buffer of prepareData()
    Retries,         \* reconnectionRetries_
    Outcomes,        \* how an attempt to connect may end
    MaxConnections   \* bound: connections the peer accepts, lost ones included

ASSUME ConnectionAssumption ==
    /\ MaxChunk \in Nat \ {0} /\ Retries \in Nat /\ MaxConnections \in Nat
    /\ Outcomes \subseteq {"connected", "refused", "unresolved", "unopened"}

(* The peer sends values that its encodings are made for, and any bytes    *)
(* behind them.                                                            *)
ASSUME StreamsAssumption ==
    \A stream \in Streams :
        /\ stream.items \in Seq(Range(stream.items))
        /\ \A i \in DOMAIN stream.items :
                Encodable(stream.items[i].asn, stream.items[i].value)
        /\ stream.junk \in Seq(0..255)

VARIABLES
    conn,          \* socket_ and its connection
    wire,          \* bytes the peer has yet to deliver on this connection
    receiving,     \* an asynchronous receive operation is pending
    completion,    \* result of the operation that completed last
    retry,         \* loop counter of syncReconnect()
    connections,   \* history: number of connections so far
    lateAttempts,  \* history: attempts to connect since terminate() began
    source,        \* history: the stream of the first connection
    thrown         \* history: run() has thrown an exception

tcpVars == <<conn, wire, receiving, completion, retry, connections,
             lateAttempts, source, thrown>>
vars == <<subscriberVars, tcpVars>>

(* The socket conn is "connected"; "reset", with a broken connection;      *)
(* "eof", closed by the peer; "unconnected", open behind a connect() that  *)
(* failed; or "closed".                                                    *)
isOpen(c) == c # "closed"

(* The bytes of the values sent, each with the type it is encoded as.      *)
Encoded(items) ==
    encodeASN1OutputVariables([i \in DOMAIN items |-> items[i].asn],
                              [i \in DOMAIN items |-> items[i].value])

StreamBytes(stream) == Encoded(stream.items) \o stream.junk

-----------------------------------------------------------------------------
Init ==
    /\ SubscriberInit
    /\ source \in Streams
    /\ wire = StreamBytes(source)
    /\ conn = "connected"
    /\ receiving = TRUE
    /\ completion = [error |-> "none", bytes |-> <<>>]
    /\ retry = 0
    /\ connections = 1
    /\ lateAttempts = 0
    /\ thrown = FALSE

(* The network and the peer.                                               *)

peerCloses ==
    /\ conn = "connected"
    /\ connections < MaxConnections
    /\ conn' = "eof"
    /\ UNCHANGED <<subscriberVars, wire, receiving, completion, retry,
                   connections, lateAttempts, source, thrown>>

connectionBreaks ==
    /\ conn = "connected"
    /\ connections < MaxConnections
    /\ conn' = "reset"
    /\ wire' = <<>>
    /\ UNCHANGED <<subscriberVars, receiving, completion, retry, connections,
                   lateAttempts, source, thrown>>

(* The pending receive operation completes and its handler becomes ready:  *)
(* with data, at the end of file, or with another error.                   *)
receiveCompletes ==
    /\ thread = "poll"
    /\ receiving
    /\ \/ /\ wire # <<>>
          /\ \E n \in 1..Len(wire) :
                /\ n <= MaxChunk
                /\ completion' = [error |-> "none", bytes |-> SubSeq(wire, 1, n)]
                /\ wire' = SubSeq(wire, n + 1, Len(wire))
          /\ UNCHANGED conn
       \/ /\ conn = "eof" /\ wire = <<>>
          /\ completion' = [error |-> "eof", bytes |-> <<>>]
          /\ UNCHANGED <<conn, wire>>
       \/ /\ conn \in {"reset", "unconnected"}
          /\ completion' = [error |-> "error", bytes |-> <<>>]
          /\ conn' = IF conn = "reset" THEN "eof" ELSE conn
          /\ UNCHANGED wire
    /\ receiving' = FALSE
    /\ ready' = Append(ready, "receive")
    /\ UNCHANGED <<raw, partial, timerWait, thread, terminator,
                   terminationRequest, now, lastRestart, flushed, emitted,
                   retry, connections, lateAttempts, source, thrown>>

-----------------------------------------------------------------------------
(* handleReceive(): commitData(), whose rounds follow, then the rest.      *)
handleReceive ==
    /\ nextHandler("receive")
    /\ commitData(completion.bytes)
    /\ completion' = [completion EXCEPT !.bytes = <<>>]
    /\ UNCHANGED <<partial, terminator, terminationRequest, now, flushed,
                   emitted, conn, wire, receiving, retry, connections,
                   lateAttempts, source, thrown>>

(* Mutant: the connection is renewed even if the subscriber is to stop.    *)
reconnectsAlways == ~isOpen(conn) \/ completion.error = "eof"

reconnects ==
    ~terminationRequest /\ (~isOpen(conn) \/ completion.error = "eof")

(* The rest of handleReceive() up to syncReconnect().                      *)
receiveNext ==
    /\ thread = "received"
    /\ thread' = IF reconnects THEN "reconnect" ELSE "poll"
    /\ retry' = 0
    /\ receiving' = (~reconnects /\ ~terminationRequest)
    /\ UNCHANGED <<raw, partial, ready, timerWait, terminator,
                   terminationRequest, now, lastRestart, flushed, emitted,
                   conn, wire, completion, connections, lateAttempts, source,
                   thrown>>

(* syncConnect(): a name that does not resolve leaves the socket alone, a  *)
(* refused connection leaves an open socket behind.                        *)
syncConnect(outcome) ==
    /\ conn' = CASE outcome = "connected" -> "connected"
                 [] outcome = "refused" -> "unconnected"
                 [] outcome = "unresolved" -> conn
                 [] outcome = "unopened" -> "closed"
    /\ IF outcome = "connected"
       THEN /\ connections < MaxConnections
            /\ connections' = connections + 1
            /\ wire' \in {StreamBytes(stream) : stream \in Streams}
       ELSE UNCHANGED <<connections, wire>>

(* One attempt of syncReconnect() and the sleep behind it.  The loop ends  *)
(* with the first socket that is open, and so does handleReceive().        *)
syncReconnect ==
    /\ thread = "reconnect"
    /\ retry < Retries
    /\ \E outcome \in Outcomes : syncConnect(outcome)
    /\ lateAttempts' = IF terminator = "idle" THEN 0 ELSE lateAttempts + 1
    /\ IF isOpen(conn')
       THEN thread' = "poll" /\ receiving' = TRUE /\ UNCHANGED retry
       ELSE retry' = retry + 1 /\ UNCHANGED <<thread, receiving>>
    /\ UNCHANGED <<raw, partial, ready, timerWait, terminator,
                   terminationRequest, now, lastRestart, flushed, emitted,
                   completion, source, thrown>>

(* Behind the loop: an exception, caught by executeRun(), ends the thread. *)
reconnectFails ==
    /\ thread = "reconnect"
    /\ retry = Retries
    /\ IF isOpen(conn)
       THEN /\ thread' = "poll"
            /\ receiving' = TRUE
            /\ UNCHANGED <<terminationRequest, thrown>>
       ELSE /\ thread' = "done"
            /\ terminationRequest' = FALSE
            /\ thrown' = TRUE
            /\ UNCHANGED receiving
    /\ UNCHANGED <<raw, partial, ready, timerWait, terminator, now, lastRestart,
                   flushed, emitted, conn, wire, completion, retry, connections,
                   lateAttempts, source>>

(* terminateNetworkConnection() inside handleTermination().                *)
terminateConnection ==
    /\ handleTermination
    /\ conn' = "closed"
    /\ receiving' = FALSE
    /\ UNCHANGED <<wire, completion, retry, connections, lateAttempts, source,
                   thrown>>

-----------------------------------------------------------------------------
subscriberStep ==
    \/ handleReceive \/ receiveNext \/ syncReconnect \/ reconnectFails
    \/ terminateConnection
    \/ UNCHANGED tcpVars /\ (commitRound \/ handlePacketTimeout)

Next ==
    \/ subscriberStep
    \/ peerCloses \/ connectionBreaks \/ receiveCompletes
    \/ UNCHANGED tcpVars /\ (\/ timerExpires \/ tick \/ join
                             \/ requestTermination \/ postTermination)

Spec == Init /\ [][Next]_vars

(* The thread goes on as long as it has something to do.  The reactor      *)
(* looks at the timer between any two handlers (SF: the thread is between  *)
(* two handlers again and again), and terminate(), once called, continues. *)
FairSpec ==
    /\ Spec
    /\ WF_vars(subscriberStep)
    /\ WF_vars(receiveCompletes)
    /\ SF_vars(timerExpires /\ UNCHANGED tcpVars)
    /\ WF_vars((tick \/ postTermination \/ join) /\ UNCHANGED tcpVars)

-----------------------------------------------------------------------------
(* Properties.                                                             *)

(* Bytes that wait for their continuation always belong to a partial       *)
(* event.  If not, the time-out handler, which looks at partialData_ only, *)
(* would leave them in the buffer, and the next packet would be read from  *)
(* the middle of an old one.                                               *)
WaitingBytesHaveEvent ==
    thread = "poll" /\ raw # <<>> => partial # <<>>

(* Nothing that could be decoded is left behind when commitData() returns: *)
(* the first value in the buffer is still incomplete.                      *)
NothingDecodableWaits ==
    thread = "poll" /\ raw # <<>> =>
        readNextVariable("String", raw).state = "Incomplete"

(* What an item adds to an event at a port: nothing if it cannot be        *)
(* converted to the type of the port.                                      *)
Filled(port, item) ==
    LET value == convert(Ports[port], Carried(item.asn, item.value))
    IN  [j \in DOMAIN value |-> [port |-> port, value |-> value[j]]]

(* The variables of the event that the i-th item belongs to, as far as the *)
(* items up to the i-th fill it.  The items take the ports in turn.        *)
varsAfter(items) ==
    LET after[i \in 0..Len(items)] ==
            IF i = 0 THEN <<>>
            ELSE (IF (i - 1) % Len(Ports) = 0 THEN <<>> ELSE after[i - 1])
                    \o Filled(((i - 1) % Len(Ports)) + 1, items[i])
    IN  after

(* The events that the items of a stream stand for, whatever the chunks:   *)
(* one per group of as many items as there are ports.                      *)
ExpectedEvents(items) ==
    [k \in 1..(Len(items) \div Len(Ports)) |-> varsAfter(items)[k * Len(Ports)]]

(* On the first connection and without a time-out, the events pushed are   *)
(* those of the items sent, however the network cuts the stream into       *)
(* chunks and wherever it breaks.  All of them are pushed once everything  *)
(* is read, if no receive operation had to fail, and before any that       *)
(* follow from bytes that are no ASN.1.                                    *)
DeliveredAsSent ==
    connections = 1 /\ flushed = -1 =>
        LET expected == ExpectedEvents(source.items)
        IN  /\ emitted.count \in DOMAIN expected =>
                  emitted.last.vars = expected[emitted.count]
            /\ /\ conn # "reset" /\ completion.error = "none"
               /\ thread = "poll" /\ receiving /\ wire = <<>>
               => emitted.count >= Len(expected)

(* An event names each port at most once, in the order of the ports, and   *)
(* each value has the type of its port: what the model's setter relies on, *)
(* also behind time-outs, lost connections and bytes that are no ASN.1.    *)
VariablesMatchPorts ==
    LET v == emitted.last.vars
    IN  /\ \A i \in DOMAIN v : v[i].value.type = Ports[v[i].port]
        /\ \A i, j \in DOMAIN v : i < j => v[i].port < v[j].port

(* The time stamps of a subscriber's events never decrease, although an    *)
(* event is stamped when its first byte arrives and pushed much later.     *)
StampsAscend ==
    [][emitted.count < emitted'.count =>
            emitted.last.time <= emitted'.last.time]_vars

(* Once terminate() is called, the thread gives up after the connection    *)
(* attempts of one more syncReconnect().                                   *)
FewLateAttempts == lateAttempts <= Retries

(* terminate() returns: it is never left waiting for the thread, whether   *)
(* that reads, waits for the timer, reconnects or has failed before.       *)
TerminateReturns == terminator = "flagged" ~> terminator = "joined"

(* A partially received event does not stay behind: the packet timer hands *)
(* it over or the subscriber ends.                                         *)
PartialEventFlushed == partial # <<>> ~> partial = <<>> \/ thread = "done"

(* CompactASN1Subscriber.h says of restartPacketTimer(): "Clears the timer *)
(* and starts the interval anew".  A time-out would then come no earlier   *)
(* than the packet timeout behind the last data.                           *)
IntervalStartsAnew == flushed # -1 => flushed >= PacketTimeout

=============================================================================
