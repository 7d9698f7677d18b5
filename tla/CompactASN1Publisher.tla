------------------------ MODULE CompactASN1Publisher ------------------------
(***************************************************************************)
(* A publisher of an output channel: CompactASN1Publisher with the socket  *)
(* of CompactASN1UDPPublisher or CompactASN1TCPClientPublisher.  It is an  *)
(* event listener: the dispatcher, one thread, calls eventTriggered() for  *)
(* every event.  The publisher keeps an image of the channel's variables   *)
(* and sends the whole image whenever an event concerns one of them.       *)
(***************************************************************************)
EXTENDS ASN1Codec

CONSTANTS
    PortIDs,      \* the variable of each port, one may occur twice
    Variables,    \* every output variable of the model
    TypeOf,       \* its FMI type
    Values,       \* the values an event may give it
    Encodings,    \* the "encoding" properties of the ports, "" for none
    MaxSent       \* bound: number of messages

ASSUME PublisherAssumption ==
    /\ PortIDs \in Seq(Variables)
    /\ TypeOf \in [Variables -> FMITypes]
    /\ \A id \in Variables : \A v \in Values[id] : IsValue(TypeOf[id], v)
    /\ Encodings \subseteq Seq(STRING)
    /\ MaxSent \in Nat

VARIABLES
    phase,            \* "created", "listening", or "failed": has thrown
    outputVariables,  \* outputVariables_: the value of each port
    outputTypes,      \* outputTypes_: the encoding of each port
    message,          \* history: the bytes last given to the socket
    sent,             \* history: the number of messages
    latest            \* history: the latest value of every variable

vars == <<phase, outputVariables, outputTypes, message, sent, latest>>

DataTypeNames == {"REAL", "LREAL", "DINT", "BOOL", "STRING"}

Castable(type, asnType) ==
    CASE type = "Real" -> asnType \in {"REAL", "LREAL"}
      [] type = "Integer" -> asnType = "DINT"
      [] type = "Boolean" -> asnType = "BOOL"
      [] type = "String" -> asnType = "STRING"

getDefaultType(type) ==
    CASE type = "Real" -> "LREAL"
      [] type = "Integer" -> "DINT"
      [] type = "Boolean" -> "BOOL"
      [] type = "String" -> "STRING"

PortType(i) == TypeOf[PortIDs[i]]

(* initOutputVariables(): 0, false or the empty string.                    *)
DefaultValue(type) == Value(type, IF type = "String" THEN <<>> ELSE <<0>>)

(* initOutputTypes() throws if it finds an encoding it does not know or    *)
(* the type of the port cannot be cast to.                                 *)
Acceptable(encoding) ==
    \A i \in DOMAIN PortIDs :
        encoding[i] = "" \/ (/\ encoding[i] \in DataTypeNames
                             /\ Castable(PortType(i), encoding[i]))

initOutputTypes(encoding) ==
    [i \in DOMAIN PortIDs |->
        IF encoding[i] = "" THEN getDefaultType(PortType(i)) ELSE encoding[i]]

-----------------------------------------------------------------------------
Init ==
    /\ phase = "created"
    /\ outputVariables = <<>>
    /\ outputTypes = <<>>
    /\ message = <<>>
    /\ sent = 0
    /\ latest = [id \in Variables |-> DefaultValue(TypeOf[id])]

(* init() of the class and of its base.  The address may be missing or     *)
(* malformed, may not resolve, and the TCP connection may be refused.      *)
init(encoding) ==
    /\ phase = "created"
    /\ IF Acceptable(encoding)
       THEN /\ outputVariables' = [i \in DOMAIN PortIDs |-> DefaultValue(PortType(i))]
            /\ outputTypes' = initOutputTypes(encoding)
            /\ phase' \in {"listening", "failed"}
       ELSE phase' = "failed" /\ UNCHANGED <<outputVariables, outputTypes>>
    /\ UNCHANGED <<message, sent, latest>>

(* Mutant: the search ends at the first port of the variable.              *)
updateOutputVariablesFirst(image, event) ==
    [i \in DOMAIN image |->
        IF /\ PortIDs[i] \in DOMAIN event
           /\ \A j \in 1..(i - 1) : PortIDs[j] # PortIDs[i]
        THEN event[PortIDs[i]] ELSE image[i]]

updateOutputVariables(image, event) ==
    [i \in DOMAIN image |->
        IF PortIDs[i] \in DOMAIN event THEN event[PortIDs[i]] ELSE image[i]]

Concerns(event) == \E i \in DOMAIN PortIDs : PortIDs[i] \in DOMAIN event

(* sendData(): an error throws; a message that is sent in part is only     *)
(* reported.                                                               *)
sendData(buffer) ==
    /\ sent < MaxSent
    /\ sent' = sent + 1
    /\ message' = buffer
    /\ phase' \in {"listening", "failed"}

(* eventTriggered() for an event with new values of some variables.        *)
eventTriggered(event) ==
    /\ phase = "listening"
    /\ latest' = [id \in Variables |->
                    IF id \in DOMAIN event THEN event[id] ELSE latest[id]]
    /\ outputVariables' = updateOutputVariables(outputVariables, event)
    /\ IF Concerns(event)
       THEN sendData(encodeASN1OutputVariables(outputTypes, outputVariables'))
       ELSE UNCHANGED <<phase, message, sent>>
    /\ UNCHANGED outputTypes

(* An event names some variables and gives each of them a value.           *)
Events ==
    UNION {{event \in [ids -> UNION {Values[id] : id \in Variables}] :
                \A id \in ids : event[id] \in Values[id]} :
            ids \in SUBSET Variables}

Next ==
    \/ \E encoding \in Encodings : init(encoding)
    \/ \E event \in Events : eventTriggered(event)

Spec == Init /\ [][Next]_vars

-----------------------------------------------------------------------------
(* Properties.                                                             *)

(* The image holds the latest value of every port's variable, whichever    *)
(* events brought it and even if two ports share one variable, and every   *)
(* port has an encoding for its type.                                      *)
ImageIsLatest ==
    phase = "listening" =>
        \A i \in DOMAIN PortIDs :
            /\ outputVariables[i] = latest[PortIDs[i]]
            /\ Castable(PortType(i), outputTypes[i])

(* What a receiver with the same ports reads from the message, by the      *)
(* readers of CompactASN1Subscriber: the outcome after each port.          *)
readPort(before, i) ==
    IF before.rest = <<>> \/ before.state # "Ok" THEN before
    ELSE LET read == readNextVariable(PortType(i), before.rest)
         IN  [state |-> read.state, rest |-> read.rest,
              values |-> Append(before.values, read.value)]

decodedAfter(bytes) ==
    LET after[i \in 0..Len(PortIDs)] ==
            IF i = 0 THEN [state |-> "Ok", rest |-> bytes, values |-> <<>>]
            ELSE readPort(after[i - 1], i)
    IN  after

Decoded(bytes) == decodedAfter(bytes)[Len(PortIDs)]

(* The last message is one complete picture of the image: a receiver reads *)
(* one value per port and no byte remains, whatever the values are,        *)
(* strings that are too long for their length field included.              *)
MessageIsImage ==
    message # <<>> =>
        LET read == Decoded(message)
        IN  /\ read.state = "Ok"
            /\ read.rest = <<>>
            /\ read.values = [i \in DOMAIN PortIDs |->
                                Carried(outputTypes[i], outputVariables[i])]

=============================================================================
