--------------------- MODULE CompactASN1PublisherProofs ---------------------
(***************************************************************************)
(* Proofs about a publisher, for all ports, variables and values: its      *)
(* image has the latest values, and the last message is the image, as a    *)
(* receiver with the same ports decodes it.                                *)
(***************************************************************************)
EXTENDS CompactASN1Publisher, DataProofs

(* The inductive invariant: nothing is listened to before init(), and an   *)
(* image that is in use is complete, has the value of each variable that   *)
(* was announced last and an encoding for each type.                       *)
PublisherInv ==
    /\ phase = "created" =>
          latest = [id \in Variables |-> DefaultValue(TypeOf[id])]
    /\ phase = "listening" =>
          /\ DOMAIN outputVariables = DOMAIN PortIDs
          /\ \A i \in DOMAIN PortIDs :
                /\ outputVariables[i] = latest[PortIDs[i]]
                /\ Castable(PortType(i), outputTypes[i])

(* Every port has a variable of the model, whose type is known.            *)
LEMMA PortVariables ==
    \A i \in DOMAIN PortIDs : PortIDs[i] \in Variables /\ PortType(i) \in FMITypes
<1>1. \A i \in DOMAIN PortIDs : PortIDs[i] \in Variables
  BY PublisherAssumption
<1> QED BY <1>1, PublisherAssumption DEF PortType

(* The default encoding of a type can be cast to.                          *)
LEMMA DefaultCastable ==
    ASSUME NEW type \in FMITypes
    PROVE  Castable(type, getDefaultType(type))
BY DEF FMITypes, Castable, getDefaultType

(* initOutputTypes() gives every port an encoding for its type.            *)
LEMMA AcceptableCastable ==
    ASSUME NEW encoding, Acceptable(encoding)
    PROVE  \A i \in DOMAIN PortIDs : Castable(PortType(i), initOutputTypes(encoding)[i])
<1> SUFFICES ASSUME NEW i \in DOMAIN PortIDs
             PROVE  Castable(PortType(i), initOutputTypes(encoding)[i])
  OBVIOUS
<1>1. initOutputTypes(encoding)[i]
        = IF encoding[i] = "" THEN getDefaultType(PortType(i)) ELSE encoding[i]
  BY DEF initOutputTypes
<1>2. CASE encoding[i] = ""
  BY <1>1, <1>2, PortVariables, DefaultCastable
<1>3. CASE encoding[i] # ""
  BY <1>1, <1>3 DEF Acceptable
<1> QED BY <1>2, <1>3

(* init() starts from the values that the variables have by default and    *)
(* refuses an encoding that does not fit its port.                         *)
LEMMA InitPreserves ==
    ASSUME PublisherInv, NEW encoding, init(encoding)
    PROVE  PublisherInv'
<1>1. phase = "created" /\ UNCHANGED latest
  BY DEF init
<1>2. CASE ~Acceptable(encoding)
  BY <1>2 DEF init, PublisherInv
<1>3. CASE Acceptable(encoding)
  <2>1. /\ outputVariables' = [i \in DOMAIN PortIDs |-> DefaultValue(PortType(i))]
        /\ outputTypes' = initOutputTypes(encoding)
        /\ phase' \in {"listening", "failed"}
    BY <1>3 DEF init
  <2>2. \A i \in DOMAIN PortIDs : outputVariables'[i] = latest'[PortIDs[i]]
    BY <1>1, <2>1, PortVariables DEF PublisherInv, PortType
  <2>3. \A i \in DOMAIN PortIDs : Castable(PortType(i), outputTypes'[i])
    BY <1>3, <2>1, AcceptableCastable
  <2>4. DOMAIN outputVariables' = DOMAIN PortIDs
    BY <2>1
  <2> QED BY <2>1, <2>2, <2>3, <2>4 DEF PublisherInv
<1> QED BY <1>2, <1>3

(* Every port of a variable that an event names takes the new value.       *)
LEMMA EventPreserves ==
    ASSUME PublisherInv, NEW event, eventTriggered(event)
    PROVE  PublisherInv'
<1>1. /\ phase = "listening" /\ phase' \in {"listening", "failed"}
      /\ latest' = [id \in Variables |->
                      IF id \in DOMAIN event THEN event[id] ELSE latest[id]]
      /\ outputVariables' = [i \in DOMAIN outputVariables |->
                               IF PortIDs[i] \in DOMAIN event
                               THEN event[PortIDs[i]] ELSE outputVariables[i]]
      /\ UNCHANGED outputTypes
  BY DEF eventTriggered, updateOutputVariables, sendData
<1>2. DOMAIN outputVariables = DOMAIN PortIDs
  BY <1>1 DEF PublisherInv
<1>3. \A i \in DOMAIN PortIDs : outputVariables'[i] = latest'[PortIDs[i]]
  BY <1>1, <1>2, PortVariables DEF PublisherInv
<1> QED BY <1>1, <1>2, <1>3 DEF PublisherInv

(* The invariant holds in every behaviour of the publisher.                *)
THEOREM PublisherCorrect == Spec => []PublisherInv
<1>1. Init => PublisherInv
  BY DEF Init, PublisherInv
<1>2. PublisherInv /\ [Next]_vars => PublisherInv'
  <2> SUFFICES ASSUME PublisherInv, [Next]_vars PROVE PublisherInv'
    OBVIOUS
  <2>1. CASE UNCHANGED vars
    BY <2>1 DEF vars, PublisherInv
  <2> QED BY <2>1, InitPreserves, EventPreserves DEF Next
<1> QED BY <1>1, <1>2, PTL DEF Spec

(* The image of a publisher has the latest value of every port, also if    *)
(* two ports share a variable, and an encoding for its type.               *)
THEOREM PublisherImageIsLatest == Spec => []ImageIsLatest
<1>1. PublisherInv => ImageIsLatest
  BY DEF PublisherInv, ImageIsLatest
<1> QED BY <1>1, PublisherCorrect, PTL


-----------------------------------------------------------------------------
(* What a message holds.                                                   *)

(* The inductive invariant: an image that is in use has a value of its     *)
(* type at every port, and the last message is its encoding.               *)
MessageInv ==
    /\ phase = "created" => message = <<>>
    /\ phase = "listening" \/ message # <<>> =>
          /\ outputVariables = [i \in DOMAIN PortIDs |-> outputVariables[i]]
          /\ \A i \in DOMAIN PortIDs :
                /\ IsValue(PortType(i), outputVariables[i])
                /\ Castable(PortType(i), outputTypes[i])
    /\ message # <<>> =>
          message = encodeASN1OutputVariables(outputTypes, outputVariables)

(* The initial value of a port has its type.                               *)
LEMMA DefaultIsValue ==
    ASSUME NEW type \in FMITypes
    PROVE  IsValue(type, DefaultValue(type))
<1>1. DefaultValue(type) = Value(type, DefaultValue(type).val)
  BY DEF DefaultValue, Value
<1>2. CASE type = "String"
  <2>1. DefaultValue(type).val = <<>>
    BY <1>2 DEF DefaultValue, Value
  <2>2. <<>> \in Seq(0..255)
    OBVIOUS
  <2> QED BY <1>1, <1>2, <2>1, <2>2 DEF IsValue
<1>3. CASE type = "Boolean"
  <2>1. DefaultValue(type).val = <<0>>
    BY <1>3 DEF DefaultValue, Value
  <2> QED BY <1>1, <1>3, <2>1 DEF IsValue
<1>4. CASE type \notin {"String", "Boolean"}
  <2>1. DefaultValue(type).val = <<0>>
    BY <1>4 DEF DefaultValue, Value
  <2>2. 0 \in Int32
    BY SMT DEF Int32
  <2>3. Len(<<0>>) = 1 /\ <<0>> \in Seq(Int32)
    BY <2>2
  <2> QED BY <1>1, <1>4, <2>1, <2>3 DEF IsValue
<1> QED BY <1>2, <1>3, <1>4

(* An encoding that a type can be cast to is made for its values.          *)
LEMMA CastableEncodable ==
    ASSUME NEW type \in FMITypes, NEW asnType, NEW v,
           Castable(type, asnType), IsValue(type, v)
    PROVE  Encodable(asnType, v)
BY DEF FMITypes, Castable, Encodable

(* ... and does not change their type.                                     *)
LEMMA CarriedType ==
    ASSUME NEW type \in FMITypes, NEW asnType, NEW v,
           Castable(type, asnType), IsValue(type, v)
    PROVE  Carried(asnType, v).type = type
<1>1. v.type = type
  BY DEF IsValue, Value
<1>2. CASE asnType = "REAL"
  BY <1>2 DEF FMITypes, Castable, Carried, Value
<1>3. CASE asnType = "STRING"
  BY <1>3 DEF FMITypes, Castable, Carried, Value
<1>4. CASE asnType \notin {"REAL", "STRING"}
  BY <1>1, <1>4 DEF Carried
<1> QED BY <1>2, <1>3, <1>4

(* A value of the type that is asked for is handed on as it is.            *)
LEMMA NoConversion ==
    ASSUME NEW dest, NEW v, v.type = dest, NEW rest
    PROVE  readAndConvertVariable(dest, Parsed("Ok", v, rest)) = Parsed("Ok", v, rest)
<1>1. convert(dest, v) = <<v>>
  BY DEF convert
<1>2. <<v>> # <<>> /\ Head(<<v>>) = v
  OBVIOUS
<1>3. Parsed("Ok", v, rest).state = "Ok" /\ Parsed("Ok", v, rest).value = v
  BY DEF Parsed
<1>4. [Parsed("Ok", v, rest) EXCEPT !.value = v] = Parsed("Ok", v, rest)
  BY DEF Parsed
<1> QED BY <1>1, <1>2, <1>3, <1>4 DEF readAndConvertVariable

(* init() fills the image with initial values.                             *)
LEMMA InitPreservesMessage ==
    ASSUME MessageInv, NEW encoding, init(encoding)
    PROVE  MessageInv'
<1>1. phase = "created" /\ UNCHANGED message /\ message = <<>> /\ phase' # "created"
  BY DEF init, MessageInv
<1>2. CASE ~Acceptable(encoding)
  <2>1. phase' = "failed"
    BY <1>2 DEF init
  <2> QED BY <1>1, <2>1 DEF MessageInv
<1>3. CASE Acceptable(encoding)
  <2>1. /\ outputVariables' = [i \in DOMAIN PortIDs |-> DefaultValue(PortType(i))]
        /\ outputTypes' = initOutputTypes(encoding)
    BY <1>3 DEF init
  <2>2. \A i \in DOMAIN PortIDs : IsValue(PortType(i), outputVariables'[i])
    BY <2>1, PortVariables, DefaultIsValue
  <2>3. \A i \in DOMAIN PortIDs : Castable(PortType(i), outputTypes'[i])
    BY <1>3, <2>1, AcceptableCastable
  <2>4. outputVariables' = [i \in DOMAIN PortIDs |-> outputVariables'[i]]
    BY <2>1
  <2> QED BY <1>1, <2>2, <2>3, <2>4 DEF MessageInv
<1> QED BY <1>2, <1>3

(* An event that concerns the channel renews the message with the image,   *)
(* and any other leaves both alone.                                        *)
LEMMA EventPreservesMessage ==
    ASSUME MessageInv, NEW event \in Events, eventTriggered(event)
    PROVE  MessageInv'
<1>1. /\ phase = "listening" /\ phase' # "created"
      /\ outputVariables' = updateOutputVariables(outputVariables, event)
      /\ UNCHANGED outputTypes
  BY DEF eventTriggered, sendData
<1>2. /\ outputVariables = [i \in DOMAIN PortIDs |-> outputVariables[i]]
      /\ \A i \in DOMAIN PortIDs :
            /\ IsValue(PortType(i), outputVariables[i])
            /\ Castable(PortType(i), outputTypes[i])
  BY <1>1 DEF MessageInv
<1>3. outputVariables' = [i \in DOMAIN PortIDs |->
                            IF PortIDs[i] \in DOMAIN event
                            THEN event[PortIDs[i]] ELSE outputVariables[i]]
  BY <1>1, <1>2 DEF updateOutputVariables
<1>4. \A id \in DOMAIN event : event[id] \in Values[id]
  BY DEF Events
<1>5. ASSUME NEW i \in DOMAIN PortIDs PROVE IsValue(PortType(i), outputVariables'[i])
  <2>1. PortIDs[i] \in Variables
    BY PortVariables
  <2>2. CASE PortIDs[i] \in DOMAIN event
    BY <1>3, <1>4, <2>1, <2>2, PublisherAssumption DEF PortType
  <2>3. CASE PortIDs[i] \notin DOMAIN event
    BY <1>2, <1>3, <2>3
  <2> QED BY <2>2, <2>3
<1>6. outputVariables' = [i \in DOMAIN PortIDs |-> outputVariables'[i]]
  BY <1>3
<1>7. message' # <<>> =>
         message' = encodeASN1OutputVariables(outputTypes', outputVariables')
  <2>1. CASE Concerns(event)
    BY <1>1, <2>1 DEF eventTriggered, sendData
  <2>2. CASE ~Concerns(event)
    <3>1. UNCHANGED message
      BY <2>2 DEF eventTriggered
    <3>2. \A i \in DOMAIN PortIDs : PortIDs[i] \notin DOMAIN event
      BY <2>2 DEF Concerns
    <3>3. outputVariables' = outputVariables
      BY <1>2, <1>3, <3>2
    <3> QED BY <1>1, <3>1, <3>3 DEF MessageInv
  <2> QED BY <2>1, <2>2
<1>8. phase' # "created" /\ UNCHANGED outputTypes
  BY <1>1
<1> QED BY <1>2, <1>5, <1>6, <1>7, <1>8 DEF MessageInv

(* The invariant holds in every behaviour of the publisher.                *)
THEOREM PublisherMessage == Spec => []MessageInv
<1>1. Init => MessageInv
  BY DEF Init, MessageInv
<1>2. MessageInv /\ [Next]_vars => MessageInv'
  <2> SUFFICES ASSUME MessageInv, [Next]_vars PROVE MessageInv'
    OBVIOUS
  <2>1. CASE UNCHANGED vars
    BY <2>1 DEF vars, MessageInv
  <2> QED BY <2>1, InitPreservesMessage, EventPreservesMessage DEF Next
<1> QED BY <1>1, <1>2, PTL DEF Spec

(* Every port reads its value in what the ports before it have left.       *)
PortsRead(rest, carried) ==
    \A i \in 1..Len(PortIDs) :
        /\ rest[i - 1] # <<>>
        /\ readNextVariable(PortType(i), rest[i - 1])
              = Parsed("Ok", carried[i], rest[i])

(* The loop over the ports then ends with all of the values.               *)
LEMMA DecodeSteps ==
    ASSUME NEW rest, NEW carried, PortsRead(rest, carried)
    PROVE  decodedAfter(rest[0])[Len(PortIDs)]
              = [state |-> "Ok", rest |-> rest[Len(PortIDs)],
                 values |-> [k \in 1..Len(PortIDs) |-> carried[k]]]
<1>1. PICK n \in Nat : n = Len(PortIDs)
  BY PublisherAssumption
<1>2. \A i \in 1..n : /\ rest[i - 1] # <<>>
                      /\ readNextVariable(PortType(i), rest[i - 1])
                           = Parsed("Ok", carried[i], rest[i])
  BY <1>1 DEF PortsRead
<1> DEFINE good == [i \in 0..n |->
                      [state |-> "Ok", rest |-> rest[i],
                       values |-> [k \in 1..i |-> carried[k]]]]
           first == [state |-> "Ok", rest |-> rest[0], values |-> <<>>]
           Body(f) == [i \in 0..n |-> IF i = 0 THEN first ELSE readPort(f[i - 1], i)]
           after == decodedAfter(rest[0])
<1>3. good[0] = first
  <2>1. [k \in 1..0 |-> carried[k]] = <<>>
    OBVIOUS
  <2> QED BY <2>1
<1>4. ASSUME NEW i \in 1..n PROVE good[i] = readPort(good[i - 1], i)
  <2>1. i - 1 \in 0..n /\ i \in 0..n
    OBVIOUS
  <2>2. PICK g : g = good[i - 1]
    OBVIOUS
  <2>3. /\ g.state = "Ok" /\ g.rest = rest[i - 1]
        /\ g.values = [k \in 1..(i - 1) |-> carried[k]]
    BY <2>1, <2>2
  <2>4. PICK read : read = readNextVariable(PortType(i), g.rest)
    OBVIOUS
  <2>5. read.state = "Ok" /\ read.value = carried[i] /\ read.rest = rest[i]
    <3>1. g.rest = rest[i - 1]
      BY <2>3
    <3>2. read = Parsed("Ok", carried[i], rest[i])
      BY <1>2, <2>4, <3>1
    <3> QED BY <3>2 DEF Parsed
  <2>6. PICK values : values = [k \in 1..i |-> carried[k]]
    OBVIOUS
  <2>7. Append(g.values, read.value) = values
    BY <2>3, <2>5, <2>6
  <2>8. g.rest # <<>>
    BY <1>2, <2>3
  <2>9. readPort(g, i) = [state |-> "Ok", rest |-> rest[i], values |-> values]
    BY <2>3, <2>4, <2>5, <2>7, <2>8, Zenon DEF readPort
  <2> QED BY <2>1, <2>2, <2>6, <2>9
<1> HIDE DEF first
<1>5. good = Body(good)
  <2>1. \A i \in 0..n : good[i] = Body(good)[i]
    <3> HIDE DEF good
    <3> QED BY <1>3, <1>4
  <2>2. good = [i \in 0..n |-> good[i]] /\ Body(good) = [i \in 0..n |-> Body(good)[i]]
    OBVIOUS
  <2> HIDE DEF Body, good
  <2> QED BY <2>1, <2>2
<1>6. after = CHOOSE g : g = Body(g)
  BY <1>1 DEF decodedAfter, first
<1> HIDE DEF after
<1>7. after = Body(after)
  <2> HIDE DEF Body, good
  <2> QED BY <1>5, <1>6
<1>8. 0..n \subseteq {i \in 0..n : after[i] = good[i]}
  <2> DEFINE T == {i \in 0..n : after[i] = good[i]}
  <2> HIDE DEF good
  <2>1. 0 \in T
    BY <1>3, <1>7
  <2>2. ASSUME NEW i \in 0..(n - 1), i \in T PROVE i + 1 \in T
    <3>1. PICK j \in 1..n : j = i + 1 /\ j - 1 = i /\ j \in 0..n
      OBVIOUS
    <3>2. after[j] = Body(after)[j]
      BY <1>7
    <3>3. after[j] = readPort(after[j - 1], j)
      BY <3>1, <3>2
    <3>4. after[j] = good[j]
      BY <1>4, <2>2, <3>1, <3>3
    <3> QED BY <3>1, <3>4
  <2> HIDE DEF T
  <2>3. 0..n \subseteq T
    BY <2>1, <2>2, Induction
  <2> QED BY <2>3 DEF T
<1>9. n \in 0..n
  OBVIOUS
<1>10. after[n] = good[n]
  <2> HIDE DEF good
  <2> QED BY <1>8, <1>9
<1> QED BY <1>9, <1>10, <1>1 DEF after

(* A receiver with the same ports reads the values that were encoded.      *)
LEMMA MessageDecodes ==
    ASSUME NEW types, NEW image, NEW n \in Nat, n = Len(PortIDs), Len(image) = n,
           \A i \in 1..n : /\ PortType(i) \in FMITypes
                           /\ IsValue(PortType(i), image[i])
                           /\ Castable(PortType(i), types[i])
    PROVE  Decoded(encodeASN1OutputVariables(types, image))
              = [state |-> "Ok", rest |-> <<>>,
                 values |-> [i \in 1..n |-> Carried(types[i], image[i])]]
<1>1. \A i \in 1..n : Encodable(types[i], image[i])
  BY CastableEncodable
<1>2. PICK junk \in Bytes : junk = <<>>
  <2>1. <<>> \in Bytes
    BY DEF Bytes
  <2> QED BY <2>1
<1>3. \A i \in 1..n : /\ encodeValue(types[i], image[i]) \in Bytes
                      /\ encodeValue(types[i], image[i]) # <<>>
  BY <1>1, <1>2, CodecRoundTrip DEF RoundTrip
<1>4. PICK enc : enc = [i \in 1..n |-> encodeValue(types[i], image[i])]
  OBVIOUS
<1>5. /\ enc \in [1..n -> Bytes]
      /\ \A i \in 1..n : encodeValue(types[i], image[i]) = enc[i]
  BY <1>3, <1>4
<1>6. PICK carried : carried = [i \in 1..n |-> Carried(types[i], image[i])]
  OBVIOUS
<1>7. PICK buffer : buffer = bufferAfter(types, image)
  OBVIOUS
<1>8. /\ buffer \in [0..n -> Bytes] /\ buffer[0] = <<>>
      /\ \A i \in 1..n : buffer[i] = buffer[i - 1] \o enc[i]
  <2>1. /\ Len(image) \in Nat
        /\ \A i \in 1..Len(image) : encodeValue(types[i], image[i]) \in Bytes
    BY <1>3
  <2>2. /\ buffer \in [0..Len(image) -> Bytes] /\ buffer[0] = <<>>
        /\ \A i \in 1..Len(image) :
              buffer[i] = buffer[i - 1] \o encodeValue(types[i], image[i])
    BY <1>7, <2>1, BufferSteps, Zenon
  <2> QED BY <1>5, <2>2
<1>9. PICK rest \in [0..n -> Bytes] :
         /\ rest[0] = buffer[n] \o junk
         /\ rest[n] = junk
         /\ \A i \in 1..n : rest[i - 1] = enc[i] \o rest[i]
  BY <1>5, <1>8, Remainders
<1>10. rest[0] = encodeASN1OutputVariables(types, image)
  <2>1. buffer[n] \in Bytes
    BY <1>8
  <2>2. encodeASN1OutputVariables(types, image) = buffer[n]
    BY <1>7 DEF encodeASN1OutputVariables
  <2> QED BY <1>2, <1>9, <2>1, <2>2, ConcatEmptySeq DEF Bytes
<1>11. ASSUME NEW i \in 1..n
       PROVE  /\ rest[i - 1] # <<>>
              /\ readNextVariable(PortType(i), enc[i] \o rest[i])
                    = Parsed("Ok", carried[i], rest[i])
  <2>1. enc[i] \in Bytes /\ rest[i] \in Bytes /\ enc[i] # <<>>
    BY <1>3, <1>5
  <2>2. rest[i - 1] # <<>>
    <3>1. enc[i] \o rest[i] # <<>>
      BY <2>1, NonEmpty
    <3> QED BY <1>9, <3>1
  <2>3. RoundTrip(types[i], image[i], PortType(i), rest[i])
    BY <1>1, <2>1, CodecRoundTrip
  <2>4. carried[i].type = PortType(i) /\ carried[i] = Carried(types[i], image[i])
    BY <1>6, CarriedType
  <2>5. readAndConvertVariable(PortType(i), Parsed("Ok", carried[i], rest[i]))
          = Parsed("Ok", carried[i], rest[i])
    BY <2>4, NoConversion
  <2> QED BY <1>5, <2>2, <2>3, <2>4, <2>5 DEF RoundTrip
<1>12. decodedAfter(rest[0])[n]
         = [state |-> "Ok", rest |-> rest[n], values |-> [k \in 1..n |-> carried[k]]]
  <2>1. PortsRead(rest, carried)
    BY <1>9, <1>11 DEF PortsRead
  <2>2. decodedAfter(rest[0])[Len(PortIDs)]
          = [state |-> "Ok", rest |-> rest[Len(PortIDs)],
             values |-> [k \in 1..Len(PortIDs) |-> carried[k]]]
    BY <2>1, DecodeSteps, Zenon
  <2> QED BY <2>2, Zenon
<1>13. [k \in 1..n |-> carried[k]] = [i \in 1..n |-> Carried(types[i], image[i])]
  BY <1>6
<1> QED BY <1>2, <1>9, <1>10, <1>12, <1>13 DEF Decoded

(* The receiver of a message finds one value per port and nothing behind   *)
(* them: the last message is the image, for every number of ports and all  *)
(* values of their types.                                                  *)
THEOREM PublisherMessageIsImage == Spec => []MessageIsImage
<1>1. MessageInv => MessageIsImage
  <2> SUFFICES ASSUME MessageInv, message # <<>>
               PROVE  LET read == Decoded(message)
                      IN  /\ read.state = "Ok"
                          /\ read.rest = <<>>
                          /\ read.values = [i \in DOMAIN PortIDs |->
                                Carried(outputTypes[i], outputVariables[i])]
    BY DEF MessageIsImage
  <2>1. PICK n \in Nat : n = Len(PortIDs) /\ DOMAIN PortIDs = 1..n
    BY PublisherAssumption
  <2>2. outputVariables = [i \in 1..n |-> outputVariables[i]]
    BY <2>1 DEF MessageInv
  <2>3. Len(outputVariables) = n
    BY <2>2
  <2>4. \A i \in 1..n : /\ PortType(i) \in FMITypes
                        /\ IsValue(PortType(i), outputVariables[i])
                        /\ Castable(PortType(i), outputTypes[i])
    BY <2>1, PortVariables DEF MessageInv
  <2>5. message = encodeASN1OutputVariables(outputTypes, outputVariables)
    BY DEF MessageInv
  <2>6. Decoded(message)
          = [state |-> "Ok", rest |-> <<>>,
             values |-> [i \in 1..n |-> Carried(outputTypes[i], outputVariables[i])]]
    BY <2>1, <2>3, <2>4, <2>5, MessageDecodes
  <2> QED BY <2>1, <2>6
<1> QED BY <1>1, PublisherMessage, PTL

=============================================================================
