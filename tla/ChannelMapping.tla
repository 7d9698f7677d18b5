--------------------------- MODULE ChannelMapping ---------------------------
(***************************************************************************)
(* The ports of the input or of the output channels, as ChannelMapping     *)
(* reads them from the configuration (src/src/base/ChannelMapping.cpp,     *)
(* TransmissionChannel.cpp) with the identifiers that PortIDDrawer hands   *)
(* out (PortIDDrawer.cpp).                                                 *)
(*                                                                         *)
(* A configuration maps the path of every node of the property tree to its *)
(* text, which is empty if the node was made for the sake of a child.  An  *)
(* index of a path is the text of a number.                                *)
(***************************************************************************)
EXTENDS Integers, SequencesExt

fmiTypeUnknown == 4
TypeCodes == 0..fmiTypeUnknown

(* The texts that get<int>() reads as a number, out of the ones that an    *)
(* instance contains.                                                      *)
Numerals == {ToString(n) : n \in -1..9}
toInt(text) == CHOOSE n \in -1..9 : ToString(n) = text

PortID(type, n) == <<type, n>>

EmptyMapping ==
    [names |-> [type \in TypeCodes |-> <<>>],
     ids |-> [type \in TypeCodes |-> <<>>],
     channels |-> <<>>]

-----------------------------------------------------------------------------
(* Reading the configuration.  Construction is a record of the mapping so  *)
(* far, the drawer's nextPortID_ and whether it has thrown.                *)

(* Mutant: a drawn number is not counted.                                  *)
getNextPortIDRepeated(nextPortID, type) ==
    [id |-> PortID(type, nextPortID[type]), next |-> nextPortID]

getNextPortID(nextPortID, type) ==
    [id |-> PortID(type, nextPortID[type]),
     next |-> [nextPortID EXCEPT ![type] = @ + 1]]

(* The indexed children of a node, up to the first gap.                    *)
indices(config, path) ==
    LET child(n) == Append(path, ToString(n))
        gap == CHOOSE n \in 0..Cardinality(DOMAIN config) :
                 /\ child(n) \notin DOMAIN config
                 /\ \A i \in 0..(n - 1) : child(i) \in DOMAIN config
    IN  [i \in 1..gap |-> child(i - 1)]

(* A type that is missing or is no number is unknown.                      *)
typeOf(config, port) ==
    LET path == Append(port, "type")
    IN  IF path \in DOMAIN config /\ config[path] \in Numerals
        THEN toInt(config[path]) ELSE fmiTypeUnknown

(* The identifier of a known name: none, or the one with its type.         *)
getID(mapping, name, type) ==
    {mapping.ids[type][i] :
        i \in {j \in DOMAIN mapping.names[type] : mapping.names[type][j] = name}}

pushBackPort(channel, id, config) == Append(channel, [id |-> id, config |-> config])

addVariable(config, build, port) ==
    LET name == config[port]
        type == typeOf(config, port)
        known == getID(build.mapping, name, type)
        drawn == getNextPortID(build.next, type)
        last == Len(build.mapping.channels)
        push(mapping, id) ==
            [mapping EXCEPT !.channels[last] = pushBackPort(@, id, port)]
    IN  IF build.thrown \/ name = "" \/ type \notin TypeCodes
        THEN [build EXCEPT !.thrown = TRUE]
        ELSE IF known # {}
        THEN [build EXCEPT !.mapping = push(@, CHOOSE id \in known : TRUE)]
        ELSE [build EXCEPT
                !.next = drawn.next,
                !.mapping = push([@ EXCEPT !.names[type] = Append(@, name),
                                           !.ids[type] = Append(@, drawn.id)],
                                 drawn.id)]

addVariables(config, build, channel) ==
    LET opened == [build EXCEPT !.mapping.channels = Append(@, <<>>)]
    IN  FoldLeft(LAMBDA b, port : addVariable(config, b, port),
                 opened, indices(config, channel))

addChannels(config, prefix, nextPortID) ==
    FoldLeft(LAMBDA b, channel : addVariables(config, b, channel),
             [mapping |-> EmptyMapping, next |-> nextPortID, thrown |-> FALSE],
             indices(config, prefix))

-----------------------------------------------------------------------------
(* Queries.                                                                *)

AllTypes == [i \in 1..(fmiTypeUnknown + 1) |-> i - 1]

getAllVariableNames(mapping) ==
    FoldLeft(LAMBDA all, type : all \o mapping.names[type], <<>>, AllTypes)

getAllVariableIDs(mapping) ==
    FoldLeft(LAMBDA all, type : all \o mapping.ids[type], <<>>, AllTypes)

=============================================================================
