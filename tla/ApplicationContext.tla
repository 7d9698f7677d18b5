------------------------- MODULE ApplicationContext -------------------------
(***************************************************************************)
(* The configuration of the program (src/src/base/ApplicationContext.cpp): *)
(* the options of the command line go into a property tree one by one, the *)
(* model may add its default start time, and the two channel mappings are  *)
(* built from the tree when they are asked for first.                      *)
(***************************************************************************)
EXTENDS ChannelMapping

CONSTANTS
    CommandLines,   \* bound: a command line has options of one of these sets
    DefaultStarts,  \* start times of default experiments, NULL if there is none
    NULL

ASSUME ContextAssumption == NULL \notin UNION CommandLines

VARIABLES
    phase,             \* "options", "ready", or "failed": an exception left
    config,            \* config_
    given,             \* history: the options that were accepted
    portIDSource,      \* portIDSource_: the next number of each type
    outputChannelMap,  \* outputChannelMap_
    inputChannelMap    \* inputChannelMap_

contextVars ==
    <<phase, config, given, portIDSource, outputChannelMap, inputChannelMap>>

ProgramName == <<"app", "name">>
StartTime == <<"app", "startTime">>
Out == <<"out">>
In == <<"in">>

(* An option that is well formed, and the ones that are not.               *)
Option(key, value) == [equals |-> TRUE, key |-> key, value |-> value]
NoEqualsSign(text) == [equals |-> FALSE, key |-> text, value |-> ""]

Options == UNION CommandLines

-----------------------------------------------------------------------------
(* The property tree.                                                      *)

(* put() makes the nodes on the way that do not exist.                     *)
put(tree, key, value) ==
    LET nodes == {SubSeq(key, 1, n) : n \in 1..Len(key)}
    IN  [path \in DOMAIN tree \cup nodes |->
            IF path = key THEN value
            ELSE IF path \in DOMAIN tree THEN tree[path] ELSE ""]

EmptyTree == [path \in {} |-> ""]

hasProperty(key) == key \in DOMAIN config

ContextInit ==
    /\ phase = "options"
    /\ config = put(EmptyTree, ProgramName, "not set")
    /\ given = {}
    /\ portIDSource = [type \in TypeCodes |-> 0]
    /\ outputChannelMap = NULL
    /\ inputChannelMap = NULL

(* The option is refused with an std::invalid_argument.                    *)
invalidOption(opt) ==
    ~opt.equals \/ opt.key = <<>> \/ hasProperty(opt.key)

addCommandlineOption(opt) ==
    /\ phase = "options"
    /\ \E line \in CommandLines : given \cup {opt} \subseteq line
    /\ IF invalidOption(opt)
       THEN phase' = "failed" /\ UNCHANGED <<config, given>>
       ELSE /\ config' = put(config, opt.key, opt.value)
            /\ given' = given \cup {opt}
            /\ UNCHANGED phase
    /\ UNCHANGED <<portIDSource, outputChannelMap, inputChannelMap>>

(* addCommandlineProperties() returns.                                     *)
optionsAdded ==
    /\ phase = "options"
    /\ phase' = "ready"
    /\ UNCHANGED <<config, given, portIDSource, outputChannelMap, inputChannelMap>>

(* The configuration after addSensitiveDefaultProperties().                *)
withDefaults(start) ==
    IF hasProperty(StartTime) \/ start = NULL THEN config
    ELSE put(config, StartTime, start)

addSensitiveDefaultProperties(start) ==
    /\ phase = "ready"
    /\ config' = withDefaults(start)
    /\ UNCHANGED <<phase, given, portIDSource, outputChannelMap, inputChannelMap>>

-----------------------------------------------------------------------------
(* The channel mappings.                                                   *)

newChannelMapping(prefix, nextPortID) == addChannels(config, prefix, nextPortID)

(* The mapping is built unless it exists.  A construction that throws has  *)
(* drawn its identifiers all the same.                                     *)
built(map, prefix, nextPortID) ==
    IF map = NULL THEN newChannelMapping(prefix, nextPortID)
    ELSE [mapping |-> map, next |-> nextPortID, thrown |-> FALSE]

(* getOutputChannelMapping() and getInputChannelMapping(), in the order in *)
(* which init() of the predictors calls them.                              *)
outMapping == built(outputChannelMap, Out, portIDSource)
inMapping == built(inputChannelMap, In, outMapping.next)

-----------------------------------------------------------------------------
(* Properties.                                                             *)

Mappings == {outputChannelMap, inputChannelMap} \ {NULL}

(* The tree is a function of the options that were accepted, whatever      *)
(* their order and although put() makes parents on the way: it has the     *)
(* nodes on the paths of the options, of the program's name and of the     *)
(* model's start time if that was not given, and no other; an option has   *)
(* the value of the command line, a mere parent none, and neither another  *)
(* option nor a default of the model replaces one.                         *)
TreeFollowsOptions ==
    LET keys == {opt.key : opt \in given}
        added == {ProgramName} \cup ({StartTime} \cap DOMAIN config)
        parents(key) == {SubSeq(key, 1, n) : n \in 1..Len(key)}
    IN  /\ DOMAIN config = UNION {parents(key) : key \in keys \cup added}
        /\ \A opt \in given : config[opt.key] = opt.value
        /\ ProgramName \notin keys /\ config[ProgramName] = "not set"
        /\ \A key \in added \ (keys \cup {ProgramName}) :
             config[key] \in DefaultStarts \ {NULL}
        /\ \A path \in DOMAIN config \ (keys \cup added) : config[path] = ""

(* "Every PortID is uniquely assigned along all input and output ports":   *)
(* an identifier stands for one variable of one direction, although each   *)
(* mapping draws the identifiers for itself.                               *)
PortIDsUnique ==
    LET all(mapping) == IF mapping = NULL THEN <<>> ELSE getAllVariableIDs(mapping)
    IN  IsInjective(all(inputChannelMap) \o all(outputChannelMap))

(* A mapping has the channels and ports of the configuration up to the     *)
(* first gap of their numbers, each port with an identifier that resolves  *)
(* to its name and type; ports share an identifier if and only if they     *)
(* have the same name and type.                                            *)
FollowsConfig(mapping, prefix) ==
    LET path(c, v) == prefix \o <<ToString(c - 1), ToString(v - 1)>>
        channels == mapping.channels
        ports == UNION {{<<c, v>> : v \in DOMAIN channels[c]} : c \in DOMAIN channels}
        id(p) == channels[p[1]][p[2]].id
        name(p) == config[path(p[1], p[2])]
        type(p) == typeOf(config, path(p[1], p[2]))
    IN  /\ Append(prefix, ToString(Len(channels))) \notin DOMAIN config
        /\ \A c \in DOMAIN channels :
             path(c, Len(channels[c]) + 1) \notin DOMAIN config
        /\ \A p \in ports :
             \E i \in DOMAIN mapping.ids[type(p)] :
                /\ mapping.ids[type(p)][i] = id(p)
                /\ mapping.names[type(p)][i] = name(p)
                /\ id(p)[1] = type(p)
        /\ \A p, q \in ports :
             id(p) = id(q) <=> name(p) = name(q) /\ type(p) = type(q)

MappingsFollowConfig ==
    /\ outputChannelMap # NULL => FollowsConfig(outputChannelMap, Out)
    /\ inputChannelMap # NULL => FollowsConfig(inputChannelMap, In)

(* The identifiers of the ports: unique, and in line with the options.     *)
PortsIdentified == PortIDsUnique /\ MappingsFollowConfig

=============================================================================
