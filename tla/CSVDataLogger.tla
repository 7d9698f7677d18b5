---------------------------- MODULE CSVDataLogger ----------------------------
(***************************************************************************)
(* The data file (src/src/timing/CSVDataLogger.cpp).  The logger is a      *)
(* listener of the dispatcher and writes one row per event.  Its columns   *)
(* are the variables of the input and then of the output channels, ordered *)
(* by type; the names and the identifiers of the columns come from         *)
(* different lists of the two mappings.                                    *)
(*                                                                         *)
(* A row is the sequence of its cells after the time; how a cell is        *)
(* written is left out, and an empty one is NULL.                          *)
(***************************************************************************)
EXTENDS ApplicationContext

CONSTANTS
    Values,    \* the values of a variable
    MaxRows    \* bound: number of rows

ASSUME LoggerAssumption == MaxRows \in Nat

VARIABLES
    outputStream,  \* outputStream_ is set
    header,        \* header_: the identifier of each column
    nameHeader,    \* the first row of the file
    rows,          \* the other rows
    events         \* history: the events the rows stand for

loggerVars == <<outputStream, header, nameHeader, rows, events>>

DataFile == <<"app", "dataFile">>

LoggerInit ==
    /\ outputStream = FALSE
    /\ header = <<>>
    /\ nameHeader = <<>>
    /\ rows = <<>>
    /\ events = <<>>

(* Mutant: the names of the outputs come first.                            *)
initHeaderSwapped(inChannelMapping, outChannelMapping) ==
    /\ header' = getAllVariableIDs(inChannelMapping)
                    \o getAllVariableIDs(outChannelMapping)
    /\ nameHeader' = getAllVariableNames(outChannelMapping)
                        \o getAllVariableNames(inChannelMapping)

initHeader(inChannelMapping, outChannelMapping) ==
    /\ header' = getAllVariableIDs(inChannelMapping)
                    \o getAllVariableIDs(outChannelMapping)
    /\ nameHeader' = getAllVariableNames(inChannelMapping)
                        \o getAllVariableNames(outChannelMapping)

(* The constructor returns.  Both mappings exist since the predictor was   *)
(* initialised.                                                            *)
create ==
    /\ IF hasProperty(DataFile)
       THEN /\ outputStream' = TRUE
            /\ initHeader(inputChannelMap, outputChannelMap)
       ELSE UNCHANGED <<outputStream, header, nameHeader>>
    /\ UNCHANGED <<rows, events>>

(* The first variable with the identifier, if there is one.                *)
findVariable(id, variables) ==
    LET found == {i \in DOMAIN variables : variables[i].id = id}
    IN  IF found = {} THEN NULL
        ELSE variables[CHOOSE i \in found : \A j \in found : i <= j].value

row(variables) == [i \in DOMAIN header |-> findVariable(header[i], variables)]

(* Nothing is written without a file.                                      *)
eventTriggered(variables) ==
    /\ IF outputStream
       THEN rows' = Append(rows, row(variables)) /\ events' = Append(events, variables)
       ELSE UNCHANGED <<rows, events>>
    /\ UNCHANGED <<outputStream, header, nameHeader>>

(* An event carries the values of one input channel, or of all outputs.    *)
valuesOf(ids) ==
    {[i \in DOMAIN ids |-> [id |-> ids[i], value |-> values[i]]] :
        values \in [DOMAIN ids -> Values]}

Events ==
    valuesOf(getAllVariableIDs(outputChannelMap))
        \cup UNION {valuesOf([i \in DOMAIN channel |-> channel[i].id]) :
                    channel \in Range(inputChannelMap.channels)}

-----------------------------------------------------------------------------
(* Properties.                                                             *)

(* "The order of the ports corresponds to the order of the variable        *)
(* names": the name above a column is the one that the column's identifier *)
(* has in the mapping of its direction, though names and identifiers are   *)
(* collected from different lists.                                         *)
ColumnsNamed ==
    outputStream =>
        /\ Len(header) = Len(nameHeader)
        /\ \A i \in DOMAIN header :
             \E mapping \in Mappings :
                \E j \in DOMAIN mapping.ids[header[i][1]] :
                    /\ mapping.ids[header[i][1]][j] = header[i]
                    /\ mapping.names[header[i][1]][j] = nameHeader[i]

(* Every value of an event is found in the row of the event, under its     *)
(* variable and nowhere else, and the other cells are empty.  An event of  *)
(* a channel with two ports of one variable has two values for it; the     *)
(* first one is taken.                                                     *)
RowsHoldEvents ==
    /\ Len(rows) = Len(events)
    /\ \A r \in DOMAIN rows :
         LET ids == {events[r][i].id : i \in DOMAIN events[r]}
         IN  /\ Len(rows[r]) = Len(header)
             /\ ids \subseteq Range(header)
             /\ \A i \in DOMAIN header :
                  IF header[i] \in ids
                  THEN \E k \in DOMAIN events[r] :
                        /\ events[r][k] = [id |-> header[i], value |-> rows[r][i]]
                        /\ \A l \in 1..(k - 1) : events[r][l].id # header[i]
                  ELSE rows[r][i] = NULL

(* The data file names its columns and has every value in its column.      *)
DataFileSound == ColumnsNamed /\ RowsHoldEvents

=============================================================================
