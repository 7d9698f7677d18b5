SPECIFICATION Spec
CONSTANTS
    NULL = NULL
    CommandLines <- MCCommandLines
    DefaultStarts = {NULL, "0"}
    FMUTypes <- MCFMUTypes
    ModelVariables <- MCModelVariables
    Values = {1, 2}
    MaxRows = 1
INVARIANTS
    PortsIdentified
    DataFileSound
    ConfigurationSound
CHECK_DEADLOCK FALSE
