SPECIFICATION Spec
CONSTANTS
    LengthRadix = 2
    PortIDs <- MCPortIDs
    Variables <- MCVariables
    TypeOf <- MCTypeOf
    Values <- MCValues
    Encodings <- MCEncodings
    MaxSent = 2
INVARIANTS
    ImageIsLatest
    MessageIsImage
CHECK_DEADLOCK FALSE
