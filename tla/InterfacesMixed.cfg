SPECIFICATION IfcSpec
CONSTANTS
    Hierarchies <- MCZoos
    Addresses = {16, 32}
    Mixed = TRUE
INVARIANT
    DispatchRight
CHECK_DEADLOCK FALSE
