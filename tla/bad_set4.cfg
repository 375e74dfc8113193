SPECIFICATION MCSpec
CONSTANTS
    n1 = n1
    n2 = n2
    n3 = n3
    Node = {n1, n2}
    Outputs = {2}
    Inputs = {4}
    SetX = {2, 4}
    Rules <- NoRules
    IVRSETTIMEOUT = 2
    Unknown = Unknown
    Kinds = {"set"}
    MaxEvents = 1
    Warm = FALSE
PROPERTIES
    InputBitsAreRead
