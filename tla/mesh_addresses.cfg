SPECIFICATION MCSpec
CONSTANTS
    n1 = n1
    n2 = n2
    n3 = n3
    Node = {n1, n2, n3}
    Outputs = {2}
    Inputs = {4}
    SetX = {2}
    Rules <- RemoteRule
    IVRSETTIMEOUT = 2
    Unknown = Unknown
    Kinds = {"flip", "ivr", "query", "lose"}
    MaxEvents = 2
    Warm = TRUE
INVARIANTS
    AddressTable
    SetReachesTarget
