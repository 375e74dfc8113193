SPECIFICATION MCLiveSpec
CONSTANTS
    n1 = n1
    n2 = n2
    n3 = n3
    Node = {n1, n2}
    Outputs = {2}
    Inputs = {4}
    SetX = {2}
    Rules <- MixedRules
    IVRSETTIMEOUT = 2
    Unknown = Unknown
    Kinds = {"flip", "set"}
    MaxEvents = 2
    Warm = FALSE
PROPERTIES
    FallsSilent
    EventuallyInSync
    RuleTakesEffect
INVARIANTS
    NewcomerAnswered
