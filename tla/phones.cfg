SPECIFICATION MCSpec
CONSTANTS
    c1 = c1
    c2 = c2
    k1 = k1
    m1 = m1
    m2 = m2
    m3 = m3
    m4 = m4
    d1 = d1
    d2 = d2
    s1 = s1
    s2 = s2
    s3 = s3
    q1 = q1
    q2 = q2
    Message = {m1, m2, m3, m4}
    Modem = {d1, d2}
    Parts <- OutParts
    Rejected = {m2}
    Unsendable = {m3}
    RETRIES = 1
    PORTS = 1
    EVENTS_MAX = 2
    Chan = {c1, c2}
    Digit = {k1}
    Extension <- Extensions
    Incoming = {s1, s2, s3}
    InParts <- PartsIn
    Reference <- ReferenceIn
    Earlier <- EarlierIn
    MEMORY = 2
    TRIES = 2
    REOPEN = 2
    WAIT = 4
    Pins = {"none", "right", "wrong"}
    NetworkChecks = {2}
    Call = {q1, q2}
    LIMIT = 1
    ERRORS = 2
    Devices <- Modes
    Texts <- AllTexts
    First = {1, 255}
    Main = Main
    None = None
INVARIANTS
    PhonesTypeOK
    
    
    OneOwner
    
    NothingLost
    WrongPinOnce
    SendsWhenReady
    ReadAsSent
PROPERTIES
    CallEnds
    
    Handled
    Combined
    CallsOnce
\* The bounds are used up, or the programs have ended.
CHECK_DEADLOCK FALSE
