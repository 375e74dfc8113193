SPECIFICATION MCBoxSpec
CONSTANTS
    Message = {m1, m2}
    Key = {k}
    Value = {v}
    Empty = Empty
    Done = Done
    Malformed = Malformed
    Length <- MCLength
    None = None
    INDEXES = 3
    LINE_CAPACITY = 3
    MaxCalls = 2
    MaxArrivals = 1
    MaxReboots = 1
    MaxRestarts = 1
    p1 = p1
    p2 = p2
    p3 = p3
    f1 = f1
    Packets = {p1, p2, p3}
    Downlinks = {d1, d2}
    Names = {f1}
    AnswerFile <- MCAnswerFile
    FileOf <- MCFileOf
    Joins = {p3}
    Shorts = {d2}
    FILES = 2
    UP_DATA = 2
    SketchData = {a, b, c}
    s1 = s1
    s2 = s2
    s3 = s3
    Stream = {s1, s2, s3}
    Kinds = {"process", "file", "tcp", "ssl", "udp"}
    IDS = 2
    MOST = 1
    STREAM_TOTAL = 2
    h1 = h1
    h2 = h2
    Client = {h1, h2}
    STARVING = 1
    CONSOLE_TOTAL = 2
    SketchItself = SketchItself
    MaxRadio = 3
    MaxCommands = 5
INVARIANTS
    BoxTypeOK
    MailboxIntact
    ForwardedOnce
    DownlinksKept
    InOrderOnce
    StreamsInOrder
PROPERTIES
    ImplementsCalls
    EveryCallReturns
    ForwarderGoesOn
\* The programs stop, or have nothing to do, when the bounds are used up.
CHECK_DEADLOCK FALSE
