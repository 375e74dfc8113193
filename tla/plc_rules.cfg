SPECIFICATION MCConfigSpec
CONSTANTS
    Output = {"1000/0/1", "1000/1/1", "1000/2/1"}
    AndCondition = {"and"}
    OrCondition = {"or"}
    RULES_MAX = 3
    STR_MAX = 100
    None = None
    MaxMessages = 6
    MaxCrashes = 1
    DAY = 3
    LastDay = 9
    Ranges <- RangesToSet
    Clock <- ClockOfDays
    MaxRanges = 2
    Asked <- SettingsAsked
    Value = {0, 1, 2, 3}
    Factory = 0
    MaxSettings = 3
    Name <- Names
    Number <- Numbers
    Own = {"own"}
    Host = {1, 2}
    Gpios = {128, 129}
    Line = {0}
    SIODS_MAX = 3
    ROOM = 2
    MaxHeard = 4
INVARIANTS
    TablesHold
    
    ConfigCoversTable
    InTimeRange
    SettingsWhole
PROPERTIES
    OthersUntouched
\* The clock stops after the last of its days.
CHECK_DEADLOCK FALSE
