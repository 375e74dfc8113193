SPECIFICATION MCSpec
CONSTANTS
    Output = {"1000/0/1", "1000/1/1", "1000/2/1", "1000/3/1"}
    AndCondition = {"and"}
    OrCondition = {}
    RULES_MAX = 10
    STR_MAX = 100
    None = None
    MaxMessages = 4
    MaxCrashes = 0
INVARIANTS
    RestartKeepsRules
