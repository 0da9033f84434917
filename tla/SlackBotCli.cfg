SPECIFICATION FairSpec
CONSTANTS
    Sessions = {s1, s2}
    Options = {o1, o2}
    Entry = "cli"
    MaxInvalid = 1
    MaxRestarts = 1
    None = None
CHECK_DEADLOCK FALSE
PROPERTIES
    EveryCommandAnswered
