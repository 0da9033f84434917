SPECIFICATION TestSpec
CONSTANTS
    Threads = {t1, t2}
    Commands = {a, b}
    MaxExpected = 2
    MaxExecs = 2
    NumCases = 2
INVARIANTS
    MockedWhenInherited
    MetOnceByOneStep
PROPERTIES
    JudgedByItsCommands
