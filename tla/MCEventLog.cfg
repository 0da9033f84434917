SPECIFICATION FairSpec
CONSTANTS
    Jobs = {j1, j2}
    NumEvents = 2
    Nobody = Nobody
    Torn = Torn
INVARIANTS
    CollectsOwnEventsIfAlone
    SameOrder
    NoCollectorLeft
PROPERTIES
    AllJobsEnd
