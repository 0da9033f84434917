SPECIFICATION FairSpec
CONSTANTS
    NumSources = 4
    NumWorkers = 3
INVARIANTS
    AllSourcesOnSuccess
    NoSendOnClosedChannel
PROPERTIES
    ReturnsUnlessAllWorkersFail
    ImplementsFetchAll
