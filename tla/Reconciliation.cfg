SPECIFICATION FairSpec
CONSTANTS
    MaxGeneration = 4
    MaxFailures = 2
INVARIANTS
    DestroyedBeforeGone
    NoApplyAfterDestroy
    NoLogsFromTheFuture
PROPERTIES
    EventuallyRecorded
