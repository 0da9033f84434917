SPECIFICATION FairSpec
CONSTANTS
    NumSteps = 3
    MaxConcurrency = 3
    NeedsChoices <- EveryNeeds
INVARIANTS
    NeedsSatisfied
    QuietAfterReturn
    FaithfulReturn
    SequentialInOrder
PROPERTIES
    ImplementsWorkflow
    Termination
