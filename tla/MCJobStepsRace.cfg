SPECIFICATION Spec
CONSTANTS
    NumSteps = 2
    MaxConcurrency = 2
    NeedsChoices <- Independent
INVARIANTS
    SurvivesConcurrency
