SPECIFICATION AppSpec
CONSTANTS
    o1 = o1
    o2 = o2
    Options = {o1, o2}
    Blocks = {1, 2, 3}
    Undeclared = 0
    RefChoices <- MCRefChoices
    MaxCalls = 1
    Programs <- MCPrograms
INVARIANTS
    AppTypeOK
    BlocksSeeTheirRefs
    CompleteOnSuccess
    FailureHasReason
    GlobalsAgree
    LoadsWhatIsDeclared
    ModuleOptionsKnown
    FlagsSuffice
