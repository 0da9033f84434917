SPECIFICATION Spec
CONSTANTS
    Names <- MCNames
    Entries <- MCEntries
    Configs <- MCConfigs
INVARIANTS
    ResultOrError
    FailureReported
    OutputInOrder
    LogIsComplete
    DoesAllItDeclares
PROPERTY
    FailStop
