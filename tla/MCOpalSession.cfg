SPECIFICATION FairSpec
CONSTANTS
    Panic = Panic
    NoMethodStatus = NoMethodStatus
    None = None
    TryLimit = 2
    SetErrors <- MCSetErrors
    TSNs <- MCTSNs
    AtomLen = 4
INVARIANTS
    TypeOK
    MbrHiddenOnlyWhenUnlocked
    AnswersOwnCommand
    SuccessIsComplete
    NothingLeftBehind
    NoSpuriousFailure
    AddressesOpenSession
PROPERTIES
    CallReturns
    KeepsPromise
