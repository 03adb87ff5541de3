SPECIFICATION FairLoopSpec
CONSTANTS
    Panic = Panic
    NoMethodStatus = NoMethodStatus
    None = None
    TryLimit = 2
    SetErrors = {"SP_FAILED"}
    TSNs <- MCTSNs
    AtomLen = 4
INVARIANTS
    OkMeansUnlocked
    OkMeansComplete
PROPERTIES
    EveryTryIsPaid
    LockoutIsFinal
    UnlockOpalEnds
