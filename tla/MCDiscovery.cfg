SPECIFICATION Spec
CONSTANTS
    None = None
    BufLen = 108
    Descriptors <- MCDescriptors
    MaxDescriptors = 4
    Overflow = 20
INVARIANTS
    TypeOK
    LockedIsSeen
    ComIdIsOffered
PROPERTY DiscoveryEnds
CHECK_DEADLOCK FALSE
