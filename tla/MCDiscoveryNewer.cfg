SPECIFICATION Spec
CONSTANTS
    None = None
    BufLen = 108
    Descriptors <- MCNewerDescriptors
    MaxDescriptors = 4
    Overflow = 20
CHECK_DEADLOCK FALSE
INVARIANT LockedIsSeen
