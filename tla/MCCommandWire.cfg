SPECIFICATION Spec
CONSTANTS
    Panic = Panic
    Refused = Refused
    None = None
    Uninit = Uninit
    NoMethodStatus = NoMethodStatus
    DriveSerial <- MCDriveSerial
    Uints <- MCUints
    Strings <- MCStrings
    Controls = {249}
    Requests <- MCRequests
    Codes = {0, 18}
    ComIds = {2046}
    Sessions <- MCSessions
    MaxTokens = 2
INVARIANTS
    TypeOK
    CommandArrives
    ResponseIsTheAnswer
    RequestIsUnderstood
PROPERTY KeepsContract
CHECK_DEADLOCK FALSE
