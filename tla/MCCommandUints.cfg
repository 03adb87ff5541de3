SPECIFICATION Spec
CONSTANTS
    Panic = Panic
    Refused = Refused
    None = None
    Uninit = Uninit
    NoMethodStatus = NoMethodStatus
    DriveSerial <- MCDriveSerial
    Uints <- MCUints
    Strings = {}
    Controls = {}
    Requests = {}
    Codes = {0}
    ComIds = {2046}
    Sessions <- MCSessions
    MaxTokens = 1
INVARIANT UintsSurvive
CHECK_DEADLOCK FALSE
