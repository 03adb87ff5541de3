SPECIFICATION BootSpec
CONSTANTS
    None = None
    Stdin = Stdin
    Worlds <- BootWorlds
    Keys = {"k1", "k2"}
    Images <- MCImages
    MaxDepth = 16
INVARIANTS
    TypeOK
    AskedOnce
    KeysGoToTheirDevice
    StartedAsConfigured
    HandlesAreLive
    EspIsTheOnlyOne
PROPERTIES
    FileIsWhereItIsNamed
    NotFoundMeansAbsent
    ConfiguredDrivesAreOpen
    MenuComesBack
CHECK_DEADLOCK FALSE
