SPECIFICATION Spec
CONSTANTS
    None = None
    Stdin = Stdin
    Worlds <- CopyWorlds
    Keys = {"k1", "k2"}
    MaxDepth = 16
PROPERTY FileIsFromItsDrive
CHECK_DEADLOCK FALSE
