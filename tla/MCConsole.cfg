SPECIFICATION Spec
CONSTANTS
    None = None
    Menus <- MCMenus
    Height = 4
    Chars = {"a"}
    MaxKeys = 2
    MaxData = 2
INVARIANTS
    TypeOK
    MarkIsOnChosen
    OldKeysAreNoAnswer
CHECK_DEADLOCK FALSE
