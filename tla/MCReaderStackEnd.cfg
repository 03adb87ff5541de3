SPECIFICATION Spec
CONSTANTS
    None = None
    BS = 3
    Blocks = 4
    Lengths = {0, 1, 2, 4, 7}
    StartOffsets = {0, 1, 3, 5, 6}
    CurrentOffsets <- MCCurrentOffsets
    EndOffsets <- MCEndOffsets
    Windows <- MCWindows
    MaxPos = 13
INVARIANT SeeksAreRight
