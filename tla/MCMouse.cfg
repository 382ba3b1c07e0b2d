CONSTANTS
    Masked = {}
    NONE = NONE
    ScreenW = 4
    ScreenH = 3
    Moves <- MCMoves
    Scancodes = {30}
    FirmwareConfig = 69
    MaxMoves = 2
    MaxKeys = 1
SPECIFICATION Spec
INVARIANTS
    TypeOK
PROPERTIES
    FollowsMouse
    OnlyBootMisroutes
    PointerCatchesUp
