CONSTANTS
    NONE = NONE
    SPACE = SPACE
    TAB = TAB
    ONE = ONE
    TWO = TWO
    WorkspaceOf <- MCWorkspaceOf
    Letters = {LETTER}
    ScreenW = 180
    ScreenH = 201
    MaxFailures = 1
    MaxText = 1
    MaxKeys = 3
SPECIFICATION Spec
INVARIANTS
    NoTornFrame
