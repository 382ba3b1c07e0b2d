CONSTANTS
    Printable <- MCPrintable
    Others <- MCOthers
    Workspaces <- MCWorkspaces
    SPACE = "space"
    TAB = "tab"
    ENTER = "enter"
    BACKSPACE = "backspace"
    NUL = NUL
    LineMax = 2
    MaxKeys = 4
SPECIFICATION Spec
INVARIANTS
    TypeOK
    HandledInOrder
PROPERTIES
    KeyServed
    ImplementsLineEditor
