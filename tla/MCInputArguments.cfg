CONSTANTS
    Printable <- MCPrintable
    Others <- MCOthers
    Workspaces <- MCWorkspaces
    SPACE = "space"
    TAB = "tab"
    ENTER = "enter"
    BACKSPACE = "backspace"
    NUL = NUL
    LineMax = 3
    MaxKeys = 4
SPECIFICATION Spec
INVARIANTS
    ArgumentsReachCommands
