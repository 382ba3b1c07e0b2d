CONSTANTS
    Frames = {1, 2, 3, 4, 5, 6, 7, 8, 9, 10}
    Root = 20
    Devices = {30}
    Indices = {0, 1}
    UNMAPPED = UNMAPPED
    NONE = NONE
    USER = USER
    KERNEL = KERNEL
    NOWHERE = NOWHERE
    JUNK = JUNK
    MaxKeys = 1
    CODE <- MCCode
    STACK <- MCStack
    Requests <- MCRequests
    Calls <- MCCalls
    UserFlags = {"NT"}
    MaxMaps = 2
    MaxThreads = 3
SPECIFICATION Spec
INVARIANTS
    OnlyRcxR11Clobbered
