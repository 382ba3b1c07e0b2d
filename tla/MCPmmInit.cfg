CONSTANTS
    PageSize = 2
    MemMaps <- MCMemMaps
SPECIFICATION Spec
INVARIANTS
    ComputesMap
    BitmapKept
    AtMostOnePageTooMany
CHECK_DEADLOCK FALSE
