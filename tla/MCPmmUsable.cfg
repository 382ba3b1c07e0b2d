CONSTANTS
    PageSize = 2
    Map <- RaggedMap
    Counts <- MCCounts
    NULL = NULL
SPECIFICATION Spec
INVARIANTS
    OnlyUsableHandedOut
