CONSTANTS
    HeapBytes = 256
    Requests <- MCRequests
    NULL = NULL
SPECIFICATION Spec
INVARIANTS
    TypeOK
    Tiling
    HeldBlocks
    Coalesced
    DrainedIsWhole
PROPERTIES
    CallsReturn
    ImplementsAllocator
