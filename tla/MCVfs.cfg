CONSTANTS
    Names = {"f"}
    Devices <- MCDevices
    DescriptorCount = 2
    MaxChildren = 2
    Block = 2
    ZERO = "0"
    UNINIT = "?"
    Chunks <- MCChunks
    Counts = {1, 2}
    Typed = {"x"}
    MaxNodes = 4
    MaxOffset = 2
    NULL = NULL

SPECIFICATION Spec

INVARIANTS
    TypeOK
    Initialised
    OffsetsInside

PROPERTIES
    PathsStable
    ImplementsFileStore
