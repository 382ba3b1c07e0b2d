CONSTANTS
    PageSize = 2
    Map <- WholeMap
    Counts <- MCCounts
    NULL = NULL
SPECIFICATION Spec
INVARIANTS
    TypeOK
    Exclusive
    NoPageLost
    CountKeepsUp
PROPERTIES
    SearchesEnd
    ImplementsAllocator
