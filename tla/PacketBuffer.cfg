CONSTANTS
    NULL = NULL
    c1 = c1  c2 = c2  c3 = c3  c4 = c4
    b1 = b1  b2 = b2  b3 = b3  b4 = b4  b5 = b5
    Cells <- MCCells
    Values <- MCValues
    PACKET_ALLOC_EXTRA = 16
    MaxAllocFailures = 2
SPECIFICATION Spec
SYMMETRY MCSymmetry
INVARIANTS
    TypeOK
    ListWellFormed
    BlocksInOrder
    TagsIdentifyBlocks
    NoCrashUnlessAllocFailed
PROPERTIES
    ListRefinement
    AppendKeepsBytes
