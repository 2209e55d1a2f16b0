CONSTANTS
    MaxAddress = 6
    TaskSize = 9
    MagicPage = 5
    Snapshot <- MCSnapshot
    EntryPC = 1
    MaxVersion = 1
    AllocSizes = {1, 2}
    AllocIsX = {FALSE, TRUE}
    DeallocSizes = {1, 2}
    AccessPages = {1, 2, 3, 7, 8}
    MaxNumSyscalls = 3
INIT ptInit
NEXT ptNext
INVARIANTS
    ConsistencyAssertHolds
CHECK_DEADLOCK FALSE
