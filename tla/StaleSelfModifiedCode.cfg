CONSTANTS
    MaxAddress = 5
    TaskSize = 8
    MagicPage = 4
    Snapshot <- MCSnapshot
    EntryPC = 1
    MaxVersion = 1
    AllocSizes = {1, 2}
    AllocIsX = {TRUE}
    DeallocSizes = {1, 2}
    AccessPages = {2, 3}
    MaxNumSyscalls = 3
    ExecPCs = {2, 3}
CONSTRAINT IndexBound
INIT Init
NEXT Next
INVARIANTS
    NoStaleExecution
CHECK_DEADLOCK FALSE
