CONSTANTS
    MaxAddress = 5
    TaskSize = 8
    MagicPage = 4
    Snapshot <- MCWideTextSnapshot
    EntryPC = 1
    MaxVersion = 1
    AllocSizes = {1}
    AllocIsX = {FALSE}
    DeallocSizes = {1}
    AccessPages = {2, 3}
    MaxNumSyscalls = 3
    ExecPCs = {2, 3}
CONSTRAINT IndexBound
INIT Init
NEXT Next
INVARIANT StateWithinPerms
CHECK_DEADLOCK FALSE
