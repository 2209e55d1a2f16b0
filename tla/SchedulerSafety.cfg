CONSTANTS
    NumProcs = 2
    BufferSize = 2
    NoProc = 0
    InputLen = 1
    MaxNumSyscalls = 8
    Calls <- MCSafetyCalls
    GuestErrors = {"error", "ignorable"}
INIT Init
NEXT Next
INVARIANT SchedTypeOK
INVARIANT BlockedOwnersWaiting
INVARIANT NoProgressOnlyWhenStuck
PROPERTY PipesAreFifo
CHECK_DEADLOCK FALSE
