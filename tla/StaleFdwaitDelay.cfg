CONSTANTS
    NumProcs = 2
    BufferSize = 2
    NoProc = 0
    InputLen = 1
    MaxNumSyscalls = 8
    Calls <- MCTimeoutCalls
    GuestErrors = {}
INIT Init
NEXT Next
INVARIANT TimeoutWaitsFullDelay
CHECK_DEADLOCK FALSE
