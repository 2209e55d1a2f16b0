CONSTANTS
    ByteBase = 4
    CodeImage <- MCCode
    BlockPCs <- MCBlockPCs
    MaxInstructionsPerBlock = 4
    InitGuests <- MCInitGuests
    InitMem <- MCInitMem
    CacheAlignments = {0, 5}
SPECIFICATION Spec
INVARIANT EncodeTypeOK
INVARIANT IndexValueSound
INVARIANT HostStackBalanced
CHECK_DEADLOCK FALSE
