CONSTANTS
    ByteBase = 4
    CodeImage <- MCCode
    BlockPCs <- MCBlockPCs
    MaxInstructionsPerBlock = 4
    InitGuests <- MCInitGuests
    InitMem <- MCInitMem
    CacheAlignments = {0, 5}
SPECIFICATION Spec

INVARIANT TranslationMatchesReference
CHECK_DEADLOCK FALSE
