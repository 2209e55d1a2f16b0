SPECIFICATION Spec
CONSTANTS
    NumPatches = 4
    PatchInterval = 2
    PersistedSlots = 2
    Targets <- MCTargets
    Succs <- MCSuccs
    MaxBlocks = 6
    PageBlocks = 3
    MaxTrace = 2
    ICEntries = 1
    ICProbes = 2
    MaxRuns = 2
INVARIANT PatcherTypeOK
INVARIANT NoDoublePatch
INVARIANT ChainTargetsMatch
INVARIANT CacheHoldsIndexedBlocks
INVARIANT InlineCacheCurrent
PROPERTY PatchQueueRefined
