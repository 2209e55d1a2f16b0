SPECIFICATION Spec
CONSTANTS
    Bytes <- MCBytes
    Records = {}
    Mutators <- MCMutators
    RepeatAmounts <- MCRepeatAmounts
    None = None
    Inputs <- MCInputs
    Recording <- MCRecording
    Paths <- MCPaths
    AtInit <- MCAtInit
    Counts <- MCCounts
    IsCrash <- MCIsCrash
    GiveUp = 5
CHECK_DEADLOCK FALSE
PROPERTY CampaignEnds
