SPECIFICATION Spec
CONSTANTS
    MaxRuns = 3
    MaxRegions = 2
    MaxSignals = 2
    InputEnds = TRUE
INVARIANT InterruptTypeOK
INVARIANT NmiNeverAborts
