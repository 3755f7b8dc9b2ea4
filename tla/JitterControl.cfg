SPECIFICATION FairSpec
CONSTANTS
    Timestamps = {0, 100, 2000}
    SeqSpace = 4
    SAMPLES = 2
    MINFREQUENCY = 450
    MAXFREQUENCY = 550
    MaxInFlight = 3
    MaxSent = 4
INVARIANTS TypeOK
PROPERTIES OnlyFreshSamples Unblocks
