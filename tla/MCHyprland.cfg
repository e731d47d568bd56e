CONSTANTS
    Config <- MCConfig
    MaxBuffer = 3
    MaxChunk = 2
    MaxPipe = 6
    MaxVersion = 1
    MaxFaults = 2
SPECIFICATION FairSpec
INVARIANTS NoChangeMissed AvailabilityShown BackoffInRange
PROPERTY EventuallyCurrent
