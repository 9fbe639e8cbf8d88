SPECIFICATION FairSpec
CONSTANTS
    VideoRate = 7
    SampleRate = 40
    NbSamples = 6
    Duration = 4
    MaxDelay = 3
INVARIANTS
    InterleavedClosely
    FileIsWhole
PROPERTY
    Terminates
CHECK_DEADLOCK FALSE
