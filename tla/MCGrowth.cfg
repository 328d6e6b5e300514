CONSTANTS
    kSampleRate = 2
    kTargetSamples = 4
    kRingBufferSizeIncrement = 10
    BlockBytes = 2
    Amplitudes <- MCAmplitudes
    PoolSize = 2
    MaxCapacity = 30
    MaxSilentBytes = 4
    MaxTasks = 1

SPECIFICATION FairSpec

INVARIANT TypeOK
INVARIANT ByteConservation

CHECK_DEADLOCK FALSE
