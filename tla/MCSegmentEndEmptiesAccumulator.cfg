CONSTANTS
    kSampleRate = 2
    kTargetSamples = 4
    kRingBufferSizeIncrement = 10
    BlockBytes = 2
    Amplitudes <- MCAmplitudes
    PoolSize = 2
    MaxCapacity = 10
    MaxSilentBytes = 4
    MaxTasks = 3


SPECIFICATION FairSpec

PROPERTY SegmentEndEmptiesAccumulator

CHECK_DEADLOCK FALSE
