CONSTANTS
    kSampleRate = 2
    kTargetSamples = 4
    kRingBufferSizeIncrement = 10
    BlockBytes = 2
    Amplitudes <- MCAmplitudes
    PoolSize = 2
    MaxCapacity = 10
    MaxSilentBytes = 4
    MaxTasks = 2

SPECIFICATION FairSpec

INVARIANT SingleFlight
INVARIANT GuardReflectsEngine
INVARIANT ByteConservation

PROPERTY QueuedTaskRuns
PROPERTY ChannelRefinement

CHECK_DEADLOCK FALSE
