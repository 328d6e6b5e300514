CONSTANTS
    kSampleRate = 2
    kTargetSamples = 6
    kRingBufferSizeIncrement = 10
    BlockBytes = 2
    Amplitudes <- MCAmplitudes
    PoolSize = 1
    MaxCapacity = 10
    MaxSilentBytes = 4
    MaxTasks = 2

SPECIFICATION Spec

INVARIANT ClosuresPassEntryChecks
INVARIANT AccumulatorBelowTarget

CHECK_DEADLOCK FALSE
