\* A duration that the command line accepts and that overflows as ticks.
CONSTANTS
    Durations <- MCLongDurations
    ClockRates = {90000}
    Addresses = 1
    PollInterval = 2
    TicksPerMs = 2
    TickModulus = 16
    QueueCapacity = 1
    MaxTime = 7
SPECIFICATION Spec
INVARIANT EveryDurationIsKept
CHECK_DEADLOCK FALSE
