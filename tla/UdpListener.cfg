\* Two ticks per ms, polls of 2 ms, durations of 1 and 3 ms or none; traffic,
\* signals and failures at any moment.
CONSTANTS
    Durations <- MCDurations
    ClockRates = {0, 90000}
    Addresses = 2
    PollInterval = 2
    TicksPerMs = 2
    TickModulus = 32
    QueueCapacity = 2
    MaxTime = 10
SPECIFICATION Spec
INVARIANTS
    TypeOK
    SocketsAreClosed
    ReportCoversDuration
    AtMostOneAfterStop
PROPERTIES
    StopEndsListening
    DurationEndsListening
CHECK_DEADLOCK FALSE
