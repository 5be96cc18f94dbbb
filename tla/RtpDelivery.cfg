\* A sender that starts just below the wrap of its number and its timestamp,
\* a network that reorders, repeats and loses up to 2 packets in a row.
CONSTANTS
    SequenceModulus = 8
    TimestampModulus = 64
    PayloadTypes = {96}
    ConfiguredPayloadType = 96
    Ssrcs = {1}
    ConfiguredSsrc <- MCNoSsrc
    ClockRate = 1
    ArrivalDeltas <- MCNoDeltas
    Timestamps <- MCTimestamps
    MaxDatagrams = 5
    LastIndex = 8
    Interval = 1
    MaxDelay = 3
    MaxJump = 3
    FirstNumbers = {0, 6}
    FirstTimestamps = {61}
SPECIFICATION DeliverySpec
INVARIANTS
    ReportIsTruth
    JitterWithinDelayVariation
CHECK_DEADLOCK FALSE
