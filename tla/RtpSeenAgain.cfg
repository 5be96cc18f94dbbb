\* The report contract says that a number seen before is a duplicate.
CONSTANTS
    SequenceModulus = 8
    TimestampModulus = 2
    PayloadTypes = {96, 97}
    ConfiguredPayloadType = 96
    s1 = s1
    s2 = s2
    Ssrcs <- MCSsrcs
    ConfiguredSsrc <- MCNoSsrc
    ClockRate = 0
    ArrivalDeltas <- MCClockStandsStill
    Timestamps = {0}
    MaxDatagrams = 6
SPECIFICATION Spec

PROPERTY SeenAgainIsDuplicate
CHECK_DEADLOCK FALSE
