\* Numbers wrap at 6, NAL units of up to 3 bytes, one payload of every kind.
CONSTANTS
    SequenceModulus = 6
    TimestampModulus = 2
    PayloadTypes = {96}
    ConfiguredPayloadType = 96
    Ssrcs = {1, 2}
    ConfiguredSsrc <- MCNoSsrc
    ClockRate = 0
    ArrivalDeltas <- MCClockStandsStill
    Timestamps = {0, 1}
    MaxDatagrams = 4
    MaxNalUnitSize = 3
    SizeModulus = 8
    H264Packets <- MCPackets
SPECIFICATION H264Spec
INVARIANTS
    H264TypeOK
    FuAccounting
    FailuresAreDiagnosed
    ActiveFollowsHighest
PROPERTIES
    FuGapIsRtpGap
    NoSilentDrop
CHECK_DEADLOCK FALSE
