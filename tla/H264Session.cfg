\* Eight packets whose numbers wrap at 8 inside an IDR NAL unit; up to 2 lost in
\* a row, displaced by up to 3, and repeated; one stray datagram.
CONSTANTS
    SequenceModulus = 8
    TimestampModulus = 4
    PayloadTypes = {96, 97}
    ConfiguredPayloadType = 96
    Ssrcs = {1}
    ConfiguredSsrc <- MCNoSsrc
    ClockRate = 0
    ArrivalDeltas <- MCClockStandsStill
    Timestamps = {0, 1, 2, 3}
    MaxDatagrams = 9
    MaxNalUnitSize = 5
    SizeModulus = 8
    H264Packets <- MCPackets
    Nals <- MCNals
    Script <- MCScript
    MaxJump = 3
    MaxDisplacement = 3
    FirstNumbers = {3}
    Contents <- MCContents
    Foreign <- MCForeign
    MaxStrays = 1
SPECIFICATION SessionSpec
INVARIANTS
    WholeNalsInOrder
    ReceivedIffAccepted
    IncompleteIsTruth
    ReportStatusIsTruth
    PicturesAreReported
CHECK_DEADLOCK FALSE
