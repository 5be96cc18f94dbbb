\* A wrapping sequence of 8 numbers, first packet anywhere, 6 datagrams in
\* any order; packets of a second SSRC and payload type mixed in.  The detailed
\* analyzer implements the abstract reception, and the inductive invariant holds.
CONSTANTS
    SequenceModulus = 8
    TimestampModulus = 2
    PayloadTypes = {96, 97}
    ConfiguredPayloadType = 96
    s1 = s1
    s2 = s2
    Ssrcs <- MCSsrcs
    ConfiguredSsrc <- MCNoSsrc
    ClockRate = 0
    ArrivalDeltas <- MCClockStandsStill
    Timestamps = {0}
    MaxDatagrams = 6
SPECIFICATION Spec
SYMMETRY MCSymmetry
INVARIANTS
    LossCountIsExact
    MemoryIsNewest
    GapsExplainLoss
    EveryDatagramIsExplained
    IInv
PROPERTIES
    SsrcIsLockedByFirstPacket
    ImplementsReception
CHECK_DEADLOCK FALSE
