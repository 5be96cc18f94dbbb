\* Runs of up to 4 fragments, NAL units of up to 4 bytes, size_t of 3 bits.
CONSTANTS
    SequenceModulus = 3
    MaxNalUnitSize = 4
    SizeModulus = 8
    MaxRun = 4
    Packets <- MCPackets
    Bytes = {"a", "b", "c"}
SPECIFICATION Spec
INVARIANTS
    ActiveIsOneRun
    CompletedIsOneRun
