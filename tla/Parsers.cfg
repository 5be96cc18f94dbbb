\* Files of two NAL units whose RBSPs have up to 5 bytes together, start codes
\* of 3 and 4 bytes, and up to one zero byte more after each.  The header byte
\* is that of a slice that nothing refers to, a 1 like that of a start code.
\* All RBSPs of up to 9 bits, results of 3 bits, two reads in a row: codes of
\* up to 7 bits, and more zeros than any code has.  RTP packets
\* of every size up to the largest header of the instance and 6 bytes more.
\* Streams of an SPS, a PPS and a slice header that vary a few fields at a
\* time; values of 18 bits, so that the limits of 8 and 16 bits can be
\* exceeded; up to 5 frames in a picture order count cycle, 4 map units and 3
\* memory management operations.
CONSTANTS
    Bytes <- MCBytes
    Headers = {1}
    MaxBody = 5
    MaxNals = 2
    MaxZeros = 1
    Width = 3
    MaxBits = 9
    MaxReads = 2
    Versions = {1, 2}
    CsrcCounts = {0, 1, 3}
    LengthWords = {0, 1, 2}
    LastBytes = {0, 1, 2, 7}
    MaxPacketSize = 42
    SizeModulus = 64
    ValueWidth = 18
    MaximumCycleLength = 5
    MaximumMapUnitsMinus1 = 3
    MaximumOperations = 3
    StreamGroups <- MCStreamGroups
SPECIFICATION Spec
INVARIANTS
    ScanFindsNals
    RbspIsRecovered
    ErrorsPointAtSource
    ReadsWhatWasWritten
    AcceptsRfcPackets
    ParameterSetsAreRecovered
    PictureSizeIsExact
    SliceHeadersAreRecovered
CHECK_DEADLOCK FALSE
