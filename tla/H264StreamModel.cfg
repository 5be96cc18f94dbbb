\* Streams of up to 6 NAL units: IDR and non-IDR pictures of one or more
\* slices, prefix and other NAL units between them.
CONSTANTS
    SpsIds = {0}
    PpsIds = {0}
    NalUnits <- MCBoundaryNals
    MaxNalUnits = 6
SPECIFICATION Spec
INVARIANTS
    EveryNalHasOnePlace
    AccessUnitsArePictures
    GopIsConsistent
CHECK_DEADLOCK FALSE
