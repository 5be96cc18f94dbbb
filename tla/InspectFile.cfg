\* Streams of up to 5 NAL units with parameter sets that are redefined,
\* missing, malformed, or come after the PPS that needs them.
CONSTANTS
    SpsIds = {0, 1}
    PpsIds = {0}
    NalUnits <- MCParameterNals
    MaxNalUnits = 5
SPECIFICATION Spec
INVARIANT CleanStreamsAgree
CHECK_DEADLOCK FALSE
