\* Files that inspect accepts, pushed as streams: parameter sets redefined,
\* missing, malformed, or come after the PPS that needs them.
CONSTANTS
    SpsIds = {0, 1}
    PpsIds = {0}
    NalUnits <- MCParameterNals
    MaxNalUnits = 5
SPECIFICATION Spec
INVARIANT InspectedFilesStreamCleanly
CHECK_DEADLOCK FALSE
