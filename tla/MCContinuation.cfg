CONSTANTS
    Scans = {s1, s2}
    RowsPerTick = 2
    Streams <- MCStreams
    MaxLosses = 2
    MaxCrashes = 1
SPECIFICATION StreamSpec
INVARIANTS
    StreamTypeOK
    ExactlyOnce
    TicksAreBounded
PROPERTIES
    TokenFollowsRows
    StreamEnds
    StreamDelivers
CHECK_DEADLOCK FALSE
