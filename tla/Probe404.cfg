CONSTANTS
    Scans = {s1, s2}
    Queries <- ProbeQueries
    Calls <- ProbeCalls
    Answers <- MCAnswers
    Streams = {}
    RowsPerTick = 1
    MaxRequests = 1
    HalfRange = 8
    MsInNs = 3
    DefaultTimeout = 5
    MaxLosses = 1
    MaxCrashes = 1
SPECIFICATION RepSpec
INVARIANT UnknownMeansNotFound
CHECK_DEADLOCK FALSE
