CONSTANTS
    Scans = {s1, s2}
    Queries <- MCQueries
    Calls <- MCCalls
    Answers <- MCAnswers
    Streams = {}
    RowsPerTick = 1
    MaxRequests = 1
    HalfRange = 8
    MsInNs = 3
    DefaultTimeout = 5
    MaxLosses = 1
    MaxCrashes = 1
SPECIFICATION RepSpec
INVARIANTS
    RepTypeOK
    SilenceMeansUnknown
    RowsAreTheFeeds
PROPERTIES
    OutcomesAreFinal
    ScanEnds
    NoLookupIsLeftBehind
    ScanDelivers
CHECK_DEADLOCK FALSE
