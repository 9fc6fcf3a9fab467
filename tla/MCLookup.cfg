CONSTANTS
    Scans = {s1}
    Calls <- MCCalls
    Answers <- MCAnswers
    MaxRequests = 10
    HalfRange = 128
    MsInNs = 10
    DefaultTimeout = 50
SPECIFICATION LookupSpec
INVARIANTS
    LookupTypeOK
    NoneOnlyAfter404
    RowsAreComplete
PROPERTY LookupEnds
CHECK_DEADLOCK FALSE
