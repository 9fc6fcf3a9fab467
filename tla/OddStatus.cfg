CONSTANTS
    Scans = {s1}
    Calls <- MCCalls
    Answers <- MCAnswers
    MaxRequests = 10
    HalfRange = 128
    MsInNs = 10
    DefaultTimeout = 50
SPECIFICATION LookupSpec
INVARIANT OtherStatusesAreErrors
CHECK_DEADLOCK FALSE
