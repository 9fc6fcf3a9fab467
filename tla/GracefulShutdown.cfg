CONSTANTS
    Scans = {s1, s2}
    apiKey = "secret-key"
    Calls <- MCCalls
    Answers <- MCAnswers
    MaxRequests = 1
    HalfRange = 8
    MsInNs = 3
    DefaultTimeout = 5
SPECIFICATION MockSpec
PROPERTY AcceptedIsAnswered
CHECK_DEADLOCK FALSE
