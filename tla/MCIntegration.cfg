CONSTANTS
    Tests <- MCTests
    MockTests <- MCMockTests
    MockPolls = 2
    WorkerPolls = 3
SPECIFICATION Spec
INVARIANTS
    HarnessTypeOK
    GreenMeansTested
    SuiteMeetsReadyServices
    NothingIsLeftBehind
PROPERTY ScriptEnds
CHECK_DEADLOCK FALSE
