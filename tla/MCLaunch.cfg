\* The launch ends.
CHECK_DEADLOCK FALSE
SPECIFICATION Spec
CONSTANTS
    SdkSwitches = {"log-json"}
    SdkValued = {"log-level", "log-format", "log-logger"}
    Names <- FlagNames
    Values = {"", "true", "false", "maybe", "dashed", "addr", "word", "7",
              "127.0.0.1:0", "published", "socket"}
    Modes = {"none", "empty", "http", "stdio", "unix", "bash"}
    MaxTokens = 3
    CommandLines <- Lines
INVARIANTS
    LaunchTypeOK
    ParserReadsOwnFlagsOnly
    AbortsAreOwnFaults
    SettingsAreAsMeant
    ContainerServesItsMode
