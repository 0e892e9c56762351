SPECIFICATION Spec
CONSTANTS
    ResponseSizes <- Scripted
    FactorySizes <- Made
    Capacities <- Buffers
    MaxPushes = 3
    MaxCalls = 5
    Programmed = {"ok", "resource_error"}
    MaxActs = 4
CHECK_DEADLOCK FALSE
INVARIANTS
    ScriptIsFollowed
    MockAnswersAsProgrammed
PROPERTIES
    AnnouncedSizesHold
