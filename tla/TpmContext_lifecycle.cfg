SPECIFICATION FairSpec
CONSTANTS
    Attempt = {a1, a2}
    Object = {o1, o2}
    Provider = {p1}
    Request <- LifecycleRequests
    TssCategory = {"resource_error"}
    MaxResets = 1
    Absent = Absent
    Null = Null
CHECK_DEADLOCK FALSE
INVARIANTS
    TypeOK
    LinearOwnership
    HeldContextIsWhole
    NothingLeaks
    StartedWhenHeld
    ProviderConnected
    FailuresAreAudited
PROPERTIES
    HandlesMoveForward
    ImplementsContract
    CallsReturn
