SPECIFICATION Spec
CONSTANTS
    Attempt = {a1}
    Object = {o1}
    Provider = {p1}
    Request <- DeleterRequests
    TssCategory = {"resource_error"}
    MaxResets = 0
    Absent = Absent
    Null = Null
CHECK_DEADLOCK FALSE
INVARIANT NullDeleterNeverInvoked
