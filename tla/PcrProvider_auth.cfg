SPECIFICATION FairSpec
CONSTANTS
    User = {u1, u2}
    Detached = {}
    Watched = {}
    Index = {0}
    Bank = {"sha1", "sha256", "sha384", "sm3"}
    Allocation <- AuthBanks
    Supported = {"sha256", "sha384"}
    Skipped = {"sha1"}
    Request <- AuthRequests
    RcCategory = {"resource_error", "security_failure"}
    Fault = {"lost", "null", "malformed", "foreign"}
    MaxDigests = 1
    MaxBanks = 2
    MaxUpdates = 1
    Nobody = Nobody
INVARIANTS
    AuthorizationsAgree
    LogTellsWhatHappened
PROPERTIES
    OperationsReturn
