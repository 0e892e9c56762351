SPECIFICATION Spec
CONSTANTS
    User = {u1, u2}
    Detached = {u2}
    Watched = {}
    Index = {0, 1, 2}
    Bank = {"sha1", "sha256", "sha384", "sm3"}
    Allocation <- LegacyBanks
    Supported = {"sha256", "sha384"}
    Skipped = {"sha1"}
    Request <- ReadRequests
    RcCategory = {"resource_error"}
    Fault = {"null", "malformed"}
    MaxDigests = 2
    MaxBanks = 2
    MaxUpdates = 3
    Nobody = Nobody
INVARIANTS
    ReadsAreSnapshots
