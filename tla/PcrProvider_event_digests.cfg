SPECIFICATION Spec
CONSTANTS
    User = {u1}
    Detached = {}
    Watched = {u1}
    Index = {0}
    Bank = {"sha1", "sha256", "sha384", "sm3"}
    Allocation <- LegacyBanks
    Supported = {"sha256", "sha384"}
    Skipped = {"sha1"}
    Request <- EventRequests
    RcCategory = {"resource_error"}
    Fault = {}
    MaxDigests = 1
    MaxBanks = 2
    MaxUpdates = 2
    Nobody = Nobody
INVARIANTS
    OneDigestPerActiveBank
