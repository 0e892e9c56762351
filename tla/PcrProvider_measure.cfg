SPECIFICATION Spec
CONSTANTS
    User = {u1, u2}
    Detached = {}
    Watched = {u1, u2}
    Index = {0}
    Bank = {"sha1", "sha256", "sha384", "sm3"}
    Allocation <- MeasuredBanks
    Supported = {"sha256", "sha384"}
    Skipped = {"sha1"}
    Request <- MeasureRequests
    RcCategory = {"resource_error"}
    Fault = {"lost", "malformed"}
    MaxDigests = 1
    MaxBanks = 2
    MaxUpdates = 3
    Nobody = Nobody
SYMMETRY Symmetry
INVARIANTS
    ObserverIsFaithful
    MeasurementsAreAccountedFor
    UpdatesHappenOnce
