SPECIFICATION Spec
CONSTANTS
    Threads = {t1, t2}
    Buffers = {b1, b2, b3}
    Impls = {i1, i2, i3}
    s1 = s1
    s2 = s2
    s3 = s3
    p1 = p1
    p2 = p2
    p3 = p3
    Storage = {s1, s2, s3}
    Page = {p1, p2, p3}
    PagesOf <- MCPagesOf
    Null = Null
    MaxVectors = 4
SYMMETRY Symmetry
CHECK_DEADLOCK FALSE
INVARIANTS
    BuffersKeepTheirSecrets
    NothingIsLeftBehind
    LocksEndWithTheirBuffer
