SPECIFICATION FairSpec
CONSTANTS
    l1 = l1
    l2 = l2
    l3 = l3
    l4 = l4
    s1 = s1
    s2 = s2
    s3 = s3
    s4 = s4
    Threads = {t1, t2}
    Loggers = {l1, l2, l3, l4}
    Streams = {s1, s2, s3, s4}
    Cout = s1
    Cerr = s2
    Options <- Configured
    SinkLevel <- Thresholds
    NO_COLOR = FALSE
    FORCE_COLOR = FALSE
    Ttys = {s1}
    Levels = {0, 1, 3}
    NoThread = NoThread
    Null = Null
    MaxCalls = 3
CHECK_DEADLOCK FALSE
INVARIANTS
    WholeLines
    RecordsAppearOnce
    SinksAreSerialized
    RoutedAsConfigured
PROPERTIES
    CallsReturn
