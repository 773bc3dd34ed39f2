SPECIFICATION Spec
CONSTANTS
    Langs = {"go", "rust", "ts", "zig"}
    MaxEntries = 3
    MaxAttempts = 2
    HasDLQ = TRUE
    MaxFails = 3
INVARIANTS
    SentOnce
    OrderKept
PROPERTIES
    FollowsOutbox
CHECK_DEADLOCK FALSE
