SPECIFICATION Spec
CONSTANTS
    Configs <- FailConfigs
    Width = 8
INVARIANT FailedNotCounted
CHECK_DEADLOCK FALSE
