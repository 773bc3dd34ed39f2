SPECIFICATION Spec
CONSTANTS
    Server = {s1, s2, s3}
    NoVote = NoVote
    FileWAL = TRUE
    MaxTerm = 1
    MaxLog = 2
    MaxMsgs = 2
    MaxRestarts = 0
    MaxInbox = 2
SYMMETRY Symmetry
INVARIANTS
    AcksStored
CHECK_DEADLOCK FALSE
