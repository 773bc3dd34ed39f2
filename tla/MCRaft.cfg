SPECIFICATION Spec
CONSTANTS
    Server = {s1, s2, s3}
    NoVote = NoVote
    FileWAL = TRUE
    MaxTerm = 2
    MaxLog = 2
    MaxMsgs = 1
    MaxRestarts = 1
    MaxInbox = 1
SYMMETRY Symmetry
INVARIANTS
    TypeOK
    OneLeaderPerTerm
    ElectionInv
    LogMatching
    CommitsAgree
    NoCommitConflict
CHECK_DEADLOCK FALSE
