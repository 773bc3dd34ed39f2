SPECIFICATION Spec
CONSTANTS
    r1 = r1
    r2 = r2
    Replica <- MCReplica
    Configs <- MCConfigs
SYMMETRY Symmetry
INVARIANTS
    GroupAgrees
    BatchAtomic
    LiveAgree
    AckedStored
    ChecksStillHold
    ProposalsTracked
CHECK_DEADLOCK FALSE
