SPECIFICATION Spec
CONSTANTS
    Configs <- MCConfigs
    Width = 8
INVARIANTS
    NothingForgotten
    AckFloorRight
    DeliveriesBounded
    WorkQueueKept
    LeadersKnow
    RedeliveryDue
CHECK_DEADLOCK FALSE
