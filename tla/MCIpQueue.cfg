SPECIFICATION Spec
CONSTANTS
    Producers = {p1, p2}
    Consumers = {c1, c2}
    Buffers = {b1, b2, b3}
    Nil = Nil
    Calc <- MCCalc
    MaxLen = 3
    MaxSize = 4
    MaxPush = 2
INVARIANTS
    TypeOK
    NoLostWakeup
    Fifo
    BatchIntact
    CountersAgree
PROPERTIES
    EventuallyTaken
