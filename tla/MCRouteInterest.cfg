SPECIFICATION Spec
CONSTANTS
    Subs = {s1, s2}
    Breaking = {s1}
    Limiting = {s2}
    Publishers = {p1}
    MaxConns = 2
    MaxMsgs = 1
INVARIANTS
    TypeOK
    InterestAgrees
PROPERTIES
    InterestLearned
CHECK_DEADLOCK FALSE
