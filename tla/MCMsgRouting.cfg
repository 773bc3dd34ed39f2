SPECIFICATION Spec
CONSTANTS
    x1 = x1
    x2 = x2
    w1 = w1
    w2 = w2
    v1 = v1
    q1 = q1
    q2 = q2
    A = A
    B = B
    C = C
    Srv = {A, B, C}
    Subs = {x1, w1, w2, v1}
    Groups = {q1, q2}
    Plain = Plain
    Group <- MCGroup
    Homes <- MCHomes
    Late = {x1}
    Leaving = {w1, w2}
    Msgs = {m1}
    NoOne = NoOne
INVARIANTS
    AtMostOnce
    StableServed
    LinearStaysLocal
    NoRespondersTrue
PROPERTIES
    MessagesSettle
CHECK_DEADLOCK FALSE
