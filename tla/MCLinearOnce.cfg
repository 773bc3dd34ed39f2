SPECIFICATION Spec
CONSTANTS
    x1 = x1
    x2 = x2
    w1 = w1
    w2 = w2
    v1 = v1
    q1 = q1
    q2 = q2
    A = A
    B = B
    C = C
    Srv = {A, B, C}
    Subs = {x1, x2}
    Groups = {}
    Plain = Plain
    Group <- MCGroup
    Homes <- MCAllHomes
    Late = {}
    Leaving = {}
    Msgs = {m1}
    NoOne = NoOne
INVARIANTS
    LinearOnce
CHECK_DEADLOCK FALSE
