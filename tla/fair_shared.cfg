\* A fair lock: two callers share an ownerId, one of them with a WaitTime.
CONSTANTS
    a = a
    b = b
    c = c
    t1 = t1
    t2 = t2
    t3 = t3
    Waiters = {a, b, c}
    Tokens = {t1, t2}
    TokenOf <- TokenShared
    FairModes = {TRUE}
    Once = {}
    Timed = {b}
    WaitTime = 2
    Retry = 1
    Skew <- NoSkew
    Again = {a}
    LossyWhen = {}
    Interval = 1
SPECIFICATION Spec
PROPERTY
    KeepsPlace
