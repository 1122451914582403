\* A fair lock over a lossy network, or a plain one over a reliable one: one caller tries once, one waits for two ticks, one has a clock ahead.
CONSTANTS
    a = a
    b = b
    c = c
    t1 = t1
    t2 = t2
    t3 = t3
    Waiters = {a, b, c}
    Tokens = {t1, t2, t3}
    TokenOf <- TokenEach
    FairModes = {TRUE, FALSE}
    Once = {a}
    Timed = {b}
    WaitTime = 2
    Retry = 1
    Skew <- SkewOfC
    Again = {a, b, c}
    LossyWhen = {TRUE}
    Interval = 1
    Totals <- HotOnly
    Categories <- OneCategory
    LastDay = 2
    MaxVisits = 1
    MaxByHand = 1
SPECIFICATION FairJobsSpec
INVARIANTS
    WaitTypeOK
    NoLostWakeup
PROPERTIES
    FirstInFirstOut
    KeepsPlace
    NoStarvation
    RecomputeHeals
