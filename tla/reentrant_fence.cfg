\* Two acquisitions by one owner, with a fixed lease.
CONSTANTS
    a = a
    b = b
    c = c
    t1 = t1
    t2 = t2
    t3 = t3
    Nobody = Nobody
    Handles = {a, b}
    Tokens = {t1}
    TokenOf <- TokenShared
    Watched = {}
    Refreshers = {}
    Fencing = TRUE
    Pausable = {}
    Lossy = FALSE
    Interval = 1
SPECIFICATION FencedSpec
INVARIANT
    FencePositive
