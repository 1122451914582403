\* Two users who follow and block each other; two calls about one article; three
\* acquisitions with tokens of their own and fixed leases; two callers and three
\* comments; a copy of three rows in two shards.  The requests of each service
\* bear the same two names.
CONSTANTS
    a = a
    b = b
    c = c
    t1 = t1
    t2 = t2
    t3 = t3
    Nobody = Nobody
    Handles = {a, b, c}
    Tokens = {t1, t2, t3}
    TokenOf <- TokenEach
    Watched = {}
    Refreshers = {}
    Fencing = TRUE
    Pausable = {}
    Lossy = TRUE
    Interval = 1
    Users = {1, 2}
    Sessions = {first, second}
    Asked <- BothWays
    Viewed = {2}
    Fans = {1}
    Calls = {first, second}
    Clicks <- Likes
    MaxReads = 2
    Callers = {first, second}
    MaxComments = 3
    MaxPK = 3
    ShardCount = 2
    ScanLimit = 2
    FlushSize = 2
    MaxEdits = 3
    Versioned = TRUE
SYMMETRY Symmetry
SPECIFICATION RefinementsSpec
INVARIANTS
    StaleOnlyInRace
    CachedRight
    CommentsCounted
    CopyKeepsUp
PROPERTIES
    PromiseKept
    ImplementsGraph
    ImplementsBook
    ImplementsThreads
    CopyImplementsReplica
\* One part moves, up to its bounds, and the others stand still.
CHECK_DEADLOCK FALSE
