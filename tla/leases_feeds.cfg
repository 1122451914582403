CONSTANTS
    a = a
    b = b
    t1 = t1
    t2 = t2
    Handles = {a, b}
    Tokens = {t1, t2}
    TokenOf <- TokenEach
    Watched = {b}
    Refreshers = {b}
    Fencing = FALSE
    Pausable = {a}
    Lossy = TRUE
    Interval = 1
    People = {1, 2, 3}
    Readers = {2}
    Articles = {"p", "q"}
    Old = {"p"}
    AuthorOf <- OneAuthor
    BigVThreshold = 2
    MaxIncidents = 2
SPECIFICATION LeasesFeedsSpec
INVARIANTS
    OneOwner
    LossNoticedInTime
    NoSilentLoss
    OutboxNeverPartial
    InboxForgets
PROPERTIES
    LeaseReclaimed
    WatchdogEnds
    FeedCatchesUp
CHECK_DEADLOCK FALSE
