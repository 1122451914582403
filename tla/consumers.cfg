\* Two rows on two partitions, batches of two, statements of one row or both;
\* three events in batches of two; a pool of one worker and a queue of one.
CONSTANTS
    r1 = r1
    r2 = r2
    p1 = p1
    p2 = p2
    Rows = {r1, r2}
    Partitions = {p1, p2}
    PartitionOf <- OwnPartitions
    BatchSize = 2
    Ops = {"upsert", "delete"}
    RowsPerEvent = 2
    Seeded = TRUE
    HasVersion = TRUE
    MaxChanges = 3
    ReadBatchSize = 2
    MaxTopic = 3
    MaxRestarts = 1
    PoolWorkers = {"w"}
    PoolTasks = {"a", "b", "c"}
    QueueSize = 1
    Policies = {"discard", "caller", "block", "timed"}
SPECIFICATION PartsSpec
INVARIANTS
    NothingLost
    CountedOncePerLife
    DrainedWhenClosed
    AtMostOneMore
PROPERTIES
    CatchesUp
    IncrImplementsReplica
    EveryReadHandled
    SubmissionsEnd
\* One part moves, up to its bounds, and the others stand still.
CHECK_DEADLOCK FALSE
