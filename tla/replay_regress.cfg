\* A table without the column "version".
CONSTANTS
    r1 = r1
    r2 = r2
    p1 = p1
    p2 = p2
    Rows = {r1, r2}
    Partitions = {p1, p2}
    PartitionOf <- OwnPartitions
    BatchSize = 2
    Ops = {"upsert"}
    RowsPerEvent = 2
    Seeded = TRUE
    HasVersion = FALSE
    MaxChanges = 3
SPECIFICATION IncrSpec
INVARIANT CaughtUpMirrors
