\* The default of one partition; an insert and a delete of a row in one batch.
CONSTANTS
    r1 = r1
    r2 = r2
    p1 = p1
    p2 = p2
    Rows = {r1, r2}
    Partitions = {p1}
    PartitionOf <- OnePartition
    BatchSize = 2
    Ops = {"upsert", "delete"}
    RowsPerEvent = 1
    Seeded = TRUE
    HasVersion = TRUE
    MaxChanges = 3
SPECIFICATION IncrSpec
INVARIANT DeletedStaysDeleted
