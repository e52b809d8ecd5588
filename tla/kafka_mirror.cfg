SPECIFICATION FairSpec
CONSTANTS
    Tasks = {t1, t2}
    Partitions = {keys, bulk}
    keys = keys
    bulk = bulk
    PartitionOf <- MCPartitionOf
    BulkPartition = bulk
    Kinds = {"created", "updated", "deleted"}
    MaxRetryAttempts = 3
    MaxEvents = 4
    MaxCrashes = 2
    MaxErrors = 0
CHECK_DEADLOCK FALSE
INVARIANTS
    TypeOK
    OnlyRepeatsFail
PROPERTIES
    MirrorFollowsLog
