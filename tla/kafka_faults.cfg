SPECIFICATION Spec
CONSTANTS
    Tasks = {t1}
    Partitions = {keys, bulk}
    keys = keys
    bulk = bulk
    PartitionOf <- MCPartitionOf
    BulkPartition = bulk
    Kinds = {"created", "updated", "deleted", "bulk_deleted"}
    MaxRetryAttempts = 3
    MaxEvents = 3
    MaxCrashes = 2
    MaxErrors = 2
CHECK_DEADLOCK FALSE
INVARIANTS
    NothingForgotten
