SPECIFICATION FairSpec
CONSTANTS
    Tasks = {t1}
    Partitions = {keys, bulk}
    keys = keys
    bulk = bulk
    PartitionOf <- MCPartitionOf
    BulkPartition = bulk
    Kinds = {"created"}
    MaxRetryAttempts = 3
    MaxEvents = 1
    MaxCrashes = 0
    MaxErrors = 1
CHECK_DEADLOCK FALSE
PROPERTY
    FailedIsRetried
