\* Three partitions on two shards, one of them with an endless supply.
CONSTANTS
    None = None
    DEFAULT_MESSAGE_CAP = 3
    MAX_FETCH_SHARDS = 2
    Partitions <- ThreePartitions
    MaxOffset = 2
    Logs <- LongLogs
    Filters <- FullFilters
    Busy <- FirstIsBusy
    Sizes <- SmallSizes
    MaxIdle = 2
SPECIFICATION Spec
PROPERTIES
    AnsweringBrokersEndTheFetch
CHECK_DEADLOCK FALSE
