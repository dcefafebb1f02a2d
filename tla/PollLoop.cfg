\* Two growing partitions on two shards.
CONSTANTS
    None = None
    DEFAULT_MESSAGE_CAP = 3
    MAX_FETCH_SHARDS = 2
    Partitions <- TwoPartitions
    MaxOffset = 3
    Logs <- SmallLogs
    Filters <- SmallFilters
    Busy <- NoneBusy
    Sizes <- SmallSizes
    MaxIdle = 1
SPECIFICATION Spec
INVARIANTS
    LoopInvariant
    ReadsWhatTheFilterSelects
    HonoursTheFilter
PROPERTIES
    OneMessagePastTheByteBudget
CHECK_DEADLOCK FALSE
