\* Every budget up to 18 over four partitions with windows of up to four; three
\* partitions of two topics, read while up to two things happen to them.
CONSTANTS
    None = None
    Null = Null
    t = t  u = u  m = m  n = n
    DEFAULT_MESSAGE_CAP = 3
    MAX_FETCH_SHARDS = 2
    Partitions <- FourPartitions
    Windows <- SmallWindows
    Budgets <- SmallBudgets
    TopicPartitions <- ThreeOfTwoTopics
    Groups <- SmallGroups
    Invalid <- OffsetInvalid
    MaxEvents = 2
SPECIFICATION OffsetsSpec
INVARIANTS
    SplitInvariant
    ReadsInvariant
CHECK_DEADLOCK FALSE
